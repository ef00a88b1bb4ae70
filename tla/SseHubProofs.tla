---------------------------- MODULE SseHubProofs ----------------------------
(***************************************************************************)
(* Theorems about the SSE hub, for any clients, scenes and songs, any      *)
(* number of events and any capacities.                                    *)
(***************************************************************************)
EXTENDS SseHub, SequenceTheorems, TLAPS

Field == {"scene", "song"}

Row == [sender : BOOLEAN, writer : BOOLEAN, connected : BOOLEAN,
        queue : Seq(Message), read : Seq(Ids), known : State]

Typed ==
  /\ gui \in {"idle", "scene", "song", "play"}
  /\ current \in State /\ latest \in State /\ lastKey \in State
  /\ published \in 0..MaxPublished
  /\ channel \in Seq(Message) /\ Len(channel) <= HubCapacity
  /\ joining \in Seq(Clients)
  /\ hub \in {"top", "admit", "receive", "stopped"}
  /\ shutdown \in BOOLEAN
  /\ client \in [Clients -> Row]
  /\ log \in Seq(Ids)
  /\ from \in [Clients -> [at : Nat, fresh : BOOLEAN]]

(* The invariant.  Events are broadcast in the order they were published,   *)
(* the dropped ones left out;                                               *)
Numbered ==
  /\ \A i \in 1..Len(log) : i <= log[i] /\ log[i] <= published
  /\ \A i, j \in 1..Len(log) : i < j => log[i] < log[j]
  /\ \A i \in 1..Len(log), k \in 1..Len(channel) : log[i] < channel[k].id
  /\ \A k, l \in 1..Len(channel) : k < l => channel[k].id < channel[l].id
  /\ \A k \in 1..Len(channel) : channel[k].id \in 1..published
  /\ dropped \subseteq 1..published

(* a stream on its way to the hub is there once, and nobody writes to it;   *)
Waiting ==
  /\ \A i, j \in 1..Len(joining) : joining[i] = joining[j] => i = j
  /\ \A i \in 1..Len(joining) :
       ~client[joining[i]].writer /\ ~client[joining[i]].sender

(* what a client read and what waits in its queue are a stretch of the log, *)
(* up to its end while the hub still sends to it, and a snapshot is only    *)
(* ever the first message;                                                  *)
Skip(r) == IF r.queue # <<>> /\ r.queue[1].id = 0 THEN 1 ELSE 0

Entry(events, r, at, j) ==
  IF r.queue[j].id = 0 THEN j = 1 /\ r.read = <<>>
  ELSE r.queue[j].id = events[at + Len(r.read) + j - Skip(r)]

Served(events, r, at) ==
  /\ Len(r.queue) <= ClientCapacity
  /\ at + Len(r.read) + Len(r.queue) - Skip(r) <= Len(events)
  /\ r.sender => at + Len(r.read) + Len(r.queue) - Skip(r) = Len(events)
  /\ \A i \in 1..Len(r.read) : r.read[i] = events[at + i]
  /\ \A j \in 1..Len(r.queue) : Entry(events, r, at, j)

Follows(events, r, at) ==
  IF r.writer THEN Served(events, r, at)
  ELSE r.queue = <<>> /\ r.read = <<>> /\ at = 0

Streams == \A c \in Clients : Follows(log, client[c], from[c].at)

(* the keys lag behind the outputs only while on_update is at work;         *)
Keys ==
  /\ gui \in {"idle", "play"} => lastKey = current
  /\ gui = "song" => lastKey.scene = current.scene
  /\ \A f \in Field : current[f] = Nothing[f] => lastKey[f] = Nothing[f]

(* the last word of the channel on a field is its key, if nothing was       *)
(* dropped behind it;                                                       *)
Silent(seq, f) == \A i \in 1..Len(seq) : seq[i].tells[f] = Nothing[f]
LastTold(seq, i, f) ==
  /\ seq[i].tells[f] # Nothing[f]
  /\ \A j \in 1..Len(seq) : i < j => seq[j].tells[f] = Nothing[f]

ChannelTells ==
  \A f \in Field, i \in 1..Len(channel) :
    LastTold(channel, i, f) /\ (\A d \in dropped : d < channel[i].id)
      => channel[i].tells[f] = lastKey[f]

(* and with the channel silent on a field, the last word of a client's      *)
(* queue on it, or else what the client knows, is the key, or the current   *)
(* value if the event that tells it is still to come.                       *)
Due(f) == gui = "scene" \/ (gui = "song" /\ f = "song")
Right(f, v) == v = lastKey[f] \/ (Due(f) /\ v = current[f])

Informed(r) ==
  \A f \in Field : Silent(channel, f) =>
    /\ \A i \in 1..Len(r.queue) :
         LastTold(r.queue, i, f) => Right(f, r.queue[i].tells[f])
    /\ Silent(r.queue, f) => Right(f, r.known[f])

Counted(c) ==
  client[c].sender /\ client[c].writer /\ from[c].fresh /\ ~Missed(c)

ClientsTold == \A c \in Clients : Counted(c) => Informed(client[c])

Inv == Typed /\ Numbered /\ Waiting /\ Streams /\ Keys /\ ChannelTells /\ ClientsTold

---------------------------------------------------------------------------
(* Sequences and states. *)

LEMMA Constants ==
  /\ MaxPublished \in Nat /\ HubCapacity \in Nat \ {0} /\ ClientCapacity \in Nat \ {0}
  /\ NoScene \notin Scenes /\ NoSong \notin Songs
  BY SseAssumption DEF SseAssumption

LEMMA NothingType == Nothing \in State
  BY DEF Nothing, State

LEMMA StateEqual ==
  ASSUME NEW s \in State, NEW t \in State, \A f \in Field : s[f] = t[f]
  PROVE  s = t
  BY DEF State, Field

LEMMA ToldField ==
  ASSUME NEW s \in State, NEW m \in State
  PROVE  /\ Told(s, m) \in State
         /\ \A f \in Field :
              Told(s, m)[f] = IF m[f] = Nothing[f] THEN s[f] ELSE m[f]
  BY DEF State, Field, Told, Nothing

LEMMA SeqUpTo ==
  ASSUME NEW S, NEW s \in Seq(S), NEW k \in Nat, Len(s) <= k
  PROVE  s \in UNION {[1..n -> S] : n \in 0..k}
<1>1. Len(s) \in 0..k
  BY LenProperties
<1>2. s \in [1..Len(s) -> S]
  BY LenProperties
<1>3. QED
  BY <1>1, <1>2

(* Appending a message, and taking one off. *)

LEMMA AppendTold ==
  ASSUME NEW s \in Seq(Message), NEW m \in Message, NEW f \in Field
  PROVE  /\ Silent(Append(s, m), f) <=> Silent(s, f) /\ m.tells[f] = Nothing[f]
         /\ \A i \in 1..Len(s) :
              LastTold(Append(s, m), i, f)
                <=> LastTold(s, i, f) /\ m.tells[f] = Nothing[f]
         /\ LastTold(Append(s, m), Len(s) + 1, f) <=> m.tells[f] # Nothing[f]
<1> DEFINE t == Append(s, m)
<1>1. /\ Len(s) \in Nat /\ Len(t) = Len(s) + 1
      /\ \A i \in 1..Len(s) : t[i] = s[i]
      /\ t[Len(s) + 1] = m
  BY AppendProperties, LenProperties
<1> HIDE DEF t
<1>2. Silent(t, f) <=> Silent(s, f) /\ m.tells[f] = Nothing[f]
  <2>1. ASSUME Silent(t, f) PROVE Silent(s, f) /\ m.tells[f] = Nothing[f]
    BY <1>1, <2>1 DEF Silent
  <2>2. ASSUME Silent(s, f), m.tells[f] = Nothing[f] PROVE Silent(t, f)
    BY <1>1, <2>2 DEF Silent
  <2>3. QED
    BY <2>1, <2>2
<1>3. ASSUME NEW i \in 1..Len(s)
      PROVE  LastTold(t, i, f) <=> LastTold(s, i, f) /\ m.tells[f] = Nothing[f]
  <2>1. ASSUME LastTold(t, i, f) PROVE LastTold(s, i, f) /\ m.tells[f] = Nothing[f]
    BY <1>1, <2>1 DEF LastTold
  <2>2. ASSUME LastTold(s, i, f), m.tells[f] = Nothing[f] PROVE LastTold(t, i, f)
    BY <1>1, <2>2 DEF LastTold
  <2>3. QED
    BY <2>1, <2>2
<1>4. LastTold(t, Len(s) + 1, f) <=> m.tells[f] # Nothing[f]
  BY <1>1 DEF LastTold
<1>5. QED
  BY <1>2, <1>3, <1>4 DEF t

LEMMA TailTold ==
  ASSUME NEW s \in Seq(Message), s # <<>>, NEW f \in Field
  PROVE  /\ Silent(Tail(s), f) =>
              Silent(s, f) \/ (LastTold(s, 1, f) /\ Head(s).tells[f] # Nothing[f])
         /\ Silent(s, f) => Head(s).tells[f] = Nothing[f]
         /\ \A i \in 1..Len(Tail(s)) :
              Tail(s)[i] = s[i + 1] /\ i + 1 \in 1..Len(s)
                /\ (LastTold(Tail(s), i, f) => LastTold(s, i + 1, f))
         /\ Head(s) = s[1] /\ 1 \in 1..Len(s)
<1> DEFINE t == Tail(s)
<1>1. /\ Len(s) \in Nat \ {0} /\ Len(t) = Len(s) - 1
      /\ \A i \in 1..Len(t) : t[i] = s[i + 1]
      /\ Head(s) = s[1]
  BY HeadTailProperties, EmptySeq
<1> HIDE DEF t
<1>2. \A j \in 2..Len(s) : s[j] = t[j - 1] /\ j - 1 \in 1..Len(t)
  BY <1>1
<1>3. ASSUME Silent(t, f)
      PROVE  Silent(s, f) \/ (LastTold(s, 1, f) /\ Head(s).tells[f] # Nothing[f])
  <2>1. \A j \in 2..Len(s) : s[j].tells[f] = Nothing[f]
    BY <1>2, <1>3 DEF Silent
  <2>2. QED
    BY <1>1, <2>1 DEF Silent, LastTold
<1>4. ASSUME NEW i \in 1..Len(t), LastTold(t, i, f)
      PROVE  LastTold(s, i + 1, f)
  <2>1. s[i + 1].tells[f] # Nothing[f]
    BY <1>1, <1>4 DEF LastTold
  <2>2. ASSUME NEW j \in 1..Len(s), i + 1 < j
        PROVE  s[j].tells[f] = Nothing[f]
    <3>1. j \in 2..Len(s) /\ i < j - 1
      BY <1>1, <2>2
    <3>2. s[j] = t[j - 1] /\ j - 1 \in 1..Len(t)
      BY <1>2, <3>1
    <3>3. t[j - 1].tells[f] = Nothing[f]
      BY <1>4, <3>1, <3>2 DEF LastTold
    <3>4. QED
      BY <3>2, <3>3
  <2>3. QED
    BY <2>1, <2>2 DEF LastTold
<1>5. Silent(s, f) => s[1].tells[f] = Nothing[f]
  BY <1>1 DEF Silent
<1>6. \A i \in 1..Len(t) : t[i] = s[i + 1] /\ i + 1 \in 1..Len(s)
  BY <1>1
<1>7. Head(s) = s[1] /\ 1 \in 1..Len(s)
  BY <1>1
<1>8. QED
  BY <1>3, <1>4, <1>5, <1>6, <1>7 DEF t

(* The steps, seen from one part of the state. *)

LEMMA Sending ==
  ASSUME Typed, NEW tells \in State, TrySend(tells)
  PROVE  /\ published' = published + 1 /\ published' \in 0..MaxPublished
         /\ \/ \E m \in Message :
                 /\ m.id = published + 1 /\ m.tells = tells
                 /\ Len(channel) < HubCapacity
                 /\ channel' = Append(channel, m) /\ dropped' = dropped
            \/ channel' = channel /\ dropped' = dropped \cup {published + 1}
<1> DEFINE m == [id |-> published + 1, tells |-> tells]
<1>1. published \in 0..MaxPublished /\ published < MaxPublished /\ published' = published + 1
  BY DEF Typed, TrySend
<1>2. published + 1 \in 0..MaxPublished
  BY <1>1, Constants
<1>3. m \in Message /\ m.id = published + 1 /\ m.tells = tells
  BY <1>2 DEF Message
<1>4. \/ Len(channel) < HubCapacity /\ channel' = Append(channel, m) /\ dropped' = dropped
      \/ channel' = channel /\ dropped' = dropped \cup {published + 1}
  BY DEF TrySend
<1>5. QED
  BY <1>1, <1>2, <1>3, <1>4

(* An event tells nothing but what changed. *)
LEMMA OneFieldTold ==
  ASSUME NEW s \in State
  PROVE  /\ [Nothing EXCEPT !.scene = s.scene] \in State
         /\ [Nothing EXCEPT !.song = s.song] \in State
         /\ [Nothing EXCEPT !.scene = s.scene]["scene"] = s["scene"]
         /\ [Nothing EXCEPT !.scene = s.scene]["song"] = Nothing["song"]
         /\ [Nothing EXCEPT !.song = s.song]["song"] = s["song"]
         /\ [Nothing EXCEPT !.song = s.song]["scene"] = Nothing["scene"]
  BY DEF State, Nothing

LEMMA OneKeySet ==
  ASSUME NEW s \in State, NEW t \in State
  PROVE  /\ [s EXCEPT !.scene = t.scene] \in State
         /\ [s EXCEPT !.song = t.song] \in State
         /\ [s EXCEPT !.scene = t.scene]["scene"] = t["scene"]
         /\ [s EXCEPT !.scene = t.scene]["song"] = s["song"]
         /\ [s EXCEPT !.song = t.song]["song"] = t["song"]
         /\ [s EXCEPT !.song = t.song]["scene"] = s["scene"]
  BY DEF State

(* The GUI thread's publishing steps, all three. *)
Publishing == PublishScene \/ PublishSong \/ PublishPlay

LEMMA Publication ==
  ASSUME Typed, Publishing
  PROVE  /\ UNCHANGED <<current, latest, joining, hub, shutdown, client, log, from>>
         /\ gui' \in {"idle", "song", "play"}
         /\ lastKey' \in State
         /\ NothingSent \/ \E tells \in State : TrySend(tells)
<1>1. lastKey \in State /\ current \in State
  BY DEF Typed
<1>2. CASE PublishScene
  BY <1>1, <1>2, OneFieldTold, OneKeySet DEF PublishScene
<1>3. CASE PublishSong
  BY <1>1, <1>3, OneFieldTold, OneKeySet DEF PublishSong
<1>4. CASE PublishPlay
  BY <1>1, <1>4, NothingType DEF PublishPlay
<1>5. QED
  BY <1>2, <1>3, <1>4 DEF Publishing

LEMMA AwayType == Away \in Row
  BY NothingType, EmptySeq DEF Away, Row

LEMMA AdmittedRow ==
  ASSUME Typed, NEW c \in Clients
  PROVE  /\ Admitted(c) \in Row
         /\ Admitted(c).sender /\ Admitted(c).writer
         /\ Admitted(c).read = <<>> /\ Admitted(c).known = Nothing
         /\ \/ latest = Nothing /\ Admitted(c).queue = <<>>
            \/ \E m \in Message : /\ m.id = 0 /\ m.tells = latest
                                  /\ latest # Nothing
                                  /\ Admitted(c).queue = <<m>>
<1> DEFINE m == [id |-> 0, tells |-> latest]
           q == IF latest = Nothing THEN <<>> ELSE <<m>>
<1>1. latest \in State /\ client[c] \in Row
  BY DEF Typed
<1>2. m \in Message /\ m.id = 0 /\ m.tells = latest
  BY <1>1, Constants DEF Message
<1>3. q \in Seq(Message)
  BY <1>2
<1>4. \/ latest = Nothing /\ q = <<>>
      \/ latest # Nothing /\ q = <<m>>
  OBVIOUS
<1>5. Admitted(c) = [Away EXCEPT !.sender = TRUE, !.writer = TRUE,
                                 !.connected = client[c].connected, !.queue = q]
  BY DEF Admitted
<1> HIDE DEF m, q
<1>6. /\ Admitted(c) \in Row /\ Admitted(c).sender /\ Admitted(c).writer
      /\ Admitted(c).read = <<>> /\ Admitted(c).known = Nothing
      /\ Admitted(c).queue = q
  BY <1>1, <1>3, <1>5, NothingType, EmptySeq DEF Away, Row
<1>7. QED
  BY <1>2, <1>4, <1>6

(* What becomes of a client at a broadcast. *)
LEMMA OfferedRow ==
  ASSUME Typed, NEW c \in Clients, NEW m \in Message
  PROVE  /\ Offered(c, m) \in Row
         /\ Offered(c, m).writer = client[c].writer
         /\ Offered(c, m).read = client[c].read
         /\ Offered(c, m).known = client[c].known
         /\ Offered(c, m).sender => client[c].sender
         /\ IF Offered(c, m).sender
              THEN Accepts(c) /\ Offered(c, m).queue = Append(client[c].queue, m)
              ELSE Offered(c, m).queue = client[c].queue
<1> DEFINE r == client[c]
           q == Append(r.queue, m)
<1>1. r \in Row
  BY DEF Typed
<1>2. q \in Seq(Message)
  BY <1>1, AppendProperties DEF Row
<1>3. \/ ~r.sender /\ Offered(c, m) = r
      \/ r.sender /\ Accepts(c) /\ Offered(c, m) = [r EXCEPT !.queue = q]
      \/ r.sender /\ Offered(c, m) = [r EXCEPT !.sender = FALSE]
  BY DEF Offered
<1> HIDE DEF r, q
<1>4. CASE ~r.sender /\ Offered(c, m) = r
  BY <1>1, <1>4 DEF r
<1>5. CASE r.sender /\ Accepts(c) /\ Offered(c, m) = [r EXCEPT !.queue = q]
  <2>1. /\ Offered(c, m) \in Row
        /\ Offered(c, m).writer = r.writer /\ Offered(c, m).read = r.read
        /\ Offered(c, m).known = r.known /\ Offered(c, m).sender = r.sender
        /\ Offered(c, m).queue = q
    BY <1>1, <1>2, <1>5 DEF Row
  <2>2. QED
    BY <1>5, <2>1 DEF r, q
<1>6. CASE r.sender /\ Offered(c, m) = [r EXCEPT !.sender = FALSE]
  <2>1. /\ Offered(c, m) \in Row
        /\ Offered(c, m).writer = r.writer /\ Offered(c, m).read = r.read
        /\ Offered(c, m).known = r.known /\ ~Offered(c, m).sender
        /\ Offered(c, m).queue = r.queue
    BY <1>1, <1>6 DEF Row
  <2>2. QED
    BY <1>6, <2>1 DEF r
<1>7. QED
  BY <1>3, <1>4, <1>5, <1>6

(* What a write leaves behind. *)
LEMMA SentRow ==
  ASSUME NEW r \in Row, r.queue # <<>>
  PROVE  /\ Sent(r) \in Row
         /\ Sent(r).sender = r.sender /\ Sent(r).writer = r.writer
         /\ Sent(r).queue = Tail(r.queue)
         /\ Sent(r).known = Told(r.known, Head(r.queue).tells)
         /\ Head(r.queue).id = 0 => Sent(r).read = r.read
         /\ Head(r.queue).id # 0 =>
              /\ Head(r.queue).id \in Ids
              /\ Sent(r).read = Append(r.read, Head(r.queue).id)
<1> DEFINE m == Head(r.queue)
           q == Tail(r.queue)
           k == Told(r.known, m.tells)
           d == IF m.id = 0 THEN r.read ELSE Append(r.read, m.id)
<1>1. r.queue \in Seq(Message) /\ r.read \in Seq(Ids) /\ r.known \in State
  BY DEF Row
<1>2. m \in Message /\ q \in Seq(Message)
  BY <1>1, HeadTailProperties
<1>3. m.id \in 0..MaxPublished /\ m.tells \in State
  BY <1>2 DEF Message
<1>4. m.id # 0 => m.id \in Ids
  BY <1>3, Constants DEF Ids
<1>5. d \in Seq(Ids)
  BY <1>1, <1>4, AppendProperties
<1>6. k \in State
  BY <1>1, <1>3, ToldField
<1>7. Sent(r) = [r EXCEPT !.queue = q, !.known = k, !.read = d]
  BY DEF Sent
<1>8. (m.id = 0 => d = r.read) /\ (m.id # 0 => d = Append(r.read, m.id))
  OBVIOUS
<1> HIDE DEF q, k, d
<1>9. /\ Sent(r) \in Row
      /\ Sent(r).sender = r.sender /\ Sent(r).writer = r.writer
      /\ Sent(r).queue = q /\ Sent(r).known = k /\ Sent(r).read = d
  BY <1>2, <1>5, <1>6, <1>7 DEF Row
<1>10. QED
  BY <1>4, <1>8, <1>9 DEF q, k

LEMMA EndedRow ==
  ASSUME NEW b \in BOOLEAN
  PROVE  LET r == [Away EXCEPT !.sender = b]
         IN  /\ r \in Row /\ ~r.writer /\ r.sender = b
             /\ r.queue = <<>> /\ r.read = <<>>
  BY NothingType, EmptySeq DEF Away, Row

(* What a client follows of the log: a stream that just began, one that is  *)
(* no longer sent to, one more broadcast, one more write.                   *)

LEMMA FollowsFromHere ==
  ASSUME NEW events \in Seq(Ids), NEW r \in Row, r.writer, r.read = <<>>,
         \/ r.queue = <<>>
         \/ \E m \in Message : m.id = 0 /\ r.queue = <<m>>
  PROVE  Follows(events, r, Len(events))
<1>1. Len(events) \in Nat
  BY LenProperties
<1>2. CASE r.queue = <<>>
  BY <1>1, <1>2, Constants DEF Follows, Served, Skip
<1>3. ASSUME NEW m \in Message, m.id = 0, r.queue = <<m>>
      PROVE  Follows(events, r, Len(events))
  <2>1. Len(r.queue) = 1 /\ r.queue[1] = m /\ r.queue # <<>>
    BY <1>3
  <2>2. Skip(r) = 1
    BY <1>3, <2>1 DEF Skip
  <2>3. \A j \in 1..Len(r.queue) : Entry(events, r, Len(events), j)
    BY <1>3, <2>1 DEF Entry
  <2>4. QED
    BY <1>1, <2>1, <2>2, <2>3, Constants DEF Follows, Served
<1>4. QED
  BY <1>2, <1>3

LEMMA FollowsStill ==
  ASSUME NEW events \in Seq(Ids), NEW r \in Row, NEW s \in Row, NEW at \in Nat,
         Follows(events, r, at),
         s.writer = r.writer, s.queue = r.queue, s.read = r.read,
         s.sender => r.sender
  PROVE  Follows(events, s, at)
<1>1. Skip(s) = Skip(r)
  BY DEF Skip
<1>2. \A j : Entry(events, r, at, j) => Entry(events, s, at, j)
  BY <1>1 DEF Entry
<1>3. Served(events, r, at) => Served(events, s, at)
  BY <1>1, <1>2 DEF Served
<1>4. QED
  BY <1>3 DEF Follows

(* b is a with one more element. *)
OneMore(a, b, e) ==
  /\ Len(b) = Len(a) + 1
  /\ \A i \in 1..Len(a) : b[i] = a[i]
  /\ b[Len(a) + 1] = e

LEMMA FollowsBroadcast ==
  ASSUME NEW events \in Seq(Ids), NEW now \in Seq(Ids),
         NEW m \in Message, m.id \in Ids, OneMore(events, now, m.id),
         NEW r \in Row, NEW s \in Row, NEW at \in Nat,
         Follows(events, r, at),
         s.writer = r.writer, s.read = r.read, s.sender => r.sender,
         s.sender => r.writer /\ Len(r.queue) < ClientCapacity
                       /\ OneMore(r.queue, s.queue, m),
         ~s.sender => s.queue = r.queue
  PROVE  Follows(now, s, at)
<1>1. m.id # 0 /\ (r.queue = <<>> => Skip(r) = 0)
  BY Constants DEF Ids, Skip
<1>2. /\ Len(r.queue) \in Nat /\ Len(r.read) \in Nat /\ Len(events) \in Nat
      /\ Skip(r) \in {0, 1} /\ Skip(r) <= Len(r.queue)
  BY LenProperties, EmptySeq DEF Row, Skip
<1>3. Len(now) = Len(events) + 1 /\ \A i \in 1..Len(events) : now[i] = events[i]
  BY DEF OneMore
<1>4. CASE ~r.writer
  BY <1>4 DEF Follows
<1>5. CASE r.writer
  <2>1. Served(events, r, at)
    BY <1>5 DEF Follows
  <2>2. Skip(s) = Skip(r)
    <3>1. CASE ~s.sender
      BY <3>1 DEF Skip
    <3>2. CASE s.sender /\ r.queue = <<>>
      <4>1. Len(r.queue) = 0
        BY <3>2
      <4>2. s.queue[1] = m
        BY <3>2, <4>1 DEF OneMore
      <4>3. QED
        BY <1>1, <3>2, <4>2 DEF Skip
    <3>3. CASE s.sender /\ r.queue # <<>>
      <4>1. 1 \in 1..Len(r.queue)
        BY <1>2, <3>3, EmptySeq DEF Row
      <4>2. s.queue[1] = r.queue[1] /\ s.queue # <<>>
        BY <1>2, <3>3, <4>1 DEF OneMore
      <4>3. QED
        BY <3>3, <4>2 DEF Skip
    <3>4. QED
      BY <3>1, <3>2, <3>3
  <2>3. /\ at + Len(r.read) + Len(r.queue) - Skip(r) <= Len(events)
        /\ r.sender => at + Len(r.read) + Len(r.queue) - Skip(r) = Len(events)
    BY <2>1 DEF Served
  <2>4. \A i \in 1..Len(r.read) : now[at + i] = r.read[i]
    <3>1. TAKE i \in 1..Len(r.read)
    <3>2. at + i \in 1..Len(events)
      BY <1>2, <2>3
    <3>3. QED
      BY <1>3, <2>1, <3>2 DEF Served
  <2>5. ASSUME NEW j \in 1..Len(r.queue), s.queue[j] = r.queue[j]
        PROVE  Entry(now, s, at, j)
    <3>1. Entry(events, r, at, j)
      BY <2>1 DEF Served
    <3>2. CASE r.queue[j].id = 0
      BY <2>5, <3>1, <3>2 DEF Entry
    <3>3. CASE r.queue[j].id # 0
      <4>1. j - Skip(r) >= 1
        BY <1>2, <3>3 DEF Skip
      <4>2. at + Len(r.read) + j - Skip(r) \in 1..Len(events)
        <5> DEFINE l == Len(r.read)
                   q == Len(r.queue)
                   n == Len(events)
                   k == Skip(r)
        <5>1. /\ l \in Nat /\ q \in Nat /\ n \in Nat /\ k \in Int /\ j \in 1..q
              /\ at + l + q - k <= n /\ j - k >= 1
          BY <1>2, <2>3, <4>1
        <5> HIDE DEF l, q, n, k
        <5>2. at + l + j - k \in 1..n
          BY ONLY <5>1, at \in Nat
        <5>3. QED
          BY <5>2 DEF l, q, n, k
      <4>3. QED
        BY <1>3, <2>2, <2>5, <3>1, <3>3, <4>2 DEF Entry
    <3>4. QED
      BY <3>2, <3>3
  <2>6. CASE ~s.sender
    <3>1. \A j \in 1..Len(s.queue) : Entry(now, s, at, j)
      BY <2>5, <2>6
    <3>2. at + Len(s.read) + Len(s.queue) - Skip(s) <= Len(now)
      BY <1>2, <1>3, <2>2, <2>3, <2>6
    <3>3. Len(s.queue) <= ClientCapacity
      BY <2>1, <2>6 DEF Served
    <3>4. Served(now, s, at)
      BY <2>4, <2>6, <3>1, <3>2, <3>3 DEF Served
    <3>5. QED
      BY <1>5, <3>4 DEF Follows
  <2>7. CASE s.sender
    <3>1. /\ Len(s.queue) = Len(r.queue) + 1
          /\ \A j \in 1..Len(r.queue) : s.queue[j] = r.queue[j]
          /\ s.queue[Len(r.queue) + 1] = m
      BY <2>7 DEF OneMore
    <3>2. at + Len(r.read) + (Len(r.queue) + 1) - Skip(r) = Len(events) + 1
      <4> DEFINE l == Len(r.read)
                 q == Len(r.queue)
                 n == Len(events)
                 k == Skip(r)
      <4>1. /\ l \in Nat /\ q \in Nat /\ n \in Nat /\ k \in Int
            /\ at + l + q - k = n
        BY <1>2, <2>3, <2>7
      <4> HIDE DEF l, q, n, k
      <4>2. at + l + (q + 1) - k = n + 1
        BY ONLY <4>1, at \in Nat
      <4>3. QED
        BY <4>2 DEF l, q, n, k
    <3>3. Entry(now, s, at, Len(r.queue) + 1)
      <4>1. s.queue[Len(r.queue) + 1].id = m.id
        BY <3>1
      <4>2. now[Len(events) + 1] = m.id
        BY DEF OneMore
      <4>3. at + Len(s.read) + (Len(r.queue) + 1) - Skip(s) = Len(events) + 1
        BY <2>2, <3>2
      <4>4. QED
        BY <1>1, <4>1, <4>2, <4>3 DEF Entry
    <3>4. \A j \in 1..Len(s.queue) : Entry(now, s, at, j)
      <4>1. TAKE j \in 1..Len(s.queue)
      <4>2. j \in 1..Len(r.queue) \/ j = Len(r.queue) + 1
        BY <1>2, <3>1
      <4>3. QED
        BY <2>5, <3>1, <3>3, <4>2
    <3>5. at + Len(s.read) + Len(s.queue) - Skip(s) = Len(now)
      BY <1>3, <2>2, <3>1, <3>2
    <3>6. Len(s.queue) <= ClientCapacity
      BY <1>2, <2>7, <3>1, Constants
    <3>7. at + Len(s.read) + Len(s.queue) - Skip(s) <= Len(now)
      BY <1>2, <1>3, <3>5
    <3>8. Served(now, s, at)
      BY <2>4, <3>4, <3>5, <3>6, <3>7 DEF Served
    <3>9. QED
      BY <1>5, <3>8 DEF Follows
  <2>8. QED
    BY <2>6, <2>7
<1>6. QED
  BY <1>4, <1>5

LEMMA FollowsSent ==
  ASSUME NEW events \in Seq(Ids), NEW r \in Row, NEW at \in Nat,
         Follows(events, r, at), r.writer, r.queue # <<>>
  PROVE  /\ Follows(events, Sent(r), at)
         /\ Head(r.queue).id # 0 =>
              /\ at + Len(r.read) + 1 <= Len(events)
              /\ Sent(r).read = Append(r.read, events[at + Len(r.read) + 1])
<1> DEFINE s == Sent(r)
           m == Head(r.queue)
<1>1. /\ s \in Row /\ s.sender = r.sender /\ s.writer = r.writer
      /\ s.queue = Tail(r.queue)
      /\ m.id = 0 => s.read = r.read
      /\ m.id # 0 => m.id \in Ids /\ s.read = Append(r.read, m.id)
  BY SentRow
<1>2. /\ r.queue \in Seq(Message) /\ Len(r.queue) \in Nat \ {0}
      /\ r.read \in Seq(Ids) /\ Len(r.read) \in Nat /\ Len(events) \in Nat
  BY LenProperties, EmptySeq DEF Row
<1>3. /\ Len(s.queue) = Len(r.queue) - 1
      /\ \A j \in 1..Len(s.queue) : s.queue[j] = r.queue[j + 1]
      /\ m = r.queue[1]
  BY <1>1, <1>2, HeadTailProperties
<1>4. Served(events, r, at)
  BY DEF Follows
<1>5. \A j \in 1..Len(r.queue) : Entry(events, r, at, j)
  BY <1>4 DEF Served
<1>6. \A j \in 1..Len(s.queue) : s.queue[j].id # 0 /\ j + 1 \in 1..Len(r.queue)
  <2>1. TAKE j \in 1..Len(s.queue)
  <2>2. j + 1 \in 1..Len(r.queue) /\ j + 1 # 1
    BY <1>2, <1>3
  <2>3. Entry(events, r, at, j + 1) /\ s.queue[j] = r.queue[j + 1]
    BY <1>3, <1>5, <2>2
  <2>4. QED
    BY <2>2, <2>3 DEF Entry
<1>7. s.queue = <<>> \/ 1 \in 1..Len(s.queue)
  BY <1>1, <1>2, EmptySeq, HeadTailProperties
<1>8. Skip(s) = 0
  BY <1>6, <1>7 DEF Skip
<1>9. /\ Len(r.queue) <= ClientCapacity
      /\ at + Len(r.read) + Len(r.queue) - Skip(r) <= Len(events)
      /\ r.sender => at + Len(r.read) + Len(r.queue) - Skip(r) = Len(events)
      /\ \A i \in 1..Len(r.read) : r.read[i] = events[at + i]
  BY <1>4 DEF Served
<1> HIDE DEF s, m
<1>n. /\ Len(r.queue) \in Nat \ {0} /\ Len(r.read) \in Nat /\ Len(events) \in Nat
      /\ Len(s.queue) = Len(r.queue) - 1
      /\ s.sender = r.sender
  BY <1>1, <1>2, <1>3
<1>a. /\ Len(r.queue) <= ClientCapacity
      /\ at + Len(r.read) + Len(r.queue) - Skip(r) <= Len(events)
      /\ r.sender => at + Len(r.read) + Len(r.queue) - Skip(r) = Len(events)
  BY <1>9
<1>10. CASE m.id = 0
  <2>1. Skip(r) = 1 /\ r.read = <<>> /\ s.read = <<>> /\ Len(r.read) = 0
    BY <1>1, <1>2, <1>3, <1>5, <1>10, EmptySeq DEF Skip, Entry
  <2>2. ASSUME NEW j \in 1..Len(s.queue) PROVE Entry(events, s, at, j)
    <3>1. s.queue[j].id = r.queue[j + 1].id /\ s.queue[j].id # 0
      BY <1>3, <1>6
    <3>2. r.queue[j + 1].id = events[at + Len(r.read) + (j + 1) - Skip(r)]
      BY <1>5, <1>6, <3>1 DEF Entry
    <3>3. at + Len(r.read) + (j + 1) - Skip(r) = at + Len(s.read) + j - Skip(s)
      BY <1>8, <2>1
    <3>4. QED
      BY <3>1, <3>2, <3>3 DEF Entry
  <2>3. Served(events, s, at)
    BY <1>1, <1>2, <1>3, <1>8, <1>9, <2>1, <2>2, Constants DEF Served
  <2>4. QED
    BY <1>1, <1>10, <2>3 DEF Follows, s, m
<1>11. CASE m.id # 0
  <2>1. /\ s.read = Append(r.read, m.id) /\ Len(s.read) = Len(r.read) + 1
        /\ \A i \in 1..Len(r.read) : s.read[i] = r.read[i]
        /\ s.read[Len(r.read) + 1] = m.id
    <3>1. s.read = Append(r.read, m.id) /\ m.id \in Ids /\ r.read \in Seq(Ids)
      BY <1>1, <1>2, <1>11
    <3>2. QED
      BY <3>1, AppendProperties
  <2>2. Skip(r) = 0
    BY <1>3, <1>11 DEF Skip
  <2>3. m.id = events[at + Len(r.read) + 1]
    <3>1. 1 \in 1..Len(r.queue)
      BY <1>2
    <3>2. Entry(events, r, at, 1)
      BY <1>5, <3>1
    <3>3. m.id = events[at + Len(r.read) + 1 - Skip(r)]
      BY <1>3, <1>11, <3>2 DEF Entry
    <3>4. QED
      BY <1>2, <2>2, <3>3
  <2>4. ASSUME NEW j \in 1..Len(s.queue) PROVE Entry(events, s, at, j)
    <3>1. s.queue[j].id = r.queue[j + 1].id /\ s.queue[j].id # 0
      BY <1>3, <1>6
    <3>2. r.queue[j + 1].id = events[at + Len(r.read) + (j + 1) - Skip(r)]
      BY <1>5, <1>6, <3>1 DEF Entry
    <3>3. at + Len(r.read) + (j + 1) - Skip(r) = at + Len(s.read) + j - Skip(s)
      <4>1. Len(s.read) = Len(r.read) + 1
        BY <2>1
      <4> DEFINE l == Len(r.read)
      <4>2. l \in Nat /\ j \in Nat
        BY <1>n
      <4> HIDE DEF l
      <4>3. at + l + (j + 1) - 0 = at + (l + 1) + j - 0
        BY ONLY <4>2, at \in Nat
      <4>4. QED
        BY <1>8, <2>2, <4>1, <4>3 DEF l
    <3>4. QED
      BY <3>1, <3>2, <3>3 DEF Entry
  <2>5. \A i \in 1..Len(s.read) : s.read[i] = events[at + i]
    <3>1. TAKE i \in 1..Len(s.read)
    <3>2. CASE i = Len(r.read) + 1
      <4>1. at + i = at + Len(r.read) + 1
        BY <1>2, <3>2
      <4>2. QED
        BY <2>1, <2>3, <3>2, <4>1
    <3>3. CASE i \in 1..Len(r.read)
      BY <1>9, <2>1, <3>3
    <3>4. QED
      BY <1>2, <2>1, <3>2, <3>3
  <2>6. /\ Len(s.queue) <= ClientCapacity
        /\ at + Len(s.read) + Len(s.queue) - Skip(s) <= Len(events)
        /\ s.sender => at + Len(s.read) + Len(s.queue) - Skip(s) = Len(events)
        /\ at + Len(r.read) + 1 <= Len(events)
    <3>1. Len(s.read) = Len(r.read) + 1
      BY <2>1
    <3> DEFINE l == Len(r.read)
               q == Len(r.queue)
               n == Len(events)
    <3>2. /\ l \in Nat /\ q \in Nat \ {0} /\ n \in Nat
          /\ at + l + q - 0 <= n /\ (r.sender => at + l + q - 0 = n)
          /\ q <= ClientCapacity
      BY <1>n, <1>a, <2>2
    <3> HIDE DEF l, q, n
    <3>3. /\ q - 1 <= ClientCapacity
          /\ at + (l + 1) + (q - 1) - 0 <= n
          /\ r.sender => at + (l + 1) + (q - 1) - 0 = n
          /\ at + l + 1 <= n
      BY ONLY <3>2, Constants, at \in Nat
    <3>4. QED
      BY <1>n, <1>8, <3>1, <3>3 DEF l, q, n
  <2>7. Served(events, s, at)
    BY <2>4, <2>5, <2>6 DEF Served
  <2>8. QED
    BY <1>1, <2>1, <2>3, <2>6, <2>7 DEF Follows, s, m
<1>12. QED
  BY <1>10, <1>11

---------------------------------------------------------------------------
(* What the parts of the invariant say together. *)

(* A client joined at a place of the log. *)
LEMMA JoinedInLog ==
  ASSUME Typed, Streams, NEW c \in Clients, client[c].writer
  PROVE  from[c].at \in 0..Len(log)
<1> DEFINE r == client[c]
<1>1. r \in Row /\ from[c].at \in Nat /\ Len(log) \in Nat
  BY LenProperties DEF Typed
<1>2. Len(r.read) \in Nat /\ Len(r.queue) \in Nat
  BY <1>1, LenProperties DEF Row
<1>3. Skip(r) \in Int /\ Skip(r) <= Len(r.queue)
  BY <1>1, <1>2, EmptySeq DEF Row, Skip
<1>4. from[c].at + Len(r.read) + Len(r.queue) - Skip(r) <= Len(log)
  BY DEF Streams, Follows, Served
<1> DEFINE a == from[c].at
           l == Len(r.read)
           q == Len(r.queue)
           n == Len(log)
           k == Skip(r)
<1>5. /\ a \in Nat /\ l \in Nat /\ q \in Nat /\ n \in Nat /\ k \in Int /\ k <= q
      /\ a + l + q - k <= n
  BY <1>1, <1>2, <1>3, <1>4
<1> HIDE DEF a, l, q, n, k
<1>6. a \in 0..n
  BY ONLY <1>5
<1>7. QED
  BY <1>6 DEF a, n

(* What was dropped before a client joined comes before the channel; what   *)
(* is dropped afterwards counts for every client.                           *)
LEMMA DroppedBehind ==
  ASSUME Typed, Numbered, Streams,
         NEW c \in Clients, client[c].writer, ~Missed(c),
         NEW k \in 1..Len(channel), NEW d \in dropped
  PROVE  d < channel[k].id
<1>1. from[c].at \in 0..Len(log) /\ Len(log) \in Nat
  BY JoinedInLog, LenProperties DEF Typed
<1>2. PICK i \in 1..from[c].at : ~(log[i] < d)
  BY DEF Missed
<1>3. i \in 1..Len(log)
  BY <1>1
<1>4. log[i] < channel[k].id
  BY <1>3 DEF Numbered
<1>5. log[i] \in Nat /\ d \in Nat /\ channel[k].id \in Nat
  <2>1. log[i] \in Ids
    BY <1>3, ElementOfSeq DEF Typed
  <2>2. published \in Nat /\ d \in 1..published /\ channel[k].id \in 1..published
    BY Constants DEF Numbered, Typed
  <2>3. QED
    BY <2>1, <2>2, Constants DEF Ids
<1>6. QED
  BY <1>2, <1>4, <1>5

LEMMA DropIsMissed ==
  ASSUME Typed, Numbered, Streams, NEW c \in Clients, client[c].writer,
         dropped' = dropped \cup {published + 1}, log' = log, from' = from
  PROVE  Missed(c)'
<1>1. from[c].at \in 0..Len(log) /\ Len(log) \in Nat
  BY JoinedInLog, LenProperties DEF Typed
<1>2. ASSUME NEW i \in 1..from[c].at PROVE log[i] < published + 1
  <2>1. i \in 1..Len(log)
    BY <1>1
  <2>2. log[i] <= published
    BY <2>1 DEF Numbered
  <2>3. log[i] \in Nat /\ published \in Nat
    BY <2>1, ElementOfSeq, Constants DEF Typed, Ids
  <2>4. QED
    BY <2>2, <2>3
<1>3. QED
  BY <1>2 DEF Missed

(* The current value of a field is always right to tell. *)
LEMMA CurrentIsRight ==
  ASSUME Typed, Keys, NEW f \in Field
  PROVE  Right(f, current[f])
<1>1. current \in State /\ lastKey \in State
  BY DEF Typed
<1>2. gui \in {"idle", "scene", "song", "play"}
  BY DEF Typed
<1>3. CASE gui \in {"idle", "play"}
  BY <1>3 DEF Keys, Right
<1>4. CASE gui = "scene"
  BY <1>4 DEF Right, Due
<1>5. CASE gui = "song"
  BY <1>1, <1>5 DEF Keys, Right, Due, Field, State
<1>6. QED
  BY <1>2, <1>3, <1>4, <1>5

---------------------------------------------------------------------------
(* Every step keeps the invariant. *)

LEMMA ObserveKeeps ==
  ASSUME Inv, NEW output \in State, Observe(output)
  PROVE  Inv'
<1>1. Typed /\ Keys /\ current \in State /\ latest \in State /\ lastKey \in State
  BY DEF Inv, Typed
<1>2. /\ gui = "idle" /\ gui' = "scene"
      /\ current' = Told(current, output)
      /\ latest' \in {Told(latest, output), latest}
      /\ UNCHANGED <<lastKey, published, dropped, channel, joining, hub, shutdown,
                     client, log, from>>
  BY DEF Observe
<1>3. current' \in State /\ latest' \in State
  BY <1>1, <1>2, ToldField
<1>4. Typed'
  BY <1>1, <1>2, <1>3 DEF Typed
<1>5. Numbered' /\ Waiting' /\ Streams' /\ ChannelTells'
  BY <1>2 DEF Inv, Numbered, Waiting, Streams, ChannelTells
<1>6. Keys'
  <2>1. ASSUME NEW f \in Field, current'[f] = Nothing[f]
        PROVE  lastKey'[f] = Nothing[f]
    <3>1. current[f] = Nothing[f]
      BY <1>1, <1>2, <2>1, ToldField
    <3>2. QED
      BY <1>1, <1>2, <3>1 DEF Keys
  <2>2. QED
    BY <1>2, <2>1 DEF Keys
<1>7. ClientsTold'
  <2>1. ASSUME NEW f, NEW v, Right(f, v) PROVE Right(f, v)'
    BY <1>1, <1>2, <2>1 DEF Right, Due
  <2>2. \A c \in Clients : Counted(c)' => Counted(c)
    BY <1>2 DEF Counted, Missed
  <2>3. \A c \in Clients : Informed(client[c]) => Informed(client[c])'
    BY <1>2, <2>1 DEF Informed
  <2>4. QED
    BY <2>2, <2>3 DEF Inv, ClientsTold
<1>8. QED
  BY <1>4, <1>5, <1>6, <1>7 DEF Inv

(* A key moves with the event that tells it, and the other field is as      *)
(* right as before.                                                         *)
Fitting(tells) ==
  \A f \in Field :
    IF tells[f] = Nothing[f]
      THEN lastKey'[f] = lastKey[f] /\ \A v : Right(f, v) => Right(f, v)'
      ELSE tells[f] = lastKey'[f]

LEMMA PublishedIsFitting ==
  ASSUME Inv, Publishing
  PROVE  /\ \/ NothingSent /\ Fitting(Nothing)
            \/ \E tells \in State : TrySend(tells) /\ Fitting(tells)
         /\ Keys'
<1>1. /\ current \in State /\ lastKey \in State /\ Keys
      /\ current' = current
      /\ \A f \in Field : current[f] = Nothing[f] => lastKey[f] = Nothing[f]
  BY Publication DEF Inv, Typed, Keys
<1>2. CASE PublishScene
  <2> DEFINE tells == [Nothing EXCEPT !.scene = current.scene]
  <2>1. /\ gui = "scene" /\ gui' = "song"
        /\ lastKey' = [lastKey EXCEPT !.scene = current.scene]
        /\ IF lastKey.scene # current.scene THEN TrySend(tells) ELSE NothingSent
    BY <1>2 DEF PublishScene
  <2>2. /\ tells \in State /\ tells["scene"] = current["scene"]
        /\ tells["song"] = Nothing["song"]
    BY <1>1, OneFieldTold
  <2>3. /\ lastKey' \in State /\ lastKey'["scene"] = current["scene"]
        /\ lastKey'["song"] = lastKey["song"]
    BY <1>1, <2>1, OneKeySet
  <2> HIDE DEF tells
  <2>4. lastKey'.scene = current'.scene
    BY <1>1, <2>3 DEF State
  <2>5. Keys'
    BY <1>1, <2>1, <2>3, <2>4 DEF Keys, Field
  <2>6. \A v : Right("song", v) => Right("song", v)'
    BY <1>1, <2>1, <2>3 DEF Right, Due
  <2>7. CASE lastKey.scene # current.scene
    <3>1. current["scene"] # Nothing["scene"]
      <4>1. lastKey["scene"] # current["scene"]
        BY <1>1, <2>7 DEF State
      <4>2. QED
        BY <1>1, <4>1 DEF Field
    <3>2. Fitting(tells)
      BY <2>2, <2>3, <2>6, <3>1 DEF Fitting, Field
    <3>3. QED
      BY <2>1, <2>2, <2>5, <2>7, <3>2
  <2>8. CASE lastKey.scene = current.scene
    <3>1. lastKey["scene"] = current["scene"]
      BY <1>1, <2>8 DEF State
    <3>2. \A v : Right("scene", v) => Right("scene", v)'
      BY <1>1, <2>3, <3>1 DEF Right
    <3>3. Fitting(Nothing)
      BY <2>3, <2>6, <3>1, <3>2 DEF Fitting, Field
    <3>4. QED
      BY <2>1, <2>5, <2>8, <3>3
  <2>9. QED
    BY <2>7, <2>8
<1>3. CASE PublishSong
  <2> DEFINE tells == [Nothing EXCEPT !.song = current.song]
  <2>1. /\ gui = "song" /\ gui' \in {"play", "idle"}
        /\ lastKey' = [lastKey EXCEPT !.song = current.song]
        /\ IF lastKey.song # current.song THEN TrySend(tells) ELSE NothingSent
    BY <1>3 DEF PublishSong
  <2>2. /\ tells \in State /\ tells["song"] = current["song"]
        /\ tells["scene"] = Nothing["scene"]
    BY <1>1, OneFieldTold
  <2>3. /\ lastKey' \in State /\ lastKey'["song"] = current["song"]
        /\ lastKey'["scene"] = lastKey["scene"]
    BY <1>1, <2>1, OneKeySet
  <2> HIDE DEF tells
  <2>4. lastKey' = current'
    <3>1. lastKey.scene = current.scene
      BY <1>1, <2>1 DEF Keys
    <3>2. lastKey["scene"] = current["scene"]
      BY <1>1, <3>1 DEF State
    <3>3. \A f \in Field : lastKey'[f] = current'[f]
      BY <1>1, <2>3, <3>2 DEF Field
    <3>4. QED
      BY <1>1, <2>3, <3>3, StateEqual
  <2>5. Keys'
    BY <1>1, <2>1, <2>4 DEF Keys
  <2>6. \A v : Right("scene", v) => Right("scene", v)'
    BY <1>1, <2>1, <2>3 DEF Right, Due
  <2>7. CASE lastKey.song # current.song
    <3>1. current["song"] # Nothing["song"]
      <4>1. lastKey["song"] # current["song"]
        BY <1>1, <2>7 DEF State
      <4>2. QED
        BY <1>1, <4>1 DEF Field
    <3>2. Fitting(tells)
      BY <2>2, <2>3, <2>6, <3>1 DEF Fitting, Field
    <3>3. QED
      BY <2>1, <2>2, <2>5, <2>7, <3>2
  <2>8. CASE lastKey.song = current.song
    <3>1. lastKey["song"] = current["song"]
      BY <1>1, <2>8 DEF State
    <3>2. \A v : Right("song", v) => Right("song", v)'
      BY <1>1, <2>3, <3>1 DEF Right
    <3>3. Fitting(Nothing)
      BY <2>3, <2>6, <3>1, <3>2 DEF Fitting, Field
    <3>4. QED
      BY <2>1, <2>5, <2>8, <3>3
  <2>9. QED
    BY <2>7, <2>8
<1>4. CASE PublishPlay
  <2>1. /\ gui = "play" /\ gui' = "idle" /\ lastKey' = lastKey
        /\ NothingSent \/ TrySend(Nothing)
    BY <1>4 DEF PublishPlay
  <2>2. Keys'
    BY <1>1, <2>1 DEF Keys
  <2>3. Fitting(Nothing)
    BY <1>1, <2>1 DEF Fitting, Right, Due
  <2>4. QED
    BY <2>1, <2>2, <2>3, NothingType
<1>5. QED
  BY <1>2, <1>3, <1>4 DEF Publishing

LEMMA PublishKeeps ==
  ASSUME Inv, Publishing
  PROVE  Inv'
<1>1. Typed /\ Numbered /\ Waiting /\ Streams /\ ChannelTells /\ ClientsTold
  BY DEF Inv
<1>2. /\ UNCHANGED <<current, latest, joining, hub, shutdown, client, log, from>>
      /\ gui' \in {"idle", "song", "play"} /\ lastKey' \in State
  BY <1>1, Publication
<1>3. channel \in Seq(Message) /\ Len(channel) \in Nat /\ published \in Nat
  BY <1>1, LenProperties, Constants DEF Typed
<1>4. Waiting' /\ Streams'
  BY <1>1, <1>2 DEF Waiting, Streams
<1>5. Keys'
  BY PublishedIsFitting
<1>6. ASSUME NothingSent, Fitting(Nothing)
      PROVE  Inv'
  <2>1. channel' = channel /\ dropped' = dropped /\ published' = published
    BY <1>6 DEF NothingSent
  <2>2. Typed' /\ Numbered'
    BY <1>1, <1>2, <2>1 DEF Typed, Numbered
  <2>3. \A f \in Field : lastKey'[f] = lastKey[f] /\ \A v : Right(f, v) => Right(f, v)'
    BY <1>6 DEF Fitting
  <2>4. ChannelTells'
    BY <1>1, <2>1, <2>3 DEF ChannelTells
  <2>5. \A c \in Clients : Counted(c)' => Counted(c)
    BY <1>2, <2>1 DEF Counted, Missed
  <2>6. \A c \in Clients : Informed(client[c]) => Informed(client[c])'
    BY <1>2, <2>1, <2>3 DEF Informed
  <2>7. ClientsTold'
    BY <1>1, <2>5, <2>6 DEF ClientsTold
  <2>8. QED
    BY <1>4, <1>5, <2>2, <2>4, <2>7 DEF Inv
<1>7. ASSUME NEW tells \in State, TrySend(tells), Fitting(tells),
             channel' = channel, dropped' = dropped \cup {published + 1}
      PROVE  Inv'
  <2>1. published' = published + 1 /\ published' \in 0..MaxPublished
    BY <1>1, <1>7, Sending
  <2>2. Typed'
    BY <1>1, <1>2, <1>7, <2>1 DEF Typed
  <2>3. Numbered'
    <3>1. \A i \in 1..Len(log) : i <= log[i] /\ log[i] <= published + 1
      <4>1. TAKE i \in 1..Len(log)
      <4>2. i <= log[i] /\ log[i] <= published
        BY <1>1 DEF Numbered
      <4>3. log[i] \in Nat
        BY <1>1, ElementOfSeq, Constants DEF Typed, Ids
      <4>4. QED
        BY <1>3, <4>2, <4>3
    <3>2. 1..published \subseteq 1..(published + 1) /\ published + 1 \in 1..(published + 1)
      BY <1>3
    <3>3. QED
      BY <1>1, <1>2, <1>7, <2>1, <3>1, <3>2 DEF Numbered
  <2>4. ChannelTells'
    <3>1. SUFFICES ASSUME NEW f \in Field, NEW i \in 1..Len(channel),
                          \A d \in dropped' : d < channel[i].id
                   PROVE  FALSE
      BY <1>7 DEF ChannelTells
    <3>2. published + 1 < channel[i].id
      BY <1>7, <3>1
    <3>3. channel[i].id \in 1..published
      BY <1>1 DEF Numbered
    <3>4. QED
      BY <1>3, <3>2, <3>3
  <2>5. ClientsTold'
    <3>1. ASSUME NEW c \in Clients PROVE ~Counted(c)'
      BY <1>1, <1>2, <1>7, DropIsMissed DEF Counted
    <3>2. QED
      BY <3>1 DEF ClientsTold
  <2>6. QED
    BY <1>4, <1>5, <2>2, <2>3, <2>4, <2>5 DEF Inv
<1>8. ASSUME NEW tells \in State, TrySend(tells), Fitting(tells),
             NEW m \in Message, m.id = published + 1, m.tells = tells,
             Len(channel) < HubCapacity,
             channel' = Append(channel, m), dropped' = dropped
      PROVE  Inv'
  <2>1. published' = published + 1 /\ published' \in 0..MaxPublished
    BY <1>1, <1>8, Sending
  <2>2. /\ channel' \in Seq(Message) /\ Len(channel') = Len(channel) + 1
        /\ \A i \in 1..Len(channel) : channel'[i] = channel[i]
        /\ channel'[Len(channel) + 1] = m
    BY <1>3, <1>8, AppendProperties
  <2>3. \A k \in 1..Len(channel') : k \in 1..Len(channel) \/ k = Len(channel) + 1
    BY <1>3, <2>2
  <2>4. Typed'
    <3>1. Len(channel') <= HubCapacity
      BY <1>3, <1>8, <2>2, Constants
    <3>2. QED
      BY <1>1, <1>2, <2>1, <2>2, <3>1 DEF Typed
  <2>5. Numbered'
    <3>1. ASSUME NEW i \in 1..Len(log)
          PROVE  /\ i <= log[i] /\ log[i] < published + 1 /\ log[i] <= published + 1
                 /\ \A k \in 1..Len(channel') : log[i] < channel'[k].id
      <4>1. i <= log[i] /\ log[i] <= published
        BY <1>1 DEF Numbered
      <4>2. log[i] \in Nat
        BY <1>1, ElementOfSeq, Constants DEF Typed, Ids
      <4>3. log[i] < published + 1 /\ log[i] <= published + 1
        BY <1>3, <4>1, <4>2
      <4>4. \A k \in 1..Len(channel) : log[i] < channel[k].id
        BY <1>1 DEF Numbered
      <4>5. QED
        BY <1>8, <2>2, <2>3, <4>1, <4>3, <4>4
    <3>2. ASSUME NEW k \in 1..Len(channel')
          PROVE  channel'[k].id \in 1..(published + 1)
      <4>1. 1..published \subseteq 1..(published + 1) /\ published + 1 \in 1..(published + 1)
        BY <1>3
      <4>2. \A l \in 1..Len(channel) : channel[l].id \in 1..published
        BY <1>1 DEF Numbered
      <4>3. QED
        BY <1>8, <2>2, <2>3, <4>1, <4>2
    <3>3. ASSUME NEW k \in 1..Len(channel'), NEW l \in 1..Len(channel'), k < l
          PROVE  channel'[k].id < channel'[l].id
      <4>1. k \in 1..Len(channel)
        BY <1>3, <2>2, <3>3
      <4>2. channel[k].id \in 1..published /\ channel'[k] = channel[k]
        BY <1>1, <2>2, <4>1 DEF Numbered
      <4>3. CASE l \in 1..Len(channel)
        BY <1>1, <2>2, <3>3, <4>1, <4>3 DEF Numbered
      <4>4. CASE l = Len(channel) + 1
        BY <1>3, <1>8, <2>2, <4>2, <4>4
      <4>5. QED
        BY <2>3, <4>3, <4>4
    <3>4. dropped' \subseteq 1..(published + 1)
      <4>1. 1..published \subseteq 1..(published + 1)
        BY <1>3
      <4>2. QED
        BY <1>1, <1>8, <4>1 DEF Numbered
    <3>5. \A i, j \in 1..Len(log) : i < j => log[i] < log[j]
      BY <1>1 DEF Numbered
    <3>6. QED
      BY <1>2, <2>1, <3>1, <3>2, <3>3, <3>4, <3>5 DEF Numbered
  <2>6. ChannelTells'
    <3>1. SUFFICES ASSUME NEW f \in Field, NEW i \in 1..Len(channel'),
                          LastTold(channel', i, f),
                          \A d \in dropped : d < channel'[i].id
                   PROVE  channel'[i].tells[f] = lastKey'[f]
      BY <1>8 DEF ChannelTells
    <3>2. CASE i \in 1..Len(channel)
      <4>1. LastTold(channel, i, f) /\ tells[f] = Nothing[f]
        BY <1>3, <1>8, <3>1, <3>2, AppendTold
      <4>2. channel[i].tells[f] = lastKey[f]
        BY <1>1, <2>2, <3>1, <3>2, <4>1 DEF ChannelTells
      <4>3. QED
        BY <1>8, <2>2, <3>2, <4>1, <4>2 DEF Fitting
    <3>3. CASE i = Len(channel) + 1
      <4>1. tells[f] # Nothing[f]
        BY <1>3, <1>8, <3>1, <3>3, AppendTold
      <4>2. QED
        BY <1>8, <2>2, <3>3, <4>1 DEF Fitting
    <3>4. QED
      BY <2>3, <3>2, <3>3
  <2>7. ClientsTold'
    <3>1. \A c \in Clients : Counted(c)' => Counted(c)
      BY <1>2, <1>8 DEF Counted, Missed
    <3>2. ASSUME NEW f \in Field, Silent(channel', f)
          PROVE  Silent(channel, f) /\ \A v : Right(f, v) => Right(f, v)'
      <4>1. Silent(channel, f) /\ tells[f] = Nothing[f]
        BY <1>3, <1>8, <3>2, AppendTold
      <4>2. QED
        BY <1>8, <4>1 DEF Fitting
    <3>3. \A c \in Clients : Informed(client[c]) => Informed(client[c])'
      BY <1>2, <3>2 DEF Informed
    <3>4. QED
      BY <1>1, <3>1, <3>3 DEF ClientsTold
  <2>8. QED
    BY <1>4, <1>5, <2>4, <2>5, <2>6, <2>7 DEF Inv
<1>9. QED
  BY <1>1, <1>6, <1>7, <1>8, PublishedIsFitting, Sending

LEMMA TurnKeeps ==
  ASSUME Inv, NoneJoining \/ Timeout \/ LoopOn \/ RequestShutdown
  PROVE  Inv'
<1>1. /\ UNCHANGED <<gui, current, latest, lastKey, published, dropped, channel,
                     joining, client, log, from>>
      /\ hub' \in {"top", "admit", "receive", "stopped"} /\ shutdown' \in BOOLEAN
  BY DEF NoneJoining, Timeout, LoopOn, RequestShutdown, guiVars, Inv, Typed
<1>2. Typed'
  BY <1>1 DEF Inv, Typed
<1>3. Numbered' /\ Waiting' /\ Streams' /\ Keys' /\ ChannelTells'
  BY <1>1 DEF Inv, Numbered, Waiting, Streams, Keys, ChannelTells
<1>4. ClientsTold'
  BY <1>1 DEF Inv, ClientsTold, Counted, Missed, Informed, Right, Due
<1>5. QED
  BY <1>2, <1>3, <1>4 DEF Inv

(* Only the connection of a client changes. *)
SameClient(r, s) ==
  /\ s.sender = r.sender /\ s.writer = r.writer
  /\ s.queue = r.queue /\ s.read = r.read /\ s.known = r.known

LEMMA ConnectionSet ==
  ASSUME Typed, NEW c \in Clients, NEW b \in BOOLEAN,
         client' = [client EXCEPT ![c].connected = b]
  PROVE  /\ client' \in [Clients -> Row]
         /\ \A d \in Clients : SameClient(client[d], client'[d])
<1>1. client \in [Clients -> Row]
  BY DEF Typed
<1> DEFINE s == [client[c] EXCEPT !.connected = b]
<1>2. client' = [client EXCEPT ![c] = s]
  OBVIOUS
<1>3. s \in Row /\ SameClient(client[c], s)
  BY <1>1 DEF Row, SameClient
<1> HIDE DEF s
<1>4. QED
  BY <1>1, <1>2, <1>3 DEF SameClient

LEMMA SameClientsKeep ==
  ASSUME Inv, Typed', Waiting', \A c \in Clients : SameClient(client[c], client'[c]),
         UNCHANGED <<guiVars, channel, log, from>>
  PROVE  Inv'
<1>1. /\ UNCHANGED <<gui, current, latest, lastKey, published, dropped, channel, log, from>>
      /\ client \in [Clients -> Row] /\ client' \in [Clients -> Row]
      /\ log \in Seq(Ids) /\ \A c \in Clients : from[c].at \in Nat
  BY DEF guiVars, Inv, Typed
<1>2. Numbered' /\ Keys' /\ ChannelTells'
  BY <1>1 DEF Inv, Numbered, Keys, ChannelTells
<1>3. Streams'
  <2>1. ASSUME NEW c \in Clients PROVE Follows(log, client'[c], from[c].at)
    BY <1>1, FollowsStill DEF Inv, Streams, SameClient
  <2>2. QED
    BY <1>1, <2>1 DEF Streams
<1>4. ClientsTold'
  <2>1. ASSUME NEW c \in Clients, Counted(c)' PROVE Informed(client[c])'
    <3>1. Counted(c)
      BY <1>1, <2>1 DEF Counted, Missed, SameClient
    <3>2. Informed(client[c])
      BY <3>1 DEF Inv, ClientsTold
    <3>3. \A f, v : Right(f, v) => Right(f, v)'
      BY <1>1 DEF Right, Due
    <3>4. client'[c].queue = client[c].queue /\ client'[c].known = client[c].known
      BY DEF SameClient
    <3>5. QED
      BY <1>1, <3>2, <3>3, <3>4 DEF Informed
  <2>2. QED
    BY <2>1 DEF ClientsTold
<1>5. QED
  BY <1>2, <1>3, <1>4 DEF Inv

LEMMA ConnectKeeps ==
  ASSUME Inv, NEW c \in Clients, Connect(c)
  PROVE  Inv'
<1>1. Typed /\ Waiting /\ joining \in Seq(Clients) /\ Len(joining) \in Nat
  BY LenProperties DEF Inv, Typed
<1>2. /\ ~client[c].writer /\ ~client[c].sender
      /\ \A i \in 1..Len(joining) : joining[i] # c
      /\ joining' = Append(joining, c)
      /\ client' = [client EXCEPT ![c].connected = TRUE]
      /\ UNCHANGED <<guiVars, channel, hub, shutdown, log, from>>
  BY DEF Connect, Contains
<1>3. /\ client' \in [Clients -> Row]
      /\ \A d \in Clients : SameClient(client[d], client'[d])
  BY <1>1, <1>2, ConnectionSet
<1>4. /\ joining' \in Seq(Clients) /\ Len(joining') = Len(joining) + 1
      /\ \A i \in 1..Len(joining) : joining'[i] = joining[i] /\ joining[i] \in Clients
      /\ joining'[Len(joining) + 1] = c
  BY <1>1, <1>2, AppendProperties, ElementOfSeq
<1>5. \A i \in 1..Len(joining') : i \in 1..Len(joining) \/ i = Len(joining) + 1
  BY <1>1, <1>4
<1>6. Typed'
  BY <1>1, <1>2, <1>3, <1>4 DEF Typed, guiVars
<1>7. Waiting'
  <2>1. \A i \in 1..Len(joining') :
          ~client'[joining'[i]].writer /\ ~client'[joining'[i]].sender
    <3>1. TAKE i \in 1..Len(joining')
    <3>2. CASE i \in 1..Len(joining)
      <4>1. ~client[joining[i]].writer /\ ~client[joining[i]].sender
        BY <1>1, <3>2 DEF Waiting
      <4>2. QED
        BY <1>3, <1>4, <3>2, <4>1 DEF SameClient
    <3>3. CASE i = Len(joining) + 1
      BY <1>2, <1>3, <1>4, <3>3 DEF SameClient
    <3>4. QED
      BY <1>5, <3>2, <3>3
  <2>2. \A i, j \in 1..Len(joining') : joining'[i] = joining'[j] => i = j
    <3>1. TAKE i, j \in 1..Len(joining')
    <3>2. i \in 1..Len(joining) /\ j \in 1..Len(joining)
            => (joining'[i] = joining'[j] => i = j)
      BY <1>1, <1>4 DEF Waiting
    <3>3. QED
      BY <1>2, <1>4, <1>5, <3>2
  <2>3. QED
    BY <2>1, <2>2 DEF Waiting
<1>8. QED
  BY <1>2, <1>3, <1>6, <1>7, SameClientsKeep

LEMMA DisconnectKeeps ==
  ASSUME Inv, NEW c \in Clients, Disconnect(c)
  PROVE  Inv'
<1>1. Typed /\ Waiting /\ joining \in Seq(Clients)
  BY DEF Inv, Typed
<1>2. /\ client' = [client EXCEPT ![c].connected = FALSE]
      /\ UNCHANGED <<guiVars, channel, joining, hub, shutdown, log, from>>
  BY DEF Disconnect
<1>3. /\ client' \in [Clients -> Row]
      /\ \A d \in Clients : SameClient(client[d], client'[d])
  BY <1>1, <1>2, ConnectionSet
<1>4. Typed'
  BY <1>1, <1>2, <1>3 DEF Typed, guiVars
<1>5. Waiting'
  BY <1>1, <1>2, <1>3, ElementOfSeq DEF Waiting, SameClient
<1>6. QED
  BY <1>2, <1>3, <1>4, <1>5, SameClientsKeep

(* What leaves the line of the joining leaves it for good. *)
LEMMA HeadJoins ==
  ASSUME Typed, Waiting, joining # <<>>
  PROVE  /\ Head(joining) \in Clients
         /\ ~client[Head(joining)].writer /\ ~client[Head(joining)].sender
         /\ Tail(joining) \in Seq(Clients)
         /\ \A i \in 1..Len(Tail(joining)) :
              /\ Tail(joining)[i] \in Clients /\ Tail(joining)[i] # Head(joining)
              /\ ~client[Tail(joining)[i]].writer /\ ~client[Tail(joining)[i]].sender
         /\ \A i, j \in 1..Len(Tail(joining)) :
              Tail(joining)[i] = Tail(joining)[j] => i = j
<1> DEFINE t == Tail(joining)
<1>1. /\ joining \in Seq(Clients) /\ Len(joining) \in Nat \ {0}
      /\ Head(joining) \in Clients /\ Head(joining) = joining[1]
      /\ t \in Seq(Clients) /\ Len(t) = Len(joining) - 1
      /\ \A i \in 1..Len(t) : t[i] = joining[i + 1]
  BY HeadTailProperties, EmptySeq DEF Typed
<1> HIDE DEF t
<1>2. ASSUME NEW i \in 1..Len(t)
      PROVE  i + 1 \in 1..Len(joining) /\ 1 \in 1..Len(joining) /\ i + 1 # 1
  BY <1>1
<1>3. \A i, j \in 1..Len(t) : t[i] = t[j] => i = j
  <2>1. TAKE i, j \in 1..Len(t)
  <2>2. joining[i + 1] = joining[j + 1] => i + 1 = j + 1
    BY <1>2 DEF Waiting
  <2>3. QED
    BY <1>1, <2>2
<1>4. ASSUME NEW i \in 1..Len(t)
      PROVE  t[i] \in Clients /\ t[i] # Head(joining) /\ ~client[t[i]].writer
               /\ ~client[t[i]].sender
  BY <1>1, <1>2, ElementOfSeq DEF Waiting
<1>5. ~client[Head(joining)].writer /\ ~client[Head(joining)].sender
  BY <1>1 DEF Waiting
<1>6. QED
  BY <1>1, <1>3, <1>4, <1>5 DEF t

LEMMA AdmitKeeps ==
  ASSUME Inv, Admit
  PROVE  Inv'
<1> DEFINE c == Head(joining)
<1>1. Typed /\ Waiting /\ Keys
  BY DEF Inv
<1>2. joining # <<>> /\ joining' = Tail(joining)
      /\ UNCHANGED <<guiVars, channel, hub, shutdown, log>>
  BY DEF Admit
<1>3. /\ c \in Clients /\ ~client[c].writer /\ ~client[c].sender
      /\ joining' \in Seq(Clients)
      /\ \A i \in 1..Len(joining') :
           /\ joining'[i] \in Clients /\ joining'[i] # c
           /\ ~client[joining'[i]].writer /\ ~client[joining'[i]].sender
      /\ \A i, j \in 1..Len(joining') : joining'[i] = joining'[j] => i = j
  BY <1>1, <1>2, HeadJoins
<1>4. \/ client' = [client EXCEPT ![c].connected = FALSE] /\ from' = from
      \/ /\ client' = [client EXCEPT ![c] = Admitted(c)]
         /\ from' = [from EXCEPT ![c] = [at |-> Len(log), fresh |-> latest = current]]
  BY DEF Admit
<1> HIDE DEF c
<1>5. CASE client' = [client EXCEPT ![c].connected = FALSE] /\ from' = from
  <2>1. /\ client' \in [Clients -> Row]
        /\ \A d \in Clients : SameClient(client[d], client'[d])
    BY <1>1, <1>3, <1>5, ConnectionSet
  <2>2. Typed'
    BY <1>1, <1>2, <1>3, <1>5, <2>1 DEF Typed, guiVars
  <2>3. Waiting'
    BY <1>3, <2>1 DEF Waiting, SameClient
  <2>4. QED
    BY <1>2, <1>5, <2>1, <2>2, <2>3, SameClientsKeep
<1>6. CASE /\ client' = [client EXCEPT ![c] = Admitted(c)]
           /\ from' = [from EXCEPT ![c] = [at |-> Len(log), fresh |-> latest = current]]
  <2> DEFINE r == Admitted(c)
  <2>1. /\ UNCHANGED <<gui, current, latest, lastKey, published, dropped, channel, log>>
        /\ log \in Seq(Ids) /\ Len(log) \in Nat
        /\ client \in [Clients -> Row] /\ from \in [Clients -> [at : Nat, fresh : BOOLEAN]]
    BY <1>1, <1>2, LenProperties DEF Typed, guiVars
  <2>2. /\ r \in Row /\ r.sender /\ r.writer /\ r.read = <<>> /\ r.known = Nothing
        /\ \/ latest = Nothing /\ r.queue = <<>>
           \/ \E m \in Message : /\ m.id = 0 /\ m.tells = latest /\ latest # Nothing
                                 /\ r.queue = <<m>>
    BY <1>1, <1>3, AdmittedRow
  <2> HIDE DEF r
  <2>3. /\ client' \in [Clients -> Row] /\ client'[c] = r
        /\ \A d \in Clients : d # c => client'[d] = client[d] /\ from'[d] = from[d]
        /\ from'[c].at = Len(log) /\ (from'[c].fresh <=> latest = current)
        /\ from' \in [Clients -> [at : Nat, fresh : BOOLEAN]]
    BY <1>3, <1>6, <2>1, <2>2 DEF r
  <2>4. Typed'
    BY <1>1, <1>2, <1>3, <2>3 DEF Typed, guiVars
  <2>5. Waiting'
    BY <1>3, <2>3 DEF Waiting
  <2>6. Numbered' /\ Keys' /\ ChannelTells'
    BY <2>1 DEF Inv, Numbered, Keys, ChannelTells
  <2>7. Streams'
    <3>1. Follows(log, r, Len(log))
      BY <2>1, <2>2, FollowsFromHere
    <3>2. ASSUME NEW d \in Clients PROVE Follows(log', client'[d], from'[d].at)
      BY <2>1, <2>3, <3>1 DEF Inv, Streams
    <3>3. QED
      BY <3>2 DEF Streams
  <2>8. \A f, v : Right(f, v) => Right(f, v)'
    BY <2>1 DEF Right, Due
  <2>9. ASSUME latest = current PROVE Informed(r)
    <3>1. SUFFICES ASSUME NEW f \in Field
                   PROVE  /\ \A i \in 1..Len(r.queue) :
                               LastTold(r.queue, i, f) => Right(f, r.queue[i].tells[f])
                          /\ Silent(r.queue, f) => Right(f, r.known[f])
      BY DEF Informed
    <3>2. Right(f, current[f])
      BY <1>1, CurrentIsRight
    <3>3. CASE latest = Nothing /\ r.queue = <<>>
      BY <2>2, <2>9, <3>2, <3>3
    <3>4. ASSUME NEW m \in Message, m.tells = latest, r.queue = <<m>>
          PROVE  /\ \A i \in 1..Len(r.queue) :
                      LastTold(r.queue, i, f) => Right(f, r.queue[i].tells[f])
                 /\ Silent(r.queue, f) => Right(f, r.known[f])
      <4>1. Len(r.queue) = 1 /\ r.queue[1] = m
        BY <3>4
      <4>2. r.queue[1].tells[f] = current[f] /\ 1 \in 1..Len(r.queue)
        BY <2>9, <3>4, <4>1
      <4>3. Silent(r.queue, f) => current[f] = Nothing[f]
        BY <4>2 DEF Silent
      <4>4. \A i \in 1..Len(r.queue) : i = 1
        BY <4>1
      <4>5. QED
        BY <2>2, <3>2, <4>2, <4>3, <4>4
    <3>5. QED
      BY <2>2, <3>3, <3>4
  <2>10. ClientsTold'
    <3>1. ASSUME NEW d \in Clients, Counted(d)' PROVE Informed(client'[d])
      <4>1. CASE d = c
        BY <2>3, <2>9, <3>1, <4>1 DEF Counted
      <4>2. CASE d # c
        <5>1. Counted(d)
          BY <2>1, <2>3, <3>1, <4>2 DEF Counted, Missed
        <5>2. QED
          BY <2>3, <4>2, <5>1 DEF Inv, ClientsTold
      <4>3. QED
        BY <4>1, <4>2
    <3>2. ASSUME NEW d \in Clients, Informed(client'[d]) PROVE Informed(client[d])'
      BY <2>1, <2>8, <3>2 DEF Informed
    <3>3. QED
      BY <3>1, <3>2 DEF ClientsTold
  <2>11. QED
    BY <2>4, <2>5, <2>6, <2>7, <2>10 DEF Inv
<1>7. QED
  BY <1>4, <1>5, <1>6

LEMMA BroadcastKeeps ==
  ASSUME Inv, Broadcast
  PROVE  Inv'
<1> DEFINE m == Head(channel)
<1>1. Typed /\ Numbered /\ Waiting /\ Streams /\ Keys /\ ChannelTells /\ ClientsTold
  BY DEF Inv
<1>2. /\ channel # <<>> /\ hub' = "top" /\ channel' = Tail(channel)
      /\ log' = Append(log, m.id)
      /\ client' = [c \in Clients |-> Offered(c, m)]
      /\ UNCHANGED <<gui, current, latest, lastKey, published, dropped, joining,
                     shutdown, from>>
  BY DEF Broadcast, guiVars
<1>3. /\ channel \in Seq(Message) /\ Len(channel) \in Nat \ {0}
      /\ channel' \in Seq(Message) /\ Len(channel') = Len(channel) - 1
      /\ m \in Message /\ m = channel[1]
      /\ \A k \in 1..Len(channel') : channel'[k] = channel[k + 1]
  BY <1>1, <1>2, HeadTailProperties, EmptySeq DEF Typed
<1>4. 1 \in 1..Len(channel) /\ \A k \in 1..Len(channel') : k + 1 \in 2..Len(channel)
  BY <1>3
<1>5. published \in Nat /\ published <= MaxPublished
  BY <1>1, Constants DEF Typed
<1>6. m.id \in 1..published /\ m.id \in Ids
  BY <1>1, <1>3, <1>4, <1>5, Constants DEF Numbered, Ids
<1>7. /\ log' \in Seq(Ids) /\ log \in Seq(Ids) /\ Len(log) \in Nat
      /\ Len(log') = Len(log) + 1
      /\ \A i \in 1..Len(log) : log'[i] = log[i] /\ log[i] \in Ids
      /\ log'[Len(log) + 1] = m.id
  BY <1>1, <1>2, <1>6, AppendProperties, LenProperties, ElementOfSeq DEF Typed
<1>8. /\ client \in [Clients -> Row] /\ from \in [Clients -> [at : Nat, fresh : BOOLEAN]]
      /\ current \in State /\ lastKey \in State
  BY <1>1 DEF Typed
<1> HIDE DEF m
<1>9. ASSUME NEW c \in Clients
      PROVE  /\ client'[c] = Offered(c, m) /\ client'[c] \in Row
             /\ client'[c].writer = client[c].writer
             /\ client'[c].read = client[c].read /\ client'[c].known = client[c].known
             /\ client'[c].sender =>
                  /\ client[c].sender /\ Accepts(c)
                  /\ client'[c].queue = Append(client[c].queue, m)
             /\ ~client'[c].sender => client'[c].queue = client[c].queue
  BY <1>1, <1>2, <1>3, OfferedRow
<1>10. Typed'
  <2>1. client' \in [Clients -> Row]
    BY <1>2, <1>9
  <2>2. Len(channel') <= HubCapacity
    BY <1>1, <1>3, Constants DEF Typed
  <2>3. QED
    BY <1>1, <1>2, <1>3, <1>7, <2>1, <2>2 DEF Typed
<1>11. Numbered'
  <2>1. \A i \in 1..Len(log') : i \in 1..Len(log) \/ i = Len(log) + 1
    BY <1>7
  <2>2. ASSUME NEW i \in 1..Len(log) PROVE i <= log[i] /\ log[i] <= published /\ log[i] < m.id
    BY <1>1, <1>3, <1>4 DEF Numbered
  <2>3. Len(log) + 1 <= m.id /\ m.id <= published
    <3>1. CASE Len(log) = 0
      BY <1>5, <1>6, <3>1
    <3>2. CASE Len(log) # 0
      <4>1. Len(log) \in 1..Len(log)
        BY <1>7, <3>2
      <4>2. Len(log) <= log[Len(log)] /\ log[Len(log)] < m.id /\ log[Len(log)] \in Ids
        BY <1>7, <2>2, <4>1
      <4>3. QED
        BY <1>5, <1>6, <1>7, <4>2, Constants DEF Ids
    <3>3. QED
      BY <3>1, <3>2
  <2>4. \A i \in 1..Len(log') : i <= log'[i] /\ log'[i] <= published
    BY <1>7, <2>1, <2>2, <2>3
  <2>5. ASSUME NEW i \in 1..Len(log'), NEW j \in 1..Len(log'), i < j
        PROVE  log'[i] < log'[j]
    <3>1. i \in 1..Len(log)
      BY <1>7, <2>5
    <3>2. CASE j \in 1..Len(log)
      BY <1>1, <1>7, <2>5, <3>1, <3>2 DEF Numbered
    <3>3. CASE j = Len(log) + 1
      BY <1>7, <2>2, <3>1, <3>3
    <3>4. QED
      BY <2>1, <3>2, <3>3
  <2>6. \A k, l \in 1..Len(channel') : k < l => channel'[k].id < channel'[l].id
    <3>1. TAKE k, l \in 1..Len(channel')
    <3>2. k + 1 \in 1..Len(channel) /\ l + 1 \in 1..Len(channel)
      BY <1>3
    <3>3. k < l => k + 1 < l + 1
      BY <1>3
    <3>4. channel'[k] = channel[k + 1] /\ channel'[l] = channel[l + 1]
      BY <1>3
    <3>5. QED
      BY <1>1, <3>2, <3>3, <3>4 DEF Numbered
  <2>7. ASSUME NEW k \in 1..Len(channel')
        PROVE  /\ channel'[k].id \in 1..published
               /\ \A i \in 1..Len(log') : log'[i] < channel'[k].id
    <3>1. k + 1 \in 1..Len(channel) /\ 1 < k + 1 /\ channel'[k] = channel[k + 1]
      BY <1>3
    <3>2. m.id < channel[k + 1].id
      BY <1>1, <1>3, <1>4, <3>1 DEF Numbered
    <3>3. \A i \in 1..Len(log) : log[i] < channel[k + 1].id
      BY <1>1, <3>1 DEF Numbered
    <3>4. channel[k + 1].id \in 1..published
      BY <1>1, <3>1 DEF Numbered
    <3>5. QED
      BY <1>7, <2>1, <3>1, <3>2, <3>3, <3>4
  <2>8. dropped \subseteq 1..published
    BY <1>1 DEF Numbered
  <2>9. QED
    BY <1>2, <2>4, <2>5, <2>6, <2>7, <2>8 DEF Numbered
<1>12. Waiting'
  <2>1. \A i \in 1..Len(joining) : joining[i] \in Clients
    BY <1>1, ElementOfSeq DEF Typed
  <2>2. QED
    BY <1>1, <1>2, <1>9, <2>1 DEF Waiting
<1>13. Streams'
  <2>1. ASSUME NEW c \in Clients
        PROVE  Follows(log', client'[c], from'[c].at)
    <3>1. Follows(log, client[c], from[c].at) /\ from[c].at \in Nat /\ client[c] \in Row
      BY <1>1, <1>8 DEF Streams
    <3>2. OneMore(log, log', m.id)
      BY <1>7 DEF OneMore
    <3>3. client'[c].sender => /\ client[c].writer /\ Len(client[c].queue) < ClientCapacity
                               /\ OneMore(client[c].queue, client'[c].queue, m)
      <4>1. client[c].queue \in Seq(Message)
        BY <3>1 DEF Row
      <4>2. OneMore(client[c].queue, Append(client[c].queue, m), m)
        BY <1>3, <4>1, AppendProperties DEF OneMore
      <4>3. QED
        BY <1>9, <4>2 DEF Accepts
    <3>4. /\ m \in Message /\ m.id \in Ids /\ log \in Seq(Ids) /\ log' \in Seq(Ids)
          /\ client'[c] \in Row /\ client'[c].writer = client[c].writer
          /\ client'[c].read = client[c].read
          /\ (client'[c].sender => client[c].sender)
          /\ ~client'[c].sender => client'[c].queue = client[c].queue
      BY <1>3, <1>6, <1>7, <1>9
    <3>5. Follows(log', client'[c], from[c].at)
      BY <3>1, <3>2, <3>3, <3>4, FollowsBroadcast
    <3>6. QED
      BY <1>2, <3>5
  <2>2. QED
    BY <2>1 DEF Streams
<1>14. Keys'
  BY <1>1, <1>2 DEF Keys
<1>15. ChannelTells'
  <2>1. SUFFICES ASSUME NEW f \in Field, NEW k \in 1..Len(channel'),
                        LastTold(channel', k, f),
                        \A d \in dropped : d < channel'[k].id
                 PROVE  channel'[k].tells[f] = lastKey[f]
    BY <1>2 DEF ChannelTells
  <2>2. k + 1 \in 1..Len(channel) /\ LastTold(channel, k + 1, f)
    BY <1>2, <1>3, <2>1, TailTold
  <2>3. channel'[k] = channel[k + 1]
    BY <1>3
  <2>4. QED
    BY <1>1, <2>1, <2>2, <2>3 DEF ChannelTells
<1>16. ClientsTold'
  <2>1. ASSUME NEW c \in Clients, Counted(c)'
        PROVE  /\ Counted(c) /\ client[c].writer /\ ~Missed(c)
               /\ client'[c].queue = Append(client[c].queue, m)
               /\ client'[c].known = client[c].known
               /\ client[c].queue \in Seq(Message)
    <3>1. client[c].sender /\ client[c].writer /\ from[c].fresh
      BY <1>2, <1>9, <2>1 DEF Counted
    <3>2. from[c].at \in 0..Len(log)
      BY <1>1, <3>1, JoinedInLog
    <3>3. \A i \in 1..from[c].at : log'[i] = log[i]
      BY <1>7, <3>2
    <3>4. ~Missed(c)
      BY <1>2, <2>1, <3>3 DEF Counted, Missed
    <3>5. QED
      BY <1>8, <1>9, <2>1, <3>1, <3>4 DEF Counted, Row
  <2>2. \A f, v : Right(f, v) => Right(f, v)'
    BY <1>2 DEF Right, Due
  <2>3. ASSUME NEW c \in Clients, Counted(c)', NEW f \in Field, Silent(channel', f)
        PROVE  /\ \A i \in 1..Len(client'[c].queue) :
                    LastTold(client'[c].queue, i, f)
                      => Right(f, client'[c].queue[i].tells[f])
               /\ Silent(client'[c].queue, f) => Right(f, client'[c].known[f])
    <3> DEFINE q == client[c].queue
    <3>1. /\ Counted(c) /\ client[c].writer /\ ~Missed(c)
          /\ client'[c].queue = Append(q, m) /\ client'[c].known = client[c].known
          /\ q \in Seq(Message)
      BY <2>1, <2>3
    <3>2. /\ Len(q) \in Nat /\ Len(Append(q, m)) = Len(q) + 1
          /\ \A i \in 1..Len(q) : Append(q, m)[i] = q[i]
          /\ Append(q, m)[Len(q) + 1] = m
      BY <1>3, <3>1, AppendProperties, LenProperties
    <3>3. Informed(client[c])
      BY <1>1, <3>1 DEF ClientsTold
    <3> HIDE DEF q
    <3>4. \A i \in 1..Len(Append(q, m)) : i \in 1..Len(q) \/ i = Len(q) + 1
      BY <3>2
    <3>5. CASE m.tells[f] = Nothing[f]
      <4>1. Silent(channel, f)
        BY <1>2, <1>3, <2>3, <3>5, TailTold DEF m
      <4>2. /\ \A i \in 1..Len(q) : LastTold(q, i, f) => Right(f, q[i].tells[f])
            /\ Silent(q, f) => Right(f, client[c].known[f])
        BY <3>3, <4>1 DEF Informed, q
      <4>3. Silent(Append(q, m), f) => Silent(q, f)
        BY <1>3, <3>1, AppendTold
      <4>4. \A i \in 1..Len(q) : LastTold(Append(q, m), i, f) => LastTold(q, i, f)
        BY <1>3, <3>1, AppendTold
      <4>5. ~LastTold(Append(q, m), Len(q) + 1, f)
        BY <1>3, <3>1, <3>5, AppendTold
      <4>6. QED
        BY <3>1, <3>2, <3>4, <4>2, <4>3, <4>4, <4>5
    <3>6. CASE m.tells[f] # Nothing[f]
      <4>1. LastTold(channel, 1, f)
        BY <1>2, <1>3, <2>3, <3>6, TailTold DEF m
      <4>2. \A d \in dropped : d < channel[1].id
        BY <1>1, <1>4, <3>1, DroppedBehind
      <4>3. m.tells[f] = lastKey[f]
        BY <1>1, <1>3, <1>4, <4>1, <4>2 DEF ChannelTells
      <4>4. Right(f, m.tells[f])
        BY <4>3 DEF Right
      <4>5. ~Silent(Append(q, m), f)
        BY <1>3, <3>1, <3>6, AppendTold
      <4>6. \A i \in 1..Len(q) : ~LastTold(Append(q, m), i, f)
        BY <1>3, <3>1, <3>6, AppendTold
      <4>7. QED
        BY <3>1, <3>2, <3>4, <4>4, <4>5, <4>6
    <3>7. QED
      BY <3>5, <3>6
  <2>4. ASSUME NEW c \in Clients, Counted(c)' PROVE Informed(client[c])'
    BY <2>2, <2>3, <2>4 DEF Informed
  <2>5. QED
    BY <2>4 DEF ClientsTold
<1>17. QED
  BY <1>10, <1>11, <1>12, <1>13, <1>14, <1>15, <1>16 DEF Inv

LEMMA StopKeeps ==
  ASSUME Inv, Stop
  PROVE  Inv'
<1>1. Typed /\ client \in [Clients -> Row] /\ log \in Seq(Ids)
      /\ from \in [Clients -> [at : Nat, fresh : BOOLEAN]]
  BY DEF Inv, Typed
<1>2. /\ hub' = "stopped" /\ channel' = <<>> /\ joining' = <<>>
      /\ client' = [c \in Clients |->
           [client[c] EXCEPT !.sender = FALSE,
                             !.connected = client[c].connected /\ ~Contains(joining, c)]]
      /\ UNCHANGED <<gui, current, latest, lastKey, published, dropped, shutdown, log, from>>
  BY DEF Stop, guiVars
<1>e. <<>> \in Seq(Message) /\ <<>> \in Seq(Clients) /\ Len(<<>>) = 0
  BY EmptySeq
<1>3. ASSUME NEW c \in Clients
      PROVE  /\ client'[c] \in Row /\ ~client'[c].sender
             /\ client'[c].writer = client[c].writer
             /\ client'[c].queue = client[c].queue /\ client'[c].read = client[c].read
  <2> DEFINE b == client[c].connected /\ ~Contains(joining, c)
  <2>1. b \in BOOLEAN /\ client[c] \in Row
    BY <1>1
  <2>2. client'[c] = [client[c] EXCEPT !.sender = FALSE, !.connected = b]
    BY <1>2
  <2> HIDE DEF b
  <2>3. QED
    BY <2>1, <2>2 DEF Row
<1>4. Typed'
  <2>1. client' \in [Clients -> Row]
    BY <1>2, <1>3
  <2>2. channel' = <<>> /\ joining' = <<>>
    BY <1>2
  <2>3. channel' \in Seq(Message) /\ joining' \in Seq(Clients) /\ Len(channel') = 0
    BY <2>2, <1>e
  <2>4. Len(channel') <= HubCapacity
    BY <2>3, Constants
  <2>5. QED
    BY <1>1, <1>2, <2>1, <2>3, <2>4 DEF Typed
<1>n. channel' = <<>> /\ joining' = <<>>
  BY <1>2
<1>5. Len(channel') = 0 /\ Len(joining') = 0
  BY <1>n, <1>e
<1>6. Numbered' /\ Waiting' /\ ChannelTells'
  <2>1. 1..Len(channel') = {} /\ 1..Len(joining') = {}
    BY <1>5
  <2>2. Numbered'
    BY <1>2, <2>1 DEF Inv, Numbered
  <2>3. Waiting' /\ ChannelTells'
    BY <2>1 DEF Waiting, ChannelTells
  <2>4. QED
    BY <2>2, <2>3
<1>7. Streams'
  <2>1. ASSUME NEW c \in Clients PROVE Follows(log, client'[c], from[c].at)
    BY <1>1, <1>3, FollowsStill DEF Inv, Streams
  <2>2. QED
    BY <1>2, <2>1 DEF Streams
<1>8. Keys'
  BY <1>2 DEF Inv, Keys
<1>9. ClientsTold'
  BY <1>3 DEF ClientsTold, Counted
<1>10. QED
  BY <1>4, <1>6, <1>7, <1>8, <1>9 DEF Inv

(* A writer's step replaces the row of its client. *)
LEMMA WriterKeeps ==
  ASSUME Inv, NEW c \in Clients, client[c].writer,
         NEW r \in Row, NEW entry \in [at : Nat, fresh : BOOLEAN],
         client' = [client EXCEPT ![c] = r], from' = [from EXCEPT ![c] = entry],
         UNCHANGED <<guiVars, channel, joining, hub, shutdown, log>>,
         Follows(log, r, entry.at),
         r.sender = client[c].sender,
         r.writer => entry = from[c] /\ (Counted(c) => Informed(r))
  PROVE  Inv'
<1>1. /\ client \in [Clients -> Row] /\ from \in [Clients -> [at : Nat, fresh : BOOLEAN]]
      /\ joining \in Seq(Clients)
      /\ UNCHANGED <<gui, current, latest, lastKey, published, dropped, channel, log, joining>>
  BY DEF Inv, Typed, guiVars
<1>2. /\ client' \in [Clients -> Row] /\ client'[c] = r
      /\ from' \in [Clients -> [at : Nat, fresh : BOOLEAN]] /\ from'[c] = entry
      /\ \A d \in Clients : d # c => client'[d] = client[d] /\ from'[d] = from[d]
  BY <1>1
<1>3. Typed'
  BY <1>1, <1>2 DEF Inv, Typed, guiVars
<1>4. Numbered' /\ Keys' /\ ChannelTells'
  BY <1>1 DEF Inv, Numbered, Keys, ChannelTells
<1>5. Waiting'
  <2>1. \A i \in 1..Len(joining) : joining[i] \in Clients /\ joining[i] # c
    BY <1>1, ElementOfSeq DEF Inv, Waiting
  <2>2. QED
    BY <1>1, <1>2, <2>1 DEF Inv, Waiting
<1>6. Streams'
  <2>1. ASSUME NEW d \in Clients PROVE Follows(log', client'[d], from'[d].at)
    BY <1>1, <1>2 DEF Inv, Streams
  <2>2. QED
    BY <2>1 DEF Streams
<1>7. ClientsTold'
  <2>1. ASSUME NEW d \in Clients, Counted(d)' PROVE Informed(client'[d])
    <3>1. CASE d # c
      <4>1. Counted(d)
        BY <1>1, <1>2, <2>1, <3>1 DEF Counted, Missed
      <4>2. QED
        BY <1>2, <3>1, <4>1 DEF Inv, ClientsTold
    <3>2. CASE d = c
      <4>1. r.sender /\ r.writer /\ entry.fresh /\ entry = from[c]
        BY <1>2, <2>1, <3>2 DEF Counted
      <4>2. Counted(c)
        BY <1>1, <1>2, <2>1, <3>2, <4>1 DEF Counted, Missed
      <4>3. QED
        BY <1>2, <3>2, <4>1, <4>2
    <3>3. QED
      BY <3>1, <3>2
  <2>2. \A f, v : Right(f, v) => Right(f, v)'
    BY <1>1 DEF Right, Due
  <2>3. ASSUME NEW d \in Clients, Informed(client'[d]) PROVE Informed(client[d])'
    BY <1>1, <2>2, <2>3 DEF Informed
  <2>4. QED
    BY <2>1, <2>3 DEF ClientsTold
<1>8. QED
  BY <1>3, <1>4, <1>5, <1>6, <1>7 DEF Inv

(* What a written message tells, the client knows. *)
LEMMA SentInforms ==
  ASSUME Typed, NEW r \in Row, r.queue # <<>>, Informed(r)
  PROVE  Informed(Sent(r))
<1> DEFINE m == Head(r.queue)
           q == Tail(r.queue)
<1>1. /\ r.queue \in Seq(Message) /\ r.known \in State
      /\ Sent(r).queue = q /\ Sent(r).known = Told(r.known, m.tells)
  BY SentRow DEF Row
<1>2. m \in Message /\ m.tells \in State
  <2>1. m \in Message
    BY <1>1, HeadTailProperties
  <2>2. QED
    BY <2>1 DEF Message
<1>3. SUFFICES ASSUME NEW f \in Field, Silent(channel, f)
               PROVE  /\ \A i \in 1..Len(q) : LastTold(q, i, f) => Right(f, q[i].tells[f])
                      /\ Silent(q, f) => Right(f, Told(r.known, m.tells)[f])
  BY <1>1 DEF Informed
<1>4. /\ \A i \in 1..Len(r.queue) :
           LastTold(r.queue, i, f) => Right(f, r.queue[i].tells[f])
      /\ Silent(r.queue, f) => Right(f, r.known[f])
  BY <1>3 DEF Informed
<1>5. /\ Silent(q, f) =>
           Silent(r.queue, f) \/ (LastTold(r.queue, 1, f) /\ m.tells[f] # Nothing[f])
      /\ Silent(r.queue, f) => m.tells[f] = Nothing[f]
      /\ \A i \in 1..Len(q) :
           q[i] = r.queue[i + 1] /\ i + 1 \in 1..Len(r.queue)
             /\ (LastTold(q, i, f) => LastTold(r.queue, i + 1, f))
      /\ m = r.queue[1] /\ 1 \in 1..Len(r.queue)
  BY <1>1, TailTold
<1>6. Told(r.known, m.tells)[f] = IF m.tells[f] = Nothing[f] THEN r.known[f] ELSE m.tells[f]
  BY <1>1, <1>2, ToldField
<1> HIDE DEF m, q
<1>7. ASSUME NEW i \in 1..Len(q), LastTold(q, i, f) PROVE Right(f, q[i].tells[f])
  BY <1>4, <1>5, <1>7
<1>8. ASSUME Silent(q, f) PROVE Right(f, Told(r.known, m.tells)[f])
  <2>1. CASE Silent(r.queue, f)
    BY <1>4, <1>5, <1>6, <2>1
  <2>2. CASE LastTold(r.queue, 1, f) /\ m.tells[f] # Nothing[f]
    BY <1>4, <1>5, <1>6, <2>2
  <2>3. QED
    BY <1>5, <1>8, <2>1, <2>2
<1>9. QED
  BY <1>7, <1>8

LEMMA EndKeeps ==
  ASSUME Inv, NEW c \in Clients, client[c].writer, End(c),
         UNCHANGED <<guiVars, channel, joining, hub, shutdown, log>>
  PROVE  Inv'
<1> DEFINE r == [Away EXCEPT !.sender = client[c].sender]
<1>1. client[c].sender \in BOOLEAN
  BY DEF Inv, Typed, Row
<1>2. /\ r \in Row /\ ~r.writer /\ r.sender = client[c].sender
      /\ r.queue = <<>> /\ r.read = <<>>
  BY <1>1, EndedRow
<1>3. client' = [client EXCEPT ![c] = r] /\ from' = [from EXCEPT ![c] = NeverJoined]
  BY DEF End
<1>4. NeverJoined \in [at : Nat, fresh : BOOLEAN] /\ NeverJoined.at = 0
  BY DEF NeverJoined
<1> HIDE DEF r
<1>5. Follows(log, r, NeverJoined.at)
  BY <1>2, <1>4 DEF Follows
<1>6. QED
  BY <1>2, <1>3, <1>4, <1>5, WriterKeeps

LEMMA WriterStepKeeps ==
  ASSUME Inv, NEW c \in Clients, WriterStep(c)
  PROVE  Inv'
<1>1. /\ client[c].writer /\ client[c] \in Row /\ log \in Seq(Ids) /\ Typed
      /\ from[c] \in [at : Nat, fresh : BOOLEAN]
      /\ from \in [Clients -> [at : Nat, fresh : BOOLEAN]]
      /\ UNCHANGED <<guiVars, channel, joining, hub, shutdown, log>>
  BY DEF WriterStep, Write, FinishWriter, Inv, Typed
<1>2. CASE End(c)
  BY <1>1, <1>2, EndKeeps
<1>3. CASE /\ client[c].queue # <<>>
           /\ client' = [client EXCEPT ![c] = Sent(client[c])] /\ from' = from
  <2> DEFINE r == Sent(client[c])
  <2>1. /\ r \in Row /\ r.sender = client[c].sender /\ r.writer
    BY <1>1, <1>3, SentRow
  <2>2. Follows(log, client[c], from[c].at) /\ from[c].at \in Nat
    BY <1>1 DEF Inv, Streams
  <2>3. Follows(log, r, from[c].at)
    BY <1>1, <1>3, <2>2, FollowsSent
  <2>4. Counted(c) => Informed(r)
    BY <1>1, <1>3, SentInforms DEF Inv, ClientsTold
  <2>5. from' = [from EXCEPT ![c] = from[c]]
    BY <1>1, <1>3
  <2> HIDE DEF r
  <2>6. client' = [client EXCEPT ![c] = r]
    BY <1>3 DEF r
  <2>7. QED
    BY <1>1, <2>1, <2>3, <2>4, <2>5, <2>6, WriterKeeps
<1>4. QED
  BY <1>2, <1>3 DEF WriterStep, Write, FinishWriter

---------------------------------------------------------------------------
LEMMA InitHolds ==
  ASSUME Init
  PROVE  Inv
<1>1. /\ <<>> \in Seq(Message) /\ <<>> \in Seq(Clients) /\ <<>> \in Seq(Ids)
      /\ Len(<<>>) = 0
  BY EmptySeq
<1>2. Away \in Row /\ ~Away.writer /\ ~Away.sender /\ Away.queue = <<>> /\ Away.read = <<>>
  BY AwayType DEF Away
<1>3. NeverJoined \in [at : Nat, fresh : BOOLEAN] /\ NeverJoined.at = 0
  BY DEF NeverJoined
<1>4. /\ gui = "idle" /\ current = Nothing /\ latest = Nothing /\ lastKey = Nothing
      /\ published = 0 /\ dropped = {} /\ channel = <<>> /\ joining = <<>>
      /\ hub = "top" /\ shutdown = FALSE /\ log = <<>>
      /\ client = [c \in Clients |-> Away] /\ from = [c \in Clients |-> NeverJoined]
  BY DEF Init
<1>5. Len(channel) = 0 /\ Len(joining) = 0 /\ Len(log) = 0
  BY <1>1, <1>4
<1>6. 1..Len(channel) = {} /\ 1..Len(joining) = {} /\ 1..Len(log) = {}
  BY <1>5
<1>7. Typed
  <2>1. client \in [Clients -> Row] /\ from \in [Clients -> [at : Nat, fresh : BOOLEAN]]
    BY <1>2, <1>3, <1>4
  <2>2. Len(channel) <= HubCapacity /\ published \in 0..MaxPublished
    BY <1>4, <1>5, Constants
  <2>3. channel \in Seq(Message) /\ joining \in Seq(Clients) /\ log \in Seq(Ids)
    BY <1>1, <1>4
  <2>4. QED
    BY <1>4, <2>1, <2>2, <2>3, NothingType DEF Typed
<1>8. Numbered /\ Waiting /\ ChannelTells
  BY <1>4, <1>6 DEF Numbered, Waiting, ChannelTells
<1>9. Streams /\ ClientsTold
  BY <1>2, <1>3, <1>4 DEF Streams, Follows, ClientsTold, Counted
<1>10. Keys
  BY <1>4 DEF Keys
<1>11. QED
  BY <1>7, <1>8, <1>9, <1>10 DEF Inv

LEMMA StepKeeps ==
  ASSUME Inv, [Next]_vars
  PROVE  Inv'
<1>1. ASSUME NEW scene \in Scenes, NEW song \in Songs \cup {NoSong},
             Observe([scene |-> scene, song |-> song])
      PROVE  Inv'
  <2>1. [scene |-> scene, song |-> song] \in State
    BY DEF State
  <2>2. QED
    BY <1>1, <2>1, ObserveKeeps
<1>2. CASE PublishScene \/ PublishSong \/ PublishPlay
  BY <1>2, PublishKeeps DEF Publishing
<1>3. ASSUME NEW c \in Clients, Connect(c) \/ Disconnect(c) \/ WriterStep(c)
      PROVE  Inv'
  BY <1>3, ConnectKeeps, DisconnectKeeps, WriterStepKeeps
<1>4. CASE HubStep \/ RequestShutdown
  BY <1>4, AdmitKeeps, BroadcastKeeps, StopKeeps, TurnKeeps DEF HubStep
<1>5. CASE UNCHANGED vars
  <2>1. UNCHANGED <<gui, current, latest, lastKey, published, dropped, channel,
                    joining, hub, shutdown, client, log, from>>
    BY <1>5 DEF vars, guiVars
  <2>2. Typed' /\ Numbered' /\ Waiting' /\ Streams' /\ Keys' /\ ChannelTells'
    BY <2>1 DEF Inv, Typed, Numbered, Waiting, Streams, Keys, ChannelTells
  <2>3. ClientsTold'
    BY <2>1 DEF Inv, ClientsTold, Counted, Missed, Informed, Right, Due
  <2>4. QED
    BY <2>2, <2>3 DEF Inv
<1>6. QED
  BY <1>1, <1>2, <1>3, <1>4, <1>5 DEF Next

THEOREM Invariance == Spec => []Inv
  BY InitHolds, StepKeeps, PTL DEF Spec

---------------------------------------------------------------------------
LEMMA ClientTyped ==
  ASSUME Inv, NEW c \in Clients
  PROVE  client[c] \in Client
<1> DEFINE r == client[c]
<1>1. /\ r \in Row /\ Typed /\ Numbered /\ log \in Seq(Ids) /\ Len(log) \in Nat
      /\ published \in Nat /\ published <= MaxPublished
  BY LenProperties, Constants DEF Inv, Typed
<1>2. /\ r.queue \in Seq(Message) /\ Len(r.queue) \in Nat
      /\ r.read \in Seq(Ids) /\ Len(r.read) \in Nat
  BY <1>1, LenProperties DEF Row
<1>3. Len(log) <= MaxPublished
  <2>1. CASE Len(log) = 0
    BY <2>1, Constants
  <2>2. CASE Len(log) # 0
    <3>1. Len(log) \in 1..Len(log)
      BY <1>1, <2>2
    <3>2. Len(log) <= log[Len(log)] /\ log[Len(log)] <= published
      BY <1>1, <3>1 DEF Numbered
    <3>3. log[Len(log)] \in Nat
      BY <1>1, <3>1, ElementOfSeq, Constants DEF Ids
    <3>4. QED
      BY <1>1, <3>2, <3>3, Constants
  <2>3. QED
    BY <2>1, <2>2
<1>4. Follows(log, r, from[c].at) /\ from[c].at \in Nat
  BY DEF Inv, Streams, Typed
<1>5. Len(r.queue) <= ClientCapacity /\ Len(r.read) <= MaxPublished
  <2>1. CASE ~r.writer
    <3>1. Len(r.queue) = 0 /\ Len(r.read) = 0
      BY <1>4, <2>1, EmptySeq DEF Follows
    <3>2. QED
      BY <3>1, Constants
  <2>2. CASE r.writer
    <3>1. /\ Len(r.queue) <= ClientCapacity
          /\ from[c].at + Len(r.read) + Len(r.queue) - Skip(r) <= Len(log)
      BY <1>4, <2>2 DEF Follows, Served
    <3>2. Skip(r) \in Int /\ Skip(r) <= Len(r.queue)
      BY <1>2, EmptySeq DEF Skip
    <3> DEFINE a == from[c].at
               l == Len(r.read)
               q == Len(r.queue)
               n == Len(log)
               k == Skip(r)
    <3>3. /\ a \in Nat /\ l \in Nat /\ q \in Nat /\ n \in Nat /\ k \in Int /\ k <= q
          /\ a + l + q - k <= n /\ n <= MaxPublished
      BY <1>1, <1>2, <1>3, <1>4, <3>1, <3>2
    <3> HIDE DEF a, l, q, n, k
    <3>4. l <= MaxPublished
      BY ONLY <3>3, Constants
    <3>5. QED
      BY <3>1, <3>4 DEF l
  <2>3. QED
    BY <2>1, <2>2
<1>6. /\ r.queue \in UNION {[1..n -> Message] : n \in 0..ClientCapacity}
      /\ r.read \in UNION {[1..n -> Ids] : n \in 0..MaxPublished}
  <2>1. ClientCapacity \in Nat /\ MaxPublished \in Nat
    BY Constants
  <2>2. QED
    BY <1>2, <1>5, <2>1, SeqUpTo
<1> DEFINE Q == UNION {[1..n -> Message] : n \in 0..ClientCapacity}
           R == UNION {[1..n -> Ids] : n \in 0..MaxPublished}
<1>7. r.queue \in Q /\ r.read \in R
  BY <1>6
<1> HIDE DEF Q, R, r
<1>8. r \in [sender : BOOLEAN, writer : BOOLEAN, connected : BOOLEAN,
             queue : Q, read : R, known : State]
  BY <1>1, <1>7 DEF Row
<1>9. QED
  BY <1>8 DEF Client, Q, R, r

(* The state stays well-formed: the hub channel and every client queue keep *)
(* to their capacities, nobody waits twice to be admitted, and no event is  *)
(* broadcast twice (IpcPublisher::publish, run_sse_hub_loop).               *)
THEOREM TypeCorrect == Spec => []TypeOK
<1>1. Inv => TypeOK
  <2> SUFFICES ASSUME Inv PROVE TypeOK
    OBVIOUS
  <2>1. Typed /\ Numbered /\ Waiting
    BY DEF Inv
  <2>2. client \in [Clients -> Client]
    BY ClientTyped DEF Inv, Typed
  <2>3. channel \in UNION {[1..n -> Message] : n \in 0..HubCapacity}
    BY <2>1, SeqUpTo, Constants DEF Typed
  <2>4. IsInjective(joining) /\ ToSet(joining) \subseteq Clients
    <3>1. joining \in [1..Len(joining) -> Clients]
      BY <2>1, LenProperties DEF Typed
    <3>2. QED
      BY <2>1, <3>1 DEF Waiting, IsInjective, ToSet
  <2>5. IsInjective(log) /\ ToSet(log) \subseteq Ids
    <3>1. log \in [1..Len(log) -> Ids] /\ Len(log) \in Nat
      BY <2>1, LenProperties DEF Typed
    <3>2. ASSUME NEW i \in 1..Len(log), NEW j \in 1..Len(log), log[i] = log[j]
          PROVE  i = j
      <4>1. log[i] \in Nat /\ log[j] \in Nat
        BY <3>1, Constants DEF Ids
      <4>2. ~(i < j) /\ ~(j < i)
        BY <2>1, <3>2, <4>1 DEF Numbered
      <4>3. QED
        BY <3>1, <4>2
    <3>3. QED
      BY <3>1, <3>2 DEF IsInjective, ToSet
  <2>6. dropped \subseteq Ids
    <3>1. dropped \subseteq 1..published /\ published \in Nat /\ published <= MaxPublished
      BY <2>1, Constants DEF Numbered, Typed
    <3>2. QED
      BY <3>1, Constants DEF Ids
  <2>7. QED
    BY <2>1, <2>2, <2>3, <2>4, <2>5, <2>6 DEF TypeOK, Typed
<1>2. QED
  BY <1>1, Invariance, PTL

(* A client that has read all there was, joined with a current snapshot and *)
(* missed nothing that was dropped, knows what the GUI handled last.        *)
THEOREM QuietIsCurrent == Spec => []QuietClientIsCurrent
<1>1. Inv => QuietClientIsCurrent
  <2>1. SUFFICES ASSUME Inv, NEW c \in Clients, Quiet(c), from[c].fresh, ~Missed(c)
                 PROVE  client[c].known = current
    BY DEF QuietClientIsCurrent
  <2>2. /\ client[c].sender /\ client[c].writer /\ client[c].queue = <<>>
        /\ gui \in {"idle", "play"} /\ channel = <<>>
    BY <2>1 DEF Quiet
  <2>3. Informed(client[c])
    BY <2>1, <2>2 DEF Inv, ClientsTold, Counted
  <2>4. Len(<<>>) = 0
    BY EmptySeq
  <2>5. \A f \in Field : Silent(channel, f) /\ Silent(client[c].queue, f)
    BY <2>2, <2>4 DEF Silent
  <2>6. ASSUME NEW f \in Field PROVE client[c].known[f] = current[f]
    <3>1. Right(f, client[c].known[f])
      BY <2>3, <2>5 DEF Informed
    <3>2. lastKey = current /\ ~Due(f)
      BY <2>1, <2>2 DEF Inv, Keys, Due
    <3>3. QED
      BY <3>1, <3>2 DEF Right
  <2>7. client[c].known \in State /\ current \in State
    BY <2>1 DEF Inv, Typed, Row
  <2>8. QED
    BY <2>6, <2>7, StateEqual
<1>2. QED
  BY <1>1, Invariance, PTL

---------------------------------------------------------------------------
(* Every client reads the broadcast events in order, none missing and none  *)
(* twice, until its stream ends (run_sse_hub_loop, client_writer_loop): the *)
(* hub with its bounded queues implements the stream it promises.           *)

Position == [c \in Clients |-> from[c].at]
Reading == [c \in Clients |-> client[c].read]
Opened == [c \in Clients |-> client[c].writer]

LEMMA StreamInit ==
  ASSUME Init
  PROVE  Stream!Init
  BY DEF Init, Stream!Init, Away, NeverJoined

LEMMA SameStream ==
  ASSUME log' = log, Position' = Position, Reading' = Reading, Opened' = Opened
  PROVE  UNCHANGED Stream!vars
  BY DEF Stream!vars, Position, Reading, Opened

LEMMA SameClientsSameStream ==
  ASSUME log' = log, from' = from, \A c \in Clients : SameClient(client[c], client'[c])
  PROVE  UNCHANGED Stream!vars
<1>1. Position' = Position /\ Reading' = Reading /\ Opened' = Opened
  BY DEF Position, Reading, Opened, SameClient
<1>2. QED
  BY <1>1, SameStream

LEMMA StreamStep ==
  ASSUME Inv, [Next]_vars
  PROVE  [Stream!Next]_(Stream!vars)
<1>1. /\ client \in [Clients -> Row] /\ from \in [Clients -> [at : Nat, fresh : BOOLEAN]]
      /\ log \in Seq(Ids) /\ Typed /\ Waiting /\ Streams
  BY DEF Inv, Typed
<1>2. ASSUME log' = log, from' = from, client' = client
      PROVE  UNCHANGED Stream!vars
  BY <1>2, SameClientsSameStream DEF SameClient
<1>3. ASSUME NEW c \in Clients, Connect(c) \/ Disconnect(c)
      PROVE  UNCHANGED Stream!vars
  <2>1. \E b \in BOOLEAN : client' = [client EXCEPT ![c].connected = b]
    BY <1>3 DEF Connect, Disconnect
  <2>2. log' = log /\ from' = from
    BY <1>3 DEF Connect, Disconnect
  <2>3. \A d \in Clients : SameClient(client[d], client'[d])
    BY <1>1, <2>1, ConnectionSet
  <2>4. QED
    BY <2>2, <2>3, SameClientsSameStream
<1>4. ASSUME NEW c \in Clients, client[c].writer, End(c), log' = log
      PROVE  Stream!End(c)
  <2>1. client[c].sender \in BOOLEAN
    BY <1>1 DEF Row
  <2> DEFINE r == [Away EXCEPT !.sender = client[c].sender]
  <2>2. r.writer = FALSE /\ r.read = <<>>
    BY DEF Away
  <2>3. client' = [client EXCEPT ![c] = r] /\ from' = [from EXCEPT ![c] = NeverJoined]
    BY <1>4 DEF End
  <2> HIDE DEF r
  <2>4. /\ Position' = [Position EXCEPT ![c] = 0]
        /\ Reading' = [Reading EXCEPT ![c] = <<>>]
        /\ Opened' = [Opened EXCEPT ![c] = FALSE]
    BY <1>1, <2>2, <2>3 DEF Position, Reading, Opened, NeverJoined
  <2>5. Opened[c]
    BY <1>4 DEF Opened
  <2>6. QED
    BY <1>4, <2>4, <2>5 DEF Stream!End, Position, Reading, Opened
<1>5. ASSUME NEW c \in Clients, WriterStep(c)
      PROVE  Stream!Deliver(c) \/ Stream!End(c) \/ UNCHANGED Stream!vars
  <2>1. client[c].writer /\ log' = log
    BY <1>5 DEF WriterStep, Write, FinishWriter
  <2>2. CASE End(c)
    BY <1>4, <2>1, <2>2
  <2>3. CASE /\ client[c].queue # <<>>
             /\ client' = [client EXCEPT ![c] = Sent(client[c])] /\ from' = from
    <3> DEFINE r == client[c]
               s == Sent(r)
               next == from[c].at + Len(r.read) + 1
    <3>1. r \in Row /\ r.writer /\ r.queue # <<>> /\ from[c].at \in Nat
          /\ Follows(log, r, from[c].at)
      BY <1>1, <2>1, <2>3 DEF Streams
    <3>2. /\ s \in Row /\ s.sender = r.sender /\ s.writer = r.writer
          /\ Head(r.queue).id = 0 => s.read = r.read
      BY <3>1, SentRow
    <3>3. Head(r.queue).id # 0 =>
            next <= Len(log) /\ s.read = Append(r.read, log[next])
      BY <1>1, <3>1, FollowsSent
    <3>4. client' = [client EXCEPT ![c] = s]
      BY <2>3
    <3> HIDE DEF s
    <3>5. Position' = Position /\ Opened' = Opened
      BY <1>1, <2>3, <3>2, <3>4 DEF Position, Opened
    <3>6. CASE Head(r.queue).id = 0
      <4>1. Reading' = Reading
        BY <1>1, <3>2, <3>4, <3>6 DEF Reading
      <4>2. QED
        BY <2>1, <3>5, <4>1, SameStream
    <3>7. CASE Head(r.queue).id # 0
      <4>1. Reading' = [Reading EXCEPT ![c] = Append(Reading[c], log[next])]
        BY <1>1, <3>3, <3>4, <3>7 DEF Reading
      <4>2. Position[c] = from[c].at /\ Reading[c] = r.read /\ Opened[c]
        BY <2>1 DEF Position, Reading, Opened
      <4>3. QED
        BY <2>1, <3>3, <3>5, <3>7, <4>1, <4>2
           DEF Stream!Deliver, Position, Reading, Opened
    <3>8. QED
      BY <3>6, <3>7
  <2>4. QED
    BY <1>5, <2>2, <2>3 DEF WriterStep, Write, FinishWriter
<1>6. ASSUME Admit
      PROVE  (\E c \in Clients : Stream!Admit(c)) \/ UNCHANGED Stream!vars
  <2>1. PICK c \in Clients : c = Head(joining) /\ ~client[c].writer
    BY <1>1, <1>6, HeadJoins DEF Admit
  <2>2. \/ client' = [client EXCEPT ![c].connected = FALSE] /\ from' = from
        \/ /\ client' = [client EXCEPT ![c] = Admitted(c)]
           /\ from' = [from EXCEPT ![c] = [at |-> Len(log), fresh |-> latest = current]]
    BY <1>6, <2>1 DEF Admit
  <2>3. log' = log
    BY <1>6 DEF Admit
  <2>4. CASE client' = [client EXCEPT ![c].connected = FALSE] /\ from' = from
    BY <1>1, <2>1, <2>3, <2>4, ConnectionSet, SameClientsSameStream
  <2>5. CASE /\ client' = [client EXCEPT ![c] = Admitted(c)]
             /\ from' = [from EXCEPT ![c] = [at |-> Len(log), fresh |-> latest = current]]
    <3>1. Admitted(c).writer = TRUE /\ Admitted(c).read = <<>>
      BY <1>1, <2>1, AdmittedRow DEF Row
    <3>2. /\ Position' = [Position EXCEPT ![c] = Len(log)]
          /\ Reading' = [Reading EXCEPT ![c] = <<>>]
          /\ Opened' = [Opened EXCEPT ![c] = TRUE]
      BY <1>1, <2>1, <2>5, <3>1 DEF Position, Reading, Opened
    <3>3. ~Opened[c]
      BY <2>1 DEF Opened
    <3>4. Stream!Admit(c)
      BY <2>3, <3>2, <3>3 DEF Stream!Admit, Position, Reading, Opened
    <3>5. QED
      BY <3>4
  <2>6. QED
    BY <2>2, <2>4, <2>5
<1>7. ASSUME Broadcast
      PROVE  \E e \in Ids : Stream!Broadcast(e)
  <2> DEFINE m == Head(channel)
  <2>1. /\ channel # <<>> /\ from' = from /\ log' = Append(log, m.id)
        /\ client' = [c \in Clients |-> Offered(c, m)]
    BY <1>7 DEF Broadcast
  <2>2. channel \in Seq(Message) /\ Len(channel) \in Nat \ {0} /\ m \in Message /\ m = channel[1]
    BY <1>1, <2>1, HeadTailProperties, EmptySeq DEF Typed
  <2>3. m.id \in Ids
    <3>1. 1 \in 1..Len(channel) /\ published \in Nat /\ published <= MaxPublished
      BY <1>1, <2>2, Constants DEF Typed
    <3>2. m.id \in 1..published
      BY <2>2, <3>1 DEF Inv, Numbered
    <3>3. QED
      BY <3>1, <3>2, Constants DEF Ids
  <2> HIDE DEF m
  <2>4. \A c \in Clients : /\ client'[c].writer = client[c].writer
                           /\ client'[c].read = client[c].read
    BY <1>1, <2>1, <2>2, OfferedRow
  <2>5. Position' = Position /\ Reading' = Reading /\ Opened' = Opened
    BY <2>1, <2>4 DEF Position, Reading, Opened
  <2>6. Stream!Broadcast(m.id)
    BY <2>1, <2>5 DEF Stream!Broadcast, Position, Reading, Opened
  <2>7. QED
    BY <2>3, <2>6
<1>8. ASSUME Stop
      PROVE  UNCHANGED Stream!vars
  <2>1. /\ log' = log /\ from' = from
        /\ client' = [c \in Clients |->
             [client[c] EXCEPT !.sender = FALSE,
                               !.connected = client[c].connected /\ ~Contains(joining, c)]]
    BY <1>8 DEF Stop
  <2>2. \A c \in Clients : /\ client'[c].writer = client[c].writer
                           /\ client'[c].read = client[c].read
    BY <1>1, <2>1 DEF Row
  <2>3. Position' = Position /\ Reading' = Reading /\ Opened' = Opened
    BY <2>1, <2>2 DEF Position, Reading, Opened
  <2>4. QED
    BY <2>1, <2>3, SameStream
<1>9. ASSUME \/ \E output : Observe(output)
             \/ Publishing \/ NoneJoining \/ Timeout \/ LoopOn \/ RequestShutdown
             \/ UNCHANGED vars
      PROVE  log' = log /\ from' = from /\ client' = client
  BY <1>9 DEF Observe, Publishing, PublishScene, PublishSong, PublishPlay,
              NoneJoining, Timeout, LoopOn, RequestShutdown, vars
<1>10. CASE HubStep
  BY <1>2, <1>6, <1>7, <1>8, <1>9, <1>10 DEF HubStep, Stream!Next
<1>11. ASSUME NEW c \in Clients, Connect(c) \/ Disconnect(c) \/ WriterStep(c)
       PROVE  [Stream!Next]_(Stream!vars)
  BY <1>3, <1>5, <1>11 DEF Stream!Next
<1>12. QED
  BY <1>2, <1>9, <1>10, <1>11 DEF Next, Publishing

THEOREM StreamImplemented == Spec => ImplementsStream
<1>1. Init => Stream!Init
  BY StreamInit
<1>2. Inv /\ [Next]_vars => [Stream!Next]_(Stream!vars)
  BY StreamStep
<1>3. QED
  BY <1>1, <1>2, Invariance, PTL DEF Spec, ImplementsStream, Stream!Spec

============================================================================
