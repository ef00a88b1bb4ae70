------------------------------ MODULE SseHub ------------------------------
(***************************************************************************)
(* The SSE event path (overmax_runtime): the GUI thread projects every     *)
(* detection output into the state cache and into events (ipc_observer.rs, *)
(* ipc_server.rs), the hub thread fans them out, and one writer thread per *)
(* client writes them to its socket (transport/sse.rs).  Both kinds of     *)
(* queue are bounded; nobody ever waits for a queue to have room.          *)
(***************************************************************************)
EXTENDS Naturals, Sequences, FiniteSets, SequencesExt

CONSTANTS
  Clients,
  Scenes, Songs,   \* what scene_detected and song_detected events tell
  NoScene, NoSong,
  MaxPublished,    \* bound on the events published in a behaviour
  HubCapacity,     \* HUB_CHANNEL_CAPACITY
  ClientCapacity,  \* CLIENT_QUEUE_CAPACITY
  MaxClients       \* MAX_CLIENTS

ASSUME SseAssumption ==
  /\ NoScene \notin Scenes /\ NoSong \notin Songs
  /\ MaxPublished \in Nat
  /\ {HubCapacity, ClientCapacity, MaxClients} \subseteq Nat \ {0}

Ids == 1..MaxPublished

(* A scene, and the song context that was stable last. *)
State == [scene : Scenes \cup {NoScene}, song : Songs \cup {NoSong}]
Nothing == [scene |-> NoScene, song |-> NoSong]
Told(s, m) == [scene |-> IF m.scene = NoScene THEN s.scene ELSE m.scene,
               song |-> IF m.song = NoSong THEN s.song ELSE m.song]

(* An event tells a scene, a song or (play_verified) neither; the snapshot, *)
(* which has id 0, tells both.                                              *)
Message == [id : 0..MaxPublished, tells : State]

VARIABLES
  gui,        \* where the GUI thread is in IpcObserver::on_update
  current,    \* the scene and the stable song of the outputs so far
  latest,     \* LATEST_STATE
  lastKey,    \* IpcObserver::last_scene_key and last_context_key
  published,  \* number of events published
  dropped,    \* those that found the hub channel full
  channel,    \* the channel from the GUI to the hub thread
  joining,    \* accepted SSE streams on their way to the hub
  hub,        \* where the hub thread is in its loop
  shutdown,   \* TransportHandle::shutdown
  client,     \* per client: its stream, its queue and what it read
  log,        \* history: ids of the broadcast events
  from        \* history: per client, what it joined at

guiVars == <<gui, current, latest, lastKey, published, dropped>>
vars == <<guiVars, channel, joining, hub, shutdown, client, log, from>>

(* sender: the hub holds the sending half of its queue; writer: its writer  *)
(* thread runs; connected: the peer still reads; read: the events it was    *)
(* sent; known: the state the last message told it.  Frames are numbered in *)
(* the order they are written, from 0 for each connection.                  *)
Client == [sender : BOOLEAN, writer : BOOLEAN, connected : BOOLEAN,
           queue : UNION {[1..n -> Message] : n \in 0..ClientCapacity},
           read : UNION {[1..n -> Ids] : n \in 0..MaxPublished},
           known : State]

Away == [sender |-> FALSE, writer |-> FALSE, connected |-> FALSE,
         queue |-> <<>>, read |-> <<>>, known |-> Nothing]

NeverJoined == [at |-> 0, fresh |-> TRUE]

---------------------------------------------------------------------------
(* GUI thread: IpcObserver::on_update *)

(* An output that is not stable leaves the stable song as it was.           *)
(* update_latest_state gives up when an RPC or the hub holds the lock.      *)
Observe(output) ==
  /\ gui = "idle" /\ published < MaxPublished
  /\ gui' = "scene"
  /\ current' = Told(current, output)
  /\ latest' \in {Told(latest, output), latest}
  /\ UNCHANGED <<lastKey, published, dropped, channel, joining, hub, shutdown,
                 client, log, from>>

(* Mistake: the channel to the hub is unbounded. *)
TrySendUnbounded(tells) ==
  /\ published < MaxPublished
  /\ published' = published + 1
  /\ channel' = Append(channel, [id |-> published + 1, tells |-> tells])
  /\ UNCHANGED dropped

(* IpcPublisher::publish *)
TrySend(tells) ==
  LET id == published + 1
  IN  /\ published < MaxPublished
      /\ published' = id
      /\ IF Len(channel) < HubCapacity /\ hub # "stopped"
           THEN channel' = Append(channel, [id |-> id, tells |-> tells]) /\ UNCHANGED dropped
           ELSE dropped' = dropped \cup {id} /\ UNCHANGED channel

NothingSent == UNCHANGED <<published, dropped, channel>>

PublishScene ==
  /\ gui = "scene"
  /\ gui' = "song"
  /\ lastKey' = [lastKey EXCEPT !.scene = current.scene]
  /\ IF lastKey.scene # current.scene THEN TrySend([Nothing EXCEPT !.scene = current.scene])
     ELSE NothingSent
  /\ UNCHANGED <<current, latest, joining, hub, shutdown, client, log, from>>

PublishSong ==
  /\ gui = "song"
  /\ gui' \in {"play", "idle"}
  /\ lastKey' = [lastKey EXCEPT !.song = current.song]
  /\ IF lastKey.song # current.song THEN TrySend([Nothing EXCEPT !.song = current.song])
     ELSE NothingSent
  /\ UNCHANGED <<current, latest, joining, hub, shutdown, client, log, from>>

PublishPlay ==
  /\ gui = "play"
  /\ gui' = "idle"
  /\ IF published < MaxPublished THEN TrySend(Nothing) ELSE NothingSent
  /\ UNCHANGED <<current, latest, lastKey, joining, hub, shutdown, client, log, from>>

---------------------------------------------------------------------------
(* Clients and the accepting side *)

Connect(c) ==
  /\ ~client[c].writer /\ ~client[c].sender /\ ~client[c].connected
  /\ ~Contains(joining, c)
  /\ hub # "stopped"
  /\ joining' = Append(joining, c)
  /\ client' = [client EXCEPT ![c].connected = TRUE]
  /\ UNCHANGED <<guiVars, channel, hub, shutdown, log, from>>

Disconnect(c) ==
  /\ client[c].connected
  /\ client' = [client EXCEPT ![c].connected = FALSE]
  /\ UNCHANGED <<guiVars, channel, joining, hub, shutdown, log, from>>

---------------------------------------------------------------------------
(* Hub thread: run_sse_hub_loop *)

Listed == {c \in Clients : client[c].sender}

(* Mistake: a new client gets no snapshot. *)
AdmittedBlind(c) ==
  [Away EXCEPT !.sender = TRUE, !.writer = TRUE,
               !.connected = client[c].connected]

Admitted(c) ==
  [Away EXCEPT !.sender = TRUE, !.writer = TRUE,
               !.connected = client[c].connected,
               !.queue = IF latest = Nothing THEN <<>>
                          ELSE <<[id |-> 0, tells |-> latest]>>]

Admit ==
  /\ hub = "admit" /\ joining # <<>>
  /\ joining' = Tail(joining)
  /\ LET c == Head(joining)
     IN  IF Cardinality(Listed) >= MaxClients
           THEN /\ client' = [client EXCEPT ![c].connected = FALSE]
                /\ UNCHANGED from
           ELSE /\ client' = [client EXCEPT ![c] = Admitted(c)]
                /\ from' = [from EXCEPT ![c] =
                     [at |-> Len(log), fresh |-> latest = current]]
  /\ UNCHANGED <<guiVars, channel, hub, shutdown, log>>

NoneJoining ==
  /\ hub = "admit" /\ joining = <<>>
  /\ hub' = "receive"
  /\ UNCHANGED <<guiVars, channel, joining, shutdown, client, log, from>>

Accepts(c) == client[c].writer /\ Len(client[c].queue) < ClientCapacity

(* Mistake: a client whose queue is full misses the event. *)
OfferedOrSkipped(c, m) ==
  IF client[c].sender /\ Accepts(c)
    THEN [client[c] EXCEPT !.queue = Append(@, m)]
    ELSE client[c]

(* A client whose queue is full or whose writer ended loses its sender. *)
Offered(c, m) ==
  IF ~client[c].sender THEN client[c]
  ELSE IF Accepts(c) THEN [client[c] EXCEPT !.queue = Append(@, m)]
  ELSE [client[c] EXCEPT !.sender = FALSE]

Broadcast ==
  /\ hub = "receive" /\ channel # <<>>
  /\ hub' = "top"
  /\ channel' = Tail(channel)
  /\ log' = Append(log, Head(channel).id)
  /\ client' = [c \in Clients |-> Offered(c, Head(channel))]
  /\ UNCHANGED <<guiVars, joining, shutdown, from>>

Timeout ==
  /\ hub = "receive" /\ channel = <<>>
  /\ hub' = "top"
  /\ UNCHANGED <<guiVars, channel, joining, shutdown, client, log, from>>

LoopOn ==
  /\ hub = "top" /\ ~shutdown
  /\ hub' = "admit"
  /\ UNCHANGED <<guiVars, channel, joining, shutdown, client, log, from>>

(* Mistake: the senders outlive the loop. *)
StopKeepingSenders ==
  /\ hub = "top" /\ shutdown
  /\ hub' = "stopped"
  /\ channel' = <<>>
  /\ joining' = <<>>
  /\ UNCHANGED <<guiVars, shutdown, client, log, from>>

(* Leaving the loop drops every sender, and the streams nobody admitted. *)
Stop ==
  /\ hub = "top" /\ shutdown
  /\ hub' = "stopped"
  /\ channel' = <<>>
  /\ joining' = <<>>
  /\ client' = [c \in Clients |->
       [client[c] EXCEPT !.sender = FALSE,
                         !.connected = @ /\ ~Contains(joining, c)]]
  /\ UNCHANGED <<guiVars, shutdown, log, from>>

RequestShutdown ==
  /\ ~shutdown
  /\ shutdown' = TRUE
  /\ UNCHANGED <<guiVars, channel, joining, hub, client, log, from>>

HubStep == Admit \/ NoneJoining \/ Broadcast \/ Timeout \/ LoopOn \/ Stop

---------------------------------------------------------------------------
(* Writer threads: client_writer_loop *)

Sent(r) ==
  LET m == Head(r.queue)
  IN  [r EXCEPT !.queue = Tail(@),
                !.known = Told(@, m.tells),
                !.read = IF m.id = 0 THEN @ ELSE Append(@, m.id)]

(* The writer returns: its half of the queue and its stream are dropped. *)
End(c) ==
  /\ client' = [client EXCEPT ![c] = [Away EXCEPT !.sender = client[c].sender]]
  /\ from' = [from EXCEPT ![c] = NeverJoined]

Write(c) ==
  /\ client[c].writer /\ client[c].queue # <<>>
  /\ IF client[c].connected
       THEN client' = [client EXCEPT ![c] = Sent(@)] /\ UNCHANGED from
       ELSE End(c)
  /\ UNCHANGED <<guiVars, channel, joining, hub, shutdown, log>>

(* The heartbeat finds a closed connection; a dropped sender closes it. *)
FinishWriter(c) ==
  /\ client[c].writer /\ client[c].queue = <<>>
  /\ ~(client[c].connected /\ client[c].sender)
  /\ End(c)
  /\ UNCHANGED <<guiVars, channel, joining, hub, shutdown, log>>

WriterStep(c) == Write(c) \/ FinishWriter(c)

---------------------------------------------------------------------------
Init ==
  /\ gui = "idle" /\ current = Nothing /\ latest = Nothing /\ lastKey = Nothing
  /\ published = 0 /\ dropped = {}
  /\ channel = <<>> /\ joining = <<>>
  /\ hub = "top" /\ shutdown = FALSE
  /\ client = [c \in Clients |-> Away]
  /\ log = <<>>
  /\ from = [c \in Clients |-> NeverJoined]

Next ==
  \/ \E scene \in Scenes, song \in Songs \cup {NoSong} :
       Observe([scene |-> scene, song |-> song])
  \/ PublishScene
  \/ PublishSong
  \/ PublishPlay
  \/ \E c \in Clients : Connect(c) \/ Disconnect(c) \/ WriterStep(c)
  \/ HubStep
  \/ RequestShutdown

Spec == Init /\ [][Next]_vars

(* The hub thread keeps running and idle writers keep looking at their      *)
(* queue and connection.  The manager accepts one connection per 250 ms, so *)
(* the hub finds nobody joining again and again and then gets to see it.    *)
(* A write has no timeout: that it returns is up to the peer.               *)
FairSpec == /\ Spec
            /\ WF_vars(HubStep) /\ SF_vars(NoneJoining)
            /\ \A c \in Clients : WF_vars(FinishWriter(c))
PeerReads(c) == WF_vars(Write(c))

---------------------------------------------------------------------------
(* Type invariant: queues within the capacities of loopback.rs and sse.rs. *)
TypeOK ==
  /\ gui \in {"idle", "scene", "song", "play"}
  /\ {current, latest, lastKey} \subseteq State
  /\ published \in 0..MaxPublished /\ dropped \subseteq Ids
  /\ channel \in UNION {[1..n -> Message] : n \in 0..HubCapacity}
  /\ IsInjective(joining) /\ ToSet(joining) \subseteq Clients
  /\ hub \in {"top", "admit", "receive", "stopped"}
  /\ shutdown \in BOOLEAN
  /\ client \in [Clients -> Client]
  /\ IsInjective(log) /\ ToSet(log) \subseteq Ids

(* The hub implements the stream a client is promised: admitted clients     *)
(* read every broadcast event in order until their stream ends; a client    *)
(* that cannot keep up is cut off, never skipped (run_sse_hub_loop,         *)
(* client_writer_loop).                                                     *)
Stream == INSTANCE EventStream WITH
  Events <- Ids,
  log <- log,
  from <- [c \in Clients |-> from[c].at],
  read <- [c \in Clients |-> client[c].read],
  open <- [c \in Clients |-> client[c].writer]
ImplementsStream == Stream!Spec

(* A client with nothing left to read, that joined with a current snapshot, *)
(* knows the state the GUI handled last, unless an event was dropped after  *)
(* the last one broadcast before it joined: the snapshot and the events     *)
(* behind it leave no hole between them.                                    *)
Quiet(c) == /\ client[c].sender /\ client[c].writer /\ client[c].queue = <<>>
            /\ gui \in {"idle", "play"} /\ channel = <<>>
Missed(c) == \E id \in dropped : \A i \in 1..from[c].at : log[i] < id
QuietClientIsCurrent ==
  \A c \in Clients :
    Quiet(c) /\ from[c].fresh /\ ~Missed(c) => client[c].known = current

(* After shutdown the writer of a client that reads, or goes away, ends:    *)
(* the dropped sender reaches it behind what is still queued.  A client     *)
(* whose socket is stuck holds up its own writer and nobody else's.         *)
ShutdownEndsWriters ==
  \A c \in Clients : PeerReads(c) => (shutdown ~> ~client[c].writer)
============================================================================
