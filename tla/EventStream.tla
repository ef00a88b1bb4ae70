---------------------------- MODULE EventStream ----------------------------
(***************************************************************************)
(* What the SSE endpoint promises a client: from the moment it is admitted *)
(* it reads the broadcast events in order, none missing and none twice,    *)
(* until its stream ends.  It may end at any time, and only then do events *)
(* fail to reach it.                                                       *)
(***************************************************************************)
EXTENDS Naturals, Sequences

CONSTANTS Clients, Events

VARIABLES
  log,    \* the broadcast events, oldest first
  open,   \* open[c]: the stream of c is open
  from,   \* from[c]: length of the log when c was admitted
  read    \* read[c]: the events c has read since

vars == <<log, from, read, open>>

Init ==
  /\ log = <<>>
  /\ from = [c \in Clients |-> 0]
  /\ read = [c \in Clients |-> <<>>]
  /\ open = [c \in Clients |-> FALSE]

Broadcast(e) == log' = Append(log, e) /\ UNCHANGED <<from, read, open>>

Admit(c) ==
  /\ ~open[c]
  /\ open' = [open EXCEPT ![c] = TRUE]
  /\ from' = [from EXCEPT ![c] = Len(log)]
  /\ read' = [read EXCEPT ![c] = <<>>]
  /\ UNCHANGED log

Deliver(c) ==
  LET next == from[c] + Len(read[c]) + 1
  IN  /\ open[c]
      /\ next <= Len(log)
      /\ read' = [read EXCEPT ![c] = Append(@, log[next])]
      /\ UNCHANGED <<log, from, open>>

End(c) ==
  /\ open[c]
  /\ open' = [open EXCEPT ![c] = FALSE]
  /\ from' = [from EXCEPT ![c] = 0]
  /\ read' = [read EXCEPT ![c] = <<>>]
  /\ UNCHANGED log

Next == \/ \E e \in Events : Broadcast(e)
        \/ \E c \in Clients : Admit(c) \/ Deliver(c) \/ End(c)

Spec == Init /\ [][Next]_vars
============================================================================
