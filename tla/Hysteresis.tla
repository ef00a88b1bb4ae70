---------------------------- MODULE Hysteresis ----------------------------
(***************************************************************************)
(* HysteresisBuffer (overmax_engine hysteresis.rs) with the parameters     *)
(* the detection pipeline gives it: the majority of the last four scene    *)
(* inspections decides whether a song-select or result screen is showing.  *)
(* Ratios are compared as integers.                                        *)
(***************************************************************************)
EXTENDS Integers, FiniteSets, Sequences

Length == 4        \* HysteresisBuffer::new(4, 0.5, 2, 0.25, 2)
MinSamples == 2

Buffer == [samples : UNION {[1..n -> BOOLEAN] : n \in 0..Length},
           active : BOOLEAN, leaving : BOOLEAN]

EmptyBuffer == [samples |-> <<>>, active |-> FALSE, leaving |-> FALSE]

Hits(samples, from, to) == Cardinality({i \in from..to : samples[i]})

Push(samples, hit) ==
  Append(IF Len(samples) = Length THEN Tail(samples) ELSE samples, hit)

StaysActive(n, hits) == ~(n >= MinSamples /\ 4 * hits <= n)
TurnsActive(n, hits) == n >= MinSamples /\ 2 * hits >= n

(* The older half saw the screen, the newer half never did. *)
OnlyOlderHits(samples) ==
  LET n == Len(samples)
  IN  /\ n >= 4
      /\ Hits(samples, 1, n \div 2) > 0
      /\ Hits(samples, n \div 2 + 1, n) = 0

Updated(b, hit) ==
  LET samples == Push(b.samples, hit)
      n == Len(samples)
      hits == Hits(samples, 1, n)
      active == IF b.active THEN StaysActive(n, hits) ELSE TurnsActive(n, hits)
  IN  [samples |-> samples, active |-> active,
       leaving |-> active /\ OnlyOlderHits(samples)]
===========================================================================
