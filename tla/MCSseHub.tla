----------------------------- MODULE MCSseHub -----------------------------
EXTENDS SseHub

CONSTANTS a, b, x, c1, c2

MCScenes == {a, b}
MCSongs == {x}
MCClients == {c1, c2}
============================================================================
