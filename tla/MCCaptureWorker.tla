-------------------------- MODULE MCCaptureWorker --------------------------
EXTENDS CaptureWorker

CONSTANTS w1, w2, w3, small, large

MCPlatforms == {"linux", "windows"}
MCWindows == {w1, w2, w3}
MCUnsupported == {w3}
MCSizes == {small, large}
============================================================================
