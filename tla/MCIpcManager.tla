---------------------------- MODULE MCIpcManager ----------------------------
(* A band of three ports, of which the settings name the first or the last. *)
EXTENDS IpcManager
MCPort == {1, 2, 3}
MCIpcs == {1, 3, Off}
===========================================================================
