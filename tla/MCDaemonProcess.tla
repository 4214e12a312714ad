--------------------------- MODULE MCDaemonProcess ---------------------------
(* Two daemons take turns, or try to run at once; one client.                 *)
EXTENDS DaemonProcess
=============================================================================
