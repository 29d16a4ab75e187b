-------------------------- MODULE MCStartupMonitor --------------------------
(* Two exit codes tell the container's own code from any other. *)
EXTENDS StartupMonitor

MCExitCodes == {0, 137}
=============================================================================
