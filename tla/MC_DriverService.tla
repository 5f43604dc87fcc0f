------------------------ MODULE MC_DriverService ---------------------------
(* Small instances of DriverService for TLC. *)
EXTENDS DriverService

AllFaults == {"scm", "create", "open", "start", "device", "calloc", "stop",
              "delete"}
=============================================================================
