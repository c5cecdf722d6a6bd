--------------------------- MODULE MCScopeEngine ---------------------------
(* Small instances of ScopeEngine for TLC; the .cfg files choose the mode. *)
EXTENDS ScopeInvariant

Polling     == {"check_data", "get_data", "say_ready"}
Resizing    == Polling \cup {"pause", "set_nsamp"}
FreeRunning == Resizing \cup {"set_ndown"}
Triggering  == Polling \cup {"pause", "trigger_on"}
\* Without acknowledgements, which the trigger does not wait for.
Switching   == (Triggering \ {"say_ready"}) \cup {"trigger_off"}
AllCommands == FreeRunning \cup Switching \cup {"link2meas", "stop_acq"}
====
