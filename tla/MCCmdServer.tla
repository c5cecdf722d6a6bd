---------------------------- MODULE MCCmdServer ----------------------------
(* Small instances of CmdServer for TLC. *)
EXTENDS CmdInvariant

AllCommands == {"direct", "get_data", "delayed", "stop_acq"}

\* A Simulink model passes stop_acq over and has no one to do delayed commands.
ModelCommands == {"direct", "get_data"}
====
