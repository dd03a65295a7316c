------------------------------ MODULE MCConsole ------------------------------
(* Console with room for two characters in the command buffer: "c" makes   *)
(* the shell spin, ">" and " " are unknown commands.                       *)
EXTENDS Console

UkCmd == <<" ", ">">>
=============================================================================
