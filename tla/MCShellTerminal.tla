--------------------------- MODULE MCShellTerminal ---------------------------
(* ShellTerminal on a buffer of four lines of three columns: the prompt    *)
(* and one character fill a line, a command of CmdMax characters wraps     *)
(* twice, the fourth new line makes the buffer wrap, and a full history    *)
(* leaves two steps to scroll.                                             *)
EXTENDS ShellTerminal
=============================================================================
