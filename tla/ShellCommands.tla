---------------------------- MODULE ShellCommands ----------------------------
(***************************************************************************)
(* The commands of the shell (shell/test.s), and the command lines it does *)
(* not come back from.                                                     *)
(***************************************************************************)

Utility == {"wordgame", "cd", "pwd", "ls"}

(* wordgame_cmd, cd_cmd, pwd_cmd and ls_cmd, without the NUL that ends     *)
(* each.                                                                   *)
Name == [ wordgame |-> <<"w", "o", "r", "d", "g", "a", "m", "e">>,
          cd       |-> <<"c", "d">>,
          pwd      |-> <<"p", "w", "d">>,
          ls       |-> <<"l", "s">> ]

(* check_cd, check_pwd and check_ls compare the first character only, over *)
(* and over: on these lines process_shell_cmd never returns (Dispatch      *)
(* checks that these are the ones).                                        *)
Spins(line) == line[1] \in {"c", "p", "l"}
=============================================================================
