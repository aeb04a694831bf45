---------------------------- MODULE MCKtpClient ----------------------------
(* Instances of KtpClient for TLC.                                         *)
EXTENDS KtpClient

Option(mode, stop, pager_on, hup_at_end) ==
  [mode |-> mode, stop_on_error |-> stop, pager_enabled |-> pager_on, hup |-> hup_at_end]

(* Every mode, with a pipe or a terminal on stdin.                         *)
Started == {Option("interactive", FALSE, TRUE, TRUE),
            Option("list", TRUE, FALSE, TRUE), Option("list", FALSE, TRUE, TRUE),
            Option("stdin", TRUE, FALSE, TRUE)}

(* klish -c ... < file                                                     *)
FromFile == {Option("list", FALSE, FALSE, FALSE)}
=============================================================================
