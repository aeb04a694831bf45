------------------------------ MODULE MCKexec ------------------------------
(* Instances of Kexec for TLC: jobs of one to three stages.                *)
EXTENDS Kexec

Act == [sync |-> FALSE, silent |-> FALSE, permanent |-> FALSE,
        update_retcode |-> TRUE, exec_on |-> "success", ends |-> "itself"]

Script    == Act
Filter    == [Act EXCEPT !.ends = "eof"]
Flood     == [Act EXCEPT !.ends = "epipe"]
OnFail    == [Act EXCEPT !.exec_on = "fail"]
Never     == [Act EXCEPT !.exec_on = "never"]
Quiet     == [Act EXCEPT !.update_retcode = FALSE]
QuietFail == [Quiet EXCEPT !.exec_on = "fail"]
Always    == [Act EXCEPT !.exec_on = "always"]
Nav       == [Act EXCEPT !.sync = TRUE, !.permanent = TRUE]
Prompt    == [Act EXCEPT !.sync = TRUE, !.silent = TRUE]

(* Pipelines: a filter that waits for EOF, a command that writes until     *)
(* EPIPE, sync symbols and silent ones in every position.                  *)
PipeJobs == { << <<Script>>, <<Filter>> >>,
              << <<Flood>>, <<Script>> >>,
              << <<Nav, Quiet>>, <<Filter, OnFail>> >>,
              << <<Prompt>>, <<Prompt, Script>> >>,
              << <<Script, OnFail>>, <<Prompt, OnFail>> >>,
              << <<Flood>>, <<Script>>, <<Filter>> >> }

(* ACTION sequences with every exec_on and update_retcode, sync and async. *)
BlockJobs == { << <<Script, Never, OnFail, QuietFail, Always>> >>,
               << <<Nav, Quiet, OnFail, Prompt, Always>> >>,
               << <<Quiet, Nav, OnFail>> >>,
               << <<Prompt, QuietFail, Nav, Script>> >> }

Jobs == PipeJobs \cup BlockJobs
=============================================================================
