--------------------------- MODULE MCKtpdSession ---------------------------
(* Instances of KtpdSession for TLC.                                       *)
EXTENDS KtpdSession

Plain(cmd) == [cmd |-> cmd, kind |-> "empty", quit |-> FALSE]
Cmd(kind, quit) == [cmd |-> "CMD", kind |-> kind, quit |-> quit]

Work(procs, out, err, reads) ==
  [procs |-> procs, out |-> [STDOUT |-> out, STDERR |-> err], filter |-> reads,
   quiet |-> FALSE, features |-> {}]

(* The whole protocol, with commands that write little.                    *)
AnyRequest ==
  [requests |-> {Plain("AUTH"), Plain("COMPLETION"), Plain("NOTIFICATION"),
                 [Plain("HELP") EXCEPT !.kind = "error"], Plain("STDIN"),
                 Plain("STDOUT_CLOSE"),
                 Cmd("empty", FALSE), Cmd("error", FALSE), Cmd("silent", TRUE),
                 Cmd("proc", FALSE), Cmd("proc", TRUE)},
   works |-> {Work(1, 1, 0, FALSE)}, msgs |-> 4, term |-> FALSE]

(* Messages the protocol does not know, and broken ones.                   *)
Alien ==
  [requests |-> {Plain("AUTH"), Plain("UNSUPPORTED"), Plain("BROKEN"), Plain("STDIN"),
                 Cmd("error", FALSE), Cmd("proc", TRUE)},
   works |-> {Work(1, 1, 0, FALSE)}, msgs |-> 4, term |-> FALSE]

(* Data for a command that reads its stdin to the end; also with SIGTERM,  *)
(* and piped to one that needs no process.                                 *)
SendsInput ==
  [requests |-> {Plain("AUTH"), Cmd("proc", FALSE), Plain("STDIN"), Plain("STDIN_CLOSE")},
   works |-> {Work(1, 0, 0, TRUE)}, msgs |-> 5, term |-> FALSE]
Interrupted ==
  [SendsInput EXCEPT !.msgs = 4, !.term = TRUE,
     !.works = {[w EXCEPT !.quiet = q] : w \in @, q \in BOOLEAN}]

(* Two processes that write more than the buffers hold, to both streams.   *)
TakesOutput ==
  [requests |-> {Plain("AUTH"), Cmd("proc", FALSE), Plain("STDOUT_CLOSE")},
   works |-> {Work(2, 3, 1, FALSE)}, msgs |-> 3, term |-> FALSE]

ProtocolPlans == [any |-> AnyRequest, alien |-> Alien]
StreamPlans ==
  [input |-> SendsInput, output |-> TakesOutput, sigterm |-> Interrupted]
InputPlans == [input |-> SendsInput]
=============================================================================
