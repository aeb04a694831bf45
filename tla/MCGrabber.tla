----------------------------- MODULE MCGrabber -----------------------------
(* Instances of Grabber for TLC: stdout and stderr of a stage are two      *)
(* descriptors, or the same pseudo-terminal.                               *)
EXTENDS Grabber

Pipes == [i \in {1, 2} |-> i]
Terminal == [i \in {1, 2} |-> 1]
=============================================================================
