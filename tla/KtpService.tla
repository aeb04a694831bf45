----------------------------- MODULE KtpService -----------------------------
(***************************************************************************)
(* What a klishd session promises its client: the order of KTP messages,   *)
(* without buffers, streams and processes.  Module KtpdSession implements  *)
(* it, module KtpClient relies on it.                                      *)
(*                                                                         *)
(* A session is "unauthorized", "idle", or "running" a command that its    *)
(* processes will finish.  Every request is served in one step and in the  *)
(* order of arrival; a request the phase does not allow is refused.        *)
(***************************************************************************)
EXTENDS Ktp

CONSTANT Requests \* what clients send: records with a field "cmd"

VARIABLES
  c2s,          \* requests on their way
  s2c,          \* everything ever sent to the client
  phase,
  cur,          \* number of the running command, 0 if there is none
  ncmd,         \* commands served so far
  eof,          \* the client has closed the running command's stdin
  up            \* is the session alive

vars == <<c2s, s2c, phase, cur, ncmd, eof, up>>

Streaming == {"STDIN", "STDIN_CLOSE", "STDOUT_CLOSE", "STDERR_CLOSE"}
Phases == {"unauthorized", "idle", "running"}

TypeOK ==
  /\ c2s \in Seq(Requests)
  /\ s2c \in Seq(AnswerType)
  /\ phase \in Phases
  /\ ncmd \in Nat /\ cur \in 0 .. ncmd
  /\ eof \in BOOLEAN /\ up \in BOOLEAN

Init ==
  /\ c2s = << >> /\ s2c = << >>
  /\ phase = "unauthorized" /\ cur = 0 /\ ncmd = 0
  /\ eof = FALSE /\ up = TRUE

-----------------------------------------------------------------------------
Send(m) ==
  /\ c2s' = Append(c2s, m)
  /\ UNCHANGED <<s2c, phase, cur, ncmd, eof, up>>

(* The next request is served.                                             *)
Serve(cmd, answers) ==
  /\ up /\ c2s # << >> /\ Head(c2s).cmd = cmd
  /\ c2s' = Tail(c2s)
  /\ s2c' = s2c \o answers
  /\ UNCHANGED up

Auth ==
  /\ phase # "running"
  /\ \/ Serve("AUTH", <<Answer("AUTH_ACK", 0, {})>>) /\ phase' = "idle"
     \/ Serve("AUTH", <<Answer("AUTH_ACK", 0, {"ERROR", "EXIT"})>>) /\ UNCHANGED phase
  /\ UNCHANGED <<cur, ncmd, eof>>

(* A command that needs no process: empty, wrong, or silent.               *)
Outputs == [Streams -> 0 .. MaxOut]

AnswerCmd ==
  /\ phase = "idle"
  /\ ncmd' = ncmd + 1
  /\ \/ Serve("CMD", <<Error("CMD_ACK", ncmd')>>)
     \/ \E data \in Outputs, over \in BOOLEAN :
          Serve("CMD", FinalAnswer(ncmd', data, over))
  /\ UNCHANGED <<phase, cur, eof>>

StartCmd ==
  /\ phase = "idle"
  /\ ncmd' = ncmd + 1
  /\ \E f \in SUBSET Features :
       Serve("CMD", <<Answer("CMD_ACK", ncmd', {"INCOMPLETED"} \cup f)>>)
  /\ phase' = "running" /\ cur' = ncmd' /\ eof' = FALSE

AnswerHint(cmd) ==
  /\ phase = "idle"
  /\ \/ Serve(cmd, <<Error(Ack[cmd], 0)>>)
     \/ \E over \in BOOLEAN : Serve(cmd, <<Answer(Ack[cmd], 0, ExitStatus(over))>>)
  /\ UNCHANGED <<phase, cur, ncmd, eof>>

(* Requests that are not answered: what concerns the streams of the        *)
(* running command, and notifications.                                     *)
Accept(cmd) ==
  /\ phase = "running"
  /\ Serve(cmd, << >>)
  /\ eof' = (eof \/ cmd = "STDIN_CLOSE")
  /\ UNCHANGED <<phase, cur, ncmd>>

Notified ==
  /\ Serve("NOTIFICATION", << >>)
  /\ UNCHANGED <<phase, cur, ncmd, eof>>

(* Input that was on its way when the command ended.                       *)
TooLate(cmd) ==
  /\ phase # "running"
  /\ \/ cmd = "STDIN" /\ Serve(cmd, <<Error("NOTIFICATION", 0)>>)
     \/ cmd \in {"STDIN_CLOSE", "STDOUT_CLOSE", "STDERR_CLOSE"} /\ Serve(cmd, << >>)
  /\ UNCHANGED <<phase, cur, ncmd, eof>>

RefuseCmd ==
  /\ phase # "idle"
  /\ ncmd' = ncmd + 1
  /\ Serve("CMD", <<Error("CMD_ACK", ncmd')>>)
  /\ UNCHANGED <<phase, cur, eof>>

(* Requests that the client klish never sends: out of phase, of no known   *)
(* kind, or broken.                                                        *)
Refuse ==
  /\ \/ /\ phase # "idle"
        /\ \E cmd \in {"COMPLETION", "HELP"} : Serve(cmd, <<Error(Ack[cmd], 0)>>)
     \/ phase = "running" /\ Serve("AUTH", <<Error("AUTH_ACK", 0)>>)
     \/ Serve("UNSUPPORTED", <<Error("NOTIFICATION", 0)>>)
     \/ Serve("BROKEN", << >>)
  /\ UNCHANGED <<phase, cur, ncmd, eof>>

Output(s) ==
  /\ up /\ phase = "running"
  /\ \E len \in 1 .. MaxOut : s2c' = s2c \o Data(s, cur, len)
  /\ UNCHANGED <<c2s, phase, cur, ncmd, eof, up>>

(* The running command is over, and the session too if the answer says so. *)
Finish ==
  /\ up /\ phase = "running"
  /\ \E data \in Outputs, over \in BOOLEAN :
       /\ s2c' = s2c \o FinalAnswer(cur, data, over)
       /\ up' = ~over
  /\ phase' = "idle" /\ cur' = 0 /\ eof' = FALSE
  /\ UNCHANGED <<c2s, ncmd>>

Down ==
  /\ up' = FALSE
  /\ UNCHANGED <<c2s, s2c, phase, cur, ncmd, eof>>

-----------------------------------------------------------------------------
(* Requests that are served when a client like klish sends them.           *)
Request ==
  \/ Auth \/ AnswerCmd \/ StartCmd \/ RefuseCmd
  \/ \E cmd \in {"COMPLETION", "HELP"} : AnswerHint(cmd)
  \/ \E cmd \in Streaming : Accept(cmd) \/ TooLate(cmd)
  \/ Notified

Next ==
  \/ \E m \in Requests : Send(m)
  \/ Request \/ Refuse
  \/ \E s \in Streams : Output(s)
  \/ Finish \/ Down

Spec == Init /\ [][Next]_vars

-----------------------------------------------------------------------------
(* Every KTP_CMD served has exactly one final KTP_CMD_ACK, the running one  *)
(* none as yet: no path through process_cmd(), the refusals of dispatch()   *)
(* and wait_for_actions_ev() forgets the answer or gives a second one.      *)
OneFinalAnswer ==
  \A n \in 1 .. ncmd :
    /\ n # cur => \E i \in DOMAIN s2c : IsFinal(s2c[i], n)
    /\ n = cur => \A i \in DOMAIN s2c : ~IsFinal(s2c[i], n)
    /\ \A i, j \in DOMAIN s2c : IsFinal(s2c[i], n) /\ IsFinal(s2c[j], n) => i = j

(* Output of a command is never sent after its final answer.                *)
OutputBeforeFinal ==
  \A i, j \in DOMAIN s2c :
    IsFinal(s2c[i], s2c[i].n) /\ IsOutput(s2c[j], s2c[i].n) => j < i
=============================================================================
