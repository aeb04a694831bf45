-------------------------------- MODULE Ktp --------------------------------
(***************************************************************************)
(* The messages of the Klish Transfer Protocol (klish/ktp.h and            *)
(* klish/ktp/ktp.c), as both sides of a session build and recognize them.  *)
(* A message to the client carries the number n of the command it belongs  *)
(* to (0: none), which is not part of the protocol: the two sides never    *)
(* look at it, the properties do.                                          *)
(***************************************************************************)
EXTENDS Integers, Sequences

CONSTANT MaxOut \* bound: units a command writes to a stream, and of one message

ASSUME MaxOutAssumption == MaxOut \in Nat

(* What a client may send: the requests of the protocol, one of another    *)
(* kind, and one with a broken header.                                     *)
Commands == {"AUTH", "CMD", "COMPLETION", "HELP", "NOTIFICATION", "STDIN",
             "STDIN_CLOSE", "STDOUT_CLOSE", "STDERR_CLOSE", "UNSUPPORTED", "BROKEN"}

Ack == [AUTH |-> "AUTH_ACK", CMD |-> "CMD_ACK", HELP |-> "HELP_ACK",
        COMPLETION |-> "COMPLETION_ACK"]

Streams == {"STDOUT", "STDERR"}

(* KTP_STATUS_NEED_STDIN and KTP_STATUS_INTERACTIVE: features of a command. *)
Features == {"NEED_STDIN", "INTERACTIVE"}
Flags == {"INCOMPLETED", "EXIT", "ERROR"} \cup Features

AnswerType == [cmd: {Ack[c] : c \in DOMAIN Ack} \cup Streams \cup {"NOTIFICATION"},
               n: Nat, status: SUBSET Flags, len: Nat]

(* ktp_msg_preform(), ktp_send_error().                                    *)
Answer(cmd, n, status) == [cmd |-> cmd, n |-> n, status |-> status, len |-> 0]
Error(cmd, n) == Answer(cmd, n, {"ERROR"})

(* len units of output of command n; no message at all if there is none.   *)
Data(s, n, len) ==
  IF len = 0 THEN << >>
  ELSE << [cmd |-> s, n |-> n, status |-> {}, len |-> len] >>

(* Wrong variants of a definition stand before it; a run with the variant  *)
(* in its place violates the property the variant is for.                  *)
ExitStatusForgotten(over) == {}

ExitStatus(over) == IF over THEN {"EXIT"} ELSE {}

FinalAnswerFirst(n, data, over) ==
  <<Answer("CMD_ACK", n, ExitStatus(over))>> \o
  Data("STDOUT", n, data["STDOUT"]) \o Data("STDERR", n, data["STDERR"])

FinalAnswerOnly(n, data, over) == <<Answer("CMD_ACK", n, ExitStatus(over))>>

(* The last output of command n and its final answer, which tells the      *)
(* client when the session is over.                                        *)
FinalAnswer(n, data, over) ==
  Data("STDOUT", n, data["STDOUT"]) \o Data("STDERR", n, data["STDERR"]) \o
  <<Answer("CMD_ACK", n, ExitStatus(over))>>

IsFinal(m, n) == m.cmd = "CMD_ACK" /\ m.n = n /\ "INCOMPLETED" \notin m.status
IsOutput(m, n) == m.cmd \in Streams /\ m.n = n
=============================================================================
