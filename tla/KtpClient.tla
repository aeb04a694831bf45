----------------------------- MODULE KtpClient -----------------------------
(***************************************************************************)
(* The client klish (bin/klish/klish.c) on top of its protocol session     *)
(* (klish/ktp/ktp_session.c), talking to a session of klishd that keeps    *)
(* the promise of KtpService.                                              *)
(*                                                                         *)
(* The client is an event loop: server_ev() writes what was stalled, then  *)
(* dispatches the messages that have arrived ("inev" in between) and looks *)
(* at the done flag; stdin_cb() reads keys, or data for the command, from  *)
(* the client's stdin; signals come in between.                            *)
(***************************************************************************)
EXTENDS Ktp

CONSTANTS
  Options,      \* how the client is started: see OptionType
  Codes,        \* return codes of commands
  SockCap,      \* requests the socket to the server takes
  ObufLimit,    \* OBUF_LIMIT, in requests
  MaxCmds,      \* bound: commands of the script, or typed
  MaxInput,     \* bound: units of data, or keys, to come from stdin
  MaxInFlight,  \* bound: output messages on their way to the client
  MaxSignals    \* bound: SIGWINCHs and terminal signals

(* mode: interactive, a list of commands (options and files), or commands  *)
(* from stdin; hup: does poll() report the end of stdin as POLLHUP, as for *)
(* pipes and terminals, or not, as for files and /dev/null.                *)
OptionType == [mode: {"interactive", "list", "stdin"}, stop_on_error: BOOLEAN,
               pager_enabled: BOOLEAN, hup: BOOLEAN]

ASSUME OptionsAssumption == Options \subseteq OptionType
ASSUME CodesAssumption == Codes \subseteq Int /\ 0 \in Codes
ASSUME LimitsAssumption ==
  /\ SockCap \in Nat \ {0} /\ ObufLimit \in Nat /\ MaxInFlight \in Nat
  /\ MaxCmds \in Nat /\ MaxInput \in Nat /\ MaxSignals \in Nat

VARIABLES
  c2s, s2c, phase, cur, ncmd, eof, up,  \* KtpService; s2c is what is in flight
  opts,
  (* ktp_session_t *)
  state, done,
  retcode,      \* cmd_retcode, 0 unless cmd_retcode_available
  features,     \* cmd_features, NoFeatures unless cmd_features_available
  obuf,         \* requests the socket has not taken yet
  pollout,      \* POLLOUT of the socket
  (* klish *)
  busy,         \* tinyrl_busy(): no keys are read
  pager,        \* pager_working; "none": popen() failed, pager_pipe is NULL
  polled,       \* is stdin in the event loop
  inev,         \* inside server_ev()
  over,         \* "no", or the exit status of the process, or "crash"
  (* the outside *)
  lines,        \* commands still to be read from options and files
  input,        \* units in stdin
  signals,      \* signals so far
  (* history *)
  sent,         \* KTP_CMDs sent
  failed        \* a command has failed and stop-on-error is on

server == <<phase, cur, ncmd, eof, up>>
session == <<state, done, retcode, features>>
net == <<c2s, obuf, pollout>>
outside == <<lines, input, signals>>
history == <<sent, failed>>
vars == <<c2s, s2c, phase, cur, ncmd, eof, up, opts, state, done, retcode, features,
          obuf, pollout, busy, pager, polled, inev, over, lines, input, signals,
          sent, failed>>

NoFeatures == {"unknown"}

(* Streams of the running command carry its number, as commands do.        *)
Request(cmd, n) == [cmd |-> cmd, n |-> n]
Requests == [cmd: Commands, n: 0 .. MaxCmds]

Server == INSTANCE KtpService

Interactive == opts.mode = "interactive"

(* main(): KTP_AUTH has been sent.                                         *)
Init ==
  /\ c2s = <<Request("AUTH", 0)>> /\ s2c = << >>
  /\ phase = "unauthorized" /\ cur = 0 /\ ncmd = 0 /\ eof = FALSE /\ up = TRUE
  /\ opts \in Options
  /\ state = "UNAUTHORIZED" /\ done = FALSE
  /\ retcode = 0 /\ features = NoFeatures
  /\ obuf = << >> /\ pollout = FALSE
  /\ busy = FALSE /\ pager = "undefined" /\ polled = FALSE
  /\ inev = FALSE /\ over = "no"
  /\ lines = (IF opts.mode = "list" THEN MaxCmds ELSE 0)
  /\ input = (IF opts.mode = "stdin" THEN MaxCmds ELSE MaxInput) /\ signals = 0
  /\ sent = 0 /\ failed = FALSE

-----------------------------------------------------------------------------
(* Wrong variants of a definition stand before it; a run with the variant  *)
(* in its place violates the property the variant is for.                  *)
EmitOvertakes(msgs) ==
  IF Len(c2s) < SockCap THEN c2s' = c2s \o msgs /\ UNCHANGED <<obuf, pollout>>
  ELSE /\ obuf' = obuf \o msgs /\ pollout' = (pollout \/ obuf' # << >>)
       /\ UNCHANGED c2s

(* faux_msg_send_async(): what the socket takes is sent, for the rest      *)
(* ktp_stall_cb() asks for POLLOUT.                                        *)
Emit(msgs) ==
  LET all == obuf \o msgs
      room == IF Len(c2s) < SockCap THEN SockCap - Len(c2s) ELSE 0
      k == IF room < Len(all) THEN room ELSE Len(all)
  IN IF msgs = << >> THEN UNCHANGED net
     ELSE /\ c2s' = c2s \o SubSeq(all, 1, k)
          /\ obuf' = SubSeq(all, k + 1, Len(all))
          /\ pollout' = (pollout \/ k < Len(all))
NoEmit == UNCHANGED net

(* A handler of the event loop is entered.                                 *)
Event == over = "no" /\ ~inev

MainStatusIgnoresCode == "success"

(* The rest of main() after the loop.                                      *)
MainStatus ==
  IF ~Interactive /\ retcode # 0 THEN "failure" ELSE "success"

Command == Request("CMD", sent + 1)

(* ktp_session_req() with drop_state: what is known of the last request is *)
(* forgotten.                                                              *)
Ask(waiting) ==
  /\ state' = waiting
  /\ retcode' = 0 /\ features' = NoFeatures

(* send_next_command() at the end of an answer with return code rc and     *)
(* features f, after the requests msgs; "end" is the done flag by then.    *)
(* The next line comes from the list or from stdin, or the user types it.  *)
HasLine == IF opts.mode = "stdin" THEN input > 0 ELSE lines > 0

NextLine(msgs, end) ==
  /\ ~Interactive /\ HasLine
  /\ Emit(Append(msgs, Command))
  /\ Ask("WAIT_FOR_CMD") /\ sent' = sent + 1
  /\ done' = end
  /\ IF opts.mode = "stdin" THEN input' = input - 1 /\ UNCHANGED lines
                            ELSE lines' = lines - 1 /\ UNCHANGED input

NoNextLine(msgs, end, rc, f) ==
  /\ Interactive \/ ~HasLine
  /\ Emit(msgs)
  /\ state' = "IDLE" /\ retcode' = rc /\ features' = f
  /\ done' = (end \/ ~Interactive)
  /\ UNCHANGED <<sent, lines, input>>

SendNextCommand(msgs, end, rc, f) ==
  NextLine(msgs, end) \/ NoNextLine(msgs, end, rc, f)

-----------------------------------------------------------------------------
(* server_ev(): the socket has room.  async_stdin_sent_cb() polls stdin    *)
(* again, in every mode.                                                   *)
ServerOutNoRearm ==
  /\ Event /\ pollout /\ Len(c2s) < SockCap
  /\ LET k == IF SockCap - Len(c2s) < Len(obuf) THEN SockCap - Len(c2s) ELSE Len(obuf)
     IN /\ c2s' = c2s \o SubSeq(obuf, 1, k)
        /\ obuf' = SubSeq(obuf, k + 1, Len(obuf))
        /\ pollout' = (k < Len(obuf))
  /\ inev' = TRUE
  /\ UNCHANGED <<s2c, server, opts, session, busy, pager, polled, over, outside, history>>

ServerOut ==
  /\ Event /\ pollout /\ Len(c2s) < SockCap
  /\ LET k == IF SockCap - Len(c2s) < Len(obuf) THEN SockCap - Len(c2s) ELSE Len(obuf)
     IN /\ c2s' = c2s \o SubSeq(obuf, 1, k)
        /\ obuf' = SubSeq(obuf, k + 1, Len(obuf))
        /\ pollout' = (k < Len(obuf))
  /\ inev' = TRUE /\ polled' = TRUE
  /\ UNCHANGED <<s2c, server, opts, session, busy, pager, over, outside, history>>

(* server_ev() ends: the done flag stops the loop.                         *)
ServerEvEnd ==
  /\ over = "no" /\ inev
  /\ inev' = FALSE
  /\ over' = IF done THEN MainStatus ELSE "no"
  /\ UNCHANGED <<s2c, server, opts, session, net, busy, pager, polled, outside, history>>

(* POLLHUP, after everything the server has sent was read.                 *)
HangUp ==
  /\ Event /\ ~up /\ s2c = << >>
  /\ over' = MainStatus
  /\ UNCHANGED <<s2c, server, opts, session, net, busy, pager, polled, inev, outside,
                 history>>

-----------------------------------------------------------------------------
(* ktp_session_dispatch(): one message; the state says which ones are      *)
(* expected, any other one is dropped.                                     *)
Expected == [AUTH_ACK |-> "UNAUTHORIZED", CMD_ACK |-> "WAIT_FOR_CMD",
             STDOUT |-> "WAIT_FOR_CMD", STDERR |-> "WAIT_FOR_CMD",
             COMPLETION_ACK |-> "WAIT_FOR_COMPLETION", HELP_ACK |-> "WAIT_FOR_HELP"]

Message == Head(s2c)
Expects(m) == m.cmd = "NOTIFICATION" \/ state = Expected[m.cmd]

Dispatch(cmd) ==
  /\ over = "no"
  /\ s2c # << >> /\ Message.cmd = cmd
  /\ s2c' = Tail(s2c)
  /\ inev' = TRUE
  /\ UNCHANGED <<server, opts, over, signals>>

Exit == "EXIT" \in Message.status

(* ktp_session_process_auth_ack(), auth_ack_cb(): the window size is sent, *)
(* and work begins.  An error is not noticed: the return code is 0.        *)
AuthAck ==
  /\ Dispatch("AUTH_ACK") /\ Expects(Message)
  /\ SendNextCommand(<<Request("NOTIFICATION", 0)>>, done \/ Exit, 0, features)
  /\ polled' = (polled \/ Interactive)
  /\ UNCHANGED <<busy, pager, failed>>

(* ktp_session_process_cmd_ack(), cmd_incompleted_ack_cb(): the command is *)
(* running and its features are known.  A client that reads commands from  *)
(* stdin has no data for it.                                               *)
CmdRunningIsDone ==
  /\ Dispatch("CMD_ACK") /\ Expects(Message) /\ "INCOMPLETED" \in Message.status
  /\ features' = IF features = NoFeatures THEN Message.status \cap Features ELSE features
  /\ polled' = (polled \/ (opts.mode # "stdin" /\ "NEED_STDIN" \in features'))
  /\ state' = "IDLE" /\ busy' = FALSE
  /\ NoEmit
  /\ UNCHANGED <<done, retcode, pager, lines, input, history>>

CmdRunningNoStdin ==
  /\ Dispatch("CMD_ACK") /\ Expects(Message) /\ "INCOMPLETED" \in Message.status
  /\ features' = IF features = NoFeatures THEN Message.status \cap Features ELSE features
  /\ NoEmit
  /\ UNCHANGED <<polled, state, done, retcode, busy, pager, lines, input, history>>

CmdRunning ==
  /\ Dispatch("CMD_ACK") /\ Expects(Message) /\ "INCOMPLETED" \in Message.status
  /\ features' = IF features = NoFeatures THEN Message.status \cap Features ELSE features
  /\ polled' = (polled \/ (opts.mode # "stdin" /\ "NEED_STDIN" \in features'))
  /\ NoEmit
  /\ UNCHANGED <<state, done, retcode, busy, pager, lines, input, history>>

(* ktp_session_process_cmd_ack(), cmd_ack_cb(): the final answer.  After a *)
(* failure stop-on-error ends the session, otherwise the user, or the next *)
(* line, goes on.                                                          *)
StopsOn(rc) == rc # 0 /\ opts.stop_on_error

ReturnCodes == IF "ERROR" \in Message.status THEN {-1} ELSE Codes

CmdEnded ==
  Dispatch("CMD_ACK") /\ Expects(Message) /\ "INCOMPLETED" \notin Message.status

CmdFailed ==
  /\ CmdEnded /\ pager # "none"
  /\ \E rc \in ReturnCodes : StopsOn(rc) /\ retcode' = rc
  /\ state' = "IDLE" /\ done' = TRUE /\ failed' = TRUE
  /\ pager' = "undefined"
  /\ NoEmit
  /\ UNCHANGED <<features, busy, polled, lines, input, sent>>

CmdDoneGoesOn ==
  /\ CmdEnded /\ pager # "none"
  /\ \E rc \in ReturnCodes :
       /\ SendNextCommand(<< >>, done \/ Exit, rc, features)
       /\ failed' = (failed \/ StopsOn(rc))
  /\ pager' = "undefined"
  /\ IF Interactive THEN busy' = FALSE /\ polled' = TRUE ELSE UNCHANGED <<busy, polled>>

CmdDone ==
  /\ CmdEnded /\ pager # "none"
  /\ \E rc \in ReturnCodes :
       ~StopsOn(rc) /\ SendNextCommand(<< >>, done \/ Exit, rc, features)
  /\ pager' = "undefined"
  /\ IF Interactive THEN busy' = FALSE /\ polled' = TRUE ELSE UNCHANGED <<busy, polled>>
  /\ UNCHANGED failed

(* pclose() of the pager comes first (klish.c:494), and if popen() had     *)
(* failed, closing the null stream ends the process.                       *)
PagerCrash ==
  /\ over = "no" /\ s2c # << >> /\ Message.cmd = "CMD_ACK"
  /\ Expects(Message) /\ "INCOMPLETED" \notin Message.status
  /\ pager = "none"
  /\ over' = "crash"
  /\ UNCHANGED <<s2c, server, opts, session, net, busy, pager, polled, inev, outside,
                 history>>

(* ktp_session_process_stdout(), stdout_cb(): the first output of a        *)
(* command that is not interactive starts the pager; when the pager does   *)
(* not take data any more, or cannot be started, output is dropped; only   *)
(* in the first case is the server told.                                   *)
StartsPager == opts.pager_enabled /\ pager = "undefined" /\ "INTERACTIVE" \notin features

Stdout ==
  /\ Dispatch("STDOUT") /\ Expects(Message)
  /\ \E p \in IF StartsPager THEN {"true", "none"} ELSE {pager}, broken \in BOOLEAN :
       /\ broken => p = "true"
       /\ pager' = IF broken THEN "false" ELSE p
       /\ Emit(IF broken THEN <<Request("STDOUT_CLOSE", sent)>> ELSE << >>)
  /\ UNCHANGED <<session, busy, polled, lines, input, history>>

(* stderr_cb(), notification_cb() and what is not expected change nothing. *)
Shown ==
  /\ \E cmd \in DOMAIN Expected \cup {"NOTIFICATION"} : Dispatch(cmd)
  /\ Message.cmd \in {"STDERR", "NOTIFICATION"} \/ ~Expects(Message)
  /\ done' = (done \/ (Message.cmd = "NOTIFICATION" /\ Exit))
  /\ NoEmit
  /\ UNCHANGED <<state, retcode, features, busy, pager, polled, lines, input, history>>

(* ktp_session_process_completion_ack(), ktp_session_process_help_ack() and *)
(* their callbacks.                                                        *)
HintAck ==
  /\ \E cmd \in {"COMPLETION_ACK", "HELP_ACK"} : Dispatch(cmd)
  /\ Expects(Message)
  /\ state' = "IDLE" /\ done' = (done \/ Exit)
  /\ busy' = FALSE /\ polled' = TRUE
  /\ NoEmit
  /\ UNCHANGED <<retcode, features, pager, lines, input, history>>

-----------------------------------------------------------------------------
(* stdin_cb().  "hup" is what poll() reports: at the end of a pipe or of a *)
(* terminal always, before it when the writer has gone already.            *)
Readable(hup) ==
  /\ hup => opts.hup
  /\ input = 0 /\ opts.hup => hup
  /\ Interactive => input > 0 \/ hup

StdinEv(hup) == Event /\ polled /\ Readable(hup)

NeedsStdin == state = "WAIT_FOR_CMD" /\ "NEED_STDIN" \in features
ReadsLine == state = "IDLE" /\ Interactive
TooMuch == Len(obuf) > ObufLimit

(* Data the server does not take yet stops the reading of stdin, and so    *)
(* does a state in which there is nobody to give it to.                    *)
StdinPaused ==
  /\ \E hup \in BOOLEAN : StdinEv(hup)
  /\ TooMuch \/ (~ReadsLine /\ ~NeedsStdin)
  /\ polled' = FALSE
  /\ UNCHANGED <<s2c, server, opts, session, net, busy, pager, inev, over, outside,
                 history>>

(* tinyrl_read(): keys are read until one of them needs the server.  A     *)
(* terminal that has gone ends the loop.                                   *)
KeyDone(hup) ==
  /\ polled' = ~hup
  /\ over' = IF hup THEN "success" ELSE "no"
  /\ UNCHANGED <<s2c, server, opts, done, pager, inev, lines, signals, failed>>

KeyEnter(hup) ==
  /\ StdinEv(hup) /\ ~TooMuch /\ ReadsLine
  /\ ~busy /\ input > 0 /\ sent < MaxCmds
  /\ input' = input - 1
  /\ Emit(<<Command>>) /\ Ask("WAIT_FOR_CMD") /\ sent' = sent + 1
  /\ busy' = TRUE
  /\ KeyDone(hup)

KeyHint(hup, cmd) ==
  /\ StdinEv(hup) /\ ~TooMuch /\ ReadsLine
  /\ ~busy /\ input > 0
  /\ input' = input - 1
  /\ Emit(<<Request(cmd, 0)>>) /\ Ask(Expected[Ack[cmd]])
  /\ busy' = TRUE
  /\ UNCHANGED sent
  /\ KeyDone(hup)

KeyOther(hup) ==
  /\ StdinEv(hup) /\ ~TooMuch /\ ReadsLine
  /\ input' = IF busy \/ input = 0 THEN input ELSE input - 1
  /\ NoEmit
  /\ UNCHANGED <<busy, state, retcode, features, sent>>
  /\ KeyDone(hup)

Feed(hup) ==
  /\ StdinEv(hup) /\ ~TooMuch /\ NeedsStdin
  /\ \/ /\ input > 0
        /\ Emit(<<Request("STDIN", sent)>>)
        /\ input' = input - 1 /\ UNCHANGED polled
     \/ /\ input = 0 /\ hup
        /\ Emit(<<Request("STDIN_CLOSE", sent)>>)
        /\ polled' = FALSE /\ UNCHANGED input
  /\ UNCHANGED <<s2c, server, opts, session, busy, pager, inev, over, lines, signals,
                 history>>

-----------------------------------------------------------------------------
(* sigwinch_cb(), ctrl_c_cb(): a signal ends a client that is not          *)
(* interactive, and is data for the command of one that is.                *)
Signal ==
  /\ Event /\ signals < MaxSignals
  /\ signals' = signals + 1
  /\ UNCHANGED <<s2c, server, opts, session, busy, pager, polled, inev, lines, input,
                 history>>

Winch == Signal /\ Emit(<<Request("NOTIFICATION", 0)>>) /\ UNCHANGED over

CtrlC ==
  /\ Signal
  /\ IF Interactive
     THEN /\ Emit(IF state = "WAIT_FOR_CMD" THEN <<Request("STDIN", sent)>> ELSE << >>)
          /\ UNCHANGED over
     ELSE NoEmit /\ over' = MainStatus

-----------------------------------------------------------------------------
client == <<opts, state, done, retcode, features, obuf, pollout, busy, pager, polled,
            inev, over, lines, input, signals, sent, failed>>

ServerRequest == Server!Request /\ UNCHANGED client

ServerOutput ==
  /\ \E s \in Streams : Server!Output(s)
  /\ Len(s2c) < MaxInFlight
  /\ UNCHANGED client

ServerFinish == Server!Finish /\ UNCHANGED client

ServerDown == up /\ Server!Down /\ UNCHANGED client

Receive ==
  \/ AuthAck \/ CmdRunning \/ CmdFailed \/ CmdDone \/ PagerCrash
  \/ Stdout \/ Shown \/ HintAck

StdinCb ==
  \/ StdinPaused
  \/ \E hup \in BOOLEAN :
       \/ KeyEnter(hup) \/ KeyOther(hup) \/ Feed(hup)
       \/ \E cmd \in {"COMPLETION", "HELP"} : KeyHint(hup, cmd)

Next ==
  \/ ServerOut \/ Receive \/ ServerEvEnd \/ HangUp
  \/ StdinCb \/ Winch \/ CtrlC
  \/ ServerRequest \/ ServerOutput \/ ServerFinish \/ ServerDown

Spec == Init /\ [][Next]_vars

(* Every round of the client's loop serves each descriptor poll() reports, *)
(* however much the others have to say.  The server serves its requests,   *)
(* and a command ends, once its stdin is closed if it needs its stdin      *)
(* (KtpdSession, EveryCmdAnswered).                                        *)
RunsUntilEof ==
  \/ "NEED_STDIN" \in features
  \/ \E i \in DOMAIN s2c : "NEED_STDIN" \in s2c[i].status

Fairness ==
  /\ WF_vars(Receive) /\ WF_vars(ServerEvEnd) /\ WF_vars(HangUp)
  /\ SF_vars(ServerOut) /\ SF_vars(StdinCb)
  /\ WF_vars(ServerRequest)
  /\ WF_vars(ServerFinish /\ (RunsUntilEof => eof))

FairSpec == Spec /\ Fairness

-----------------------------------------------------------------------------
(* Properties.                                                             *)

(* Client and server agree on the state of the session whatever is on its   *)
(* way: the client never gets an answer its state does not expect           *)
(* (ktp_session_dispatch()), and never asks what the server has to refuse   *)
(* (ktpd_session_dispatch(), KtpService: Refuse); but a script does send a  *)
(* command after a refused KTP_AUTH.                                        *)
ServerAgrees ==
  /\ s2c # << >> => Expects(Message)
  /\ up /\ c2s # << >> =>
       /\ Head(c2s).cmd \in {"COMPLETION", "HELP"} => phase = "idle"
       /\ Head(c2s).cmd = "AUTH" => phase = "unauthorized"
       /\ Head(c2s).cmd = "CMD" => phase # "running"

(* Input, and requests to close a stream, that come late are never taken    *)
(* for the next command's; the stdin of a command is closed only when all   *)
(* data of the client's stdin has been sent (klish.c:643).                  *)
StreamsHitTheirCommand ==
  /\ up /\ phase = "running" /\ c2s # << >>
       /\ Head(c2s).cmd \in Server!Streaming => Head(c2s).n = cur
  /\ eof \/ (\E i \in DOMAIN c2s : c2s[i].cmd = "STDIN_CLOSE") => input = 0

(* The client is never deaf: at the prompt, and while a command needs data, *)
(* stdin is polled or a stalled request will poll it again; unless the      *)
(* client is about to leave, or has closed the command's stdin.             *)
NeverDeaf ==
  over = "no" /\ ~done /\ opts.mode # "stdin" /\ (ReadsLine \/ NeedsStdin) =>
    polled \/ pollout \/ (input = 0 /\ opts.hup)

(* With stop-on-error no command is sent after one that has failed.         *)
StopOnError == [][failed' => UNCHANGED sent]_vars

(* A script stopped by stop-on-error reports the failure as exit status of  *)
(* klish, whatever arrives before the loop ends.                            *)
FailureReported == failed /\ over # "no" /\ ~Interactive => over = "failure"

(* A list of commands comes to its end, with commands that read stdin: they *)
(* get all data and then see the end of it (klish.c:643, "Actually close    *)
(* stdin only when all data is read").  A crash (PagerCrash) ends it too.    *)
ListEnds == opts.mode = "list" ~> over # "no"
=============================================================================
