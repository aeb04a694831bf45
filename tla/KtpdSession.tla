---------------------------- MODULE KtpdSession ----------------------------
(***************************************************************************)
(* One client session of klishd (klish/ktp/ktpd_session.c): the server's   *)
(* side of the KTP protocol.  A single-threaded event loop serves four     *)
(* kinds of events in any order: messages of the client, room in the       *)
(* client's socket, the streams of the running command, and SIGCHLD.  The  *)
(* command itself is abstracted to the number of processes still to be     *)
(* terminated and the data they still write (module Kexec has the engine). *)
(*                                                                         *)
(* A handler is one step, except client_ev(): it reads a block of data and *)
(* dispatches the complete messages in it one by one, "inev" is TRUE in    *)
(* between and no other handler runs.  Buffers hold units of data; "obuf"  *)
(* holds whole messages.                                                   *)
(***************************************************************************)
EXTENDS Ktp, FiniteSets

CONSTANTS
  Plans,        \* clients by name: see PlansAssumption
  MaxMsgs,      \* bound: messages a client sends in all
  BufLimit,     \* BUF_LIMIT, in units
  PipeCap       \* capacity of the pipe to the command's stdin, in units

Kinds == {"empty", "error", "silent", "proc"}

(* kind: what parsing and starting of a command line leads to; quit: does  *)
(* it set the session's done flag.                                         *)
RequestType ==
  [cmd: Commands, kind: Kinds, quit: BOOLEAN]

(* procs: SIGCHLDs until the job is done; out: units written per stream;   *)
(* filter: does it read its stdin to the end before it terminates; quiet:  *)
(* the last stage needs no process and writes nothing;                     *)
(* features: kexec_interactive(), kexec_need_stdin().                      *)
WorkType == [procs: Nat \ {0}, out: [Streams -> 0 .. MaxOut], filter: BOOLEAN,
             quiet: BOOLEAN, features: SUBSET Features]

(* A client: what it may send, how many messages, what its commands do, and *)
(* whether SIGTERM may hit a local execution (prompt, PTYPE, LOG...).      *)
ASSUME PlansAssumption ==
  \A p \in DOMAIN Plans : /\ Plans[p].requests \subseteq RequestType
                          /\ Plans[p].works \subseteq WorkType
                          /\ \A w \in Plans[p].works : w.quiet => w.out["STDOUT"] = 0
                          /\ Plans[p].msgs \in 0 .. MaxMsgs
                          /\ Plans[p].term \in BOOLEAN
ASSUME BoundsAssumption == /\ MaxMsgs \in Nat /\ BufLimit \in Nat \ {0}
                           /\ PipeCap \in Nat \ {0}

Requests == UNION {Plans[p].requests : p \in DOMAIN Plans}

VARIABLES
  (* ktpd_session_t and its ksession_t *)
  state, stdin_must_be_closed, exit, session_done,
  exec,         \* number of the command being executed, 0 is NULL
  bufin,        \* units in the buffer to the command's stdin
  obuf,         \* messages in the buffer to the client
  (* the event loop *)
  alive,        \* the loop runs
  inev,         \* inside client_ev()
  pollin,       \* POLLIN of the client's socket
  pollout,      \* POLLOUT of the client's socket
  pollstdin,    \* POLLOUT of the command's stdin
  stdin,        \* the server's end: "none", "open", "gone" (hung up), "closed"
  stream,       \* per stream: "none", "in" (POLLIN), "off", "gone", "closed"
  (* the operating system *)
  c2s, s2c,     \* to the server in flight; everything ever sent to the client
  left,         \* processes of the command still to be terminated
  todo,         \* units the command still writes, per stream
  pipe,         \* units written and not yet read by the server, per stream
  pipe_in,      \* units of stdin not yet read by the command
  reader,       \* does the command still hold its stdin
  filter,       \* does the command wait for the end of its stdin
  sigchld,      \* SIGCHLD is pending
  lastdone,     \* the last stage is done, the pipe to STDOUT has no writer
  plan,         \* the name of this behaviour's client
  (* history *)
  sent,         \* messages sent by the client
  ncmd,         \* KTP_CMD messages dispatched
  owed,         \* units of every command's streams the client has a right to
  closereq      \* KTP_STDIN_CLOSE was dispatched for the current command

ktpd == <<state, stdin_must_be_closed, exit, session_done, exec>>
input == <<bufin, pollstdin, stdin, pipe_in, reader, filter>>
output == <<stream, todo, pipe>>
job == <<left, sigchld, lastdone>>
toclient == <<obuf, s2c, pollout>>
net == <<c2s, plan, sent>>
vars == <<state, stdin_must_be_closed, exit, session_done, exec, bufin, obuf,
          alive, inev, pollin, pollout, pollstdin, stdin, stream, c2s, s2c, left,
          todo, pipe, pipe_in, reader, filter, sigchld, lastdone, plan,
          sent, ncmd, owed, closereq>>

States == {"UNAUTHORIZED", "IDLE", "WAIT_FOR_PROCESS"}
Cmds == 1 .. MaxMsgs
NoData == [s \in Streams |-> 0]
NoStreams == [s \in Streams |-> "none"]

Terms == {FALSE, Plans[plan].term}

TypeOK ==
  /\ state \in States
  /\ exec \in 0 .. ncmd /\ ncmd \in 0 .. sent /\ sent \in 0 .. Plans[plan].msgs
  /\ stdin_must_be_closed \in BOOLEAN /\ exit \in BOOLEAN
  /\ session_done \in BOOLEAN /\ alive \in BOOLEAN /\ inev \in BOOLEAN
  /\ pollin \in BOOLEAN /\ pollout \in BOOLEAN /\ pollstdin \in BOOLEAN
  /\ reader \in BOOLEAN /\ filter \in BOOLEAN /\ sigchld \in BOOLEAN /\ closereq \in BOOLEAN
  /\ lastdone \in BOOLEAN
  /\ bufin \in Nat /\ left \in Nat
  /\ pipe_in \in 0 .. PipeCap
  /\ stdin \in {"none", "open", "gone", "closed"}
  /\ stream \in [Streams -> {"none", "in", "off", "gone", "closed"}]
  /\ todo \in [Streams -> Nat] /\ pipe \in [Streams -> Nat]
  /\ owed \in [Cmds -> [Streams -> Nat]]
  /\ c2s \in Seq(Requests)
  /\ obuf \in Seq(AnswerType) /\ s2c \in Seq(AnswerType)

Init ==
  /\ state = "UNAUTHORIZED" /\ exec = 0
  /\ stdin_must_be_closed = FALSE /\ exit = FALSE /\ session_done = FALSE
  /\ bufin = 0 /\ obuf = << >>
  /\ alive = TRUE /\ inev = FALSE /\ pollin = TRUE
  /\ pollout = FALSE /\ pollstdin = FALSE
  /\ stdin = "none" /\ stream = NoStreams
  /\ c2s = << >> /\ s2c = << >>
  /\ left = 0 /\ todo = NoData /\ pipe = NoData /\ pipe_in = 0
  /\ reader = FALSE /\ filter = FALSE /\ sigchld = FALSE /\ lastdone = FALSE
  /\ plan \in DOMAIN Plans /\ sent = 0 /\ ncmd = 0 /\ owed = [n \in Cmds |-> NoData] /\ closereq = FALSE

-----------------------------------------------------------------------------
(* Wrong variants of a definition stand before it; a run with the variant  *)
(* in its place violates the property the variant is for.                  *)
EmitOvertakes(msgs) ==
  \/ s2c' = s2c \o msgs /\ UNCHANGED <<obuf, pollout>>
  \/ obuf' = obuf \o msgs /\ pollout' = TRUE /\ UNCHANGED s2c

(* faux_msg_send_async(): the message goes to the buffer, and as much of   *)
(* the buffer as the socket takes right now is sent; if some is left,      *)
(* ktp_stall_cb() asks for POLLOUT.                                        *)
Emit(msgs) ==
  LET all == obuf \o msgs
  IN \E k \in 0 .. Len(all) : /\ s2c' = s2c \o SubSeq(all, 1, k)
                              /\ obuf' = SubSeq(all, k + 1, Len(all))
                              /\ pollout' = (pollout \/ k < Len(all))
NoEmit == UNCHANGED toclient

(* The session is over, or will be for the next one who asks: "later" is a *)
(* SIGTERM that comes after the handler has looked at the done flag.       *)
SetDone(over, later) ==
  /\ session_done' = (over \/ later)
  /\ exit' = (exit \/ over)

(* A handler of the event loop is entered.                                 *)
Event == alive /\ ~inev

(* get_stream(): a paused stream is not polled until the buffer to the     *)
(* client has shrunk.                                                      *)
PauseAfter(s) ==
  stream' = IF Len(obuf') > BufLimit THEN [stream EXCEPT ![s] = "off"]
                                     ELSE stream

(* One non-blocking write to the command's stdin (stdin_out()).            *)
Written(buffered) ==
  LET room == IF stdin = "open" /\ reader THEN PipeCap - pipe_in ELSE 0
  IN IF room = 0 \/ buffered = 0 THEN {0}
     ELSE 1 .. (IF buffered < room THEN buffered ELSE room)

(* push_stdin(): write, let the client's data in again, and close stdin if *)
(* the client has asked for it and nothing is left.                        *)
PushStdin ==
  \E k \in Written(bufin) :
    /\ bufin' = bufin - k
    /\ pipe_in' = pipe_in + k
    /\ pollin' = (pollin \/ bufin' < BufLimit)
    /\ pollstdin' = (pollstdin /\ bufin' # 0)
    /\ stdin' = IF bufin' = 0 /\ stdin_must_be_closed' THEN "closed" ELSE stdin

-----------------------------------------------------------------------------
AsyncOutNoRestore ==
  /\ Event /\ pollout
  /\ \E k \in 0 .. Len(obuf) : /\ k = 0 => obuf = << >>
                               /\ s2c' = s2c \o SubSeq(obuf, 1, k)
                               /\ obuf' = SubSeq(obuf, k + 1, Len(obuf))
                               /\ pollout' = (k < Len(obuf))
  /\ UNCHANGED <<ktpd, input, job, net, alive, inev, pollin, output, ncmd, owed,
                 closereq>>

(* client_ev(): room in the client's socket.  Streams paused on account of *)
(* a full buffer are polled again.                                         *)
AsyncOut ==
  /\ Event /\ pollout
  /\ \E k \in 0 .. Len(obuf) : /\ k = 0 => obuf = << >>
                               /\ s2c' = s2c \o SubSeq(obuf, 1, k)
                               /\ obuf' = SubSeq(obuf, k + 1, Len(obuf))
                               /\ pollout' = (k < Len(obuf))
  /\ stream' = [s \in Streams |->
                  IF exec # 0 /\ Len(obuf') < BufLimit /\ stream[s] = "off"
                  THEN "in" ELSE stream[s]]
  /\ UNCHANGED <<ktpd, input, job, net, alive, inev, pollin, todo, pipe, ncmd,
                 owed, closereq>>

ClientEvEndGoesOn ==
  /\ alive /\ inev
  /\ inev' = FALSE
  /\ UNCHANGED <<alive, ktpd, input, output, job, net, pollin, toclient, ncmd,
                 owed, closereq>>

(* client_ev() is left: the only place but wait_for_actions_ev() where the *)
(* exit flag stops the event loop.                                         *)
ClientEvEnd ==
  /\ alive /\ inev
  /\ inev' = FALSE
  /\ alive' = ~exit
  /\ UNCHANGED <<ktpd, input, output, job, net, pollin, toclient, ncmd, owed,
                 closereq>>

(* The client hangs up, the socket fails, or SIGTERM hits the main loop    *)
(* (stop_loop_ev() of klishd.c): the event loop stops as it is.            *)
LoopStops ==
  /\ Event
  /\ alive' = FALSE
  /\ UNCHANGED <<ktpd, input, output, job, net, inev, pollin, toclient, ncmd,
                 owed, closereq>>

-----------------------------------------------------------------------------
(* ktpd_session_dispatch(): one message.  client_ev() is entered with the  *)
(* first message of a block, when the client's socket is polled for data;  *)
(* the other messages of the block follow whatever becomes of the polling. *)
Dispatch(cmd) ==
  /\ alive /\ (inev \/ pollin)
  /\ c2s # << >> /\ Head(c2s).cmd = cmd
  /\ c2s' = Tail(c2s)
  /\ inev' = TRUE
  /\ UNCHANGED <<alive, plan, sent>>

Message == Head(c2s)

(* The protocol state does not allow the message, it is of no known kind,  *)
(* or its header is broken and it goes no further than the read callback.  *)
Refuse(cmd) ==
  /\ \/ /\ cmd = "CMD" /\ state # "IDLE"
        /\ ncmd' = ncmd + 1 /\ Emit(<<Error("CMD_ACK", ncmd')>>)
     \/ /\ cmd \in {"COMPLETION", "HELP"} /\ state # "IDLE"
        /\ Emit(<<Error(Ack[cmd], 0)>>) /\ UNCHANGED ncmd
     \/ /\ cmd = "AUTH" /\ state = "WAIT_FOR_PROCESS"
        /\ Emit(<<Error("AUTH_ACK", 0)>>) /\ UNCHANGED ncmd
     \/ /\ cmd = "STDIN" /\ state # "WAIT_FOR_PROCESS"
        /\ Emit(<<Error("NOTIFICATION", 0)>>) /\ UNCHANGED ncmd
     \/ /\ cmd \in {"STDIN_CLOSE", "STDOUT_CLOSE", "STDERR_CLOSE"}
        /\ state # "WAIT_FOR_PROCESS"
        /\ NoEmit /\ UNCHANGED ncmd
     \/ /\ cmd = "UNSUPPORTED"
        /\ Emit(<<Error("NOTIFICATION", 0)>>) /\ UNCHANGED ncmd
     \/ /\ cmd \in {"NOTIFICATION", "BROKEN"} /\ NoEmit /\ UNCHANGED ncmd
  /\ Dispatch(cmd)
  /\ UNCHANGED <<ktpd, input, output, job, pollin, owed, closereq>>

(* ktpd_session_process_auth().  SIGTERM during the prompt's execution     *)
(* sets the done flag of the session (stop_loop_ev() of ksession_parse.c). *)
ProcessAuth ==
  /\ Dispatch("AUTH")
  /\ state # "WAIT_FOR_PROCESS"
  /\ \/ /\ \E t \in Terms : session_done' = (session_done \/ t)
        /\ Emit(<<Answer("AUTH_ACK", 0, {})>>)
        /\ state' = "IDLE" /\ UNCHANGED exit
     \/ /\ Emit(<<Answer("AUTH_ACK", 0, {"ERROR", "EXIT"})>>)
        /\ exit' = TRUE /\ UNCHANGED <<state, session_done>>
  /\ UNCHANGED <<stdin_must_be_closed, exec, input, output, job, pollin, ncmd,
                 owed, closereq>>

(* ktpd_session_process_cmd(): a command that is answered at once.  The    *)
(* status of a failed one is KTP_STATUS_ERROR and nothing else.            *)
EmptyCmd ==
  /\ Dispatch("CMD") /\ state = "IDLE" /\ Message.kind = "empty"
  /\ ncmd' = ncmd + 1
  /\ \E t \in Terms : session_done' = (session_done \/ t)
  /\ Emit(<<Answer("CMD_ACK", ncmd', {})>>)
  /\ UNCHANGED <<state, stdin_must_be_closed, exit, exec, input, output, job,
                 pollin, owed, closereq>>

ErrorCmd ==
  /\ Dispatch("CMD") /\ state = "IDLE" /\ Message.kind = "error"
  /\ ncmd' = ncmd + 1
  /\ \E parsing, prompt \in Terms : SetDone(session_done \/ parsing, prompt)
  /\ Emit(<<Error("CMD_ACK", ncmd')>>)
  /\ UNCHANGED <<state, stdin_must_be_closed, exec, input, output, job, pollin,
                 owed, closereq>>

SilentCmd ==
  /\ Dispatch("CMD") /\ state = "IDLE" /\ Message.kind = "silent"
  /\ ncmd' = ncmd + 1
  /\ \E w \in Plans[plan].works, running, prompt \in Terms :
       LET over == session_done \/ Message.quit \/ running
       IN /\ SetDone(over, prompt)
          /\ owed' = [owed EXCEPT ![ncmd'] = w.out]
          /\ Emit(FinalAnswer(ncmd', w.out, over))
  /\ UNCHANGED <<state, stdin_must_be_closed, exec, input, output, job, pollin,
                 closereq>>

(* ... and one whose processes have to be waited for.  A last stage that   *)
(* needs no process is done at once.                                       *)
StartCmd ==
  /\ Dispatch("CMD") /\ state = "IDLE" /\ Message.kind = "proc"
  /\ ncmd' = ncmd + 1
  /\ \E w \in Plans[plan].works :
       /\ left' = w.procs /\ todo' = w.out /\ filter' = w.filter
       /\ lastdone' = w.quiet
       /\ Emit(<<Answer("CMD_ACK", ncmd', {"INCOMPLETED"} \cup w.features)>>)
  /\ \E parsing \in Terms :
       session_done' = (session_done \/ Message.quit \/ parsing)
  /\ state' = "WAIT_FOR_PROCESS" /\ exec' = ncmd'
  /\ stream' = [s \in Streams |-> "in"] /\ pipe' = NoData
  /\ stdin' = "open" /\ reader' = TRUE /\ pollstdin' = FALSE
  /\ bufin' = 0 /\ pipe_in' = 0
  /\ closereq' = FALSE
  /\ UNCHANGED <<stdin_must_be_closed, exit, sigchld, pollin, owed>>

(* ktpd_session_process_completion(), ktpd_session_process_help().         *)
Hint(cmd) ==
  /\ Dispatch(cmd) /\ state = "IDLE"
  /\ \E parsing, hints \in Terms :
       LET over == session_done \/ parsing
       IN \/ /\ Message.kind = "error"
             /\ session_done' = over /\ UNCHANGED exit
             /\ Emit(<<Error(Ack[cmd], 0)>>)
          \/ /\ Message.kind # "error"
             /\ SetDone(over, hints)
             /\ Emit(<<Answer(Ack[cmd], 0, ExitStatus(over))>>)
  /\ UNCHANGED <<state, stdin_must_be_closed, exec, input, output, job, pollin,
                 ncmd, owed, closereq>>

-----------------------------------------------------------------------------
(* ktpd_session_process_stdin(): one unit of data for the command.         *)
ProcessStdin ==
  /\ Dispatch("STDIN") /\ state = "WAIT_FOR_PROCESS"
  /\ \E k \in Written(bufin + 1) :
       /\ bufin' = bufin + 1 - k
       /\ pipe_in' = pipe_in + k
  /\ pollstdin' = (pollstdin \/ (stdin = "open" /\ bufin' # 0))
  /\ pollin' = (pollin /\ bufin' <= BufLimit)
  /\ NoEmit
  /\ UNCHANGED <<ktpd, stdin, reader, filter, output, job, ncmd, owed, closereq>>

ProcessStdinCloseNoPush ==
  /\ Dispatch("STDIN_CLOSE") /\ state = "WAIT_FOR_PROCESS"
  /\ stdin_must_be_closed' = TRUE /\ closereq' = TRUE
  /\ NoEmit
  /\ UNCHANGED <<state, exit, session_done, exec, input, output, job, pollin, ncmd,
                 owed>>

(* ktpd_session_process_stdin_close().                                     *)
ProcessStdinClose ==
  /\ Dispatch("STDIN_CLOSE") /\ state = "WAIT_FOR_PROCESS"
  /\ stdin_must_be_closed' = TRUE /\ closereq' = TRUE
  /\ PushStdin
  /\ NoEmit
  /\ UNCHANGED <<state, exit, session_done, exec, reader, filter, output, job, ncmd, owed>>

CloseStreamKeepsData(s) ==
  /\ stream' = [stream EXCEPT ![s] = "closed"]
  /\ owed' = [owed EXCEPT ![exec][s] = @ - pipe[s]]
  /\ UNCHANGED pipe

(* ktpd_session_process_stdout_close(), ktpd_session_process_stderr_close(): *)
(* what is not sent yet is dropped.                                        *)
CloseStream(s) ==
  /\ stream' = [stream EXCEPT ![s] = "closed"]
  /\ pipe' = [pipe EXCEPT ![s] = 0]
  /\ owed' = [owed EXCEPT ![exec][s] = @ - pipe[s]]

CloseCmd == [STDOUT |-> "STDOUT_CLOSE", STDERR |-> "STDERR_CLOSE"]

ProcessStreamClose(s) ==
  /\ Dispatch(CloseCmd[s]) /\ state = "WAIT_FOR_PROCESS"
  /\ CloseStream(s)
  /\ NoEmit
  /\ UNCHANGED <<ktpd, input, job, pollin, todo, ncmd, closereq>>

-----------------------------------------------------------------------------
(* Events of the command's descriptors: action_stdout_ev() and             *)
(* action_stderr_ev().                                                     *)
StdinReady ==
  /\ Event /\ exec # 0
  /\ stdin = "open" /\ pollstdin /\ pipe_in < PipeCap
  /\ UNCHANGED stdin_must_be_closed
  /\ PushStdin
  /\ UNCHANGED <<state, exit, session_done, exec, reader, filter, output, job, net, alive,
                 inev, toclient, ncmd, owed, closereq>>

(* Nobody reads the command's stdin any more (POLLERR).                    *)
StdinHup ==
  /\ Event /\ exec # 0
  /\ stdin = "open" /\ ~reader
  /\ stdin' = "gone" /\ pollstdin' = FALSE
  /\ UNCHANGED <<ktpd, bufin, pipe_in, reader, filter, output, job, net, alive, inev,
                 pollin, toclient, ncmd, owed, closereq>>

(* get_stream() reads once, and sends what it has read.                    *)
StreamIn(s) ==
  /\ Event /\ exec # 0
  /\ stream[s] = "in" /\ pipe[s] > 0
  /\ \E k \in 1 .. pipe[s] : /\ pipe' = [pipe EXCEPT ![s] = pipe[s] - k]
                             /\ Emit(Data(s, exec, k))
  /\ PauseAfter(s)
  /\ UNCHANGED <<ktpd, input, job, net, alive, inev, pollin, todo, ncmd, owed,
                 closereq>>

(* Nobody has the writing end any more, the server neither: POLLHUP, with  *)
(* POLLIN if there is still data and the stream is not paused.  The        *)
(* descriptor is polled no more.  The server gives up its writing end of   *)
(* STDOUT when the last stage is done, whatever else still runs            *)
(* (exec_action_sequence()), and that of STDERR with the command.          *)
StreamHup(s) ==
  /\ Event /\ exec # 0
  /\ s = "STDOUT" /\ lastdone
  /\ stream[s] \in {"in", "off"}
  /\ IF stream[s] = "in" /\ pipe[s] > 0
     THEN \E k \in 1 .. pipe[s] : /\ pipe' = [pipe EXCEPT ![s] = pipe[s] - k]
                                  /\ Emit(Data(s, exec, k))
     ELSE NoEmit /\ UNCHANGED pipe
  /\ stream' = [stream EXCEPT ![s] = "gone"]
  /\ UNCHANGED <<ktpd, input, job, net, alive, inev, pollin, todo, ncmd, owed,
                 closereq>>

-----------------------------------------------------------------------------
(* wait_for_actions_ev(): SIGCHLD while the command is not done, or when   *)
(* there is none.  The process that has ended may have been the last one   *)
(* of the last stage, which then writes no more.                           *)
NotDone ==
  /\ Event /\ sigchld
  /\ exec = 0 \/ left > 0
  /\ sigchld' = FALSE
  /\ lastdone' \in {lastdone, exec # 0}
  /\ todo' = IF lastdone' THEN [todo EXCEPT !["STDOUT"] = 0] ELSE todo
  /\ UNCHANGED <<ktpd, input, stream, pipe, left, net, alive, inev, pollin, toclient,
                 ncmd, owed, closereq>>

(* The command is done: the rest of its output is read and sent, LOG is    *)
(* executed, the command is freed and the client gets the final answer.    *)
FreeExec ==
  /\ exec' = 0 /\ state' = "IDLE"
  /\ stream' = NoStreams /\ pipe' = NoData
  /\ stdin' = "none" /\ bufin' = 0 /\ pollstdin' = FALSE
  /\ closereq' = FALSE /\ lastdone' = FALSE
  /\ UNCHANGED <<stdin_must_be_closed, pipe_in, reader, filter, todo>>

Done ==
  /\ Event /\ sigchld
  /\ exec # 0 /\ left = 0
  /\ sigchld' = FALSE
  /\ FreeExec
  /\ \E log, prompt \in Terms :
       LET over == session_done \/ log
       IN SetDone(over, prompt) /\ Emit(FinalAnswer(exec, pipe, over))
  /\ alive' = ~exit'
  /\ UNCHANGED <<left, net, inev, pollin, ncmd, owed>>

-----------------------------------------------------------------------------
(* The processes of the command.                                           *)
Running == alive /\ exec # 0 /\ left > 0

ProcWrite(s) ==
  /\ Running /\ todo[s] > 0 /\ stream[s] # "closed" /\ pipe[s] < PipeCap
  /\ s = "STDOUT" => ~lastdone
  /\ todo' = [todo EXCEPT ![s] = @ - 1]
  /\ pipe' = [pipe EXCEPT ![s] = @ + 1]
  /\ owed' = [owed EXCEPT ![exec][s] = @ + 1]
  /\ UNCHANGED <<ktpd, input, stream, job, net, alive, inev, pollin, toclient,
                 ncmd, closereq>>

(* The reading end is closed: EPIPE.                                       *)
ProcEpipe(s) ==
  /\ Running /\ todo[s] > 0 /\ stream[s] = "closed"
  /\ todo' = [todo EXCEPT ![s] = 0]
  /\ UNCHANGED <<ktpd, input, stream, pipe, job, net, alive, inev, pollin, toclient,
                 ncmd, owed, closereq>>

ProcRead ==
  /\ Running /\ reader /\ pipe_in > 0
  /\ pipe_in' = pipe_in - 1
  /\ UNCHANGED <<ktpd, bufin, pollstdin, stdin, reader, filter, output, job, net, alive,
                 inev, pollin, toclient, ncmd, owed, closereq>>

ProcCloseStdin ==
  /\ Running /\ reader
  /\ reader' = FALSE /\ pipe_in' = 0
  /\ UNCHANGED <<ktpd, bufin, pollstdin, stdin, filter, output, job, net, alive, inev,
                 pollin, toclient, ncmd, owed, closereq>>

(* A process terminates; the last one leaves nothing unwritten, and a      *)
(* filter nothing unread, or is killed by a signal.                        *)
ProcEnds ==
  /\ left' = left - 1 /\ sigchld' = TRUE
  /\ IF left = 1 THEN reader' = FALSE /\ pipe_in' = 0 /\ todo' = NoData
                 ELSE UNCHANGED <<reader, pipe_in, todo>>
  /\ UNCHANGED <<ktpd, bufin, pollstdin, stdin, filter, stream, pipe, lastdone, net,
                 alive, inev, pollin, toclient, ncmd, owed, closereq>>

AtEof == ~reader \/ (stdin = "closed" /\ pipe_in = 0)

ProcExit == /\ Running
            /\ left = 1 => todo = NoData /\ (filter => AtEof)
            /\ ProcEnds
ProcKilled == Running /\ ProcEnds

(* The client.                                                             *)
ClientSend(m) ==
  /\ alive /\ sent < Plans[plan].msgs /\ m \in Plans[plan].requests
  /\ c2s' = Append(c2s, m) /\ sent' = sent + 1
  /\ UNCHANGED <<plan, ktpd, input, output, job, alive, inev, pollin, toclient, ncmd,
                 owed, closereq>>

-----------------------------------------------------------------------------
ClientEv ==
  \/ ClientEvEnd
  \/ ProcessAuth \/ EmptyCmd \/ ErrorCmd \/ SilentCmd \/ StartCmd
  \/ \E cmd \in {"COMPLETION", "HELP"} : Hint(cmd)
  \/ ProcessStdin \/ ProcessStdinClose
  \/ \E s \in Streams : ProcessStreamClose(s)
  \/ \E m \in Requests : Refuse(m.cmd)

SigChldEv == NotDone \/ Done

Next ==
  \/ AsyncOut \/ ClientEv \/ LoopStops
  \/ StdinReady \/ StdinHup
  \/ \E s \in Streams : StreamIn(s) \/ StreamHup(s)
  \/ SigChldEv
  \/ \E s \in Streams : ProcWrite(s) \/ ProcEpipe(s)
  \/ ProcRead \/ ProcCloseStdin \/ ProcExit \/ ProcKilled
  \/ \E m \in Requests : ClientSend(m)

Spec == Init /\ [][Next]_vars

(* The event loop serves every event that stays ready, the client reads    *)
(* its socket, and the processes do what they still have to do.  The       *)
(* client need not send, and nobody has to hang up, kill or close.         *)
Fairness ==
  /\ WF_vars(AsyncOut) /\ WF_vars(ClientEv)
  /\ WF_vars(StdinReady) /\ WF_vars(SigChldEv)
  /\ \A s \in Streams : /\ WF_vars(StreamIn(s))
                        /\ WF_vars(ProcWrite(s) \/ ProcEpipe(s))
  /\ WF_vars(ProcRead) /\ WF_vars(ProcExit)

FairSpec == Spec /\ Fairness

-----------------------------------------------------------------------------
(* Properties.                                                             *)

(* Everything the session has ever sent, the messages still in its buffer  *)
(* included.                                                               *)
Answers == s2c \o obuf

(* The session keeps the promise of KtpService: whatever its buffers, pauses *)
(* and processes do, requests are answered in order, and each as the phase  *)
(* allows.                                                                  *)
Phase == CASE state = "UNAUTHORIZED" -> "unauthorized"
           [] state = "IDLE" -> "idle"
           [] state = "WAIT_FOR_PROCESS" -> "running"

Service == INSTANCE KtpService WITH
  s2c <- Answers, phase <- Phase, cur <- exec, eof <- closereq, up <- alive

KeepsPromise == Service!Spec

(* Output of a command is never sent after its final answer, nor before the *)
(* first answer to the command that waits for processes.                    *)
OutputInsideCommand ==
  \A i, j \in DOMAIN Answers :
    Answers[i].cmd = "CMD_ACK" /\ Answers[j].cmd \in Streams
      /\ Answers[i].n = Answers[j].n =>
        IF "INCOMPLETED" \in Answers[i].status THEN i < j ELSE j < i

(* The units of stream s of command n in messages q: the k-th unit of the  *)
(* i-th message is <<i, k>>.                                               *)
Units(q, n, s) ==
  UNION {{i} \X (1 .. q[i].len) : i \in {j \in DOMAIN q : q[j].cmd = s /\ q[j].n = n}}
Delivered(n, s) == Cardinality(Units(Answers, n, s))

(* No unit of output is lost or sent twice: what a command has written has  *)
(* been sent or is still in the pipe, whatever the order of SIGCHLD, hang-up *)
(* of the pipes, pauses of the streams and KTP_STDOUT_CLOSE.                *)
OutputConserved ==
  \A n \in 1 .. ncmd, s \in Streams :
    owed[n][s] = Delivered(n, s) + IF exec = n THEN pipe[s] ELSE 0

(* Whatever is paused has a wake-up to come, no order of stalls, direct     *)
(* writes and pauses loses it: a paused stream or a message left in the     *)
(* buffer has a POLLOUT of the client; a client that is not polled while    *)
(* the command has its stdin is polled again by the next write to it.       *)
NoLostWakeup ==
  /\ (\E s \in Streams : stream[s] = "off") \/ obuf # << >> => pollout
  /\ ~pollin /\ stdin = "open" => exec # 0 /\ pollstdin

(* A session that is over leaves its event loop: the exit flag never       *)
(* outlives the handler that set it (ktpd_session.c:1543, "only two places  *)
(* within code to really break the loop"), and a command that ends the      *)
(* session (nav exit, say) ends it when it is answered, not one later.      *)
ExitIsPrompt ==
  /\ exit => inev \/ ~alive
  /\ session_done /\ exec = 0 => exit

(* The session does not exit without telling the client                     *)
(* (ktpd_session.c:557 "Notify client about exiting").                      *)
ExitAnnounced ==
  exit => \E i \in DOMAIN Answers : "EXIT" \in Answers[i].status

(* ktpd_session.c:1066 "Temporarily stop data receiving from client because *)
(* buffer is full": without a command there is no full buffer, and the      *)
(* client is listened to.                                                   *)
PauseIsTemporary == exec = 0 => pollin

(* Every command is answered in the end: its output is drained through all  *)
(* pauses, its last SIGCHLD is noticed and, if it reads its stdin to the    *)
(* end, stdin is closed after the data the client has sent before.          *)
EveryCmdAnswered == exec # 0 /\ (filter => closereq) ~> exec = 0 \/ ~alive
=============================================================================
