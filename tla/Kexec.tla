------------------------------- MODULE Kexec -------------------------------
(***************************************************************************)
(* The command execution engine of klishd (klish/ksession/kexec.c) together *)
(* with the SIGCHLD handler that drives it (wait_for_actions_ev of          *)
(* klish/ktp/ktpd_session.c).                                               *)
(*                                                                         *)
(* A job (kexec_t) is a pipeline of stages (kcontext_t); a stage runs its  *)
(* ACTIONs one after another.  The server is single-threaded, so its code  *)
(* is a program counter "pc" that walks through exec_action_sequence(); the *)
(* processes it forks (ACTION processes and output grabbers) run and die   *)
(* between any two of its steps.                                           *)
(*                                                                         *)
(*   pc = "idle"  no job                                                   *)
(*        "each"  kexec_continue_command_execution() looks at stage `each' *)
(*        "loop"  exec_action_sequence() of stage `each' takes next ACTION *)
(*        "reap"  waitpid() loop of the SIGCHLD handler                    *)
(*        "wait"  the event loop                                           *)
(***************************************************************************)
EXTENDS Integers, Sequences, FiniteSets

CONSTANTS
  Pipelines,    \* the jobs a user can start: sequences of stages, a stage
                \* being the sequence of ACTIONs of the stage's command
  Pids,         \* process ids the kernel hands out, and hands out again
  Codes,        \* exit codes of processes, return values of sync symbols
  MaxForkFails  \* bound: pipe()/fork() failures within one job

NoPid == -1     \* kcontext_t.pid of a stage that never forked

(* How the process of an async ACTION ends: by itself, only after EOF on   *)
(* its stdin (a filter), or only when its stdout has no reader left.       *)
Ends == {"itself", "eof", "epipe"}

ExecOn == {"always", "success", "fail", "never"}

ActionType == [sync: BOOLEAN, silent: BOOLEAN, permanent: BOOLEAN,
               update_retcode: BOOLEAN, exec_on: ExecOn, ends: Ends]

ASSUME PipelinesAssumption == Pipelines \subseteq Seq(Seq(ActionType))
ASSUME PidsAssumption == Pids \subseteq Nat
ASSUME CodesAssumption == Codes \subseteq Int /\ 0 \in Codes
ASSUME MaxForkFailsAssumption == MaxForkFails \in Nat

VARIABLES
  pipeline,     \* exec->contexts: the ACTIONs of every stage
  dry_run,      \* exec->dry_run
  action_iter,  \* context->action_iter, 0 is NULL
  retcode,      \* context->retcode
  pid,          \* context->pid
  done,         \* context->done
  fdin,         \* does the server still hold the stage's stdin (read end)
  fdout,        \* does the server still hold the stage's stdout (write end)
  proc,         \* the process table: children of the server
  sigchld,      \* SIGCHLD is pending
  pc, each,     \* the server's control, see above
  wpid,         \* `pid' argument of exec_action_sequence()
  exitstatus,   \* local variable of exec_action_sequence()
  result,       \* retcode of the last finished job (kexec_retcode())
  fails,        \* pipe()/fork() failures so far within the job
  ran, code     \* history: what became of every ACTION, and its exit code

ctxvars == <<action_iter, retcode, pid, done, fdin, fdout>>
jobvars == <<pipeline, dry_run>>
history == <<ran, code>>
vars == <<pipeline, dry_run, action_iter, retcode, pid, done, fdin, fdout, proc,
          sigchld, pc, each, wpid, exitstatus, result, fails, ran, code>>

Stages == DOMAIN pipeline
Actions(c) == pipeline[c]
IsLast(c) == c = Len(pipeline)

Free == [state |-> "free", stage |-> 0, act |-> 0, code |-> 0, killed |-> FALSE]

ProcType == [state: {"free", "running", "zombie"}, stage: Nat, act: Nat,
             code: Codes, killed: BOOLEAN]

RanType == {"todo", "skipped", "dry", "nofork", "running", "over", "killed"}

TypeOK ==
  /\ pipeline \in Seq(Seq(ActionType))
  /\ dry_run \in BOOLEAN
  /\ action_iter \in [Stages -> Nat]
  /\ \A c \in Stages : action_iter[c] \in 0 .. Len(pipeline[c])
  /\ retcode \in [Stages -> Codes]
  /\ pid \in [Stages -> Pids \cup {NoPid}]
  /\ done \in [Stages -> BOOLEAN]
  /\ fdin \in [Stages -> BOOLEAN] /\ fdout \in [Stages -> BOOLEAN]
  /\ proc \in [Pids -> ProcType]
  /\ sigchld \in BOOLEAN
  /\ pc \in {"idle", "each", "loop", "reap", "wait"}
  /\ each \in Nat
  /\ pc = "each" => each \in 1 .. Len(pipeline) + 1
  /\ pc = "loop" => each \in Stages
  /\ wpid \in Pids \cup {NoPid}
  /\ exitstatus \in Codes
  /\ result \in Codes
  /\ fails \in 0 .. MaxForkFails
  /\ ran \in [Stages -> Seq(RanType)]
  /\ code \in [Stages -> Seq(Codes)]
  /\ \A c \in Stages : /\ Len(ran[c]) = Len(pipeline[c])
                       /\ Len(code[c]) = Len(pipeline[c])

Init ==
  /\ pipeline = << >> /\ dry_run = FALSE
  /\ action_iter = << >> /\ retcode = << >> /\ pid = << >> /\ done = << >>
  /\ fdin = << >> /\ fdout = << >>
  /\ proc = [p \in Pids |-> Free]
  /\ sigchld = FALSE
  /\ pc = "idle" /\ each = 0 /\ wpid = NoPid
  /\ exitstatus = 0 /\ result = 0 /\ fails = 0
  /\ ran = << >> /\ code = << >>

-----------------------------------------------------------------------------
(* kexec_new(), kexec_prepare() and kexec_exec(): the contexts are fresh,  *)
(* all pipes between them are open in the server, and the first ACTIONs    *)
(* are about to be started with pid -1 and wstatus 0.                      *)
KexecExec(p, dry) ==
  /\ pc = "idle"
  /\ p # << >>
  /\ pipeline' = p /\ dry_run' = dry
  /\ action_iter' = [c \in DOMAIN p |-> 0]
  /\ retcode' = [c \in DOMAIN p |-> 0]
  /\ pid' = [c \in DOMAIN p |-> NoPid]
  /\ done' = [c \in DOMAIN p |-> FALSE]
  /\ fdin' = [c \in DOMAIN p |-> TRUE]
  /\ fdout' = [c \in DOMAIN p |-> TRUE]
  /\ pc' = "each" /\ each' = 1 /\ wpid' = NoPid /\ exitstatus' = 0
  /\ fails' = 0
  /\ ran' = [c \in DOMAIN p |-> [i \in DOMAIN p[c] |-> "todo"]]
  /\ code' = [c \in DOMAIN p |-> [i \in DOMAIN p[c] |-> 0]]
  /\ UNCHANGED <<proc, sigchld, result>>

(* Wrong variants of a definition stand before it; a run with the variant  *)
(* in its place violates the property the variant is for.                  *)
KexecDoneSome == \E c \in Stages : done[c]

KexecRetcodeLast ==
  IF \A c \in Stages : retcode[c] = 0 THEN 0
  ELSE retcode[CHOOSE c \in Stages :
                 retcode[c] # 0 /\ \A d \in Stages : d > c => retcode[d] = 0]

(* kexec_done() and kexec_retcode(): the first non-zero retcode in         *)
(* pipeline order, valid when every stage is done.                         *)
KexecDone == \A c \in Stages : done[c]

KexecRetcode ==
  IF \A c \in Stages : retcode[c] = 0 THEN 0
  ELSE retcode[CHOOSE c \in Stages :
                 retcode[c] # 0 /\ \A d \in Stages : d < c => retcode[d] = 0]

(* Common end of ktpd_session_exec() and of wait_for_actions_ev(): a       *)
(* finished job is freed with its descriptors, an unfinished one waits for *)
(* the next event.                                                         *)
CheckDone ==
  IF KexecDone THEN /\ result' = KexecRetcode
                    /\ pc' = "idle"
                    /\ fdin' = [c \in Stages |-> FALSE]
                    /\ fdout' = [c \in Stages |-> FALSE]
               ELSE /\ pc' = "wait"
                    /\ UNCHANGED <<result, fdin, fdout>>

(* kexec_continue_command_execution(): a stage that is done, or that does  *)
(* not own the terminated process, is passed over.  exitstatus is a local  *)
(* variable that every stage starts with the wstatus of the call.          *)
NotMineByPidOnly(c) == pid[c] # wpid

NotMine(c) == done[c] \/ pid[c] # wpid

SkipContext ==
  /\ pc = "each" /\ each \in Stages
  /\ NotMine(each)
  /\ each' = each + 1
  /\ UNCHANGED <<ctxvars, jobvars, proc, sigchld, pc, wpid, exitstatus, result,
                 fails, history>>

EnterContextAlwaysUpdates ==
  /\ pc = "each" /\ each \in Stages
  /\ ~NotMine(each)
  /\ LET i == action_iter[each]
     IN IF i > 0 /\ ~Actions(each)[i].sync
        THEN retcode' = [retcode EXCEPT ![each] = exitstatus]
        ELSE UNCHANGED retcode
  /\ exitstatus' = IF wpid = NoPid THEN 0 ELSE exitstatus
  /\ pc' = "loop"
  /\ UNCHANGED <<action_iter, pid, done, fdin, fdout, jobvars, proc, sigchld,
                 each, wpid, result, fails, history>>

EnterContext ==
  /\ pc = "each" /\ each \in Stages
  /\ ~NotMine(each)
  /\ LET i == action_iter[each]
     IN IF i > 0 /\ ~Actions(each)[i].sync /\ Actions(each)[i].update_retcode
        THEN retcode' = [retcode EXCEPT ![each] = exitstatus]
        ELSE UNCHANGED retcode
  /\ exitstatus' = IF wpid = NoPid THEN 0 ELSE exitstatus
  /\ pc' = "loop"
  /\ UNCHANGED <<action_iter, pid, done, fdin, fdout, jobvars, proc, sigchld,
                 each, wpid, result, fails, history>>

(* The iteration over contexts has ended without a break.                  *)
NoMoreContexts ==
  /\ pc = "each" /\ each \notin Stages
  /\ IF wpid = NoPid THEN CheckDone
                     ELSE pc' = "reap" /\ UNCHANGED <<result, fdin, fdout>>
  /\ UNCHANGED <<action_iter, retcode, pid, done, jobvars, proc, sigchld, each,
                 wpid, exitstatus, fails, history>>

(* exec_action_sequence() returned TRUE: with a real pid the iteration over *)
(* contexts is broken, in the initial pass (pid = -1) it goes on.          *)
NextContext ==
  IF wpid = NoPid THEN pc' = "each" /\ each' = each + 1
                  ELSE pc' = "reap" /\ UNCHANGED each

-----------------------------------------------------------------------------
(* One iteration of the do-while loop of exec_action_sequence() each.      *)

MeetExecConditions(a, rc) ==
  \/ a.exec_on = "always"
  \/ a.exec_on = "success" /\ rc = 0
  \/ a.exec_on = "fail" /\ rc # 0

NextAct == action_iter[each] + 1
NextAction == Actions(each)[NextAct]
HasNext == NextAct \in DOMAIN Actions(each)

Selected == /\ pc = "loop" /\ HasNext
            /\ MeetExecConditions(NextAction, retcode[each])

Simulated == dry_run /\ ~NextAction.permanent

SetRetcode(value) ==
  retcode' = IF NextAction.update_retcode THEN [retcode EXCEPT ![each] = value]
                                          ELSE retcode

Advance == action_iter' = [action_iter EXCEPT ![each] = NextAct]

Record(what, value) ==
  /\ ran' = [ran EXCEPT ![each][NextAct] = what]
  /\ code' = [code EXCEPT ![each][NextAct] = value]

SequenceEndKeepsStdin ==
  /\ pc = "loop" /\ ~HasNext
  /\ action_iter' = [action_iter EXCEPT ![each] = 0]
  /\ done' = [done EXCEPT ![each] = TRUE]
  /\ fdout' = [fdout EXCEPT ![each] = FALSE]
  /\ NextContext
  /\ UNCHANGED <<fdin, retcode, pid, jobvars, proc, sigchld, wpid, exitstatus,
                 result, fails, history>>

(* End of the ACTION sequence: both pipe ends held for the stage are       *)
(* closed, so that its neighbours see EOF and EPIPE.                       *)
SequenceEnd ==
  /\ pc = "loop" /\ ~HasNext
  /\ action_iter' = [action_iter EXCEPT ![each] = 0]
  /\ done' = [done EXCEPT ![each] = TRUE]
  /\ fdout' = [fdout EXCEPT ![each] = FALSE]
  /\ fdin' = [fdin EXCEPT ![each] = FALSE]
  /\ NextContext
  /\ UNCHANGED <<retcode, pid, jobvars, proc, sigchld, wpid, exitstatus, result,
                 fails, history>>

SkipAction ==
  /\ pc = "loop" /\ HasNext
  /\ ~MeetExecConditions(NextAction, retcode[each])
  /\ Advance
  /\ Record("skipped", 0)
  /\ UNCHANGED <<retcode, pid, done, fdin, fdout, jobvars, proc, sigchld, pc,
                 each, wpid, exitstatus, result, fails>>

(* Dry run: nothing is executed and the exit status is 0.                  *)
DryRunAction ==
  /\ Selected /\ Simulated
  /\ Advance /\ SetRetcode(0) /\ exitstatus' = 0
  /\ Record("dry", 0)
  /\ UNCHANGED <<pid, done, fdin, fdout, jobvars, proc, sigchld, pc, each, wpid,
                 result, fails>>

(* exec_action_sync(), a silent symbol in the last stage: no grabber.      *)
SilentAction(v) ==
  /\ Selected /\ ~Simulated
  /\ NextAction.sync /\ NextAction.silent /\ IsLast(each)
  /\ Advance /\ SetRetcode(v) /\ exitstatus' = v
  /\ Record("over", v)
  /\ UNCHANGED <<pid, done, fdin, fdout, jobvars, proc, sigchld, pc, each, wpid,
                 result, fails>>

NeedsGrabber == NextAction.sync /\ ~(NextAction.silent /\ IsLast(each))

ForkForgetsPid(p) ==
  /\ proc[p].state = "free"
  /\ proc' = [proc EXCEPT ![p] = [Free EXCEPT !.state = "running", !.stage = each,
                                              !.act = NextAct]]
  /\ UNCHANGED pid

Fork(p) ==
  /\ proc[p].state = "free"
  /\ proc' = [proc EXCEPT ![p] = [Free EXCEPT !.state = "running", !.stage = each,
                                              !.act = NextAct]]
  /\ pid' = [pid EXCEPT ![each] = p]

(* exec_action_sync() with a grabber: the symbol runs in the server, the   *)
(* forked process only carries its output.                                 *)
SyncAction(p, v) ==
  /\ Selected /\ ~Simulated
  /\ NeedsGrabber
  /\ Advance /\ Fork(p)
  /\ SetRetcode(v) /\ exitstatus' = v
  /\ Record("over", v)
  /\ NextContext
  /\ UNCHANGED <<done, fdin, fdout, jobvars, sigchld, wpid, result, fails>>

AsyncActionClosesStdout(p) ==
  /\ Selected /\ ~Simulated
  /\ ~NextAction.sync
  /\ Advance /\ Fork(p)
  /\ Record("running", 0)
  /\ fdout' = [fdout EXCEPT ![each] = FALSE]
  /\ NextContext
  /\ UNCHANGED <<retcode, done, fdin, jobvars, sigchld, wpid, exitstatus,
                 result, fails>>

AsyncAction(p) ==
  /\ Selected /\ ~Simulated
  /\ ~NextAction.sync
  /\ Advance /\ Fork(p)
  /\ Record("running", 0)
  /\ NextContext
  /\ UNCHANGED <<retcode, done, fdin, fdout, jobvars, sigchld, wpid, exitstatus,
                 result, fails>>

(* pipe() or fork() fails in exec_action_sync() or exec_action_async().    *)
(* Nobody looks at the result of exec_action(): the loop goes on, and for  *)
(* a sync ACTION the old value of exitstatus becomes the retcode.          *)
ForkFails ==
  /\ Selected /\ ~Simulated
  /\ ~NextAction.sync \/ NeedsGrabber
  /\ fails < MaxForkFails
  /\ fails' = fails + 1
  /\ Advance
  /\ IF NextAction.sync THEN SetRetcode(exitstatus) ELSE UNCHANGED retcode
  /\ Record("nofork", 0)
  /\ UNCHANGED <<pid, done, fdin, fdout, jobvars, proc, sigchld, pc, each, wpid,
                 exitstatus, result>>

-----------------------------------------------------------------------------
(* SIGCHLD is handled by the event loop.                                   *)
SigChld ==
  /\ pc = "wait" /\ sigchld
  /\ sigchld' = FALSE
  /\ pc' = "reap"
  /\ UNCHANGED <<ctxvars, jobvars, proc, each, wpid, exitstatus, result, fails,
                 history>>

(* A late SIGCHLD of a job that is already finished.                       *)
SigChldIdle ==
  /\ pc = "idle" /\ sigchld
  /\ sigchld' = FALSE
  /\ proc' = [p \in Pids |-> IF proc[p].state = "zombie" THEN Free ELSE proc[p]]
  /\ UNCHANGED <<ctxvars, jobvars, pc, each, wpid, exitstatus, result, fails,
                 history>>

(* WEXITSTATUS() of a process killed by a signal is 0.                     *)
WExitStatus(q) == IF q.killed THEN 0 ELSE q.code

(* waitpid(-1, WNOHANG) returned p.                                        *)
Reap(p) ==
  /\ pc = "reap" /\ proc[p].state = "zombie"
  /\ wpid' = p /\ exitstatus' = WExitStatus(proc[p])
  /\ proc' = [proc EXCEPT ![p] = Free]
  /\ pc' = "each" /\ each' = 1
  /\ UNCHANGED <<ctxvars, jobvars, sigchld, result, fails, history>>

ReapNone ==
  /\ pc = "reap"
  /\ \A p \in Pids : proc[p].state # "zombie"
  /\ CheckDone
  /\ UNCHANGED <<action_iter, retcode, pid, done, jobvars, proc, sigchld, each,
                 wpid, exitstatus, fails, history>>

-----------------------------------------------------------------------------
(* The children.  A process holds the stdout of its stage; only an async   *)
(* one holds the stdin too (a grabber closes everything but its outputs).  *)
IsGrabber(p) == Actions(proc[p].stage)[proc[p].act].sync

Running(p) == proc[p].state = "running"

Eof(c) ==
  /\ c > 1 /\ ~fdout[c - 1]
  /\ \A p \in Pids : Running(p) => proc[p].stage # c - 1

NoReader(c) ==
  /\ c < Len(pipeline) /\ ~fdin[c + 1]
  /\ \A p \in Pids : Running(p) /\ ~IsGrabber(p) => proc[p].stage # c + 1

MayEnd(p) ==
  \/ IsGrabber(p)
  \/ LET how == Actions(proc[p].stage)[proc[p].act].ends
     IN \/ how = "itself"
        \/ how = "eof" /\ Eof(proc[p].stage)
        \/ how = "epipe" /\ NoReader(proc[p].stage)

Die(p, what, value, byKill) ==
  /\ proc' = [proc EXCEPT ![p].state = "zombie", ![p].code = value,
                          ![p].killed = byKill]
  /\ sigchld' = TRUE
  /\ IF IsGrabber(p) THEN UNCHANGED history
     ELSE /\ ran' = [ran EXCEPT ![proc[p].stage][proc[p].act] = what]
          /\ code' = [code EXCEPT ![proc[p].stage][proc[p].act] = value]
  /\ UNCHANGED <<ctxvars, jobvars, pc, each, wpid, exitstatus, result, fails>>

ChildExit(p, v) ==
  /\ Running(p) /\ MayEnd(p)
  /\ IsGrabber(p) => v = 0
  /\ Die(p, "over", v, FALSE)

(* A signal (from the terminal, the OOM killer, an operator) ends a child. *)
ChildKilled(p) ==
  /\ Running(p)
  /\ Die(p, "killed", 0, TRUE)

-----------------------------------------------------------------------------
Server ==
  \/ SkipContext \/ EnterContext \/ NoMoreContexts
  \/ SequenceEnd \/ SkipAction \/ DryRunAction
  \/ \E v \in Codes : SilentAction(v)
  \/ \E p \in Pids, v \in Codes : SyncAction(p, v)
  \/ \E p \in Pids : AsyncAction(p)
  \/ ForkFails
  \/ SigChld \/ SigChldIdle
  \/ \E p \in Pids : Reap(p)
  \/ ReapNone

Next ==
  \/ \E p \in Pipelines, d \in BOOLEAN : KexecExec(p, d)
  \/ Server
  \/ \E p \in Pids, v \in Codes : ChildExit(p, v)
  \/ \E p \in Pids : ChildKilled(p)

Spec == Init /\ [][Next]_vars

(* The server is a process that runs whenever it can, and so is a child    *)
(* that can end.  Nobody has to start jobs, and nobody has to kill.        *)
Fairness ==
  /\ WF_vars(Server)
  /\ \A p \in Pids : WF_vars(\E v \in Codes : ChildExit(p, v))

FairSpec == Spec /\ Fairness

-----------------------------------------------------------------------------
(* Properties.                                                             *)

(* Documented meaning of the overall return code (docs/klish3.en.md,        *)
(* "Action" and "update_retcode"): the exit code of the last executed       *)
(* ACTION with update_retcode among the first n ones, 0 if there is none.   *)
Updating(c, i) == /\ ran[c][i] \in {"dry", "over", "killed"}
                  /\ Actions(c)[i].update_retcode

Overall(c, n) ==
  LET U == {i \in DOMAIN Actions(c) : i <= n /\ Updating(c, i)}
  IN IF U = {} THEN 0 ELSE code[c][CHOOSE i \in U : \A j \in U : j <= i]

GrabberFailed(c) ==
  \E i \in DOMAIN Actions(c) : ran[c][i] = "nofork" /\ Actions(c)[i].sync

(* Every child of the server, running or zombie, is the current process of  *)
(* exactly the stage that forked it, and that stage is not done; so no      *)
(* stage has two processes, a pid the kernel reuses is never taken for the  *)
(* process of another stage, and a finished job leaves no process behind    *)
(* (exec_action_sequence(), kcontext_set_pid()).                            *)
ChildHasOwner ==
  \A p \in Pids : proc[p].state # "free" =>
    /\ pc # "idle"
    /\ proc[p].stage \in Stages
    /\ ~done[proc[p].stage]
    /\ pid[proc[p].stage] = p
    /\ action_iter[proc[p].stage] = proc[p].act

(* While the server sits in its event loop every unfinished stage has a     *)
(* process, and the SIGCHLD of every dead one is still to come: no child    *)
(* that died at an unlucky moment (during the fork of another stage, inside *)
(* the waitpid() loop, together with another one) is ever lost.             *)
NoLostChild ==
  pc = "wait" =>
    /\ \A c \in Stages : ~done[c] =>
         \E p \in Pids : pid[c] = p /\ proc[p].state # "free" /\ proc[p].stage = c
    /\ (\E p \in Pids : proc[p].state = "zombie") => sigchld

(* The inductive invariant behind the two properties above.  A stage whose  *)
(* process is gone is about to be looked at, or being advanced, by          *)
(* exec_action_sequence(); only one stage can be meant by a reaped pid; and *)
(* a zombie is either announced or in front of the waitpid() loop.          *)
HasProcess(c) == /\ pid[c] \in Pids
                 /\ proc[pid[c]].state # "free" /\ proc[pid[c]].stage = c

Pending(c) ==
  \/ pc = "each" /\ c >= each /\ pid[c] = wpid
  \/ pc = "loop" /\ c = each
  \/ pc = "loop" /\ wpid = NoPid /\ c > each /\ pid[c] = NoPid

Walking == pc \in {"each", "loop"}

ActsAreActions ==
  \A p \in Pids : proc[p].state # "free" =>
    proc[p].act \in DOMAIN Actions(proc[p].stage)
LoopOwnsNothing ==
  pc = "loop" => /\ ~done[each] /\ pid[each] = wpid
                 /\ \A p \in Pids : proc[p].state # "free" => proc[p].stage # each
ReapedIsFree == Walking /\ wpid # NoPid => proc[wpid].state = "free"
ReapedOwner ==
  Walking /\ wpid # NoPid => \A c, d \in Stages :
    ~done[c] /\ ~done[d] /\ pid[c] = wpid /\ pid[d] = wpid => c = d
Attended == \A c \in Stages : ~done[c] => Pending(c) \/ HasProcess(c)
Announced ==
  (\E p \in Pids : proc[p].state = "zombie") =>
    sigchld \/ pc = "reap" \/ (Walking /\ wpid # NoPid)

IInv == /\ TypeOK /\ ChildHasOwner /\ ActsAreActions /\ LoopOwnsNothing
        /\ ReapedIsFree /\ ReapedOwner /\ Attended /\ Announced

(* ACTIONs are decided strictly in order, one at a time, and an ACTION is   *)
(* executed or skipped exactly as exec_on and the overall return code of    *)
(* the ACTIONs before it say; unless a grabber could not be forked.         *)
ExecOnAsDocumented ==
  \A c \in Stages : \A i \in DOMAIN Actions(c) : ran[c][i] # "todo" =>
    /\ \A j \in 1 .. i - 1 : ran[c][j] \notin {"todo", "running"}
    /\ GrabberFailed(c) \/
         (ran[c][i] = "skipped" <=> ~MeetExecConditions(Actions(c)[i], Overall(c, i - 1)))

(* The retcode a finished job reports is the overall return code of the     *)
(* first failed stage, 0 if no stage failed; unless a grabber could not be  *)
(* forked.                                                                  *)
JobRetcode ==
  pc = "idle" /\ (\A c \in Stages : ~GrabberFailed(c)) =>
    LET overall(c) == Overall(c, Len(Actions(c)))
        Failed == {c \in Stages : overall(c) # 0}
    IN result = IF Failed = {} THEN 0
                ELSE overall(CHOOSE c \in Failed : \A d \in Failed : c <= d)

(* The server keeps its two pipe ends of a stage until the last ACTION of   *)
(* the stage is decided and its process is reaped: no ACTION is ever        *)
(* started on closed streams, and no neighbour sees an early EOF.           *)
EndsOpenWhileStageRuns ==
  \A c \in Stages : pc # "idle" /\ (~fdin[c] \/ ~fdout[c]) =>
    /\ \A i \in DOMAIN Actions(c) : ran[c][i] \notin {"todo", "running"}
    /\ \A p \in Pids : proc[p].state # "free" => proc[p].stage # c

(* Every job finishes: filters get their EOF, writers their EPIPE, and      *)
(* every child that dies is noticed.                                        *)
JobFinishes == pc # "idle" ~> pc = "idle"

=============================================================================
