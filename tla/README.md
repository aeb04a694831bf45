# Verification of klish

klish is a framework for command line interfaces. A user types a line in the
client `klish`; the daemon `klishd` forks a service process per client, which
parses the line against a scheme of commands, executes its ACTIONs as a
pipeline of processes and sends the output back. This directory holds TLA+
models of the parts of klish 3 where events of several actors meet, the TLC
runs that check them and the theorems TLAPS proves about them.

Every definition of a model is a translation of C code; `PROJECT.json` ("map")
names the lines of each one. `libfaux` (event loop, buffers, message framing)
is not part of the repository and is modelled from how the code uses it.

## 1. Inventory

| Part | State | Operations | Talks to |
|---|---|---|---|
| Execution engine (`klish/ksession/kexec.c`, `kcontext.c`, `kaction.c`) | per stage: ACTION iterator, pid, retcode, done flag, two pipe ends; per job: contexts, dry run | prepare, exec, continue after a dead child, done, retcode | forks ACTION processes and grabbers; is called by the server session and by local executions |
| Output grabber (`grabber.c`) | two streams with buffer and two descriptors, the polled events | read, write, hang-up, SIGPIPE, leave | the symbol in the server at one end, stdout/stderr of the stage at the other |
| KTP server session (`klish/ktp/ktpd_session.c`) | protocol state, running job, `exit`, `stdin_must_be_closed`, polled events, two buffers | one handler per KTP request, four event handlers | client (messages), engine (calls, SIGCHLD), parser, local executions |
| KTP client session (`klish/ktp/ktp_session.c`) | protocol state, request done, retcode, last stream | one operation per request, one handler per answer | server (messages), `klish` (callbacks) |
| Client `klish` (`bin/klish/klish.c`) | mode, list of commands, pager, hotkeys, stdin polling | send next command, callbacks for answers, stdin, output, keys | client session, line editor, pager |
| KTP messages (`klish/ktp/ktp.c`) | none | build an answer, report an error, stall of a full buffer | both sessions |
| Parser (`ksession_parse.c`, `kpargv.c`, `kparg.c`) | the tree of parsed arguments | parse a line, split at pipes, check filters, completion | scheme, local executions |
| Local execution (`ksession_parse.c` 691-912) | a nested event loop, the session's done flag | run a symbol for PTYPE, COND, PROMPT, LOG and take its output | engine |
| Path and navigation (`nav.c`, `kpath.c`, `klevel.c`, `ksession.c`) | stack of levels | push, pop, top, replace, exit; restore at execution | engine (ACTIONs of plugin klish) |
| Scheme (`klish/kscheme/`) | tree of entries, plugins, symbols, user data | prepare, link, nest, look up, initialize and finish plugins | loaders, session |
| Daemon (`bin/klishd/klishd.c`) | listening socket, pid file, configuration, children | accept and fork, reload, wait for children, stop | sessions |
| Loaders (`xml-helper`, `ischeme`, `dbs`) | none that lasts | XML or C tables to calls of the scheme | scheme |
| Line editor (`tinyrl`) | line, history, busy flag, key table | read keys, edit, history | client |
| Plugins (`plugins/`) | the path through the session, otherwise none | parameter types, helpers, script and lua interpreters | engine |

What is hard in this code:

* **Children.** The server forks several processes per job, pids are reused,
  SIGCHLDs coalesce and arrive between any two steps. An exit status must reach
  the stage that forked the process, and no death may be missed.
* **Pipe ends.** The server, the ACTION process and the grabber hold copies of
  the same pipe ends. One closed too early truncates data, one kept too long
  keeps a neighbour waiting for ever.
* **Flow control.** Output of a command is paused while the client's buffer is
  full, input of the client while the command's buffer is full. Each pause
  needs a wake-up that cannot be lost.
* **Ordering.** A dead child, its last output, a hang-up, a request of the
  client and a signal may come in any order, several requests in one read.
* **Ending.** Three flags end a session (`done` of the session, `exit` of the
  protocol, the event loop's stop) and must agree whoever sets them first.
* **Search.** The parser searches the scheme with one iterator over the words of
  a line, without backtracking, and the same search serves execution,
  completion and help. A word taken too early or given back too late shows
  only in a line that nobody has typed yet.
* **Assembly.** A scheme is put together from files that may repeat, extend and
  refer to each other's elements, in the order they happen to be read; each of
  several hundred paths through the loaders may refuse it.
* **Processes of the daemon.** Daemon and services share descriptors after a
  fork; each has its own copy of plugins and scheme to finish in the right order.

`PROJECT.json` ("hazards") lists these at their lines, with the properties that
would catch them, or the reason why none does yet.

What makes each part correct: for the engine, that an exit status is
attributed to its ACTION and decides about the next ones as the manual says;
for the grabber, that it delivers everything and ends; for the server session,
one final answer per command, output inside its command and never lost, no
pause for ever, and an end that the client hears of; for the client, that it
accepts what the server answers, sends in the right state and reports the
return code; for the path, that it is never empty and restored exactly; for the
parser, that it accepts the lines the documented grammar allows, and no others,
and suggests what can be typed; for the scheme, that what is accepted is sound
and complete and that links give what is written for the ENTRY they name; for the
daemon, that
connections and shared objects live as long as they are used and no longer.

## 2. Modules

| Module | Models | Uses |
|---|---|---|
| `Kexec` | execution engine and the SIGCHLD handler that drives it | |
| `Grabber` | output grabber of one sync symbol | |
| `Ktp` | messages of the protocol, as both sides build and recognize them | |
| `KtpService` | abstract contract of a session: which answers in which order | `Ktp` |
| `KtpdSession` | server session with its event loop, buffers and flow control; implements `KtpService` | `Ktp`, `KtpService` (INSTANCE with a refinement mapping) |
| `KtpClient` | client session and client `klish`, against any server that keeps `KtpService` | `Ktp`, `KtpService` (INSTANCE) |
| `ViewPath` | the session's path: search of its levels, restore, nav scripts, and the prompt and hotkeys the client shows | |
| `Parser` | a line from its words to parsed components: pipes, levels, COND, PTYPE, SWITCH, SEQ, `min`, `max`, `order`, filters, for execution, completion and help; with the documented grammar as reference | |
| `Scheme` | from the tags of the configuration files to a prepared scheme: loaders, merging, symbols, references, LOG; with a reference of what a sound configuration is and of what it says | |
| `SchemeReference` | the part of that reference that is recursive: what a reference names and what a link takes over of it, the PTYPE of a command; for TLC only | `Scheme` |
| `Klishd` | the processes of the daemon: data bases and plugins, socket, fork, wait, the end of daemons and services | |
| `MC...` | instances for TLC | the module they are named after; `MCScheme`: `SchemeReference` |
| `KexecProofs`, `GrabberProofs`, `KtpServiceProofs`, `KtpClientProofs`, `ViewPathProofs`, `KlishdProofs`, `SchemeProofs` | theorems | the module they are named after |
| `KtpdSessionProofs` | theorems; that `KtpdSession` implements `KtpService`, and what follows | `KtpdSession`, `KtpServiceProofs` (INSTANCE) |

The modules meet at two seams. `KtpdSession` sees a command as a number of
processes to be terminated and the data they write: that a job ends, and each
SIGCHLD reaches it, is what `Kexec` and `Grabber` show. `KtpClient` sees the
server as `KtpService`: that the real session keeps this contract is
`KeepsPromise` of `KtpdSession`, checked and proved. `ViewPath` stands beside them: it looks only at
commands that wait for each other, which `KtpService` and `KtpClient` show.
`Parser` starts from a prepared scheme, which `Scheme` ends with; what a command
line "leads to" is an input of `KtpdSession`. `Klishd` sees a session as a
process with a connection, and the load of a scheme as a step that may fail.

### State and code

**Kexec.** `action_iter`, `retcode`, `pid`, `done` are the fields of
`kcontext_t`; `fdin`/`fdout` say whether the server holds its copy of a stage's
pipe ends. The server is one thread, so its place in
`kexec_continue_command_execution()` and `exec_action_sequence()` is a program
counter: `each` (the loop over contexts), `loop` (the loop over ACTIONs),
`reap` (the `waitpid()` loop), `wait` (the event loop). `proc` is the process
table; children end, and pids are handed out again, between any two steps.
`ran` and `code` are history: what became of each ACTION.

**Grabber.** `buf`, `fd_in`, `fd_out` are the fields of a stream, `polled` and
`pollout` the event loop. `InEv`, `OutEv`, `SigPipe` and `SigStop` are the
handlers, `SymWrite`, `SymReturn`, `Drain`, `ReaderCloses` the two sides
outside.

**KtpdSession.** `state`, `exec`, `exit`, `stdin_must_be_closed` are fields of
`ktpd_session_t`, `session_done` the flag of its `ksession_t`, `bufin` and
`obuf` the two buffers; `pollin`, `pollout`, `pollstdin`, `stdin` and `stream`
say what is polled. `plan` names the client of a behaviour: what it sends and
what its commands do. A handler is one step. `client_ev()` is several: it
dispatches all complete messages of a block, `inev` is TRUE meanwhile, and only
`ClientEvEnd` looks at the exit flag. A message is one action per handler of
`ktpd_session_dispatch()`; `Refuse` has its error cases, requests it does not know
and broken headers. `lastdone` says that the last stage of the pipeline is done: the
server then closes its stdout (`kexec.c:723`), and its hang-up may come while other
stages go on. `s2c` is everything the
socket ever took, a history that the properties read.

**KtpService.** The session without buffers: `phase`, the running command
`cur`, the count `ncmd` of commands served, `eof` (its stdin is closed). The
refinement mapping of `KtpdSession` takes `s2c` to what is sent and what is
still in `obuf`, `phase` to the protocol state, `cur` to `exec`.

**KtpClient.** `state`, `done`, `retcode`, `features` are fields of
`ktp_session_t`, `obuf` and `pollout` its unsent requests; `busy` is the line
editor's flag, `pager` is `pager_working` (`none`: `popen()` has failed),
`polled` says whether stdin is in the event loop, `opts` how klish was started.
`inev` is TRUE between the messages that `server_ev()` dispatches. `stdin_cb()`
is `StdinPaused`, `KeyEnter`, `KeyHint`, `KeyOther` and `Feed`. `over` is the
exit status.

**ViewPath.** `path` is `session->path`, the deepest level last, `saved_path`
the copy `kexec_prepare()` makes, `todo` and `script` what is left of the
command and of the running nav script: one action is one ACTION or one line.
What parsing gives within one view is a constant (`parse` of a command); the
search through the levels is `FoundAt`, the level it reports `level_found`.
`ack` is an answer on its way, `prompt` and `hotkeys` are the client's.

**Parser.** `line` and `open` are what the user has typed (`open`: nothing
follows the last word, it can be continued), `reply` what the last request gave.
The parse itself is no state: `ParseArg`, `Switch`, `Sequence`, `Repeat` and
`ParseLevel` follow the recursion of `ksession_parse_arg()` and
`ksession_parse_line()`, and pass the parse `s` along, whose `next` is the
position of `argv_iter`: it is not reset when a branch fails, as in the code.
The reference (`One`, `Times`, `Ordered`, `Readings`, `Legal`) has no search
order at all: it is the set of readings of a line.

**Scheme.** A file is a sequence of tags, `at` the next one, `stack` the
elements open. There is one action per handler of a tag (`ProcessView` for
`process_view()`), `ParseIentry` for the compiled-in structures, and
`CloseElement` for what a handler does after its nested elements. `todo` is what
is left of the recursion of `kscheme_prepare_entry()`; `Follow` is one turn of
its loop over references, `Link` is `kentry_link()`. An ENTRY is named by its
path; `lists` says whose nested ENTRYs and ACTIONs it uses. The reference reads
the same tags as one text (`Elements`: what a tag is inside of follows from the
tags before it, `Where`) and follows references through whatever links
(`Copied`, in `SchemeReference`). Where manual and loader disagree on what is
sound (`Disputed`: elements without a name, two LOGs on one level; see 5) it
takes neither side. Of a link it claims what the code takes over
(`LinksResolved`): nested ENTRYs, ACTIONs, `mode` and the filter rule are those
of the ENTRY named, `help` and `value` too unless the link has its own; the
other attributes are the subject of 5. Assumed, because the code loops, crashes
or ignores them: references form no cycle (`kscheme.c:368` follows them for
ever), KLISH is the root and is not nested, nothing is inside HOTKEY. A scheme
that was refused is thrown away, so what it looks like is not compared.

**Klishd.** `pc` is the place of each process in `main()`, `path` the daemon whose
socket the path of the socket leads to, `holds` and `held` the processes that
have a listening socket or a connection open, `backlog` the clients the kernel
has queued. `open`, `inited`, `session`, `udata` and `prepared` are kept per
process, since a fork copies them. `Ends` is the end of a process as the kernel
sees it, `Killed` a crash anywhere. Each call that can fail may fail.

Messages to the client carry the number of their command. The protocol has no
such number; no guard reads it, only properties do.

A definition marked as mutant, or named like another with a suffix
(`KexecDoneSome`, `EmitOvertakes`), is a wrong variant of it. It is used by no
specification; with the variant in the place of the original some property of a
run fails, which shows that the property depends on that definition.

## 3. Runs

| Run | Instance | Shows |
|---|---|---|
| `kexec` | ten jobs of one to three stages (`MCKexec`), three pids, codes 0 to 2, one failing fork | a child always belongs to the stage that waits for it, none is lost, pipe ends stay open while the stage runs, `exec_on`/`update_retcode` act as documented, the job's retcode is that of the first failed stage, every job finishes |
| `session_protocol` | two clients: eleven requests, four of them in any order, and six among which are unknown and broken ones, one command of one process and one unit of output | every step is allowed by the contract, a session that is over leaves its loop at once and says so |
| `session_streams` | three clients: five requests of stdin and its close to a command that reads its stdin to the end; four of them with SIGTERM during any local execution, to a command whose last stage needs no process or does; two processes that write 3 and 1 units, with stdout close | output is neither lost nor duplicated nor outside its command; whatever is paused has a wake-up to come; every command is answered, a filter once its stdin is closed |
| `grabber_pipes` | two descriptors of one unit, three units per stream | everything is delivered, the grabber does not leave early unless it is stopped, and it does leave |
| `client` | klish interactive, with a list of commands (with and without stop-on-error), with commands from stdin; two commands, two units of input, one signal | client and server agree on the state of the session, late input hits no other command and its end follows all of it, stdin is not forgotten, a failure stops a script and is reported, lists end |
| `view_path` | four views, one of them opaque, paths of up to five levels, fifteen commands with nav scripts that fail, leave or continue in the middle; every view has a prompt and hotkeys | the path keeps a level, restore starts a command in the nearest view that defines it, the client's prompt and hotkeys are those of the path |
| `parser` | six schemes after parts of the manual, all lines of up to four words, finished or not | what is executed is what the manual allows, nothing it allows is refused, every word suggested leads to a command, and no word is hidden |
| `scheme` | 837 configurations: views with references in every order, one of them to the view around it, LOG at any level, one command written twice in XML and in compiled-in files, 23 elements in every place and in pairs, a broken file | what is accepted is sound and what has no links is accepted if it is, where manual and code agree on that; files add up; a ready scheme is what was written (a link gives what is written for the ENTRY it names, a command has the PTYPE written for it); the closest LOG is found, preparation ends |
| `klishd` | two daemons on one path, two services, two clients, one data base, one plugin; failures, stops and crashes anywhere | code outlives its users in every process, connections die with their service, no zombie stays, no client waits for ever |
| `session_pause` | the first client of `session_streams` | **violated**: see 5 |
| `parser_seq` | example 5 of the manual's section on `mode` | **violated** |
| `scheme_links` | three views in every order, a reference through a link | **violated** |

### Bounds and why they are enough

Buffers, pipes and sockets have a capacity of one unit or message, and there is
one more to come, so that every buffer fills, stalls and drains. Two to three
commands let something of one command reach the next. Three pids for three
stages make the kernel reuse a pid while another stage runs. Requests in
`KtpdSession` are bounded per client (`msgs`, at most `MaxMsgs`), commands of
`KtpClient` by `MaxCmds`, data by `MaxOut` (of module `Ktp`, for commands and
messages alike), `MaxWrite` and `MaxInput`, output in flight by `MaxInFlight`,
signals by `MaxSignals`, failing forks by `MaxForkFails`. The socket to the
client takes any prefix of what is buffered, so short writes of every length
occur.

The clients of `session_protocol` and `session_streams` ask different questions of
one module and send different requests, since all of them at once are too many
states. SIGTERM may hit a local execution (`term`) only where it does no harm:
with it `ExitAnnounced` and `ExitIsPrompt` do not hold in `session_protocol`,
see 5.

Lines of the parser have at most `MaxArgs` words (4), pipes included, of the five
or six of a scheme: enough for a command with three parameters in any order, for
a pipe with an argument on both sides, and for a repeated or missing word. The
two properties of completion extend a line by `MoreArgs` words (2). COMMAND accepts abbreviations,
so that a word can begin another. `DocumentedIsAccepted` is claimed only where no
word fits two ENTRYs: otherwise the first one in the scheme gets it, which the
manual does not rule out.

Two daemons for one path are what the code has to deal with when an old one is
still running. A process that loads or clears what it has loaded takes these
steps alone (`PrivateStepsAlone` of `MCKlishd`): they touch nothing that another
process sees, so their place among the steps of others is no matter. Which unused
process a fork yields makes no difference either (`NewPid`).

A command is typed in `ViewPath` on a path of at most
`MaxDepth` levels; its script may make it longer.

Deadlock is checked for `kexec`. The other systems may really stop: a session
whose client is gone, a client that has left, a grabber that has exited, a
scheme that is ready, processes that have ended.

### Fairness

* `Kexec`: the server's next step, and the exit of each child that can end. No
  job has to be started and nobody has to kill.
* `Grabber`: handlers of what stays ready, the symbol's return, a reader that
  drains. Nobody has to write or close.
* `KtpdSession`: each handler whose event stays ready, since `poll()` reports it
  and libfaux's loop calls all handlers of a round; the client reads its socket;
  processes write, read and exit when they can. The client need not send.
* `KtpClient`: the same for messages, the end of `server_ev()` and hang-up.
  Strong fairness for `ServerOut` and `StdinCb`: their conditions may come and
  go while other messages arrive, but each round of the loop serves all
  descriptors it was told of, so no flood of messages starves them. The server
  serves requests and ends a command, one that reads stdin to the end only after
  the end (`EveryCmdAnswered` of `KtpdSession`).
* `Scheme`: the one process that loads goes on.
* `Klishd`: each process takes its own next step: weak fairness per process, as
  a scheduler gives it. Nobody has to start, stop or kill a process, to connect
  or to leave; a service that has nothing to do but wait for its client may wait.

## 4. Proofs

A theorem holds for every value of the constants that the named ASSUMEs of the
modules allow: all pipelines, clients, commands, nav scripts and sets of
processes, all sizes of buffers, pipes and sockets, and whatever the bounds are. In
the table "property" is what a run checks on its instance as well.

| Theorem | Property | Says |
|---|---|---|
| `KexecInvariant` | `IInv` | |
| `KexecTypeOK` | | (a conjunct of `IInv`) |
| `KexecChildHasOwner` | `ChildHasOwner` | every child belongs to the one stage that forked it |
| `KexecNoLostChild` | `NoLostChild` | no death of a child is missed |
| `KexecDecided` | | ACTIONs, iterator, retcode and processes agree in every state |
| `KexecEndsOpen` | `EndsOpenWhileStageRuns` | no stage loses a pipe end it needs |
| `KexecExecOn` | `ExecOnAsDocumented` | ACTIONs are executed or skipped as `exec_on` says |
| `KexecJobRetcode` | `JobRetcode` | the job's code is that of its first failed stage |
| `GrabberInvariant`, `GrabberNothingLost` | `NothingLost` | a grabber that leaves unasked has delivered all |
| `ServiceOneFinalAnswer`, `ServiceOutputBeforeFinal`, `ServiceAcknowledgedFirst` | | the contract: one final answer, output between first and final answer |
| `SessionInvariant`, `SessionTypeOK` | `TypeOK` | |
| `SessionNoLostWakeup` | `NoLostWakeup` | what is paused has a wake-up to come |
| `SessionOutputConserved` | `OutputConserved` | no unit of output is lost or sent twice |
| `SessionExitIsPrompt` | `ExitIsPrompt` | a session that is over leaves its loop at once |
| `SessionExitAnnounced` | `ExitAnnounced` | and has told the client |
| `SessionKeepsPromise` | `KeepsPromise` | the session implements the contract |
| `SessionOneFinalAnswer`, `SessionOutputInsideCommand` | `OutputInsideCommand` | what the contract promises holds of the session |
| `ClientInvariant`, `ClientServerAgrees` | `ServerAgrees` | client and server agree on the state of the session |
| `ClientStreamsHit` | `StreamsHitTheirCommand` | late input hits no other command |
| `ClientNeverDeaf` | `NeverDeaf` | stdin is polled when somebody waits for it |
| `ClientFailureReported`, `ClientStopsOnError` | `FailureReported`, `StopOnError` | a failure stops a script and is reported |
| `ViewPathTypeOK`, `ViewPathNeverEmpty` | `PathNeverEmpty` | the path keeps a level |
| `ViewPathRestoreToHome` | `RestoreToHome` | restore starts a command in the nearest view that defines it |
| `ViewPathPromptFollows`, `ViewPathHotkeysFollow` | `PromptFollowsPath`, `HotkeysFollowPath` | the client shows the prompt and hotkeys of the path |
| `KlishdInvariant`, `KlishdLifetimesNest` | `LifetimesNest` | code outlives its users in every process |
| `KlishdConnectionDiesWithService` | `ConnectionDiesWithService` | connections die with their service |
| `KlishdZombieKnown` | | no zombie is forgotten |
| `SchemeInvariant` | | ENTRYs, agenda and links agree in every state of loading and preparing |
| `SchemeVerdict` | `Verdict` | the daemon starts only with a sound configuration, and refuses one without links only if it is not sound, or disputed |
| `SchemeLogIsClosest` | `LogIsClosest` | the LOG of an ENTRY is the closest one around its definition |
| `SchemeLinksRun` | | what a link makes available can be run (a conjunct of `PreparedAsWritten`) |
| `SchemeLoadedAsWritten` | `LoadedAsWritten` | nothing that is written is lost: attributes of the last element that gives them, ACTIONs in the order of the files |

### Arguments

**Kexec.** `ChildHasOwner` is not inductive: when `waitpid()` returns a pid, the
stage that owned it has no process until `exec_action_sequence()` reaches it, and
in that window a fork for an earlier stage may get the same pid again. The
strengthening says that a reaped pid stays free until its stage was looked at
(`ReapedIsFree`: no fork happens before), that only one unfinished stage can be
meant (`ReapedOwner`), that every unfinished stage has a process or is about to
be looked at (`Attended`), and that a zombie is announced by SIGCHLD or lies in
front of the `waitpid()` loop (`Announced`). `Attended` and `Announced` with
`pc = "wait"` give `NoLostChild`. What ACTIONs and retcodes come to needs more
(`Decided`): the process of a stage, and the exit status just reaped, are those
of the ACTION its iterator points at; and the stage's retcode is the overall
return code of the ACTIONs accounted for so far (`RetcodeIsOverall`), where an
async ACTION counts only when it has been reaped. That the overall code of a
prefix does not change when a later ACTION is decided is the lemma the steps
rest on.

**Grabber.** The invariant relates the two ends of a stream: what is written is
in the pipe, in the buffer or delivered (`Conserved`), the reading end is given up
only at the end of the data (`ReadToTheEnd`), the writing end, while the outputs
are read, only when nothing is left for it or can come (`NeededIsOpen`). It holds
for one descriptor twice as well; what goes wrong there (see 5) is that the
grabber may keep data and never leave, not that it leaves without them.

**KtpService.** The invariant `SInv` adds that every message belongs to a command
served so far and that no final answer belongs to the running command, or to
none. Each action appends messages of one of two shapes: those that end a command
(`Ends`) and those that do not (`Continues`); four lemmas say what appending a
shape does to `Ordered`, and each action is shown to have its shape.

**KtpdSession.** `NoLostWakeup` is inductive only together with the types, with
`exec` and `state` agreeing (`ExecIsState`) and with `Heard`: a block of messages
is dispatched only when the client was polled, so that stdin of a new command
starts polled. Proving it for every size of the pipe to the command has shown that
an earlier form of the property, in which a client that is not polled has a
*full* stdin buffer, holds only for pipes of one unit: a larger pipe takes part
of the buffer in `ktpd_session_process_stdin()` itself, which does not poll the
client again. A wake-up by the command's stdin is to come all the same, which is
what the property says now. For `OutputConserved` each message is worth a number of
units of one stream of one command (`Worth`), a number that adds up under
concatenation; each step either sends nothing (`QuietStep`), moves units from the
pipe to the client (`SendStep`, `DoneStep`), or changes what is owed and what is in
the pipe alike (`PipeStep`). `ExitIsPrompt` and `ExitAnnounced` are proved under
`NoSigterm`: no plan has SIGTERM during a local execution. Without it they are
false, which is a finding (5); the first half of `ExitIsPrompt`, that the exit
flag stops the loop, is part of the invariant and needs no assumption.

**KtpdSession implements KtpService.** (In `KtpdSessionProofs`.) `StepMaps` goes through the actions: each handler of a request
is the contract's step for it, a read of a stream or its hang-up is `Output` or a
stutter, `Done` is `Finish`, `LoopStops` is `Down`, and the rest change nothing the
contract sees: a message is sent when it enters the buffer. `Emit` appends to what
was ever sent, however much the socket takes (`EmitAppends`). The theorems of
`KtpServiceProofs` are instantiated with the refinement mapping (`Promise`), and so
hold of the session.

**KtpClient.** The invariant looks at all that is on its way at once. `Agree`: a
client that waits has exactly one answer outstanding, as a request in its buffer
or the socket, as the command the server runs, or as the last message to it that
is no notification; and every message on its way is one the state expects.
`Counted`: the running command is the last one sent, unless a newer one is still
on its way, and requests for streams behind it carry its number. `Authorized` says
that a client the server does not know is about to leave, or is still waiting to
be told so. The failure properties need that a client stopped by an error is
idle and about to leave, in the middle of the `server_ev()` that has noticed it
(`Stopped`). The server is any one that keeps `KtpService`, and by
`SessionKeepsPromise` klishd's does.

**ViewPath.** `PathNeverEmpty` and type correctness are not inductive alone: that a
pop leaves a level needs the types of path and script, and that restore does needs
that `level_found` is a level of the path (`LevelFoundInPath`: no more levels are
subtracted than lie above the one found). `RestoreToHome` is proved under
`Common = View`, where `level_found` is exact (`LevelFoundExact`); a view whose
purpose is not COMMON breaks it, see 5. Prompt and hotkeys are proved under
`EveryViewHasPrompt` and `EveryViewHasHotkey`: without them the client keeps what it
had, see 5. Hotkeys come only with an answer to a command that has changed the
path, so the invariant says that while a command runs the client has those of
`saved_path`, which the new path is compared with.

**Klishd.** `Loaded` says, by the place of a process in `main()`, what it may have
opened, initialized and prepared; a fork copies it. `Connections` says that the
daemon has a connection only between `accept()` and the end of
`listen_socket_ev()`, so a fork cannot hand two services the same one.

**Scheme.** `Inv` is about the heap and about preparing. What is on the agenda `todo` is
off links, and the ENTRY around it has found its LOG already (`AgendaInv`): what
it inherits from its parent is then the closest one. An ENTRY that is not below a
link is done, or on the agenda, or below something that is (`CoverInv`), so that
all of them are done when the scheme is ready; what was freed lies below a link
(`LinkInv`), so that nobody else's lists are.
`Verdict` relates a loop that reads tag after tag to a text looked at as a whole.
The proof shows more than is claimed: the loader takes a text exactly if it is
`AllLoadable`, well written and with a name for every element.
In every state of loading without an error, the open elements are those around
the tag read next (`InPlace`, by `Matches`), what has been read is in order
(`InOrder`), and plugins and hotkeys are exactly those read (`Registered`, which
is what the loader looks at where the reference compares two elements, `Clash`).
In every state with an error the text has one that no later file makes good. While
preparing, an ENTRY that was refused is to blame in the scheme as it is at the end
too (`VerdictInv`): it is still there and not below a link, or there are links; and
binding an ACTION twice is binding it once. Inductions over positions and paths
are by the least element of a set of naturals (`LeastElement`, `InductionOnSet`).
`LoadedAsWritten` is kept by each handler for the elements read so far (`Written`):
what is read comes after all that was read before, so an attribute is either still
that of its element or one of a later element, and an ACTION stands before as many
as have been read after it for its ENTRY; what the loader adds itself (`Keeps`: the
PTYPE of a PARAM or a command) is a new ENTRY each time. The first ENTRY prepared
ends the claim, since preparing binds ACTIONs.
Assumed are `InputsAssumption`, that files are trees of elements, as a parser of XML
delivers them, and `OrderAssumption`, that the sorted list of plugins has all of them.

### Only model-checked

* Liveness: `JobFinishes`, `GrabberExits`, `EveryCmdAnswered`, `ListEnds`,
  `PrepareEnds`, `NoZombieStays`, `EveryClientAnswered` (fairness and ENABLED are
  out of the provers' reach). The safety half of some of them is proved:
  `KexecNoLostChild`, `SessionNoLostWakeup`, `ClientNeverDeaf`, `KlishdZombieKnown` say
  that whoever waits has an event to come.
* All properties of `Parser`, which is recursive over the scheme, in the code and
  in the reference: induction over such data is out of the provers' reach.
* `PreparedAsWritten` of `Scheme` apart from `LinksRun`, since what a chain of links
  through links leads to (`Copied`) is recursive, and so is what `LinksResolved` and
  `Sound` say.

## 5. Findings

| Run | Code | What happens |
|---|---|---|
| `session_pause` | `ktpd_session.c:1068` | a command ends while the client is not polled because the stdin buffer is full; nothing polls the client again |
| `parser_seq` | `ksession_parse.c:217` | a SWITCH tries a SEQ that takes a word and then does not match; the word stays taken and the next entry of the SWITCH matches behind it, so that a line with half a SEQ is executed |
| `scheme_links` | `kscheme.c:368` | a reference whose path leads through a link is found only if that link was prepared before; in the other order the scheme is refused |

Other disagreements between code and comments or manual met while modelling,
without a run of their own:

* Sessions. `ktpd_session.c:1141`: `stdin_must_be_closed` is never reset, so the
  stdin of the next command is closed after its first data.
  `ktpd_session.c:419`: the error status of an answer overwrites the exit status,
  if SIGTERM arrives while a line is parsed that turns out to be wrong
  (`ExitAnnounced` with `term`). `ktpd_session.c:407`: the done flag is looked at
  before the prompt is generated, whose local execution may set it
  (`ExitIsPrompt` with `term`).
* Engine. `kexec.c:670`: a process ended by a signal counts as one that returned 0;
  the manual says nothing about it, and the properties take the code's numbers.
* Grabber. `grabber.c:138`: with one descriptor for both outputs (a terminal) the
  second stream's data may never be written.
* Client. `klish.c:494`: if `popen()` of the pager has failed, the end of the command
  passes a null stream to `pclose()` (`PagerCrash`). `klish.c:644`: the end of a regular file on stdin is never reported to
  the command. `klish.c:377`, `klish.c:412`: after the last view with a prompt or
  hotkeys is left the client keeps them, where the manual promises the standard
  prompt.
* Parser. `ksession_parse.c:378`: `level_found` is not decremented for a level that
  is not searched because its purpose is not COMMON, so that below such a level
  restore keeps levels above the command's own (a scheme has to push an entry
  that is not a view).
* Links. `klish3.en.md:788` calls a link a copy of the ENTRY it names. It is not one:
  `container`, `purpose`, `min`, `max`, `restore`, `transparent` and `order` remain
  those of the link, given or not (a TODO at `kentry.c:236`), and `kscheme.c:367` goes
  past a link on the way, so that its `help` and `value` are lost.
  `PreparedAsWritten` claims nothing about these.
* Scheme. The manual's examples use `VIEW ref=...`, `COMMAND ref=...`
  (`klish3.en.md:804`, `:814`), `PTYPE` (`:1042`), `SWITCH` (`:1081`) and `SEQ`
  (`:1110`) without a name; the loader refuses them, an automatic name exists for
  a PTYPE with a reference and for COND, HELP and the like only. `mode` on a VIEW
  (`:1126`) is ignored. Two LOGs on one level (`:1270`) and two elements of one
  name (`:619`) are accepted, the latter merged. `Verdict` claims nothing where an
  element has no name or a level two LOGs. The `ptype` attribute of a
  repeated PARAM does not replace the first one, against the comment at
  `ientry.c:179`.
* Life cycles. `kplugin.c:219`, `kdb.c:178`: an object that fails to load is closed
  and its handle kept, so that freeing it closes it again. A scheme that cannot
  be prepared is freed without finalizing the plugins that were initialized.
  `klishd.c:160`: the error object is freed and then handed to `clear_scheme()`.
  `klishd.c:234`: the connection was closed by `ktpd_session_free()` before.
  `klishd.c:177`: `pidfd` is never set, the pid file stays. The comment at
  `klishd.c:444` asks for a check that no daemon is working already; there is
  none, and the socket of a running daemon is unlinked (it goes on serving, but
  cannot be reached). `init_session_fn` of a plugin (`kplugin.c:271`) is set by
  nobody.

## 6. Not modelled, and plan

Not modelled, with the reasons in `PROJECT.json` ("components"): the adapters of
XML libraries, the line editor and its terminal output, the interpreters of
script and lua. Of modelled components: the functions that deploy a scheme as C
code, terminal modes, options and their re-reading at SIGHUP, the pid file, window
sizes, conversions of numbers and strings. Also abstracted: text of messages;
prompts that are computed; failures of `pipe()` and `open()` while a job is prepared;
descriptor numbers; the width of return codes; heap
objects.

Next, in this order:

1. The parts of `Parser` that do not recurse over the scheme, as lemmas of their
   own: the split at pipes, and what the parse of one word consumes.
2. `LocalExec`: the nested event loop of local executions and the done flag.
3. Pseudo-terminals of interactive jobs as an extension of `Kexec`.
