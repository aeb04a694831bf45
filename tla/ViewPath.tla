------------------------------ MODULE ViewPath ------------------------------
(***************************************************************************)
(* Navigation: the session's stack of views (kpath_t), the commands found  *)
(* on its levels (klish/ksession/ksession_parse.c), the "nav" symbol that  *)
(* changes it (plugins/klish/nav.c), and what the client shows of it: the  *)
(* prompt and the hotkeys that come with the final answers                 *)
(* (klish/ktp/ktpd_session.c and bin/klish/klish.c).                       *)
(*                                                                         *)
(* A command is a sequence of ACTIONs: a nav script (a sequence of lines)  *)
(* or Process, an ACTION that is forked.  ACTIONs have their default       *)
(* attributes; the others, and pipelines, are the subject of Kexec.  One   *)
(* action of this module is one ACTION of the command or one line of a nav *)
(* script: in state "EXEC" the server is inside its handler and only the   *)
(* client's process can move.                                              *)
(***************************************************************************)
EXTENDS Integers, Sequences, FiniteSets

CONSTANTS
  View,         \* the entries that can be a level of the path
  Start,        \* the starting entry
  Common,       \* those with purpose COMMON, the others are not searched
  Transparent,  \* those with transparent="true"
  Command,      \* what the user can type, see CommandType
  Process,      \* an ACTION that forks a process
  PromptOf,     \* the prompt of a view, NoPrompt without a PROMPT entry
  NoPrompt,
  DefaultPrompt,\* the client's own prompt (klish.c:209)
  HotkeysOf,    \* the hotkeys of a view: a command for every key, or NoHotkey
  Key, NoHotkey,
  MaxDepth      \* bound: a command is not typed on a longer path

Line ==
  [op: {"push", "replace"}, view: View \cup {"unknown"}]
    \cup [op: {"pop"}, levels: Nat] \cup [op: {"top", "exit", "bad"}]

(* parse: what parsing the line in a view gives.  "ERROR" is also the      *)
(* NOTFOUND of a view that has taken some of the line's words.             *)
CommandType ==
  [parse: [View -> {"OK", "NOTFOUND", "ERROR"}], restore: BOOLEAN,
   actions: Seq(Seq(Line) \cup {Process})]

ASSUME ViewAssumption ==
  /\ Start \in View
  /\ Common \subseteq View
  /\ Transparent \subseteq View
ASSUME CommandAssumption ==
  /\ \A c \in Command : /\ c.parse \in [View -> {"OK", "NOTFOUND", "ERROR"}]
                        /\ c.restore \in BOOLEAN
                        /\ c.actions \in Seq(Seq(Line) \cup {Process})
  /\ Process \notin Seq(Line)
ASSUME MaxDepthAssumption == MaxDepth \in Nat

VARIABLES
  state,        \* ktpd->state; "EXEC": inside kexec_exec() or the SIGCHLD
                \* handler, "EXIT": the session's event loop has ended
  path,         \* session->path, the deepest level last
  saved_path,   \* exec->saved_path
  cmd, dry_run, \* the command being executed and its dry-run flag
  todo,         \* its ACTIONs still to execute
  script,       \* lines of the running nav script still to execute
  retcode,      \* context->retcode
  done,         \* session->done
  ack,          \* the answer on its way to the client, NoAck if there is none
  prompt,       \* the client's prompt
  hotkeys       \* ctx->hotkeys, the client's hotkey table

session == <<path, saved_path, cmd, dry_run, todo, script, retcode, done>>
client == <<prompt, hotkeys>>
vars == <<state, session, ack, client>>

NoAck == [prompt |-> NoPrompt, hotkeys |-> <<>>, exit |-> FALSE]
NoHotkeys == [k \in Key |-> NoHotkey]

(***************************************************************************)
(* The path                                                                *)
(***************************************************************************)
Levels(p) == 1..Len(p)
Current(p) == p[Len(p)]
Pop(p) == SubSeq(p, 1, Len(p) - 1)

(* The level whose view has value f[view] and no deeper one has: both the  *)
(* prompt and a hotkey are looked for from the deepest level up.           *)
Deepest(p, f, none) ==
  LET with == {i \in Levels(p) : f[p[i]] # none}
  IN  IF with = {} THEN none
      ELSE f[p[CHOOSE i \in with : \A j \in with : j <= i]]

generate_prompt(p) == Deepest(p, PromptOf, NoPrompt)
PathHotkeys(p) ==
  [k \in Key |-> Deepest(p, [v \in View |-> HotkeysOf[v][k]], NoHotkey)]

(***************************************************************************)
(* ksession_parse_line()                                                   *)
(***************************************************************************)
(* The search ends at a searched level that takes the line or is opaque.   *)
EndsSearch(p, c, i) ==
  p[i] \in Common /\ (c.parse[p[i]] # "NOTFOUND" \/ p[i] \notin Transparent)

FoundAt(p, c, i) ==
  /\ p[i] \in Common
  /\ c.parse[p[i]] = "OK"
  /\ \A j \in Levels(p) : j > i => ~EndsSearch(p, c, j)

level_foundNotCounted(p, i) == Len(p) - 1

(* level_found, counted from 0: it is decremented for the searched levels. *)
level_found(p, i) ==
  Len(p) - 1 - Cardinality({j \in Levels(p) : j > i /\ p[j] \in Common})

(***************************************************************************)
(* The server                                                              *)
(***************************************************************************)
Init ==
  /\ state = "UNAUTHORIZED"
  /\ path = <<Start>> /\ saved_path = <<Start>>
  /\ cmd \in Command /\ dry_run = FALSE
  /\ todo = <<>> /\ script = <<>> /\ retcode = 0 /\ done = FALSE
  /\ ack = NoAck
  /\ prompt = DefaultPrompt /\ hotkeys = NoHotkeys

AnswerOfSavedPath(withHotkeys, exit) ==
  ack' = [prompt |-> generate_prompt(saved_path),
          hotkeys |-> IF withHotkeys THEN PathHotkeys(path) ELSE NoHotkeys,
          exit |-> exit]

(* The parameters of an answer.  Hotkeys are added only if asked for.      *)
Answer(withHotkeys, exit) ==
  ack' = [prompt |-> generate_prompt(path),
          hotkeys |-> IF withHotkeys THEN PathHotkeys(path) ELSE NoHotkeys,
          exit |-> exit]

Auth ==
  /\ state = "UNAUTHORIZED"
  /\ Answer(TRUE, FALSE)
  /\ state' = "IDLE"
  /\ UNCHANGED <<session, client>>

(* The client sends a command when it has the answer of the last one.      *)
Ready == state = "IDLE" /\ ack = NoAck /\ ~done

(* An empty line, a line that is not a command, or a job that cannot be    *)
(* prepared.                                                               *)
Refuse ==
  /\ Ready
  /\ Answer(FALSE, FALSE)
  /\ UNCHANGED <<state, session, client>>

ExecSavesRestored(c) ==
  /\ Ready
  /\ Len(path) <= MaxDepth
  /\ \E i \in Levels(path) :
       /\ FoundAt(path, c, i)
       /\ path' = IF c.restore THEN SubSeq(path, 1, level_found(path, i) + 1)
                  ELSE path
  /\ saved_path' = path'
  /\ cmd' = c /\ dry_run' \in BOOLEAN
  /\ todo' = c.actions /\ retcode' = 0
  /\ state' = "EXEC"
  /\ UNCHANGED <<script, done, ack, client>>

(* ktpd_session_exec() up to the first ACTION: the path is saved, then cut *)
(* for a command with "restore".                                           *)
Exec(c) ==
  /\ Ready
  /\ Len(path) <= MaxDepth
  /\ \E i \in Levels(path) :
       /\ FoundAt(path, c, i)
       /\ path' = IF c.restore THEN SubSeq(path, 1, level_found(path, i) + 1)
                  ELSE path
  /\ saved_path' = path
  /\ cmd' = c /\ dry_run' \in BOOLEAN
  /\ todo' = c.actions /\ retcode' = 0
  /\ state' = "EXEC"
  /\ UNCHANGED <<script, done, ack, client>>

(* exec_action_sequence() takes the next ACTION.                           *)
NextAction ==
  /\ state = "EXEC" /\ script = <<>> /\ todo # <<>>
  /\ todo' = Tail(todo)

SkipAction ==
  /\ NextAction
  /\ retcode # 0 \/ (Head(todo) = Process /\ dry_run)
  /\ UNCHANGED <<state, path, saved_path, cmd, dry_run, script, retcode, done,
                 ack, client>>

StartProcess ==
  /\ NextAction
  /\ retcode = 0 /\ Head(todo) = Process /\ ~dry_run
  /\ state' = "WAIT_FOR_PROCESS"
  /\ UNCHANGED <<path, saved_path, cmd, dry_run, script, retcode, done, ack,
                 client>>

(* wait_for_actions_ev() with the process's exit status.                   *)
ProcessExits ==
  /\ state = "WAIT_FOR_PROCESS"
  /\ retcode' \in {0, 1}
  /\ state' = "EXEC"
  /\ UNCHANGED <<path, saved_path, cmd, dry_run, todo, script, done, ack,
                 client>>

(* klish_nav() is permanent, it runs in a dry run too.                     *)
StartNav ==
  /\ NextAction
  /\ retcode = 0 /\ Head(todo) # Process
  /\ script' = Head(todo)
  /\ UNCHANGED <<state, path, saved_path, cmd, dry_run, retcode, done, ack,
                 client>>

(* One line of klish_nav() that is executed: it leaves the path p.         *)
NavTo(p) ==
  /\ path' = p
  /\ script' = Tail(script)
  /\ UNCHANGED <<retcode, done>>

(* klish_nav() returns -1, what the lines before did stays done.           *)
NavFails ==
  /\ script' = <<>>
  /\ retcode' = -1
  /\ UNCHANGED <<path, done>>

NavLeaves ==
  /\ script' = <<>>
  /\ done' = TRUE
  /\ UNCHANGED <<path, retcode>>

NavTop(l) == l.op = "top" /\ NavTo(SubSeq(path, 1, 1))

NavPopOffByOne(l) ==
  /\ l.op = "pop"
  /\ IF l.levels > 255 THEN NavFails
     ELSE IF l.levels > Len(path) THEN NavLeaves
     ELSE NavTo(SubSeq(path, 1, Len(path) - l.levels))

(* The number of levels must fit in 8 bits.                                *)
NavPop(l) ==
  /\ l.op = "pop"
  /\ IF l.levels > 255 THEN NavFails
     ELSE IF l.levels > Len(path) - 1 THEN NavLeaves
     ELSE NavTo(SubSeq(path, 1, Len(path) - l.levels))

NavPush(l) ==
  /\ l.op = "push"
  /\ IF l.view \in View THEN NavTo(Append(path, l.view)) ELSE NavFails

NavReplace(l) ==
  /\ l.op = "replace"
  /\ IF l.view \in View THEN NavTo(Append(Pop(path), l.view)) ELSE NavFails

NavExit(l) == l.op = "exit" /\ NavLeaves
NavBad(l) == l.op = "bad" /\ NavFails

Nav ==
  /\ state = "EXEC" /\ script # <<>>
  /\ LET l == Head(script)
     IN  \/ NavTop(l) \/ NavPop(l) \/ NavPush(l)
         \/ NavReplace(l) \/ NavExit(l) \/ NavBad(l)
  /\ UNCHANGED <<state, saved_path, cmd, dry_run, todo, ack, client>>

(* The last ACTION is over: the final answer of ktpd_session_process_cmd() *)
(* or of wait_for_actions_ev().                                            *)
Finish ==
  /\ state = "EXEC" /\ script = <<>> /\ todo = <<>>
  /\ Answer(path # saved_path, done)
  /\ state' = IF done THEN "EXIT" ELSE "IDLE"
  /\ UNCHANGED <<session, client>>

(***************************************************************************)
(* The client: process_prompt_param() and process_hotkey_param()           *)
(***************************************************************************)
TakeAnswer ==
  /\ ack # NoAck
  /\ prompt' = IF ack.prompt = NoPrompt THEN prompt ELSE ack.prompt
  /\ hotkeys' = IF ack.hotkeys = NoHotkeys THEN hotkeys ELSE ack.hotkeys
  /\ ack' = NoAck
  /\ UNCHANGED <<state, session>>

Next ==
  \/ Auth \/ Refuse \/ (\E c \in Command : Exec(c))
  \/ SkipAction \/ StartProcess \/ ProcessExits \/ StartNav \/ Nav \/ Finish
  \/ TakeAnswer

Spec == Init /\ [][Next]_vars

(***************************************************************************)
(* Properties                                                              *)
(***************************************************************************)
(* Every variable has its type.                                            *)
TypeOK ==
  /\ state \in {"UNAUTHORIZED", "IDLE", "EXEC", "WAIT_FOR_PROCESS", "EXIT"}
  /\ path \in Seq(View) /\ saved_path \in Seq(View)
  /\ cmd \in Command /\ dry_run \in BOOLEAN /\ done \in BOOLEAN
  /\ todo \in Seq(Seq(Line) \cup {Process}) /\ script \in Seq(Line)
  /\ retcode \in {-1, 0, 1}

(* Whatever nav scripts and commands with "restore" do, the path keeps a   *)
(* level: kpath_len() - 1 of the parser (ksession_parse.c:366) and of      *)
(* "pop" (nav.c:103) never wraps, and there is a view to search.           *)
PathNeverEmpty == path # <<>>

(* A command with restore="true" starts in the view it is defined in: the  *)
(* nested levels are removed up to that one, which is the nearest that     *)
(* knows the command (kexec.c:803-818).                                    *)
RestoreToHome ==
  [][ (state = "IDLE" /\ state' = "EXEC" /\ cmd'.restore) =>
        LET n == Len(path')
        IN  /\ n \in Levels(path) /\ path' = SubSeq(path, 1, n)
            /\ cmd'.parse[Current(path')] = "OK"
            /\ \A j \in Levels(path) : j > n => cmd'.parse[path[j]] = "NOTFOUND"
    ]_vars

(* While no command runs and no answer is on its way, the client's prompt  *)
(* is that of the deepest view that has one, or its own.                   *)
PromptFollowsPath ==
  (state = "IDLE" /\ ack = NoAck) =>
    prompt = (IF generate_prompt(path) = NoPrompt
              THEN DefaultPrompt ELSE generate_prompt(path))

(* While no command runs and no answer is on its way, the client's hotkeys *)
(* are those of all views of the path, the deeper ones first, although the *)
(* server sends them only after a command that has changed the path.       *)
HotkeysFollowPath ==
  (state = "IDLE" /\ ack = NoAck) => hotkeys = PathHotkeys(path)
=============================================================================
