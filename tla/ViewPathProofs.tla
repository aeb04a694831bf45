--------------------------- MODULE ViewPathProofs ---------------------------
(***************************************************************************)
(* Proofs about ViewPath, for all schemes, nav scripts and path lengths.   *)
(***************************************************************************)
EXTENDS ViewPath, FiniteSetTheorems, TLAPS

USE ViewAssumption, CommandAssumption

(***************************************************************************)
(* The level the parser reports                                            *)
(***************************************************************************)
(* The levels above i that the parser has searched, whose number it has    *)
(* subtracted.                                                             *)
Above(p, i) == {j \in Levels(p) : j > i /\ p[j] \in Common}

(* The number of levels above level m of a path with n levels.             *)
LEMMA IntervalSize ==
  ASSUME NEW m \in Nat, NEW n \in Nat
  PROVE  /\ IsFiniteSet(m+1..n)
         /\ m <= n => Cardinality(m+1..n) = n - m
<1>1. m + 1 \in Int /\ n \in Int
  OBVIOUS
<1>2. /\ IsFiniteSet(m+1..n)
      /\ Cardinality(m+1..n) = IF m+1 > n THEN 0 ELSE n-(m+1)+1
  BY <1>1, FS_Interval, Zenon
<1> QED
  BY <1>2

(* The level that is reported is on the path, and not below the one where  *)
(* the command was found.                                                  *)
LEMMA LevelFoundInPath ==
  ASSUME NEW p \in Seq(View), NEW i \in Levels(p)
  PROVE  level_found(p, i) + 1 \in i..Len(p)
<1>1. Len(p) \in Nat /\ i \in 1..Len(p)
  BY DEF Levels
<1>2. Above(p, i) \in SUBSET (i+1..Len(p))
  BY <1>1 DEF Above, Levels
<1>3. IsFiniteSet(i+1..Len(p)) /\ Cardinality(i+1..Len(p)) = Len(p) - i
  BY <1>1, IntervalSize
<1>4. /\ IsFiniteSet(Above(p, i))
      /\ Cardinality(Above(p, i)) <= Cardinality(i+1..Len(p))
  BY <1>2, <1>3, FS_Subset
<1>5. Cardinality(Above(p, i)) \in Nat
  BY <1>4, FS_CardinalityType
<1>6. level_found(p, i) = Len(p) - 1 - Cardinality(Above(p, i))
  BY DEF level_found, Above
<1> QED
  BY <1>1, <1>3, <1>4, <1>5, <1>6

(* It is the one where the command was found if every level is searched.   *)
LEMMA LevelFoundExact ==
  ASSUME Common = View, NEW p \in Seq(View), NEW i \in Levels(p)
  PROVE  level_found(p, i) + 1 = i
<1>1. Len(p) \in Nat /\ i \in 1..Len(p)
  BY DEF Levels
<1>2. Above(p, i) = i+1..Len(p)
  BY <1>1 DEF Above, Levels
<1>3. Cardinality(i+1..Len(p)) = Len(p) - i
  BY <1>1, IntervalSize
<1>4. level_found(p, i) = Len(p) - 1 - Cardinality(Above(p, i))
  BY DEF level_found, Above
<1> QED
  BY <1>1, <1>2, <1>3, <1>4

(***************************************************************************)
(* Type correctness, and the path is never empty.  TypeOK is needed to     *)
(* know that a script's line is a line and that the path is a sequence.    *)
(***************************************************************************)
PInv == TypeOK /\ PathNeverEmpty

(* "top", "pop" and "restore" keep the first n levels.                     *)
LEMMA CutPath ==
  ASSUME NEW p \in Seq(View), NEW n \in 1..Len(p)
  PROVE  /\ SubSeq(p, 1, n) \in Seq(View)
         /\ SubSeq(p, 1, n) # <<>>
         /\ Len(SubSeq(p, 1, n)) = n
  OBVIOUS

(* kpath_pop() of "replace" may leave no level, until the push that follows. *)
LEMMA PopPath ==
  ASSUME NEW p \in Seq(View), p # <<>>
  PROVE  Pop(p) \in Seq(View)
  BY DEF Pop

(* kpath_push().                                                           *)
LEMMA PushPath ==
  ASSUME NEW p \in Seq(View), NEW v \in View
  PROVE  Append(p, v) \in Seq(View) /\ Append(p, v) # <<>>
  OBVIOUS

(* ksession_new() pushes the starting entry.                               *)
LEMMA InitPInv == Init => PInv
<1> SUFFICES ASSUME Init PROVE PInv
  OBVIOUS
<1>1. <<Start>> \in Seq(View) /\ <<Start>> # <<>>
  OBVIOUS
<1>2. path = <<Start>> /\ saved_path = <<Start>>
  BY DEF Init
<1>3. todo \in Seq(Seq(Line) \cup {Process}) /\ script \in Seq(Line)
  BY DEF Init
<1>4. /\ state = "UNAUTHORIZED" /\ cmd \in Command /\ retcode = 0
      /\ dry_run \in BOOLEAN /\ done \in BOOLEAN
  BY DEF Init
<1>5. TypeOK
  BY <1>1, <1>2, <1>3, <1>4 DEF TypeOK
<1> QED
  BY <1>1, <1>2, <1>5 DEF PInv, PathNeverEmpty

(* The start of a command: the path is cut, if at all, at a level it has.  *)
LEMMA ExecPInv ==
  ASSUME PInv, NEW c \in Command, Exec(c)
  PROVE  PInv'
<1>1. path' \in Seq(View) /\ path' # <<>>
  <2>1. PICK i \in Levels(path) :
          path' = IF c.restore THEN SubSeq(path, 1, level_found(path, i) + 1)
                  ELSE path
    BY DEF Exec
  <2>2. path \in Seq(View) /\ path # <<>>
    BY DEF PInv, TypeOK, PathNeverEmpty
  <2>3. level_found(path, i) + 1 \in i..Len(path)
    BY <2>2, LevelFoundInPath
  <2>4. i \in 1..Len(path) /\ Len(path) \in Nat
    BY <2>2 DEF Levels
  <2>5. level_found(path, i) + 1 \in 1..Len(path)
    BY <2>3, <2>4
  <2>6. SubSeq(path, 1, level_found(path, i) + 1) \in Seq(View) \ {<<>>}
    BY <2>2, <2>5, CutPath
  <2> QED
    BY <2>1, <2>2, <2>6
<1>2. c.actions \in Seq(Seq(Line) \cup {Process})
  OBVIOUS
<1> QED
  BY <1>1, <1>2 DEF PInv, TypeOK, PathNeverEmpty, Exec

(* A line of a nav script.                                                 *)
LEMMA NavPInv ==
  ASSUME PInv, Nav
  PROVE  PInv'
<1> DEFINE l == Head(script)
<1>1. /\ path \in Seq(View) /\ path # <<>> /\ Len(path) \in Nat \ {0}
      /\ script \in Seq(Line) /\ script # <<>>
      /\ retcode \in {-1, 0, 1} /\ done \in BOOLEAN
  BY DEF PInv, TypeOK, PathNeverEmpty, Nav
<1>2. l \in Line /\ Tail(script) \in Seq(Line)
  BY <1>1
<1>3. <<>> \in Seq(Line)
  OBVIOUS
<1> HIDE DEF l
<1>4. /\ path' \in Seq(View) /\ path' # <<>>
      /\ script' \in Seq(Line)
      /\ retcode' \in {-1, 0, 1}
      /\ done' \in BOOLEAN
  <2>1. CASE NavTop(l)
    <3>1. SubSeq(path, 1, 1) \in Seq(View) /\ SubSeq(path, 1, 1) # <<>>
      BY <1>1, CutPath
    <3> QED
      BY <2>1, <3>1, <1>1, <1>2 DEF NavTop, NavTo, l
  <2>2. CASE NavPop(l)
    <3>1. l.levels \in Nat
      BY <1>2, <2>2 DEF NavPop, Line
    <3>2. CASE ~(l.levels > 255) /\ ~(l.levels > Len(path) - 1)
      <4>1. Len(path) - l.levels \in 1..Len(path)
        BY <1>1, <3>1, <3>2
      <4>2. /\ SubSeq(path, 1, Len(path) - l.levels) \in Seq(View)
            /\ SubSeq(path, 1, Len(path) - l.levels) # <<>>
        BY <1>1, <4>1, CutPath
      <4> QED
        BY <2>2, <3>2, <4>2, <1>1, <1>2 DEF NavPop, NavTo, l
    <3>3. CASE l.levels > 255 \/ l.levels > Len(path) - 1
      BY <2>2, <3>3, <1>1, <1>3 DEF NavPop, NavFails, NavLeaves
    <3> QED
      BY <3>2, <3>3
  <2>3. CASE NavPush(l)
    <3>1. CASE l.view \in View
      BY <2>3, <3>1, <1>1, <1>2, PushPath DEF NavPush, NavTo, l
    <3>2. CASE l.view \notin View
      BY <2>3, <3>2, <1>1, <1>3 DEF NavPush, NavFails
    <3> QED
      BY <3>1, <3>2
  <2>4. CASE NavReplace(l)
    <3>1. CASE l.view \in View
      <4>1. Pop(path) \in Seq(View)
        BY <1>1, PopPath
      <4> QED
        BY <2>4, <3>1, <4>1, <1>1, <1>2, PushPath DEF NavReplace, NavTo, l
    <3>2. CASE l.view \notin View
      BY <2>4, <3>2, <1>1, <1>3 DEF NavReplace, NavFails
    <3> QED
      BY <3>1, <3>2
  <2>5. CASE NavExit(l)
    BY <2>5, <1>1, <1>3 DEF NavExit, NavLeaves
  <2>6. CASE NavBad(l)
    BY <2>6, <1>1, <1>3 DEF NavBad, NavFails
  <2> QED
    BY <2>1, <2>2, <2>3, <2>4, <2>5, <2>6 DEF Nav, l
<1> QED
  BY <1>4 DEF PInv, TypeOK, PathNeverEmpty, Nav

(* Every step.                                                             *)
LEMMA StepPInv == PInv /\ [Next]_vars => PInv'
<1> SUFFICES ASSUME PInv, [Next]_vars PROVE PInv'
  OBVIOUS
<1>1. CASE Auth
  BY <1>1 DEF Auth, PInv, TypeOK, PathNeverEmpty, session
<1>2. CASE Refuse
  BY <1>2 DEF Refuse, PInv, TypeOK, PathNeverEmpty, session
<1>3. ASSUME NEW c \in Command, Exec(c) PROVE PInv'
  BY <1>3, ExecPInv
<1>4. CASE SkipAction
  BY <1>4 DEF SkipAction, NextAction, PInv, TypeOK, PathNeverEmpty
<1>5. CASE StartProcess
  BY <1>5 DEF StartProcess, NextAction, PInv, TypeOK, PathNeverEmpty
<1>6. CASE ProcessExits
  BY <1>6 DEF ProcessExits, PInv, TypeOK, PathNeverEmpty
<1>7. CASE StartNav
  <2>1. Head(todo) \in Seq(Line) /\ Tail(todo) \in Seq(Seq(Line) \cup {Process})
    BY <1>7 DEF StartNav, NextAction, PInv, TypeOK
  <2> QED
    BY <1>7, <2>1 DEF StartNav, NextAction, PInv, TypeOK, PathNeverEmpty
<1>8. CASE Nav
  BY <1>8, NavPInv
<1>9. CASE Finish
  BY <1>9 DEF Finish, PInv, TypeOK, PathNeverEmpty, session
<1>10. CASE TakeAnswer
  BY <1>10 DEF TakeAnswer, PInv, TypeOK, PathNeverEmpty, session
<1>11. CASE UNCHANGED vars
  BY <1>11 DEF vars, session, PInv, TypeOK, PathNeverEmpty
<1> QED
  BY <1>1, <1>2, <1>3, <1>4, <1>5, <1>6, <1>7, <1>8, <1>9, <1>10, <1>11 DEF Next

(* The invariant holds in every reachable state.                           *)
LEMMA PathInvariant == Spec => []PInv
  BY InitPInv, StepPInv, PTL DEF Spec

(* Type correctness of navigation.                                         *)
THEOREM ViewPathTypeOK == Spec => []TypeOK
<1>1. PInv => TypeOK
  BY DEF PInv
<1> QED
  BY <1>1, PathInvariant, PTL

(* No script of push, pop, top and replace, and no command with "restore", *)
(* ever leaves the session without a view.                                 *)
THEOREM ViewPathNeverEmpty == Spec => []PathNeverEmpty
<1>1. PInv => PathNeverEmpty
  BY DEF PInv
<1> QED
  BY <1>1, PathInvariant, PTL

(***************************************************************************)
(* Restore                                                                 *)
(***************************************************************************)
(* One step that starts a command with "restore".                          *)
RestoreStep ==
  (state = "IDLE" /\ state' = "EXEC" /\ cmd'.restore) =>
    LET n == Len(path')
    IN  /\ n \in Levels(path) /\ path' = SubSeq(path, 1, n)
        /\ cmd'.parse[Current(path')] = "OK"
        /\ \A j \in Levels(path) : j > n => cmd'.parse[path[j]] = "NOTFOUND"

(* The start of a command makes it, other steps do not start a command.    *)
LEMMA ExecRestores ==
  ASSUME Common = View, TypeOK, NEW c \in Command, Exec(c)
  PROVE  RestoreStep
<1> SUFFICES ASSUME c.restore PROVE RestoreStep
  BY DEF RestoreStep, Exec
<1>1. path \in Seq(View)
  BY DEF TypeOK
<1>2. PICK i \in Levels(path) :
        FoundAt(path, c, i) /\ path' = SubSeq(path, 1, level_found(path, i) + 1)
  BY DEF Exec
<1>3. path' = SubSeq(path, 1, i)
  BY <1>1, <1>2, LevelFoundExact
<1>4. i \in 1..Len(path) /\ Len(path) \in Nat
  BY <1>1 DEF Levels
<1>5. Len(path') = i /\ path'[i] = path[i]
  BY <1>1, <1>3, <1>4
<1>6. c.parse[Current(path')] = "OK"
  BY <1>2, <1>5 DEF FoundAt, Current
<1>7. ASSUME NEW j \in Levels(path), j > i
      PROVE  c.parse[path[j]] = "NOTFOUND"
  <2>1. path[j] \in Common
    BY <1>1 DEF Levels
  <2> QED
    BY <1>2, <1>7, <2>1 DEF FoundAt, EndsSearch
<1>8. cmd' = c
  BY DEF Exec
<1> QED
  BY <1>2, <1>3, <1>5, <1>6, <1>7, <1>8 DEF RestoreStep

(* If every entry of the path has the purpose COMMON, a command with       *)
(* "restore" starts in the nearest view that knows it.                     *)
THEOREM ViewPathRestoreToHome ==
  ASSUME Common = View
  PROVE  Spec => RestoreToHome
<1>1. ASSUME TypeOK, [Next]_vars PROVE [RestoreStep]_vars
  <2>1. ASSUME NEW c \in Command, Exec(c) PROVE RestoreStep
    BY <1>1, <2>1, ExecRestores
  <2>2. ASSUME ~\E c \in Command : Exec(c), Next PROVE RestoreStep
    <3>1. state # "IDLE" \/ state' # "EXEC"
      BY <2>2 DEF Next, Auth, Refuse, SkipAction, StartProcess, ProcessExits,
                  StartNav, NextAction, Nav, Finish, TakeAnswer
    <3> QED
      BY <3>1 DEF RestoreStep
  <2> QED
    BY <1>1, <2>1, <2>2
<1>2. Spec => [][RestoreStep]_vars
  BY <1>1, ViewPathTypeOK, PTL DEF Spec
<1> QED
  BY <1>2 DEF RestoreToHome, RestoreStep

(***************************************************************************)
(* What the client shows                                                   *)
(*                                                                         *)
(* The server does not know what the client shows: it sends the prompt     *)
(* with every final answer, the hotkeys only if the path has changed since *)
(* the command's start, and nothing at all for a path without them, when   *)
(* the client keeps what it has.  The theorems are about schemes all of    *)
(* whose views have a prompt, or a hotkey.                                 *)
(***************************************************************************)
EveryViewHasPrompt == \A v \in View : PromptOf[v] # NoPrompt
EveryViewHasHotkey ==
  \A v \in View : \E k \in Key : HotkeysOf[v][k] # NoHotkey

(* The search from the deepest level ends at once if that level has one.   *)
LEMMA DeepestFound ==
  ASSUME NEW p \in Seq(View), p # <<>>, NEW f, NEW none,
         f[p[Len(p)]] # none
  PROVE  Deepest(p, f, none) # none
<1> DEFINE with == {i \in Levels(p) : f[p[i]] # none}
           IsLast(i) == \A j \in with : j <= i
<1>1. Len(p) \in 1..Len(p) /\ Len(p) \in Nat
  OBVIOUS
<1>2. Len(p) \in with
  BY <1>1 DEF Levels
<1>3. \A j \in with : j <= Len(p)
  BY <1>1 DEF Levels
<1>4. (CHOOSE i \in with : \A j \in with : j <= i) \in with
  BY <1>2, <1>3
<1>5. with # {}
  BY <1>2
<1>6. Deepest(p, f, none) = f[p[CHOOSE i \in with : \A j \in with : j <= i]]
  BY <1>5 DEF Deepest
<1> QED
  BY <1>4, <1>6

(* generate_prompt() finds a prompt.                                       *)
LEMMA PromptFound ==
  ASSUME EveryViewHasPrompt, NEW p \in Seq(View), p # <<>>
  PROVE  generate_prompt(p) # NoPrompt
<1>1. p[Len(p)] \in View
  OBVIOUS
<1>2. PromptOf[p[Len(p)]] # NoPrompt
  BY <1>1 DEF EveryViewHasPrompt
<1> QED
  BY <1>2, DeepestFound DEF generate_prompt

(* The answer has a hotkey.                                                *)
LEMMA HotkeyFound ==
  ASSUME EveryViewHasHotkey, NEW p \in Seq(View), p # <<>>
  PROVE  PathHotkeys(p) # NoHotkeys /\ PathHotkeys(p) # <<>>
<1>1. p[Len(p)] \in View
  OBVIOUS
<1>2. PICK k \in Key : HotkeysOf[p[Len(p)]][k] # NoHotkey
  BY <1>1 DEF EveryViewHasHotkey
<1> DEFINE f == [v \in View |-> HotkeysOf[v][k]]
<1>3. f[p[Len(p)]] # NoHotkey
  BY <1>1, <1>2
<1>4. PathHotkeys(p)[k] = Deepest(p, f, NoHotkey)
  BY DEF PathHotkeys
<1> HIDE DEF f
<1>5. Deepest(p, f, NoHotkey) # NoHotkey
  BY <1>3, DeepestFound
<1>6. NoHotkeys[k] = NoHotkey
  BY DEF NoHotkeys
<1>7. DOMAIN PathHotkeys(p) = Key
  BY DEF PathHotkeys
<1>8. DOMAIN <<>> = {}
  OBVIOUS
<1> QED
  BY <1>4, <1>5, <1>6, <1>7, <1>8

(* In the prompt loop the client shows the path, or will when it has taken *)
(* the answer that is on its way; while a command runs it shows the path   *)
(* saved at its start, the one that the path is compared with at its end.  *)
PromptShown ==
  /\ state = "UNAUTHORIZED" => ack = NoAck
  /\ state = "IDLE" => IF ack = NoAck THEN prompt = generate_prompt(path)
                       ELSE ack.prompt = generate_prompt(path)
  /\ state \in {"EXEC", "WAIT_FOR_PROCESS"} => ack = NoAck

HotkeysShown ==
  /\ state = "UNAUTHORIZED" => ack = NoAck
  /\ state = "IDLE" => \/ ack # NoAck /\ ack.hotkeys = PathHotkeys(path)
                       \/ /\ ack # NoAck => ack.hotkeys = NoHotkeys
                          /\ hotkeys = PathHotkeys(path)
  /\ state \in {"EXEC", "WAIT_FOR_PROCESS"} =>
       ack = NoAck /\ hotkeys = PathHotkeys(saved_path)

(* The ACTIONs of a command neither answer nor end the command.            *)
Running ==
  \/ SkipAction \/ StartProcess \/ ProcessExits \/ StartNav \/ Nav

LEMMA RunningKeeps ==
  ASSUME Running
  PROVE  /\ state \in {"EXEC", "WAIT_FOR_PROCESS"}
         /\ state' \in {"EXEC", "WAIT_FOR_PROCESS"}
         /\ saved_path' = saved_path /\ ack' = ack
         /\ prompt' = prompt /\ hotkeys' = hotkeys
  BY DEF Running, SkipAction, StartProcess, ProcessExits, StartNav, Nav,
         NextAction, client

(* The prompt comes with every answer.                                     *)
LEMMA StepPromptShown ==
  ASSUME EveryViewHasPrompt, PInv, PromptShown, [Next]_vars
  PROVE  PromptShown'
<1>1. path \in Seq(View) /\ path # <<>>
  BY DEF PInv, TypeOK, PathNeverEmpty
<1>2. generate_prompt(path) # NoPrompt
  BY <1>1, PromptFound
<1>3. ASSUME NEW w \in BOOLEAN, NEW e \in BOOLEAN, Answer(w, e)
      PROVE  ack' # NoAck /\ ack'.prompt = generate_prompt(path)
  BY <1>2, <1>3 DEF Answer, NoAck
<1>4. CASE Auth
  BY <1>4, <1>3 DEF Auth, PromptShown, session
<1>5. CASE Refuse
  BY <1>5, <1>3 DEF Refuse, Ready, PromptShown, session
<1>6. ASSUME NEW c \in Command, Exec(c) PROVE PromptShown'
  BY <1>6 DEF Exec, Ready, PromptShown, client
<1>7. CASE Running
  BY <1>7, RunningKeeps DEF PromptShown
<1>8. CASE Finish
  <2>1. (path # saved_path) \in BOOLEAN /\ done \in BOOLEAN
    BY DEF PInv, TypeOK
  <2>2. Answer(path # saved_path, done)
    BY <1>8 DEF Finish
  <2>3. ack' # NoAck /\ ack'.prompt = generate_prompt(path)
    BY <1>3, <2>1, <2>2
  <2>4. path' = path /\ state' \in {"IDLE", "EXIT"}
    BY <1>8 DEF Finish, session
  <2> QED
    BY <2>3, <2>4 DEF PromptShown
<1>9. CASE TakeAnswer
  <2>1. state' = state /\ path' = path /\ ack' = NoAck /\ ack # NoAck
    BY <1>9 DEF TakeAnswer, session
  <2>2. ASSUME state = "IDLE" PROVE prompt' = generate_prompt(path)
    BY <1>2, <1>9, <2>2 DEF TakeAnswer, PromptShown
  <2> QED
    BY <2>1, <2>2 DEF PromptShown
<1>10. CASE UNCHANGED vars
  BY <1>10 DEF vars, session, client, PromptShown
<1> QED
  BY <1>4, <1>5, <1>6, <1>7, <1>8, <1>9, <1>10 DEF Next, Running

(* The hotkeys come after a command that has changed the path.             *)
LEMMA StepHotkeysShown ==
  ASSUME EveryViewHasHotkey, PInv, HotkeysShown, [Next]_vars
  PROVE  HotkeysShown'
<1>1. path \in Seq(View) /\ path # <<>>
  BY DEF PInv, TypeOK, PathNeverEmpty
<1>2. PathHotkeys(path) # NoHotkeys /\ PathHotkeys(path) # <<>>
  BY <1>1, HotkeyFound
<1>3. ASSUME NEW e \in BOOLEAN, Answer(TRUE, e)
      PROVE  ack' # NoAck /\ ack'.hotkeys = PathHotkeys(path)
  BY <1>2, <1>3 DEF Answer, NoAck
<1>4. ASSUME NEW e \in BOOLEAN, Answer(FALSE, e)
      PROVE  ack'.hotkeys = NoHotkeys
  BY <1>4 DEF Answer
<1>5. CASE Auth
  <2>1. ack' # NoAck /\ ack'.hotkeys = PathHotkeys(path)
    BY <1>3, <1>5 DEF Auth
  <2> QED
    BY <1>5, <2>1 DEF Auth, HotkeysShown, session
<1>6. CASE Refuse
  <2>1. hotkeys = PathHotkeys(path)
    BY <1>6 DEF Refuse, Ready, HotkeysShown
  <2>2. ack'.hotkeys = NoHotkeys
    BY <1>4, <1>6 DEF Refuse
  <2> QED
    BY <1>6, <2>1, <2>2 DEF Refuse, Ready, HotkeysShown, session, client
<1>7. ASSUME NEW c \in Command, Exec(c) PROVE HotkeysShown'
  BY <1>7 DEF Exec, Ready, HotkeysShown, client
<1>8. CASE Running
  BY <1>8, RunningKeeps DEF HotkeysShown
<1>9. CASE Finish
  <2>1. /\ path' = path /\ hotkeys' = hotkeys /\ state' \in {"IDLE", "EXIT"}
        /\ hotkeys = PathHotkeys(saved_path) /\ done \in BOOLEAN
    BY <1>9 DEF Finish, session, client, HotkeysShown, PInv, TypeOK
  <2>2. CASE path # saved_path
    <3>1. ack' # NoAck /\ ack'.hotkeys = PathHotkeys(path)
      BY <1>3, <1>9, <2>1, <2>2 DEF Finish
    <3> QED
      BY <2>1, <3>1 DEF HotkeysShown
  <2>3. CASE path = saved_path
    <3>1. ack'.hotkeys = NoHotkeys
      BY <1>4, <1>9, <2>1, <2>3 DEF Finish
    <3> QED
      BY <2>1, <2>3, <3>1 DEF HotkeysShown
  <2> QED
    BY <2>2, <2>3
<1>10. CASE TakeAnswer
  <2>1. state' = state /\ path' = path /\ ack' = NoAck /\ ack # NoAck
    BY <1>10 DEF TakeAnswer, session
  <2>2. ASSUME state = "IDLE" PROVE hotkeys' = PathHotkeys(path)
    BY <1>2, <1>10, <2>2 DEF TakeAnswer, HotkeysShown
  <2> QED
    BY <2>1, <2>2 DEF HotkeysShown
<1>11. CASE UNCHANGED vars
  BY <1>11 DEF vars, session, client, HotkeysShown
<1> QED
  BY <1>5, <1>6, <1>7, <1>8, <1>9, <1>10, <1>11 DEF Next, Running

(* At the start nothing is shown that came from the server.                *)
LEMMA InitShown == Init => PromptShown /\ HotkeysShown
  BY DEF Init, PromptShown, HotkeysShown

(* Whenever the user is at the prompt, after any number of commands, nav   *)
(* scripts and refused lines, the prompt is that of the deepest view.      *)
THEOREM ViewPathPromptFollows ==
  ASSUME EveryViewHasPrompt
  PROVE  Spec => []PromptFollowsPath
<1>1. PInv /\ PromptShown /\ [Next]_vars => PromptShown'
  BY StepPromptShown
<1>2. PInv /\ PromptShown => PromptFollowsPath
  <2> SUFFICES ASSUME PInv, PromptShown, state = "IDLE", ack = NoAck
               PROVE  PromptFollowsPath
    BY DEF PromptFollowsPath
  <2>1. generate_prompt(path) # NoPrompt
    BY PromptFound DEF PInv, TypeOK, PathNeverEmpty
  <2> QED
    BY <2>1 DEF PromptShown, PromptFollowsPath
<1> QED
  BY <1>1, <1>2, InitShown, PathInvariant, PTL DEF Spec

(* Whenever the user is at the prompt, the hotkeys are those of the path,  *)
(* although an answer brings them only if the path has changed.            *)
THEOREM ViewPathHotkeysFollow ==
  ASSUME EveryViewHasHotkey
  PROVE  Spec => []HotkeysFollowPath
<1>1. PInv /\ HotkeysShown /\ [Next]_vars => HotkeysShown'
  BY StepHotkeysShown
<1>2. HotkeysShown => HotkeysFollowPath
  BY DEF HotkeysShown, HotkeysFollowPath
<1> QED
  BY <1>1, <1>2, InitShown, PathInvariant, PTL DEF Spec
=============================================================================
