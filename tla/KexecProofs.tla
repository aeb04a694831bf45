---------------------------- MODULE KexecProofs ----------------------------
(* Proofs about the execution engine, for every set of jobs, every set of  *)
(* process ids and every bound on fork failures.                           *)
EXTENDS Kexec, SequenceTheorems, WellFoundedInduction, TLAPS

(* Replacing an element of a sequence by one of the same type gives a      *)
(* sequence of the same length.                                            *)
LEMMA ExceptSeqType ==
  ASSUME NEW S, NEW s \in Seq(S), NEW i \in DOMAIN s, NEW e \in S
  PROVE  /\ [s EXCEPT ![i] = e] \in Seq(S)
         /\ Len([s EXCEPT ![i] = e]) = Len(s)
  BY ExceptSeq

(* What TypeOK gives for the ACTION that an iterator points to.            *)
LEMMA ActionIsTyped ==
  ASSUME TypeOK, NEW c \in Stages, NEW i \in DOMAIN Actions(c)
  PROVE  Actions(c)[i] \in ActionType
  BY DEF TypeOK, Stages, Actions

(* A record of the history gets a new entry of its type.                   *)
LEMMA RecordTyped ==
  ASSUME TypeOK, NEW c \in Stages, NEW i \in DOMAIN Actions(c),
         NEW what \in RanType, NEW value \in Codes
  PROVE  /\ [ran EXCEPT ![c][i] = what] \in [Stages -> Seq(RanType)]
         /\ [code EXCEPT ![c][i] = value] \in [Stages -> Seq(Codes)]
         /\ \A d \in Stages : /\ Len([ran EXCEPT ![c][i] = what][d]) = Len(pipeline[d])
                              /\ Len([code EXCEPT ![c][i] = value][d]) = Len(pipeline[d])
<1>1. ran[c] \in Seq(RanType) /\ code[c] \in Seq(Codes)
  BY DEF TypeOK
<1>2. i \in DOMAIN ran[c] /\ i \in DOMAIN code[c]
  BY <1>1 DEF TypeOK, Actions, Stages
<1>3. /\ [ran[c] EXCEPT ![i] = what] \in Seq(RanType)
      /\ Len([ran[c] EXCEPT ![i] = what]) = Len(ran[c])
  BY <1>1, <1>2, ExceptSeqType
<1>4. /\ [code[c] EXCEPT ![i] = value] \in Seq(Codes)
      /\ Len([code[c] EXCEPT ![i] = value]) = Len(code[c])
  BY <1>1, <1>2, ExceptSeqType
<1>5. QED
  BY <1>3, <1>4 DEF TypeOK

(* Every non-empty set of naturals has a smallest element.                 *)
LEMMA SmallestNat ==
  ASSUME NEW S \in SUBSET Nat, S # {}
  PROVE  \E n \in S : \A m \in S : n <= m
<1>1. PICK n \in S : \A m \in S : ~(<<m, n>> \in OpToRel(<, Nat))
  BY NatLessThanWellFounded, WFMin
<1>2. \A m \in S : ~(m < n)
  BY <1>1 DEF OpToRel
<1>3. QED BY <1>2

(* kexec_retcode() returns one of the stages' retcodes or 0.               *)
LEMMA RetcodeTyped ==
  ASSUME TypeOK
  PROVE  KexecRetcode \in Codes
<1>1. CASE \A c \in Stages : retcode[c] = 0
  BY <1>1, CodesAssumption DEF KexecRetcode
<1>2. CASE ~(\A c \in Stages : retcode[c] = 0)
  <2> DEFINE Nonzero(c) == retcode[c] # 0 /\ \A d \in Stages : d < c => retcode[d] = 0
  <2>1. \E c \in Stages : Nonzero(c)
    <3> DEFINE S == {n \in Nat : n \in Stages /\ retcode[n] # 0}
    <3>0. Stages \subseteq Nat
      BY DEF TypeOK, Stages
    <3>1. S # {} /\ S \subseteq Nat
      BY <1>2, <3>0
    <3>2. PICK n \in S : \A m \in S : n <= m
      <4>. HIDE DEF S
      <4>. QED BY <3>1, SmallestNat
    <3>3. QED BY <3>0, <3>2
  <2>2. QED BY <2>1, <1>2 DEF KexecRetcode, TypeOK
<1>3. QED BY <1>1, <1>2

-----------------------------------------------------------------------------
(* The step proofs are by action; the actions that take the next ACTION of *)
(* stage `each' share this fact.                                           *)
LEMMA LoopTyped ==
  ASSUME TypeOK, pc = "loop", HasNext
  PROVE  /\ each \in Stages
         /\ NextAct \in DOMAIN Actions(each)
         /\ NextAct \in 1 .. Len(pipeline[each])
         /\ NextAction \in ActionType
<1>1. each \in Stages
  BY DEF TypeOK
<1>2. NextAct \in DOMAIN Actions(each) /\ pipeline[each] \in Seq(ActionType)
  BY <1>1 DEF HasNext, TypeOK, Stages
<1>3. QED BY <1>1, <1>2, ActionIsTyped DEF NextAction, Actions

LEMMA InitType == Init => TypeOK
<1> SUFFICES ASSUME Init PROVE TypeOK
  OBVIOUS
<1>1. Stages = {} /\ pipeline \in Seq(Seq(ActionType)) /\ Len(pipeline) = 0
  BY DEF Init, Stages
<1>2. \A S : << >> \in [{} -> S]
  OBVIOUS
<1>3. proc \in [Pids -> ProcType]
  BY CodesAssumption DEF Init, Free, ProcType
<1>4. /\ action_iter \in [Stages -> Nat] /\ retcode \in [Stages -> Codes]
      /\ pid \in [Stages -> Pids \cup {NoPid}] /\ done \in [Stages -> BOOLEAN]
      /\ fdin \in [Stages -> BOOLEAN] /\ fdout \in [Stages -> BOOLEAN]
      /\ ran \in [Stages -> Seq(RanType)] /\ code \in [Stages -> Seq(Codes)]
  BY <1>1, <1>2 DEF Init
<1>5. /\ \A c \in Stages : action_iter[c] \in 0 .. Len(pipeline[c])
      /\ \A c \in Stages : /\ Len(ran[c]) = Len(pipeline[c])
                           /\ Len(code[c]) = Len(pipeline[c])
  BY <1>1
<1>6. dry_run \in BOOLEAN /\ sigchld \in BOOLEAN
  BY DEF Init
<1>7. pc = "idle" /\ each \in Nat /\ wpid \in Pids \cup {NoPid}
  BY DEF Init
<1>8. exitstatus \in Codes /\ result \in Codes
  BY CodesAssumption DEF Init
<1>9. fails \in 0 .. MaxForkFails
  BY MaxForkFailsAssumption DEF Init
<1>10. QED
  BY <1>1, <1>3, <1>4, <1>5, <1>6, <1>7, <1>8, <1>9 DEF TypeOK

LEMMA KexecExecType ==
  ASSUME TypeOK, NEW p \in Pipelines, NEW d \in BOOLEAN, KexecExec(p, d)
  PROVE  TypeOK'
<1>1. p \in Seq(Seq(ActionType))
  BY PipelinesAssumption
<1>2. \A c \in DOMAIN p : p[c] \in Seq(ActionType) /\ DOMAIN p[c] = 1 .. Len(p[c])
                          /\ Len(p[c]) \in Nat
  BY <1>1
<1>3. \A c \in DOMAIN p : /\ [i \in DOMAIN p[c] |-> "todo"] \in Seq(RanType)
                          /\ Len([i \in DOMAIN p[c] |-> "todo"]) = Len(p[c])
                          /\ [i \in DOMAIN p[c] |-> 0] \in Seq(Codes)
                          /\ Len([i \in DOMAIN p[c] |-> 0]) = Len(p[c])
  <2> SUFFICES ASSUME NEW c \in DOMAIN p
               PROVE  /\ [i \in DOMAIN p[c] |-> "todo"] \in Seq(RanType)
                      /\ Len([i \in DOMAIN p[c] |-> "todo"]) = Len(p[c])
                      /\ [i \in DOMAIN p[c] |-> 0] \in Seq(Codes)
                      /\ Len([i \in DOMAIN p[c] |-> 0]) = Len(p[c])
    OBVIOUS
  <2> QED BY <1>2, CodesAssumption DEF RanType
<1>4. DOMAIN p = 1 .. Len(p) /\ Len(p) \in Nat /\ Len(p) # 0
  BY <1>1 DEF KexecExec
<1>5. /\ ran' \in [Stages' -> Seq(RanType)] /\ code' \in [Stages' -> Seq(Codes)]
      /\ \A c \in Stages' : Len(ran'[c]) = Len(pipeline'[c]) /\ Len(code'[c]) = Len(pipeline'[c])
  BY <1>3 DEF KexecExec, Stages
<1>6. QED
  BY <1>1, <1>2, <1>4, <1>5, CodesAssumption, MaxForkFailsAssumption
  DEF KexecExec, TypeOK, Stages

(* Steps that walk over the stages or reap children.                       *)
LEMMA WalkType ==
  ASSUME TypeOK,
         \/ SkipContext \/ EnterContext \/ NoMoreContexts \/ SequenceEnd
         \/ SigChld \/ SigChldIdle \/ ReapNone
         \/ \E p \in Pids : Reap(p)
  PROVE  TypeOK'
<1>1. CASE SkipContext
  BY <1>1 DEF SkipContext, TypeOK, Stages, ctxvars, jobvars, history
<1>2. CASE EnterContext
  <2>1. exitstatus' \in Codes
    BY <1>2, CodesAssumption DEF EnterContext, TypeOK
  <2>2. QED
    BY <1>2, <2>1 DEF EnterContext, TypeOK, Stages, jobvars, history
<1>3. CASE NoMoreContexts
  BY <1>3, RetcodeTyped DEF NoMoreContexts, CheckDone, TypeOK, Stages, jobvars, history
<1>4. CASE SequenceEnd
  <2>0. each \in Stages
    BY <1>4 DEF SequenceEnd, TypeOK
  <2>1. each \in Stages /\ each \in 1 .. Len(pipeline)
    BY <2>0 DEF TypeOK, Stages
  <2>2. /\ done' \in [Stages -> BOOLEAN]
        /\ fdin' \in [Stages -> BOOLEAN] /\ fdout' \in [Stages -> BOOLEAN]
    BY <1>4 DEF SequenceEnd, TypeOK
  <2>3. /\ action_iter' \in [Stages -> Nat]
        /\ \A c \in Stages : action_iter'[c] \in 0 .. Len(pipeline[c])
    BY <1>4, <2>1 DEF SequenceEnd, TypeOK, Stages
  <2>4. /\ pc' \in {"each", "reap"} /\ each' \in Nat
        /\ pc' = "each" => each' \in 1 .. Len(pipeline) + 1
    BY <1>4, <2>1 DEF SequenceEnd, NextContext, TypeOK
  <2>5. QED
    BY <1>4, <2>2, <2>3, <2>4 DEF SequenceEnd, TypeOK, Stages, jobvars, history
<1>5. CASE SigChld
  BY <1>5 DEF SigChld, TypeOK, Stages, ctxvars, jobvars, history
<1>6. CASE SigChldIdle
  <2>1. proc' \in [Pids -> ProcType]
    BY <1>6, CodesAssumption DEF SigChldIdle, TypeOK, Free, ProcType
  <2>2. QED
    BY <1>6, <2>1 DEF SigChldIdle, TypeOK, Stages, ctxvars, jobvars, history
<1>7. CASE ReapNone
  BY <1>7, RetcodeTyped DEF ReapNone, CheckDone, TypeOK, Stages, jobvars, history
<1>8. ASSUME NEW p \in Pids, Reap(p) PROVE TypeOK'
  <2>1. proc' \in [Pids -> ProcType]
    BY <1>8, CodesAssumption DEF Reap, TypeOK, Free, ProcType
  <2>2. exitstatus' \in Codes
    BY <1>8, CodesAssumption DEF Reap, WExitStatus, TypeOK, ProcType
  <2>3. QED
    BY <1>8, <2>1, <2>2 DEF Reap, TypeOK, Stages, ctxvars, jobvars, history
<1>9. QED
  BY <1>1, <1>2, <1>3, <1>4, <1>5, <1>6, <1>7, <1>8

(* What the steps that decide the next ACTION leave typed.                 *)
LEMMA DecideType ==
  ASSUME TypeOK, pc = "loop", HasNext,
         NEW what \in RanType, NEW value \in Codes,
         Advance, Record(what, value), UNCHANGED jobvars
  PROVE  /\ Stages' = Stages
         /\ action_iter' \in [Stages -> Nat]
         /\ \A c \in Stages : action_iter'[c] \in 0 .. Len(pipeline[c])
         /\ ran' \in [Stages -> Seq(RanType)]
         /\ code' \in [Stages -> Seq(Codes)]
         /\ \A c \in Stages : /\ Len(ran'[c]) = Len(pipeline[c])
                              /\ Len(code'[c]) = Len(pipeline[c])
<1>1. each \in Stages /\ NextAct \in DOMAIN Actions(each)
      /\ NextAct \in 1 .. Len(pipeline[each])
  BY LoopTyped
<1>2. Stages' = Stages
  BY DEF Stages, jobvars
<1>3. /\ action_iter' \in [Stages -> Nat]
      /\ \A c \in Stages : action_iter'[c] \in 0 .. Len(pipeline[c])
  BY <1>1 DEF Advance, TypeOK
<1>4. QED
  BY <1>1, <1>2, <1>3, RecordTyped DEF Record

LEMMA DecideStepType ==
  ASSUME TypeOK,
         \/ SkipAction \/ DryRunAction \/ ForkFails
         \/ \E v \in Codes : SilentAction(v)
         \/ \E p \in Pids, v \in Codes : SyncAction(p, v)
         \/ \E p \in Pids : AsyncAction(p)
  PROVE  TypeOK'
<1> USE DEF RanType
<1>0. \A v \in Codes : pc = "loop" /\ SetRetcode(v) => retcode' \in [Stages -> Codes]
  BY DEF SetRetcode, TypeOK
<1>1. CASE SkipAction
  <2>1. pc = "loop" /\ HasNext /\ Advance /\ Record("skipped", 0) /\ UNCHANGED jobvars
    BY <1>1 DEF SkipAction
  <2>2. QED
    BY <1>1, <2>1, DecideType, CodesAssumption DEF SkipAction, TypeOK, jobvars
<1>2. CASE DryRunAction
  <2>1. pc = "loop" /\ HasNext /\ Advance /\ Record("dry", 0) /\ UNCHANGED jobvars
    BY <1>2 DEF DryRunAction, Selected
  <2>2. retcode' \in [Stages -> Codes] /\ exitstatus' \in Codes
    BY <1>2, <1>0, <2>1, CodesAssumption DEF DryRunAction
  <2>3. QED
    BY <1>2, <2>1, <2>2, DecideType, CodesAssumption DEF DryRunAction, TypeOK, jobvars
<1>3. CASE ForkFails
  <2>1. pc = "loop" /\ HasNext /\ Advance /\ Record("nofork", 0) /\ UNCHANGED jobvars
    BY <1>3 DEF ForkFails, Selected
  <2>2. retcode' \in [Stages -> Codes]
    BY <1>3, <1>0, <2>1 DEF ForkFails, TypeOK
  <2>3. fails' \in 0 .. MaxForkFails
    BY <1>3, MaxForkFailsAssumption DEF ForkFails, TypeOK
  <2>4. QED
    BY <1>3, <2>1, <2>2, <2>3, DecideType, CodesAssumption DEF ForkFails, TypeOK, jobvars
<1>4. ASSUME NEW v \in Codes, SilentAction(v) PROVE TypeOK'
  <2>1. pc = "loop" /\ HasNext /\ Advance /\ Record("over", v) /\ UNCHANGED jobvars
    BY <1>4 DEF SilentAction, Selected
  <2>2. retcode' \in [Stages -> Codes] /\ exitstatus' \in Codes
    BY <1>4, <1>0, <2>1 DEF SilentAction
  <2>3. QED
    BY <1>4, <2>1, <2>2, DecideType DEF SilentAction, TypeOK, jobvars
<1>5. ASSUME NEW p \in Pids, pc = "loop", HasNext, Fork(p), NextContext, UNCHANGED jobvars
      PROVE  /\ proc' \in [Pids -> ProcType]
             /\ pid' \in [Stages -> Pids \cup {NoPid}]
             /\ pc' \in {"each", "reap"} /\ each' \in Nat
             /\ pc' = "each" => each' \in 1 .. Len(pipeline) + 1
  <2>0. each \in Stages /\ NextAct \in 1 .. Len(pipeline[each])
    BY <1>5, LoopTyped
  <2>1. each \in Stages /\ each \in 1 .. Len(pipeline) /\ each \in Nat /\ NextAct \in Nat
    BY <2>0 DEF TypeOK, Stages
  <2>2. [Free EXCEPT !.state = "running", !.stage = each, !.act = NextAct] \in ProcType
    BY <2>1, CodesAssumption DEF Free, ProcType
  <2>3. QED
    BY <1>5, <2>1, <2>2 DEF Fork, NextContext, TypeOK
<1>6. ASSUME NEW p \in Pids, NEW v \in Codes, SyncAction(p, v) PROVE TypeOK'
  <2>1. /\ pc = "loop" /\ HasNext /\ Advance /\ Record("over", v) /\ UNCHANGED jobvars
        /\ Fork(p) /\ NextContext
    BY <1>6 DEF SyncAction, Selected
  <2>2. retcode' \in [Stages -> Codes] /\ exitstatus' \in Codes
    BY <1>6, <1>0, <2>1 DEF SyncAction
  <2>3. QED
    BY <1>6, <1>5, <2>1, <2>2, DecideType DEF SyncAction, TypeOK, jobvars
<1>7. ASSUME NEW p \in Pids, AsyncAction(p) PROVE TypeOK'
  <2>1. /\ pc = "loop" /\ HasNext /\ Advance /\ Record("running", 0) /\ UNCHANGED jobvars
        /\ Fork(p) /\ NextContext
    BY <1>7 DEF AsyncAction, Selected
  <2>2. QED
    BY <1>7, <1>5, <2>1, DecideType, CodesAssumption DEF AsyncAction, TypeOK, jobvars
<1>8. QED
  BY <1>1, <1>2, <1>3, <1>4, <1>6, <1>7

(* The end of a child.                                                     *)
LEMMA DieType ==
  ASSUME TypeOK, ChildHasOwner, ActsAreActions, NEW p \in Pids, Running(p),
         NEW what \in RanType, NEW value \in Codes, NEW k \in BOOLEAN,
         Die(p, what, value, k)
  PROVE  TypeOK'
<1>1. proc' \in [Pids -> ProcType]
  <2>1. [proc[p] EXCEPT !.state = "zombie", !.code = value, !.killed = k] \in ProcType
    BY DEF TypeOK, ProcType
  <2>2. proc \in [Pids -> ProcType]
    BY DEF TypeOK
  <2>3. proc' = [proc EXCEPT ![p] = [proc[p] EXCEPT !.state = "zombie", !.code = value,
                                                     !.killed = k]]
    BY <2>2, Zenon DEF Die
  <2>4. QED BY <2>1, <2>2, <2>3
<1>2. proc[p].stage \in Stages /\ proc[p].act \in DOMAIN Actions(proc[p].stage)
  BY DEF ChildHasOwner, ActsAreActions, Running
<1>3. /\ ran' \in [Stages -> Seq(RanType)] /\ code' \in [Stages -> Seq(Codes)]
      /\ \A d \in Stages : Len(ran'[d]) = Len(pipeline[d]) /\ Len(code'[d]) = Len(pipeline[d])
  <2>1. CASE IsGrabber(p)
    BY <2>1 DEF Die, TypeOK, history
  <2>2. CASE ~IsGrabber(p)
    <3> DEFINE c == proc[p].stage
               i == proc[p].act
    <3>1. ran' = [ran EXCEPT ![c][i] = what] /\ code' = [code EXCEPT ![c][i] = value]
      BY <2>2 DEF Die
    <3>2. c \in Stages /\ i \in DOMAIN Actions(c)
      BY <1>2
    <3> HIDE DEF c, i
    <3>3. QED BY <3>1, <3>2, RecordTyped
  <2>3. QED BY <2>1, <2>2
<1>4. QED
  BY <1>1, <1>3 DEF Die, TypeOK, Stages, ctxvars, jobvars

(* Every step preserves the types, given who owns the children.            *)
LEMMA NextType ==
  ASSUME TypeOK, ChildHasOwner, ActsAreActions, [Next]_vars
  PROVE  TypeOK'
<1>1. ASSUME NEW p \in Pipelines, NEW d \in BOOLEAN, KexecExec(p, d) PROVE TypeOK'
  BY <1>1, KexecExecType
<1>2. CASE Server
  BY <1>2, WalkType, DecideStepType DEF Server
<1>3. ASSUME NEW p \in Pids, NEW v \in Codes, ChildExit(p, v) PROVE TypeOK'
  BY <1>3, DieType DEF ChildExit, RanType
<1>4. ASSUME NEW p \in Pids, ChildKilled(p) PROVE TypeOK'
  BY <1>4, DieType, CodesAssumption DEF ChildKilled, RanType
<1>5. CASE UNCHANGED vars
  BY <1>5 DEF vars, TypeOK, Stages
<1>6. QED
  BY <1>1, <1>2, <1>3, <1>4, <1>5 DEF Next

-----------------------------------------------------------------------------
(* Who owns which child.                                                   *)

Owned == /\ ChildHasOwner /\ ActsAreActions /\ LoopOwnsNothing /\ ReapedIsFree
         /\ ReapedOwner /\ Attended /\ Announced

LEMMA InitOwned == Init => Owned
<1> SUFFICES ASSUME Init PROVE Owned
  OBVIOUS
<1>1. Stages = {} /\ pc = "idle" /\ \A p \in Pids : proc[p].state = "free"
  BY DEF Init, Stages, Free
<1>2. QED
  BY <1>1 DEF Owned, ChildHasOwner, ActsAreActions, LoopOwnsNothing, ReapedIsFree,
              ReapedOwner, Attended, Announced, Walking

(* A new job finds the process table empty.                                *)
LEMMA KexecExecOwned ==
  ASSUME IInv, NEW p \in Pipelines, NEW d \in BOOLEAN, KexecExec(p, d)
  PROVE  Owned'
<1>1. \A q \in Pids : proc'[q].state = "free"
  BY DEF IInv, ChildHasOwner, KexecExec, ProcType, TypeOK
<1>2. pc' = "each" /\ each' = 1 /\ wpid' = NoPid
  BY DEF KexecExec
<1>3. Stages' = 1 .. Len(p) /\ \A c \in Stages' : pid'[c] = NoPid
  BY PipelinesAssumption DEF KexecExec, Stages
<1>4. Attended'
  BY <1>2, <1>3 DEF Attended, Pending
<1>5. QED
  BY <1>1, <1>2, <1>4 DEF Owned, ChildHasOwner, ActsAreActions, LoopOwnsNothing,
              ReapedIsFree, ReapedOwner, Announced, Walking

(* Nothing but the control moves.                                          *)
LEMMA ControlOwned ==
  ASSUME IInv,
         \/ SkipContext \/ EnterContext \/ NoMoreContexts
         \/ SigChld \/ SigChldIdle \/ ReapNone
  PROVE  Owned'
<1> USE DEF IInv
<1>1. CASE SkipContext
  BY <1>1 DEF SkipContext, NotMine, ctxvars, jobvars, TypeOK, Stages, Actions, Owned,
    ChildHasOwner, ActsAreActions, LoopOwnsNothing, ReapedIsFree, ReapedOwner,
    Attended, Pending, HasProcess, Announced, Walking
<1>2. CASE EnterContext
  <2>1. /\ pc = "each" /\ pc' = "loop" /\ each \in Stages /\ ~done[each] /\ pid[each] = wpid
        /\ UNCHANGED <<pid, done, pipeline, proc, each, wpid, action_iter, sigchld>>
        /\ Stages' = Stages
    BY <1>2 DEF EnterContext, NotMine, jobvars, Stages
  <2>2. NoPid \notin Pids
    BY PidsAssumption DEF NoPid
  <2>3. \A q \in Pids : proc[q].state # "free" => proc[q].stage # each
    <3>1. \A q \in Pids : proc[q].state # "free" /\ proc[q].stage = each => q = wpid
      BY <2>1 DEF ChildHasOwner
    <3>2. QED BY <2>1, <2>2, <3>1 DEF ReapedIsFree, Walking
  <2>4. Attended'
    <3> SUFFICES ASSUME NEW c \in Stages, ~done[c] PROVE Pending(c)' \/ HasProcess(c)
      BY <2>1 DEF Attended, HasProcess
    <3>1. CASE HasProcess(c)
      BY <3>1
    <3>2. CASE Pending(c) /\ c = each
      BY <3>2, <2>1 DEF Pending
    <3>3. CASE Pending(c) /\ c # each
      <4>1. c > each /\ pid[c] = wpid
        BY <3>3, <2>1 DEF Pending, TypeOK, Stages
      <4>2. wpid = NoPid
        BY <4>1, <3>3, <2>1 DEF ReapedOwner, Walking
      <4>3. QED BY <4>1, <4>2, <2>1 DEF Pending
    <3>4. QED BY <3>1, <3>2, <3>3 DEF Attended
  <2>5. QED
    BY <2>1, <2>3, <2>4 DEF Owned, ChildHasOwner, ActsAreActions, LoopOwnsNothing,
      ReapedIsFree, ReapedOwner, Announced, Walking, Actions
<1>3. CASE NoMoreContexts
  BY <1>3 DEF NoMoreContexts, CheckDone, KexecDone, ctxvars, jobvars, TypeOK, Stages,
    Actions, Owned, ChildHasOwner, ActsAreActions, LoopOwnsNothing, ReapedIsFree,
    ReapedOwner, Attended, Pending, HasProcess, Announced, Walking
<1>4. CASE SigChld
  BY <1>4 DEF SigChld, ctxvars, jobvars, TypeOK, Stages, Actions, Owned,
    ChildHasOwner, ActsAreActions, LoopOwnsNothing, ReapedIsFree, ReapedOwner,
    Attended, Pending, HasProcess, Announced, Walking
<1>5. CASE SigChldIdle
  BY <1>5 DEF SigChldIdle, ctxvars, jobvars, TypeOK, Stages, Actions, Owned, Free,
    ChildHasOwner, ActsAreActions, LoopOwnsNothing, ReapedIsFree, ReapedOwner,
    Attended, Pending, HasProcess, Announced, Walking
<1>6. CASE ReapNone
  BY <1>6 DEF ReapNone, CheckDone, KexecDone, ctxvars, jobvars, TypeOK, Stages,
    Actions, Owned, ChildHasOwner, ActsAreActions, LoopOwnsNothing, ReapedIsFree,
    ReapedOwner, Attended, Pending, HasProcess, Announced, Walking
<1>7. QED
  BY <1>1, <1>2, <1>3, <1>4, <1>5, <1>6

(* waitpid() takes a zombie away from its stage; the stage becomes the one *)
(* the iteration over stages is looking for.                               *)
LEMMA ReapOwned ==
  ASSUME IInv, NEW p \in Pids, Reap(p)
  PROVE  Owned'
<1> USE DEF IInv
<1>1. /\ pc' = "each" /\ each' = 1 /\ wpid' = p /\ wpid' # NoPid /\ Stages' = Stages
      /\ proc' = [proc EXCEPT ![p] = Free] /\ proc[p].state = "zombie" /\ pc = "reap"
      /\ UNCHANGED <<pid, done, pipeline, action_iter, sigchld>>
  BY PidsAssumption DEF Reap, ctxvars, jobvars, Stages, NoPid
<1>2. /\ proc'[p].state = "free"
      /\ \A q \in Pids : q # p => proc'[q] = proc[q]
  BY <1>1 DEF TypeOK, Free
<1>3. ChildHasOwner' /\ ActsAreActions' /\ LoopOwnsNothing' /\ ReapedIsFree' /\ Announced'
  BY <1>1, <1>2 DEF ChildHasOwner, ActsAreActions, LoopOwnsNothing, ReapedIsFree, Actions,
    Announced, Walking
<1>4. \A c \in Stages : ~done[c] => HasProcess(c)
  BY <1>1 DEF Attended, Pending
<1>5. ReapedOwner'
  BY <1>1, <1>4 DEF ReapedOwner, HasProcess, Walking
<1>6. Attended'
  <2> SUFFICES ASSUME NEW c \in Stages, ~done[c] PROVE Pending(c)' \/ HasProcess(c)'
    BY <1>1 DEF Attended
  <2>1. CASE pid[c] = p
    BY <2>1, <1>1 DEF Pending, TypeOK, Stages
  <2>2. CASE pid[c] # p
    BY <2>2, <1>1, <1>2, <1>4 DEF HasProcess
  <2>3. QED BY <2>1, <2>2
<1>7. QED
  BY <1>3, <1>5, <1>6 DEF Owned

(* The stage that is being advanced has no process, so it may be closed.   *)
LEMMA SequenceEndOwned ==
  ASSUME IInv, SequenceEnd
  PROVE  Owned'
<1> USE DEF IInv
<1>1. /\ pc = "loop" /\ each \in Stages /\ Stages' = Stages
      /\ done' = [done EXCEPT ![each] = TRUE]
      /\ action_iter' = [action_iter EXCEPT ![each] = 0]
      /\ UNCHANGED <<pid, pipeline, proc, sigchld, wpid>>
  BY DEF SequenceEnd, jobvars, TypeOK, Stages
<1>2. \/ wpid = NoPid /\ pc' = "each" /\ each' = each + 1
      \/ wpid # NoPid /\ pc' = "reap" /\ each' = each
  BY DEF SequenceEnd, NextContext
<1>3. \A q \in Pids : proc[q].state # "free" => proc[q].stage # each
  BY <1>1 DEF LoopOwnsNothing
<1>4. \A c \in Stages : c # each => done'[c] = done[c] /\ action_iter'[c] = action_iter[c]
  BY <1>1 DEF TypeOK
<1>5. ChildHasOwner' /\ ActsAreActions'
  BY <1>1, <1>2, <1>3, <1>4 DEF ChildHasOwner, ActsAreActions, Actions
<1>6. LoopOwnsNothing' /\ ReapedIsFree' /\ ReapedOwner' /\ Announced'
  BY <1>1, <1>2 DEF LoopOwnsNothing, ReapedIsFree, ReapedOwner, Announced, Walking
<1>7. Attended'
  <2> SUFFICES ASSUME NEW c \in Stages, ~done'[c] PROVE Pending(c)' \/ HasProcess(c)
    BY <1>1 DEF Attended, HasProcess
  <2>1. c # each /\ ~done[c]
    BY <1>1, <1>4 DEF TypeOK
  <2>2. CASE HasProcess(c)
    BY <2>2
  <2>3. CASE ~HasProcess(c)
    <3>1. wpid = NoPid /\ c > each /\ pid[c] = NoPid
      BY <2>1, <2>3, <1>1 DEF Attended, Pending
    <3>2. c >= each + 1
      <4>1. Stages \subseteq Nat
        BY DEF TypeOK, Stages
      <4>2. QED BY <4>1, <3>1, <1>1
    <3>3. pc' = "each" /\ each' = each + 1 /\ pid'[c] = wpid'
      BY <3>1, <1>1, <1>2
    <3>4. QED BY <3>2, <3>3 DEF Pending
  <2>4. QED BY <2>2, <2>3
<1>8. QED
  BY <1>5, <1>6, <1>7 DEF Owned

(* Deciding an ACTION without forking leaves the stage in the loop.        *)
LEMMA DecideOwned ==
  ASSUME IInv,
         \/ SkipAction \/ DryRunAction \/ ForkFails
         \/ \E v \in Codes : SilentAction(v)
  PROVE  Owned'
<1>1. /\ pc = "loop" /\ HasNext /\ pc' = "loop" /\ Advance
      /\ UNCHANGED <<pid, done, pipeline, proc, each, wpid, sigchld>>
  BY DEF SkipAction, DryRunAction, ForkFails, SilentAction, Selected, jobvars
<1>2. each \in Stages /\ Stages' = Stages
  BY <1>1 DEF IInv, TypeOK, Stages
<1>3. \A c \in Stages : c # each => action_iter'[c] = action_iter[c]
  BY <1>1 DEF Advance, IInv, TypeOK
<1>4. QED
  BY <1>1, <1>2, <1>3 DEF IInv, Owned, ChildHasOwner, ActsAreActions, LoopOwnsNothing,
    ReapedIsFree, ReapedOwner, Attended, Pending, HasProcess, Announced, Walking, Actions

(* A fork gives the stage that had no process a fresh one.                 *)
LEMMA ForkOwned ==
  ASSUME IInv, pc = "loop", HasNext, NEW p \in Pids, Fork(p), Advance, NextContext,
         UNCHANGED <<done, pipeline, wpid, sigchld>>
  PROVE  Owned'
<1> USE DEF IInv
<1>1. each \in Stages /\ Stages' = Stages /\ NextAct \in DOMAIN Actions(each)
  BY LoopTyped DEF Stages
<1>2. \/ wpid = NoPid /\ pc' = "each" /\ each' = each + 1
      \/ wpid # NoPid /\ pc' = "reap" /\ each' = each
  BY DEF NextContext
<1>3. /\ proc[p].state = "free"
      /\ proc'[p].state = "running" /\ proc'[p].stage = each /\ proc'[p].act = NextAct
      /\ \A q \in Pids : q # p => proc'[q] = proc[q]
  BY DEF Fork, Free, TypeOK
<1>4. /\ pid'[each] = p /\ \A c \in Stages : c # each => pid'[c] = pid[c]
      /\ action_iter'[each] = NextAct
      /\ \A c \in Stages : c # each => action_iter'[c] = action_iter[c]
  BY <1>1 DEF Fork, Advance, TypeOK
<1>5. ~done[each] /\ \A q \in Pids : proc[q].state # "free" => proc[q].stage # each
  BY <1>1 DEF LoopOwnsNothing
<1>6. ChildHasOwner' /\ ActsAreActions'
  <2> SUFFICES ASSUME NEW q \in Pids, proc'[q].state # "free"
               PROVE  /\ pc' # "idle" /\ proc'[q].stage \in Stages
                      /\ ~done[proc'[q].stage] /\ pid'[proc'[q].stage] = q
                      /\ action_iter'[proc'[q].stage] = proc'[q].act
                      /\ proc'[q].act \in DOMAIN Actions(proc'[q].stage)
    BY <1>1 DEF ChildHasOwner, ActsAreActions, Actions
  <2>1. CASE q = p
    BY <2>1, <1>1, <1>2, <1>3, <1>4, <1>5
  <2>2. CASE q # p
    BY <2>2, <1>2, <1>3, <1>4, <1>5 DEF ChildHasOwner, ActsAreActions
  <2>3. QED BY <2>1, <2>2
<1>7. LoopOwnsNothing' /\ ReapedIsFree' /\ ReapedOwner'
  BY <1>2 DEF LoopOwnsNothing, ReapedIsFree, ReapedOwner, Walking
<1>8. Announced'
  <2> SUFFICES ASSUME NEW q \in Pids, proc'[q].state = "zombie"
               PROVE  sigchld \/ pc' = "reap"
    BY DEF Announced
  <2>1. proc[q].state = "zombie"
    BY <1>3
  <2>2. QED BY <2>1, <1>2 DEF Announced, Walking
<1>9. Attended'
  <2> SUFFICES ASSUME NEW c \in Stages, ~done[c] PROVE Pending(c)' \/ HasProcess(c)'
    BY <1>1 DEF Attended
  <2>1. CASE c = each
    BY <2>1, <1>3, <1>4 DEF HasProcess
  <2>2. CASE c # each /\ HasProcess(c)
    BY <2>2, <1>3, <1>4 DEF HasProcess
  <2>3. CASE c # each /\ ~HasProcess(c)
    <3>1. wpid = NoPid /\ c > each /\ pid[c] = NoPid
      BY <2>3 DEF Attended, Pending
    <3>2. c >= each + 1
      <4>1. Stages \subseteq Nat
        BY DEF TypeOK, Stages
      <4>2. QED BY <4>1, <3>1, <1>1
    <3>3. pc' = "each" /\ each' = each + 1 /\ pid'[c] = wpid'
      BY <3>1, <2>3, <1>2, <1>4
    <3>4. QED BY <3>2, <3>3 DEF Pending
  <2>4. QED BY <2>1, <2>2, <2>3
<1>10. QED
  BY <1>6, <1>7, <1>8, <1>9 DEF Owned

(* A dying child becomes a zombie, still owned, and announced.             *)
LEMMA DieOwned ==
  ASSUME IInv, NEW p \in Pids, Running(p), NEW what, NEW value, NEW k,
         Die(p, what, value, k)
  PROVE  Owned'
<1> USE DEF IInv
<1>1. /\ Stages' = Stages /\ sigchld' = TRUE
      /\ UNCHANGED <<action_iter, pid, done, pipeline, pc, each, wpid>>
  BY DEF Die, ctxvars, jobvars, Stages
<1>2. \A q \in Pids : /\ proc'[q].stage = proc[q].stage /\ proc'[q].act = proc[q].act
                      /\ proc'[q].state = "free" <=> proc[q].state = "free"
  BY DEF Die, TypeOK, Running, ProcType
<1>3. ChildHasOwner' /\ ActsAreActions' /\ LoopOwnsNothing'
  BY <1>1, <1>2 DEF ChildHasOwner, ActsAreActions, LoopOwnsNothing, Actions
<1>4. wpid \in Pids \cup {NoPid}
  BY DEF TypeOK
<1>5. ReapedIsFree' /\ ReapedOwner' /\ Announced'
  BY <1>1, <1>2, <1>4 DEF ReapedIsFree, ReapedOwner, Announced, Walking
<1>6. Attended'
  <2> SUFFICES ASSUME NEW c \in Stages, ~done[c] PROVE Pending(c)' \/ HasProcess(c)'
    BY <1>1 DEF Attended
  <2>1. Pending(c) => Pending(c)'
    BY <1>1 DEF Pending
  <2>2. HasProcess(c) => HasProcess(c)'
    BY <1>1, <1>2 DEF HasProcess
  <2>3. QED BY <2>1, <2>2 DEF Attended
<1>7. QED
  BY <1>3, <1>5, <1>6 DEF Owned

-----------------------------------------------------------------------------
(* Every step preserves the inductive invariant: one case per action.      *)
LEMMA NextIInv ==
  ASSUME IInv, [Next]_vars
  PROVE  IInv'
<1>1. TypeOK'
  BY NextType DEF IInv
<1>2. Owned'
  <2>1. ASSUME NEW p \in Pipelines, NEW d \in BOOLEAN, KexecExec(p, d) PROVE Owned'
    BY <2>1, KexecExecOwned
  <2>2. CASE SkipContext \/ EnterContext \/ NoMoreContexts \/ SigChld \/ SigChldIdle \/ ReapNone
    BY <2>2, ControlOwned
  <2>3. CASE SequenceEnd
    BY <2>3, SequenceEndOwned
  <2>4. CASE SkipAction \/ DryRunAction \/ ForkFails \/ \E v \in Codes : SilentAction(v)
    BY <2>4, DecideOwned
  <2>5. ASSUME NEW p \in Pids, NEW v \in Codes, SyncAction(p, v) PROVE Owned'
    BY <2>5, ForkOwned DEF SyncAction, Selected, jobvars
  <2>6. ASSUME NEW p \in Pids, AsyncAction(p) PROVE Owned'
    BY <2>6, ForkOwned DEF AsyncAction, Selected, jobvars
  <2>7. ASSUME NEW p \in Pids, Reap(p) PROVE Owned'
    BY <2>7, ReapOwned
  <2>8. ASSUME NEW p \in Pids, NEW v \in Codes, ChildExit(p, v) PROVE Owned'
    BY <2>8, DieOwned DEF ChildExit
  <2>9. ASSUME NEW p \in Pids, ChildKilled(p) PROVE Owned'
    BY <2>9, DieOwned DEF ChildKilled
  <2>10. CASE UNCHANGED vars
    BY <2>10 DEF vars, IInv, Owned, ChildHasOwner, ActsAreActions, LoopOwnsNothing,
      ReapedIsFree, ReapedOwner, Attended, Pending, HasProcess, Announced, Walking,
      Actions, Stages
  <2>11. QED
    BY <2>1, <2>2, <2>3, <2>4, <2>5, <2>6, <2>7, <2>8, <2>9, <2>10 DEF Next, Server
<1>3. QED
  BY <1>1, <1>2 DEF IInv, Owned

(* The inductive invariant of the execution engine.                        *)
THEOREM KexecInvariant == Spec => []IInv
<1>1. Init => IInv
  BY InitType, InitOwned DEF IInv, Owned
<1>2. IInv /\ [Next]_vars => IInv'
  BY NextIInv
<1>3. QED
  BY <1>1, <1>2, PTL DEF Spec

(* The variables of the execution engine keep their types: in particular   *)
(* the ACTION iterator of a stage never leaves the stage's ACTION list.    *)
THEOREM KexecTypeOK == Spec => []TypeOK
<1>1. IInv => TypeOK
  BY DEF IInv
<1>2. QED
  BY <1>1, KexecInvariant, PTL

(* Every child belongs to the one running stage that forked it; a finished *)
(* job leaves no child, and a reused pid never confuses two stages.        *)
THEOREM KexecChildHasOwner == Spec => []ChildHasOwner
<1>1. IInv => ChildHasOwner
  BY DEF IInv
<1>2. QED
  BY <1>1, KexecInvariant, PTL

(* In the event loop no death of a child can be missed.                    *)
THEOREM KexecNoLostChild == Spec => []NoLostChild
<1>1. IInv => NoLostChild
  <2> SUFFICES ASSUME IInv, pc = "wait" PROVE NoLostChild
    BY DEF NoLostChild
  <2>1. \A c \in Stages : ~done[c] => HasProcess(c)
    BY DEF IInv, Attended, Pending
  <2>2. (\E p \in Pids : proc[p].state = "zombie") => sigchld
    BY DEF IInv, Announced, Walking
  <2>3. QED
    BY <2>1, <2>2 DEF NoLostChild, HasProcess
<1>2. QED
  BY <1>1, KexecInvariant, PTL

-----------------------------------------------------------------------------
(* What became of the ACTIONs.                                             *)

(* A stage that is not done has its descriptors while the job lasts.       *)
KeepsEnds == \A c \in Stages : pc # "idle" /\ ~done[c] => fdin[c] /\ fdout[c]

(* ACTIONs up to the iterator are decided, those behind it are not; only   *)
(* the one at the iterator may still run.                                  *)
InOrder ==
  \A c \in Stages : \A i \in DOMAIN Actions(c) :
    /\ done[c] => ran[c][i] \notin {"todo", "running"}
    /\ ~done[c] /\ i < action_iter[c] => ran[c][i] \notin {"todo", "running"}
    /\ ~done[c] /\ i = action_iter[c] => ran[c][i] # "todo"
    /\ ~done[c] /\ i > action_iter[c] => ran[c][i] = "todo"

(* A process and the ACTION it was forked for; a zombie's exit status is   *)
(* the ACTION's exit code.                                                 *)
OverWith(c, i, value) ==
  IF Actions(c)[i].sync THEN ran[c][i] = "over"
  ELSE ran[c][i] \in {"over", "killed"} /\ code[c][i] = value

ProcessIsAction ==
  \A p \in Pids : proc[p].state # "free" =>
    LET c == proc[p].stage
        i == proc[p].act
    IN IF proc[p].state = "running" /\ ~Actions(c)[i].sync
       THEN ran[c][i] = "running"
       ELSE OverWith(c, i, WExitStatus(proc[p]))

(* The same of the process that waitpid() has returned.                    *)
ReapedIsAction ==
  pc = "each" /\ wpid # NoPid =>
    \A c \in Stages : ~done[c] /\ pid[c] = wpid =>
      action_iter[c] # 0 /\ OverWith(c, action_iter[c], exitstatus)

(* In the loop nothing of the stage runs; a stage that never forked has    *)
(* not begun, unless it is in the loop.                                    *)
InLoop(c) == pc = "loop" /\ c = each
LoopIsDecided ==
  pc = "loop" /\ action_iter[each] # 0 =>
    ran[each][action_iter[each]] # "running"
NotBegun ==
  \A c \in Stages : ~done[c] /\ ~InLoop(c) /\ pid[c] = NoPid => action_iter[c] = 0

(* How many ACTIONs of stage c the retcode accounts for: an async one only *)
(* when its process has been reaped.                                       *)
Accounted(c) ==
  IF done[c] THEN Len(Actions(c))
  ELSE LET i == action_iter[c]
       IN IF i # 0 /\ ~InLoop(c) /\ ~Actions(c)[i].sync THEN i - 1 ELSE i

RetcodeIsOverall ==
  \A c \in Stages : GrabberFailed(c) \/ retcode[c] = Overall(c, Accounted(c))

SkippedAsDocumented ==
  \A c \in Stages : \A i \in DOMAIN Actions(c) :
    ran[c][i] # "todo" => GrabberFailed(c) \/
      (ran[c][i] = "skipped" <=>
         ~MeetExecConditions(Actions(c)[i], Overall(c, i - 1)))

IdleIsDone == pc = "idle" => KexecDone /\ result = KexecRetcode

Decided == /\ KeepsEnds /\ InOrder /\ ProcessIsAction /\ ReapedIsAction
           /\ LoopIsDecided /\ NotBegun /\ RetcodeIsOverall
           /\ SkippedAsDocumented /\ IdleIsDone

(* What TypeOK says of the stages.                                         *)
LEMMA StagesAre ==
  ASSUME TypeOK
  PROVE  /\ Stages = 1 .. Len(pipeline) /\ Len(pipeline) \in Nat /\ Stages \subseteq Nat
         /\ \A c \in Stages :
              /\ Actions(c) \in Seq(ActionType)
              /\ Len(Actions(c)) \in Nat
              /\ DOMAIN Actions(c) = 1 .. Len(Actions(c))
              /\ action_iter[c] \in 0 .. Len(Actions(c))
              /\ action_iter[c] \in Nat
              /\ ran[c] \in Seq(RanType) /\ code[c] \in Seq(Codes)
              /\ DOMAIN ran[c] = DOMAIN Actions(c)
              /\ DOMAIN code[c] = DOMAIN Actions(c)
<1>1. pipeline \in Seq(Seq(ActionType))
  BY DEF TypeOK
<1>2. Stages = 1 .. Len(pipeline) /\ Len(pipeline) \in Nat /\ Stages \subseteq Nat
  BY <1>1 DEF Stages
<1> SUFFICES ASSUME NEW c \in Stages
             PROVE  /\ Actions(c) \in Seq(ActionType)
                    /\ Len(Actions(c)) \in Nat
                    /\ DOMAIN Actions(c) = 1 .. Len(Actions(c))
                    /\ action_iter[c] \in 0 .. Len(Actions(c))
                    /\ action_iter[c] \in Nat
                    /\ ran[c] \in Seq(RanType) /\ code[c] \in Seq(Codes)
                    /\ DOMAIN ran[c] = DOMAIN Actions(c)
                    /\ DOMAIN code[c] = DOMAIN Actions(c)
  BY <1>2
<1>3. Actions(c) \in Seq(ActionType) /\ Actions(c) = pipeline[c]
  BY <1>1 DEF Actions, Stages
<1>4. Len(Actions(c)) \in Nat /\ DOMAIN Actions(c) = 1 .. Len(Actions(c))
  BY <1>3
<1>5. ran[c] \in Seq(RanType) /\ code[c] \in Seq(Codes)
  BY DEF TypeOK
<1>6. Len(ran[c]) = Len(Actions(c)) /\ Len(code[c]) = Len(Actions(c))
  BY <1>3 DEF TypeOK
<1>7. action_iter[c] \in 0 .. Len(Actions(c))
  BY <1>3 DEF TypeOK
<1>8. QED
  BY <1>3, <1>4, <1>5, <1>6, <1>7

(* A non-empty set of numbers up to m has a largest element.               *)
LEMMA LargestUpTo ==
  ASSUME NEW m \in Nat, NEW S \in SUBSET (1 .. m), S # {}
  PROVE  \E n \in S : \A k \in S : k <= n
<1> DEFINE T == {t \in Nat : m - t \in S}
<1>0. \A k \in S : k \in Nat /\ k <= m /\ m - k \in Nat /\ m - (m - k) = k
  OBVIOUS
<1>1. T \subseteq Nat /\ T # {}
  <2>1. PICK k \in S : TRUE
    OBVIOUS
  <2>2. m - k \in T
    BY <1>0
  <2>3. QED BY <2>2
<1>2. PICK t \in T : \A u \in T : t <= u
  <2>. HIDE DEF T
  <2>. QED BY <1>1, SmallestNat
<1>3. m - t \in S /\ t \in Nat
  OBVIOUS
<1>4. \A k \in S : k <= m - t
  <2> TAKE k \in S
  <2>1. m - k \in T
    BY <1>0
  <2>2. t <= m - k
    BY <1>2, <2>1
  <2>3. QED BY <1>0, <1>3, <2>2
<1>5. QED BY <1>3, <1>4

(* The overall return code of ACTIONs A with history r and exit codes k    *)
(* counts one ACTION after the other, and no ACTION behind the n-th.       *)
Counting(A, r, n) ==
  {i \in DOMAIN A : i <= n /\ r[i] \in {"dry", "over", "killed"}
                           /\ A[i].update_retcode}

OverallOf(A, r, k, n) ==
  IF Counting(A, r, n) = {} THEN 0
  ELSE k[CHOOSE i \in Counting(A, r, n) : \A j \in Counting(A, r, n) : j <= i]

LEMMA OverallIs ==
  ASSUME NEW c, NEW n
  PROVE  /\ Overall(c, n) = OverallOf(Actions(c), ran[c], code[c], n)
         /\ Overall(c, n)' = OverallOf(Actions(c)', ran'[c], code'[c], n)
<1>1. Overall(c, n) = OverallOf(Actions(c), ran[c], code[c], n)
  BY DEF Overall, OverallOf, Updating, Counting
<1>2. Overall(c, n)' = OverallOf(Actions(c)', ran'[c], code'[c], n)
  BY DEF Overall, OverallOf, Updating, Counting
<1>3. QED BY <1>1, <1>2

LEMMA OverallNone ==
  ASSUME NEW A, NEW r, NEW k, DOMAIN A \subseteq Nat \ {0}
  PROVE  OverallOf(A, r, k, 0) = 0
<1>1. Counting(A, r, 0) = {}
  BY DEF Counting
<1>2. QED BY <1>1 DEF OverallOf

LEMMA OverallNext ==
  ASSUME NEW A, NEW r, NEW k, NEW m \in Nat, DOMAIN A = 1 .. m,
         NEW n \in 1 .. m
  PROVE  OverallOf(A, r, k, n) =
           IF r[n] \in {"dry", "over", "killed"} /\ A[n].update_retcode
           THEN k[n] ELSE OverallOf(A, r, k, n - 1)
<1> DEFINE Counts(i) == r[i] \in {"dry", "over", "killed"} /\ A[i].update_retcode
<1>0. n \in DOMAIN A /\ n \in Nat /\ \A i \in DOMAIN A : i \in Nat
  OBVIOUS
<1>d. \A p : Counting(A, r, p) = {i \in DOMAIN A : i <= p /\ Counts(i)}
  BY DEF Counting
<1> HIDE DEF Counts
<1>1. CASE Counts(n)
  <2> DEFINE U == Counting(A, r, n)
  <2>1. n \in U /\ \A j \in U : j <= n /\ j \in Nat
    BY <1>0, <1>d, <1>1
  <2> HIDE DEF U
  <2>2. \A i \in U : (\A j \in U : j <= i) => i = n
    BY <1>0, <2>1
  <2>3. (CHOOSE i \in U : \A j \in U : j <= i) = n
    BY <2>1, <2>2
  <2>4. OverallOf(A, r, k, n) = k[n]
    BY <2>1, <2>3 DEF OverallOf, U
  <2>5. QED
    BY <1>1, <2>4 DEF Counts
<1>2. CASE ~Counts(n)
  <2>1. \A i \in DOMAIN A : (i <= n /\ Counts(i)) <=> (i <= n - 1 /\ Counts(i))
    BY <1>0, <1>2
  <2>2. Counting(A, r, n) = Counting(A, r, n - 1)
    BY <1>d, <2>1
  <2>3. OverallOf(A, r, k, n) = OverallOf(A, r, k, n - 1)
    BY <2>2 DEF OverallOf
  <2>4. QED
    BY <1>2, <2>3 DEF Counts
<1>3. QED BY <1>1, <1>2

LEMMA OverallSame ==
  ASSUME NEW A, NEW m \in Nat, DOMAIN A = 1 .. m, NEW n,
         NEW r, NEW k, NEW s, NEW l,
         \A i \in DOMAIN A : i <= n => s[i] = r[i] /\ l[i] = k[i]
  PROVE  OverallOf(A, s, l, n) = OverallOf(A, r, k, n)
<1> DEFINE U == Counting(A, r, n)
<1>1. Counting(A, s, n) = U
  BY DEF Counting
<1>2. CASE U = {}
  BY <1>1, <1>2 DEF OverallOf
<1>3. CASE U # {}
  <2>1. U \in SUBSET (1 .. m) /\ \A i \in U : i \in DOMAIN A /\ i <= n
    BY DEF Counting
  <2>2. OverallOf(A, s, l, n) = l[CHOOSE i \in U : \A j \in U : j <= i]
    BY <1>1, <1>3 DEF OverallOf
  <2>3. OverallOf(A, r, k, n) = k[CHOOSE i \in U : \A j \in U : j <= i]
    BY <1>3 DEF OverallOf
  <2> HIDE DEF U
  <2>4. \E p \in U : \A j \in U : j <= p
    BY <1>3, <2>1, LargestUpTo
  <2> DEFINE p == CHOOSE i \in U : \A j \in U : j <= i
  <2>5. p \in U
    BY <2>4
  <2> HIDE DEF p
  <2>6. s[p] = r[p] /\ l[p] = k[p]
    BY <2>1, <2>5
  <2>7. QED BY <2>2, <2>3, <2>6 DEF p
<1>4. QED BY <1>2, <1>3

(* ACTION n of stage b gets a new entry, no other entry changes, ...       *)
Entry(b, n, what, value) ==
  /\ ran'[b][n] = what /\ code'[b][n] = value
  /\ \A c \in Stages : \A i \in DOMAIN Actions(c) : c # b \/ i # n =>
       ran'[c][i] = ran[c][i] /\ code'[c][i] = code[c][i]

(* ... nor does the overall return code of the ACTIONs before it.          *)
Counted(b, n, what, value) ==
  /\ \A c \in Stages : GrabberFailed(c) => GrabberFailed(c)'
  /\ \A c \in Stages : c # b => \A m : Overall(c, m)' = Overall(c, m)
  /\ \A m \in Int : m < n => Overall(b, m)' = Overall(b, m)
  /\ Overall(b, n)' = IF /\ what \in {"dry", "over", "killed"}
                         /\ Actions(b)[n].update_retcode
                      THEN value ELSE Overall(b, n - 1)

LEMMA NewEntry ==
  ASSUME TypeOK, pipeline' = pipeline,
         NEW b \in Stages, NEW n \in DOMAIN Actions(b), NEW what, NEW value,
         ran[b][n] \in {"todo", "running"},
         Entry(b, n, what, value)
  PROVE  Counted(b, n, what, value)
<1>2. ran'[b][n] = what /\ code'[b][n] = value
  BY DEF Entry
<1>3. \A c \in Stages : \A i \in DOMAIN Actions(c) : c # b \/ i # n =>
        ran'[c][i] = ran[c][i] /\ code'[c][i] = code[c][i]
  BY DEF Entry
<1>4. \A c \in Stages : Actions(c)' = Actions(c)
  BY DEF Actions
<1>5. \A c \in Stages : GrabberFailed(c) => GrabberFailed(c)'
  BY <1>2, <1>3, <1>4 DEF GrabberFailed
<1>6. \A c \in Stages : c # b => \A m : Overall(c, m)' = Overall(c, m)
  <2> SUFFICES ASSUME NEW c \in Stages, c # b, NEW m
               PROVE  Overall(c, m)' = Overall(c, m)
    OBVIOUS
  <2>1. \A i \in DOMAIN Actions(c) :
          i <= m => ran'[c][i] = ran[c][i] /\ code'[c][i] = code[c][i]
    BY <1>3
  <2>2. Len(Actions(c)) \in Nat /\ DOMAIN Actions(c) = 1 .. Len(Actions(c))
    BY StagesAre
  <2>3. OverallOf(Actions(c), ran'[c], code'[c], m)
          = OverallOf(Actions(c), ran[c], code[c], m)
    BY <2>1, <2>2, OverallSame
  <2>4. QED
    BY <1>4, <2>3, OverallIs
<1>7. n \in Nat /\ \A i \in DOMAIN Actions(b) : i \in Nat
  BY StagesAre
<1>8. ASSUME NEW m, m \in Int, m < n
      PROVE  Overall(b, m)' = Overall(b, m)
  <2>1. \A i \in DOMAIN Actions(b) : i <= m => i # n
    BY <1>7, <1>8
  <2>2. \A i \in DOMAIN Actions(b) :
          i <= m => ran'[b][i] = ran[b][i] /\ code'[b][i] = code[b][i]
    BY <1>3, <2>1
  <2>3. Len(Actions(b)) \in Nat /\ DOMAIN Actions(b) = 1 .. Len(Actions(b))
    BY StagesAre
  <2> DEFINE s == ran'[b]
             l == code'[b]
  <2>. HIDE DEF s, l
  <2>s. \A i \in DOMAIN Actions(b) : i <= m => s[i] = ran[b][i] /\ l[i] = code[b][i]
    BY <2>2 DEF s, l
  <2>4. OverallOf(Actions(b), s, l, m) = OverallOf(Actions(b), ran[b], code[b], m)
    BY <2>s, <2>3, OverallSame
  <2>5. QED
    BY <1>4, <2>4, OverallIs DEF s, l
<1>9. Overall(b, n)' =
        IF ran'[b][n] \in {"dry", "over", "killed"} /\ Actions(b)[n].update_retcode
        THEN code'[b][n] ELSE Overall(b, n - 1)'
  <2>1. Len(Actions(b)) \in Nat /\ DOMAIN Actions(b) = 1 .. Len(Actions(b))
    BY StagesAre
  <2>2. n \in 1 .. Len(Actions(b))
    BY <2>1
  <2>3. OverallOf(Actions(b), ran'[b], code'[b], n) =
          IF ran'[b][n] \in {"dry", "over", "killed"}
             /\ Actions(b)[n].update_retcode
          THEN code'[b][n]
          ELSE OverallOf(Actions(b), ran'[b], code'[b], n - 1)
    BY <2>1, <2>2, OverallNext
  <2>4. Actions(b)' = Actions(b)
    BY <1>4
  <2>5. QED
    BY <2>3, <2>4, OverallIs
<1>10. Overall(b, n - 1)' = Overall(b, n - 1)
  BY <1>7, <1>8
<1>11. QED
  BY <1>2, <1>5, <1>6, <1>8, <1>9, <1>10 DEF Counted

(* Initially there is no stage at all.                                     *)
LEMMA InitDecided == Init => Decided
<1> SUFFICES ASSUME Init PROVE Decided
  OBVIOUS
<1>1. Stages = {} /\ pc = "idle" /\ \A p \in Pids : proc[p].state = "free"
  BY DEF Init, Stages, Free
<1>2. KexecDone /\ KexecRetcode = 0 /\ result = 0
  BY <1>1 DEF KexecDone, KexecRetcode, Init
<1>3. QED
  BY <1>1, <1>2 DEF Decided, KeepsEnds, InOrder, ProcessIsAction, ReapedIsAction,
     LoopIsDecided, NotBegun, RetcodeIsOverall, SkippedAsDocumented, IdleIsDone

(* A new job has decided nothing.                                          *)
LEMMA KexecExecDecided ==
  ASSUME IInv, TypeOK', NEW p \in Pipelines, NEW d \in BOOLEAN, KexecExec(p, d)
  PROVE  Decided'
<1>1. /\ pc' = "each" /\ wpid' = NoPid /\ pipeline' = p /\ proc' = proc
      /\ \A q \in Pids : proc[q].state = "free"
  BY DEF IInv, ChildHasOwner, KexecExec, ProcType, TypeOK
<1>2. Stages' = DOMAIN p /\ \A c \in DOMAIN p : Actions(c)' = p[c]
  BY <1>1 DEF Stages, Actions
<1>3. \A c \in DOMAIN p :
        /\ action_iter'[c] = 0 /\ retcode'[c] = 0 /\ done'[c] = FALSE
        /\ fdin'[c] = TRUE /\ fdout'[c] = TRUE
        /\ \A i \in DOMAIN p[c] : ran'[c][i] = "todo"
  BY DEF KexecExec
<1>4. \A c \in DOMAIN p : DOMAIN p[c] \subseteq Nat \ {0}
  BY PipelinesAssumption
<1>5. KeepsEnds' /\ NotBegun'
  BY <1>2, <1>3 DEF KeepsEnds, NotBegun
<1>6. InOrder' /\ SkippedAsDocumented'
  BY <1>2, <1>3, <1>4 DEF InOrder, SkippedAsDocumented
<1>7. ProcessIsAction' /\ ReapedIsAction' /\ LoopIsDecided' /\ IdleIsDone'
  BY <1>1 DEF ProcessIsAction, ReapedIsAction, LoopIsDecided, IdleIsDone
<1>8. RetcodeIsOverall'
  <2> SUFFICES ASSUME NEW c \in DOMAIN p
               PROVE  (retcode[c] = Overall(c, Accounted(c)))'
    BY <1>2 DEF RetcodeIsOverall
  <2>1. Accounted(c)' = 0
    BY <1>3 DEF Accounted
  <2>2. Overall(c, 0)' = 0
    BY <1>2, <1>4, OverallIs, OverallNone
  <2>3. QED
    BY <1>3, <2>1, <2>2
<1>9. QED
  BY <1>5, <1>6, <1>7, <1>8 DEF Decided

(* Outside of the loop the control may move without any effect on what is  *)
(* decided.                                                                *)
LEMMA Unmoved ==
  ASSUME Decided, pc # "loop", pc' # "loop",
         UNCHANGED <<pipeline, action_iter, retcode, pid, done, ran, code>>
  PROVE  /\ InOrder' /\ LoopIsDecided' /\ NotBegun' /\ RetcodeIsOverall'
         /\ SkippedAsDocumented'
<1>1. Stages' = Stages /\ \A c \in Stages : Actions(c)' = Actions(c)
  BY DEF Stages, Actions
<1>2. InOrder' /\ LoopIsDecided'
  BY <1>1 DEF Decided, InOrder, LoopIsDecided
<1>3. NotBegun'
  BY <1>1 DEF Decided, NotBegun, InLoop
<1>4. \A c \in Stages : GrabberFailed(c)' = GrabberFailed(c)
  BY <1>1 DEF GrabberFailed
<1>5. \A c \in Stages : \A n : Overall(c, n)' = Overall(c, n)
  BY <1>1, OverallIs
<1>6. \A c \in Stages : Accounted(c)' = Accounted(c)
  BY <1>1 DEF Accounted, InLoop
<1>7. RetcodeIsOverall'
  BY <1>1, <1>4, <1>5, <1>6 DEF Decided, RetcodeIsOverall
<1>8. SkippedAsDocumented'
  BY <1>1, <1>4, <1>5 DEF Decided, SkippedAsDocumented, MeetExecConditions
<1>9. QED
  BY <1>2, <1>3, <1>7, <1>8

LEMMA ControlDecided ==
  ASSUME IInv, Decided,
         \/ SkipContext \/ NoMoreContexts \/ SigChld \/ SigChldIdle \/ ReapNone
         \/ \E p \in Pids : Reap(p)
  PROVE  Decided'
<1>1. /\ pc # "loop" /\ pc' # "loop"
      /\ UNCHANGED <<pipeline, action_iter, retcode, pid, done, ran, code>>
  BY DEF SkipContext, NoMoreContexts, SigChld, SigChldIdle, ReapNone, Reap,
     CheckDone, ctxvars, jobvars, history
<1>2. /\ InOrder' /\ LoopIsDecided' /\ NotBegun' /\ RetcodeIsOverall'
      /\ SkippedAsDocumented'
  BY <1>1, Unmoved
<1>3. Stages' = Stages /\ \A c \in Stages : Actions(c)' = Actions(c)
  BY <1>1 DEF Stages, Actions
<1>4. KeepsEnds' /\ IdleIsDone'
  <2>1. CASE NoMoreContexts \/ ReapNone
    <3>1. \/ KexecDone /\ result' = KexecRetcode /\ pc' = "idle"
          \/ pc' # "idle" /\ pc # "idle" /\ UNCHANGED <<fdin, fdout>>
      BY <2>1 DEF NoMoreContexts, ReapNone, CheckDone
    <3>2. KexecDone' = KexecDone /\ KexecRetcode' = KexecRetcode
      BY <1>1, <1>3 DEF KexecDone, KexecRetcode
    <3>3. QED
      BY <1>1, <1>3, <3>1, <3>2 DEF KeepsEnds, IdleIsDone, Decided
  <2>2. CASE SigChldIdle
    <3>1. UNCHANGED <<pc, result, fdin, fdout>>
      BY <2>2 DEF SigChldIdle, ctxvars
    <3>2. KexecDone' = KexecDone /\ KexecRetcode' = KexecRetcode
      BY <1>1, <1>3 DEF KexecDone, KexecRetcode
    <3>3. QED
      BY <1>1, <1>3, <3>1, <3>2 DEF KeepsEnds, IdleIsDone, Decided
  <2>3. CASE SkipContext \/ SigChld \/ \E p \in Pids : Reap(p)
    <3>1. pc # "idle" /\ pc' # "idle" /\ UNCHANGED <<fdin, fdout>>
      BY <2>3 DEF SkipContext, SigChld, Reap, ctxvars
    <3>2. QED
      BY <1>1, <1>3, <3>1 DEF KeepsEnds, IdleIsDone, Decided
  <2>4. QED
    BY <2>1, <2>2, <2>3
<1>5. \A p \in Pids : proc'[p] = proc[p] \/ proc'[p].state = "free"
  <2>1. \/ UNCHANGED proc
        \/ proc' = [q \in Pids |-> IF proc[q].state = "zombie" THEN Free ELSE proc[q]]
        \/ \E p \in Pids : proc' = [proc EXCEPT ![p] = Free]
    BY DEF SkipContext, NoMoreContexts, SigChld, SigChldIdle, ReapNone, Reap
  <2>2. proc \in [Pids -> ProcType] /\ Free.state = "free"
    BY DEF IInv, TypeOK, Free
  <2>3. QED
    BY <2>1, <2>2
<1>6. ProcessIsAction'
  <2>1. /\ \A c : Actions(c)' = Actions(c)
        /\ \A c, i, v : OverWith(c, i, v)' = OverWith(c, i, v)
    BY <1>1 DEF Actions, OverWith
  <2>2. QED
    BY <1>1, <1>5, <2>1 DEF Decided, ProcessIsAction, WExitStatus
<1>7. ReapedIsAction'
  <2>1. CASE \E p \in Pids : Reap(p)
    <3>1. PICK p \in Pids : Reap(p)
      BY <2>1
    <3>2. /\ pc = "reap" /\ proc[p].state = "zombie" /\ wpid' = p
          /\ exitstatus' = WExitStatus(proc[p])
      BY <3>1 DEF Reap
    <3> SUFFICES ASSUME NEW c \in Stages, ~done[c], pid[c] = p
                 PROVE  action_iter[c] # 0 /\ OverWith(c, action_iter[c], exitstatus')
      BY <1>1, <1>3, <3>2 DEF ReapedIsAction, OverWith
    <3>3. HasProcess(c)
      BY <3>2 DEF IInv, Attended, Pending
    <3>4. proc[p].stage = c /\ proc[p].act = action_iter[c]
      BY <3>2, <3>3 DEF HasProcess, IInv, ChildHasOwner
    <3>5. action_iter[c] \in DOMAIN Actions(c)
      BY <3>2, <3>4 DEF IInv, ActsAreActions
    <3>6. action_iter[c] # 0
      BY <3>5, StagesAre DEF IInv
    <3>7. OverWith(c, action_iter[c], exitstatus')
      BY <3>2, <3>4 DEF Decided, ProcessIsAction
    <3>8. QED
      BY <3>6, <3>7
  <2>2. CASE SkipContext
    <3>1. UNCHANGED <<pc, wpid, exitstatus>>
      BY <2>2 DEF SkipContext
    <3>2. QED
      BY <1>1, <1>3, <3>1 DEF Decided, ReapedIsAction, OverWith
  <2>3. CASE NoMoreContexts \/ SigChld \/ SigChldIdle \/ ReapNone
    <3>1. pc' # "each"
      BY <2>3 DEF NoMoreContexts, SigChld, SigChldIdle, ReapNone, CheckDone
    <3>2. QED
      BY <3>1 DEF ReapedIsAction
  <2>4. QED
    BY <2>1, <2>2, <2>3
<1>8. QED
  BY <1>2, <1>4, <1>6, <1>7 DEF Decided

(* exec_action_sequence() begins with the exit status of the ACTION whose  *)
(* process it was called for.                                              *)
LEMMA EnterContextDecided ==
  ASSUME IInv, Decided, EnterContext
  PROVE  Decided'
<1>1. /\ pc = "each" /\ pc' = "loop" /\ each \in Stages /\ ~done[each]
      /\ pid[each] = wpid /\ each' = each
      /\ UNCHANGED <<pipeline, action_iter, pid, done, fdin, fdout, ran, code, proc>>
  BY DEF EnterContext, NotMine, jobvars, history
<1>2. Stages' = Stages /\ \A c : Actions(c)' = Actions(c)
  BY <1>1 DEF Stages, Actions
<1>3. KeepsEnds' /\ InOrder' /\ IdleIsDone' /\ ReapedIsAction'
  BY <1>1, <1>2 DEF Decided, KeepsEnds, InOrder, IdleIsDone, ReapedIsAction
<1>4. ProcessIsAction'
  <2>1. \A c, i, v : OverWith(c, i, v)' = OverWith(c, i, v)
    BY <1>1, <1>2 DEF OverWith
  <2>2. QED
    BY <1>1, <1>2, <2>1 DEF Decided, ProcessIsAction, WExitStatus
<1>5. action_iter[each] # 0 =>
        OverWith(each, action_iter[each], exitstatus)
  BY <1>1 DEF Decided, NotBegun, InLoop, ReapedIsAction
<1>6. LoopIsDecided'
  BY <1>1, <1>5 DEF LoopIsDecided, OverWith
<1>7. NotBegun'
  BY <1>1, <1>2 DEF Decided, NotBegun, InLoop
<1>8. /\ \A c \in Stages : GrabberFailed(c)' = GrabberFailed(c)
      /\ \A c \in Stages : \A n : Overall(c, n)' = Overall(c, n)
  BY <1>1, <1>2, OverallIs DEF GrabberFailed
<1>9. SkippedAsDocumented'
  BY <1>1, <1>2, <1>8 DEF Decided, SkippedAsDocumented, MeetExecConditions
<1>10. RetcodeIsOverall'
  <2> SUFFICES ASSUME NEW c \in Stages, ~GrabberFailed(c)
               PROVE  (retcode[c] = Overall(c, Accounted(c)))'
    BY <1>2, <1>8 DEF RetcodeIsOverall
  <2>1. retcode[c] = Overall(c, Accounted(c))
    BY DEF Decided, RetcodeIsOverall
  <2>2. /\ action_iter[c] \in 0 .. Len(Actions(c)) /\ Len(Actions(c)) \in Nat
        /\ DOMAIN Actions(c) = 1 .. Len(Actions(c)) /\ c \in DOMAIN retcode
    BY StagesAre DEF IInv, TypeOK
  <2>3. CASE c # each
    <3>1. Accounted(c)' = Accounted(c)
      BY <1>1, <1>2, <2>3 DEF Accounted, InLoop
    <3>2. retcode'[c] = retcode[c]
      BY <2>2, <2>3 DEF EnterContext
    <3>3. QED
      BY <2>1, <3>1, <3>2, <1>8
  <2>4. CASE c = each
    <3> DEFINE i == action_iter[c]
    <3>1. Accounted(c)' = i
      BY <1>1, <1>2, <2>4 DEF Accounted, InLoop
    <3>2. CASE i = 0 \/ Actions(c)[i].sync
      <4>1. Accounted(c) = i
        BY <1>1, <2>4, <3>2 DEF Accounted
      <4>2. retcode'[c] = retcode[c]
        BY <2>4, <3>2 DEF EnterContext
      <4>3. QED
        BY <2>1, <3>1, <4>1, <4>2, <1>8
    <3>3. CASE i # 0 /\ ~Actions(c)[i].sync
      <4>1. i \in DOMAIN Actions(c) /\ i \in 1 .. Len(Actions(c)) /\ i > 0
        BY <2>2, <3>3
      <4>2. Accounted(c) = i - 1
        BY <1>1, <2>4, <3>3 DEF Accounted, InLoop
      <4>3. ran[c][i] \in {"over", "killed"} /\ code[c][i] = exitstatus
        BY <1>5, <2>4, <3>3 DEF OverWith
      <4>4. retcode'[c] = IF Actions(c)[i].update_retcode
                          THEN exitstatus ELSE retcode[c]
        BY <2>2, <2>4, <3>3, <4>1 DEF EnterContext
      <4>5. Overall(c, i) = IF Actions(c)[i].update_retcode
                            THEN code[c][i] ELSE Overall(c, i - 1)
        <5>1. OverallOf(Actions(c), ran[c], code[c], i) =
                IF ran[c][i] \in {"dry", "over", "killed"}
                   /\ Actions(c)[i].update_retcode
                THEN code[c][i] ELSE OverallOf(Actions(c), ran[c], code[c], i - 1)
          BY <2>2, <4>1, OverallNext
        <5>2. QED
          BY <5>1, <4>3, OverallIs
      <4>6. QED
        BY <2>1, <3>1, <4>2, <4>3, <4>4, <4>5, <1>8
    <3>4. QED
      BY <3>2, <3>3
  <2>5. QED
    BY <2>3, <2>4
<1>11. QED
  BY <1>3, <1>4, <1>6, <1>7, <1>9, <1>10 DEF Decided

(* A stage that has no further ACTION is done.                             *)
LEMMA SequenceEndDecided ==
  ASSUME IInv, Decided, SequenceEnd
  PROVE  Decided'
<1>1. /\ pc = "loop" /\ each \in Stages /\ ~done[each]
      /\ pc' # "loop" /\ pc' # "idle" /\ (pc' = "each" => wpid' = NoPid)
      /\ done' = [done EXCEPT ![each] = TRUE]
      /\ action_iter' = [action_iter EXCEPT ![each] = 0]
      /\ fdin' = [fdin EXCEPT ![each] = FALSE]
      /\ fdout' = [fdout EXCEPT ![each] = FALSE]
      /\ UNCHANGED <<pipeline, retcode, pid, ran, code, proc>>
  BY DEF SequenceEnd, NextContext, jobvars, history, IInv, TypeOK, LoopOwnsNothing
<1>2. Stages' = Stages /\ \A c : Actions(c)' = Actions(c)
  BY <1>1 DEF Stages, Actions
<1>3. /\ done'[each] = TRUE
      /\ \A c \in Stages : c # each =>
           /\ done'[c] = done[c] /\ action_iter'[c] = action_iter[c]
           /\ fdin'[c] = fdin[c] /\ fdout'[c] = fdout[c]
  BY <1>1 DEF IInv, TypeOK
<1>4. /\ action_iter[each] = Len(Actions(each))
      /\ DOMAIN Actions(each) = 1 .. Len(Actions(each))
      /\ Len(Actions(each)) \in Nat
  <2>1. NextAct \notin DOMAIN Actions(each)
    BY DEF SequenceEnd, HasNext
  <2>2. /\ DOMAIN Actions(each) = 1 .. Len(Actions(each))
        /\ Len(Actions(each)) \in Nat
        /\ action_iter[each] \in 0 .. Len(Actions(each))
    BY <1>1, StagesAre DEF IInv
  <2>3. QED
    BY <2>1, <2>2 DEF NextAct
<1>5. KeepsEnds'
  BY <1>1, <1>2, <1>3 DEF Decided, KeepsEnds
<1>6. InOrder'
  <2> SUFFICES ASSUME NEW c \in Stages, NEW i \in DOMAIN Actions(c)
               PROVE  /\ done'[c] => ran[c][i] \notin {"todo", "running"}
                      /\ ~done'[c] /\ i < action_iter'[c]
                           => ran[c][i] \notin {"todo", "running"}
                      /\ ~done'[c] /\ i = action_iter'[c] => ran[c][i] # "todo"
                      /\ ~done'[c] /\ i > action_iter'[c] => ran[c][i] = "todo"
    BY <1>1, <1>2 DEF InOrder
  <2>1. CASE c # each
    BY <2>1, <1>3 DEF Decided, InOrder
  <2>2. CASE c = each
    <3>1. i < action_iter[each] \/ i = action_iter[each]
      BY <2>2, <1>4
    <3>2. i < action_iter[each] => ran[each][i] \notin {"todo", "running"}
      BY <2>2, <1>1 DEF Decided, InOrder
    <3>3. i = action_iter[each] => ran[each][i] # "todo"
      BY <2>2, <1>1 DEF Decided, InOrder
    <3>4. i = action_iter[each] => ran[each][i] # "running"
      <4>1. i # 0
        BY <2>2, <1>4
      <4>2. QED
        BY <1>1, <4>1 DEF Decided, LoopIsDecided
    <3>5. QED
      BY <2>2, <1>3, <3>1, <3>2, <3>3, <3>4
  <2>3. QED
    BY <2>1, <2>2
<1>7. ProcessIsAction'
  <2>1. \A c, i, v : OverWith(c, i, v)' = OverWith(c, i, v)
    BY <1>1, <1>2 DEF OverWith
  <2>2. QED
    BY <1>1, <1>2, <2>1 DEF Decided, ProcessIsAction, WExitStatus
<1>8. ReapedIsAction' /\ LoopIsDecided' /\ IdleIsDone'
  BY <1>1 DEF ReapedIsAction, LoopIsDecided, IdleIsDone
<1>9. NotBegun'
  BY <1>1, <1>2, <1>3 DEF Decided, NotBegun, InLoop
<1>10. /\ \A c \in Stages : GrabberFailed(c)' = GrabberFailed(c)
       /\ \A c \in Stages : \A n : Overall(c, n)' = Overall(c, n)
  BY <1>1, <1>2, OverallIs DEF GrabberFailed
<1>11. SkippedAsDocumented'
  BY <1>1, <1>2, <1>10 DEF Decided, SkippedAsDocumented, MeetExecConditions
<1>12. \A c \in Stages : Accounted(c)' = Accounted(c)
  <2>1. ASSUME NEW c \in Stages, c = each PROVE Accounted(c)' = Accounted(c)
    <3>1. Accounted(c)' = Len(Actions(c))
      BY <2>1, <1>2, <1>3 DEF Accounted
    <3>2. Accounted(c) = action_iter[c]
      BY <2>1, <1>1 DEF Accounted, InLoop
    <3>3. QED
      BY <3>1, <3>2, <2>1, <1>4
  <2>3. ASSUME NEW c \in Stages, c # each PROVE Accounted(c)' = Accounted(c)
    BY <2>3, <1>1, <1>2, <1>3 DEF Accounted, InLoop
  <2>4. QED
    BY <2>1, <2>3
<1>13. RetcodeIsOverall'
  BY <1>1, <1>2, <1>10, <1>12 DEF Decided, RetcodeIsOverall
<1>14. QED
  BY <1>5, <1>6, <1>7, <1>8, <1>9, <1>11, <1>13 DEF Decided

(* Taking the next ACTION of stage b in the loop gives it its first entry. *)
LEMMA TakesNext ==
  ASSUME IInv, TypeOK', Decided, pc = "loop", HasNext, NEW b, b = each,
         NEW n, n = NextAct, NEW what, NEW value, what # "todo",
         Advance, Record(what, value), UNCHANGED <<pipeline, done>>
  PROVE  /\ b \in Stages /\ ~done[b]
         /\ n \in DOMAIN Actions(b) /\ n = action_iter[b] + 1 /\ n \in Nat
         /\ Stages' = Stages /\ \A c : Actions(c)' = Actions(c)
         /\ action_iter'[b] = n
         /\ \A c \in Stages : c # b => action_iter'[c] = action_iter[c]
         /\ Entry(b, n, what, value) /\ Counted(b, n, what, value)
         /\ InOrder'
         /\ GrabberFailed(b) \/ retcode[b] = Overall(b, n - 1)
<1>1. b \in Stages /\ ~done[b] /\ n \in DOMAIN Actions(b)
  BY LoopTyped DEF IInv, LoopOwnsNothing
<1>2. /\ n = action_iter[b] + 1 /\ n \in Nat /\ action_iter[b] \in Nat
      /\ DOMAIN Actions(b) \subseteq Nat \ {0}
  BY <1>1, StagesAre DEF NextAct, IInv
<1>3. Stages' = Stages /\ \A c : Actions(c)' = Actions(c)
  BY DEF Stages, Actions
<1>4. /\ action_iter'[b] = n
      /\ \A c \in Stages : c # b => action_iter'[c] = action_iter[c]
  BY <1>1 DEF Advance, IInv, TypeOK
<1>5. ran[b][n] = "todo"
  BY <1>1, <1>2 DEF Decided, InOrder
<1>6. /\ ran' = [ran EXCEPT ![b][n] = what]
      /\ code' = [code EXCEPT ![b][n] = value]
  BY DEF Record
<1>7. Entry(b, n, what, value)
  <2>1. /\ n \in DOMAIN ran[b] /\ n \in DOMAIN code[b]
        /\ b \in DOMAIN ran /\ b \in DOMAIN code
    BY <1>1, StagesAre DEF IInv, TypeOK
  <2>2. ran'[b][n] = what /\ code'[b][n] = value
    BY <1>6, <2>1
  <2>3. \A c \in Stages : \A i \in DOMAIN Actions(c) : c # b \/ i # n =>
          ran'[c][i] = ran[c][i] /\ code'[c][i] = code[c][i]
    <3> SUFFICES ASSUME NEW c \in Stages, NEW i \in DOMAIN Actions(c), c # b \/ i # n
                 PROVE  ran'[c][i] = ran[c][i] /\ code'[c][i] = code[c][i]
      OBVIOUS
    <3>1. DOMAIN ran = Stages /\ DOMAIN code = Stages
      BY DEF IInv, TypeOK
    <3>2. i \in DOMAIN ran[c] /\ i \in DOMAIN code[c]
      BY StagesAre DEF IInv
    <3>3. ran'[c] = IF c = b THEN [ran[b] EXCEPT ![n] = what] ELSE ran[c]
      BY <1>6, <2>1, <3>1
    <3>4. code'[c] = IF c = b THEN [code[b] EXCEPT ![n] = value] ELSE code[c]
      BY <1>6, <2>1, <3>1
    <3> QED
      BY <3>2, <3>3, <3>4
  <2>4. QED
    BY <2>2, <2>3 DEF Entry
<1>e. /\ ran'[b][n] = what
      /\ \A c \in Stages : \A i \in DOMAIN Actions(c) : c # b \/ i # n =>
           ran'[c][i] = ran[c][i]
  BY <1>7 DEF Entry
<1>c. Counted(b, n, what, value)
  BY <1>1, <1>5, <1>7, NewEntry DEF IInv
<1>8. InOrder'
  <2> SUFFICES ASSUME NEW c \in Stages, NEW i \in DOMAIN Actions(c)
               PROVE  /\ done[c] => ran'[c][i] \notin {"todo", "running"}
                      /\ ~done[c] /\ i < action_iter'[c]
                           => ran'[c][i] \notin {"todo", "running"}
                      /\ ~done[c] /\ i = action_iter'[c] => ran'[c][i] # "todo"
                      /\ ~done[c] /\ i > action_iter'[c] => ran'[c][i] = "todo"
    BY <1>3 DEF InOrder
  <2>1. CASE c # b
    BY <2>1, <1>4, <1>e DEF Decided, InOrder
  <2>2. CASE c = b
    <3>1. i \in Nat /\ i # 0
      BY <2>2, <1>2
    <3>2. CASE i < n
      <4>1. i < action_iter[b] \/ i = action_iter[b]
        BY <3>1, <3>2, <1>2
      <4>2. i < action_iter[b] => ran[b][i] \notin {"todo", "running"}
        BY <2>2, <1>1 DEF Decided, InOrder
      <4>3. i = action_iter[b] => ran[b][i] # "todo"
        BY <2>2, <1>1 DEF Decided, InOrder
      <4>4. i = action_iter[b] => ran[b][i] # "running"
        BY <3>1 DEF Decided, LoopIsDecided
      <4>5. ran'[b][i] = ran[b][i]
        BY <2>2, <3>1, <3>2, <1>1, <1>2, <1>e
      <4>6. QED
        BY <2>2, <3>1, <3>2, <4>1, <4>2, <4>3, <4>4, <4>5, <1>1, <1>2, <1>4
    <3>3. CASE i = n
      BY <2>2, <3>1, <3>3, <1>1, <1>2, <1>4, <1>e
    <3>4. CASE i > n
      <4>1. i > action_iter[b] /\ i # n
        BY <3>1, <3>4, <1>2
      <4>2. ran[b][i] = "todo"
        BY <2>2, <4>1, <1>1 DEF Decided, InOrder
      <4>3. ran'[b][i] = "todo"
        BY <2>2, <4>1, <4>2, <1>1, <1>e
      <4>4. QED
        BY <2>2, <3>1, <3>4, <4>3, <1>1, <1>2, <1>4
    <3>5. QED
      BY <3>1, <3>2, <3>3, <3>4, <1>2
  <2>3. QED
    BY <2>1, <2>2
<1>9. GrabberFailed(b) \/ retcode[b] = Overall(b, n - 1)
  <2>1. Accounted(b) = action_iter[b] /\ n - 1 = action_iter[b]
    BY <1>1, <1>2 DEF Accounted, InLoop
  <2>2. QED
    BY <2>1, <1>1 DEF Decided, RetcodeIsOverall
<1>10. QED
  BY <1>1, <1>2, <1>3, <1>4, <1>7, <1>c, <1>8, <1>9

(* If it is skipped when its condition is not met, and only then, what is  *)
(* documented stays true.                                                  *)
LEMMA SkipsNext ==
  ASSUME IInv, TypeOK', Decided, pc = "loop", HasNext,
         NEW what, NEW value, what # "todo",
         Advance, Record(what, value), UNCHANGED <<pipeline, done>>,
         what = "skipped" <=> ~MeetExecConditions(NextAction, retcode[each])
  PROVE  SkippedAsDocumented'
<1> PICK b : b = each
  OBVIOUS
<1> PICK n : n = NextAct
  OBVIOUS
<1>1. /\ b \in Stages /\ n \in DOMAIN Actions(b) /\ n \in Nat
      /\ n = action_iter[b] + 1 /\ ~done[b]
      /\ Stages' = Stages /\ \A c : Actions(c)' = Actions(c)
  BY TakesNext
<1>2. /\ ran'[b][n] = what /\ action_iter'[b] = n
      /\ \A c \in Stages : \A i \in DOMAIN Actions(c) : c # b \/ i # n =>
           ran'[c][i] = ran[c][i] /\ code'[c][i] = code[c][i]
  BY TakesNext DEF Entry, Counted
<1>3. /\ \A c \in Stages : GrabberFailed(c) => GrabberFailed(c)'
      /\ \A c \in Stages : c # b => \A m : Overall(c, m)' = Overall(c, m)
      /\ \A m \in Int : m < n => Overall(b, m)' = Overall(b, m)
  BY TakesNext DEF Entry, Counted
<1>4. /\ InOrder'
      /\ GrabberFailed(b) \/ retcode[b] = Overall(b, n - 1)
  BY TakesNext
<1> SUFFICES ASSUME NEW c \in Stages, NEW i \in DOMAIN Actions(c),
                    ran'[c][i] # "todo", ~GrabberFailed(c)'
             PROVE  ran'[c][i] = "skipped" <=>
                      ~MeetExecConditions(Actions(c)[i], Overall(c, i - 1)')
  BY <1>1 DEF SkippedAsDocumented, MeetExecConditions
<1>5. ~GrabberFailed(c)
  BY <1>3
<1>6. CASE c # b
  <2>1. ran'[c][i] = ran[c][i] /\ Overall(c, i - 1)' = Overall(c, i - 1)
    BY <1>2, <1>3, <1>6
  <2>2. QED
    BY <2>1, <1>5 DEF Decided, SkippedAsDocumented
<1>7. CASE c = b /\ i # n
  <2>1. i \in Nat
    BY StagesAre DEF IInv
  <2>2. i < n
    BY <1>1, <1>2, <1>4, <1>7, <2>1 DEF InOrder
  <2>3. ran'[c][i] = ran[c][i] /\ Overall(c, i - 1)' = Overall(c, i - 1)
    <3>1. i - 1 \in Int /\ i - 1 < n
      BY <2>1, <2>2, <1>1
    <3>2. QED
      BY <3>1, <1>2, <1>3, <1>7
  <2>4. QED
    BY <2>3, <1>5 DEF Decided, SkippedAsDocumented
<1>8. CASE c = b /\ i = n
  <2>1. NextAction = Actions(c)[i]
    BY <1>8 DEF NextAction
  <2>2. retcode[c] = Overall(c, i - 1)
    BY <1>4, <1>5, <1>8
  <2>3. Overall(c, i - 1)' = Overall(c, i - 1)
    <3>1. i - 1 \in Int /\ i - 1 < n
      BY <1>8, <1>1
    <3>2. QED
      BY <3>1, <1>3, <1>8
  <2>4. QED
    BY <1>2, <1>8, <2>1, <2>2, <2>3
<1>9. QED
  BY <1>6, <1>7, <1>8

(* Deciding the next ACTION without forking: the loop goes on.             *)
LEMMA StaysInLoop ==
  ASSUME IInv, TypeOK', Decided, pc = "loop", HasNext,
         NEW what, NEW value, what \notin {"todo", "running"},
         Advance, Record(what, value),
         UNCHANGED <<pipeline, pid, done, fdin, fdout, proc, pc, each>>,
         what = "skipped" <=> ~MeetExecConditions(NextAction, retcode[each]),
         NEW b, b = each,
         GrabberFailed(b)' \/
           retcode'[b] = IF /\ what \in {"dry", "over", "killed"}
                            /\ NextAction.update_retcode
                         THEN value ELSE retcode[b],
         \A c \in Stages : c # b => retcode'[c] = retcode[c]
  PROVE  Decided'
<1> PICK n : n = NextAct
  OBVIOUS
<1>1. /\ b \in Stages /\ n \in DOMAIN Actions(b) /\ n \in Nat
      /\ n = action_iter[b] + 1 /\ ~done[b]
      /\ Stages' = Stages /\ \A c : Actions(c)' = Actions(c)
  BY TakesNext
<1>2. /\ action_iter'[b] = n
      /\ \A c \in Stages : c # b => action_iter'[c] = action_iter[c]
  BY TakesNext
<1>3. /\ Entry(b, n, what, value) /\ Counted(b, n, what, value) /\ InOrder'
      /\ GrabberFailed(b) \/ retcode[b] = Overall(b, n - 1)
  BY TakesNext
<1>4. SkippedAsDocumented'
  BY SkipsNext
<1>5. KeepsEnds' /\ IdleIsDone' /\ ReapedIsAction'
  BY <1>1 DEF Decided, KeepsEnds, IdleIsDone, ReapedIsAction
<1>6. ProcessIsAction'
  <2> SUFFICES ASSUME NEW p \in Pids, proc[p].state # "free",
                      NEW c, c = proc[p].stage, NEW i, i = proc[p].act
               PROVE  IF proc[p].state = "running" /\ ~Actions(c)[i].sync
                      THEN ran'[c][i] = "running"
                      ELSE OverWith(c, i, WExitStatus(proc[p]))'
    BY <1>1 DEF ProcessIsAction
  <2>1. c \in Stages /\ c # b /\ i \in DOMAIN Actions(c)
    BY DEF IInv, ChildHasOwner, ActsAreActions, LoopOwnsNothing
  <2>2. ran'[c][i] = ran[c][i] /\ code'[c][i] = code[c][i]
    BY <2>1, <1>3 DEF Entry
  <2>3. QED
    BY <2>1, <2>2, <1>1 DEF Decided, ProcessIsAction, OverWith, WExitStatus
<1>7. LoopIsDecided'
  BY <1>2, <1>3 DEF LoopIsDecided, Entry
<1>8. NotBegun'
  BY <1>1, <1>2 DEF Decided, NotBegun, InLoop
<1>9. RetcodeIsOverall'
  <2> SUFFICES ASSUME NEW c \in Stages, ~GrabberFailed(c)'
               PROVE  (retcode[c] = Overall(c, Accounted(c)))'
    BY <1>1 DEF RetcodeIsOverall
  <2>1. ~GrabberFailed(c)
    BY <1>3 DEF Counted
  <2>2. CASE c # b
    <3>1. Accounted(c)' = Accounted(c)
      BY <1>1, <1>2, <2>2 DEF Accounted, InLoop
    <3>2. retcode'[c] = retcode[c]
      BY <2>2
    <3>3. \A m : Overall(c, m)' = Overall(c, m)
      BY <1>3, <2>2 DEF Counted
    <3>4. retcode[c] = Overall(c, Accounted(c))
      BY <2>1 DEF Decided, RetcodeIsOverall
    <3>5. QED
      BY <3>1, <3>2, <3>3, <3>4
  <2>3. CASE c = b
    <3>1. Accounted(c)' = n
      BY <1>1, <1>2, <2>3 DEF Accounted, InLoop
    <3>2. Overall(c, n)' = IF /\ what \in {"dry", "over", "killed"}
                              /\ Actions(c)[n].update_retcode
                           THEN value ELSE Overall(c, n - 1)
      BY <1>3, <2>3 DEF Counted
    <3>3. retcode[c] = Overall(c, n - 1)
      BY <1>3, <2>1, <2>3
    <3>4. NextAction = Actions(c)[n]
      BY <2>3 DEF NextAction
    <3>5. retcode'[c] = IF /\ what \in {"dry", "over", "killed"}
                           /\ Actions(c)[n].update_retcode
                        THEN value ELSE retcode[c]
      BY <2>3, <3>4
    <3>6. QED
      BY <3>1, <3>2, <3>3, <3>5
  <2>4. QED
    BY <2>2, <2>3
<1>10. QED
  BY <1>3, <1>4, <1>5, <1>6, <1>7, <1>8, <1>9 DEF Decided

LEMMA DecideDecided ==
  ASSUME IInv, TypeOK', Decided,
         \/ SkipAction \/ DryRunAction \/ ForkFails
         \/ \E v \in Codes : SilentAction(v)
  PROVE  Decided'
<1> PICK b : b = each
  OBVIOUS
<1>1. /\ pc = "loop" /\ HasNext /\ Advance
      /\ UNCHANGED <<pipeline, pid, done, fdin, fdout, proc, pc, each>>
  BY DEF SkipAction, DryRunAction, ForkFails, SilentAction, Selected, jobvars
<1>2. \A v : SetRetcode(v) =>
        /\ retcode'[b] = IF NextAction.update_retcode THEN v ELSE retcode[b]
        /\ \A c \in Stages : c # b => retcode'[c] = retcode[c]
  <2>1. b \in Stages /\ DOMAIN retcode = Stages
    BY <1>1 DEF IInv, TypeOK
  <2>2. QED
    BY <2>1 DEF SetRetcode
<1>3. CASE SkipAction
  <2>1. /\ Record("skipped", 0) /\ retcode' = retcode
        /\ ~MeetExecConditions(NextAction, retcode[each])
    BY <1>3 DEF SkipAction
  <2>2. QED
    BY <1>1, <2>1, StaysInLoop
<1>4. CASE DryRunAction
  <2>1. /\ Record("dry", 0) /\ SetRetcode(0)
        /\ MeetExecConditions(NextAction, retcode[each])
    BY <1>4 DEF DryRunAction, Selected
  <2>2. QED
    BY <1>1, <1>2, <2>1, StaysInLoop
<1>5. ASSUME NEW v \in Codes, SilentAction(v) PROVE Decided'
  <2>1. /\ Record("over", v) /\ SetRetcode(v)
        /\ MeetExecConditions(NextAction, retcode[each])
    BY <1>5 DEF SilentAction, Selected
  <2>2. QED
    BY <1>1, <1>2, <2>1, StaysInLoop
<1>6. CASE ForkFails
  <2>1. /\ Record("nofork", 0) /\ MeetExecConditions(NextAction, retcode[each])
        /\ IF NextAction.sync THEN SetRetcode(exitstatus) ELSE UNCHANGED retcode
    BY <1>6 DEF ForkFails, Selected
  <2>2. CASE NextAction.sync
    <3> PICK n : n = NextAct
      OBVIOUS
    <3>1. /\ b \in Stages /\ n \in DOMAIN Actions(b) /\ Entry(b, n, "nofork", 0)
          /\ Actions(b)' = Actions(b)
      BY <1>1, <2>1, TakesNext
    <3>2. NextAction = Actions(b)[n]
      BY DEF NextAction
    <3>3. ran'[b][n] = "nofork" /\ Actions(b)[n].sync
      BY <2>2, <3>1, <3>2 DEF Entry
    <3>4. GrabberFailed(b)'
      BY <3>1, <3>3 DEF GrabberFailed
    <3>5. \A c \in Stages : c # b => retcode'[c] = retcode[c]
      BY <1>2, <2>1, <2>2
    <3>6. QED
      BY <1>1, <2>1, <3>4, <3>5, StaysInLoop
  <2>3. CASE ~NextAction.sync
    BY <1>1, <2>1, <2>3, StaysInLoop
  <2>4. QED
    BY <2>2, <2>3
<1>7. QED
  BY <1>3, <1>4, <1>5, <1>6

(* Deciding the next ACTION with a fork: the new process is the ACTION's,  *)
(* and the server leaves the stage until the process is reaped.            *)
LEMMA ForkDecided ==
  ASSUME IInv, TypeOK', Decided, pc = "loop", HasNext,
         NEW p \in Pids, NEW what, NEW value,
         Fork(p), NextContext, Advance, Record(what, value),
         UNCHANGED <<pipeline, done, fdin, fdout, wpid>>,
         MeetExecConditions(NextAction, retcode[each]),
         \/ NextAction.sync /\ what = "over" /\ SetRetcode(value)
         \/ ~NextAction.sync /\ what = "running" /\ UNCHANGED retcode
  PROVE  Decided'
<1> PICK b : b = each
  OBVIOUS
<1> PICK n : n = NextAct
  OBVIOUS
<1>w. what # "todo" /\ what # "skipped"
  OBVIOUS
<1>1. /\ b \in Stages /\ n \in DOMAIN Actions(b) /\ n \in Nat
      /\ n = action_iter[b] + 1 /\ ~done[b]
      /\ Stages' = Stages /\ \A c : Actions(c)' = Actions(c)
  BY <1>w, TakesNext
<1>2. /\ action_iter'[b] = n
      /\ \A c \in Stages : c # b => action_iter'[c] = action_iter[c]
  BY <1>w, TakesNext
<1>3. /\ Entry(b, n, what, value) /\ Counted(b, n, what, value) /\ InOrder'
      /\ GrabberFailed(b) \/ retcode[b] = Overall(b, n - 1)
  BY <1>w, TakesNext
<1>4. /\ pc' # "loop" /\ pc' # "idle" /\ pc # "idle" /\ (pc' = "each" => wpid' = NoPid)
      /\ NextAction = Actions(b)[n]
  BY DEF NextContext, NextAction
<1>5. /\ proc'[p].state = "running" /\ proc'[p].stage = b /\ proc'[p].act = n
      /\ \A q \in Pids : q # p => proc'[q] = proc[q]
      /\ pid'[b] = p /\ \A c \in Stages : c # b => pid'[c] = pid[c]
  BY <1>1 DEF Fork, Free, IInv, TypeOK
<1>6. KeepsEnds'
  BY <1>1, <1>4 DEF Decided, KeepsEnds
<1>7. SkippedAsDocumented'
  BY <1>w, SkipsNext
<1>8. IdleIsDone' /\ ReapedIsAction' /\ LoopIsDecided'
  BY <1>4 DEF IdleIsDone, ReapedIsAction, LoopIsDecided
<1>9. ProcessIsAction'
  <2> SUFFICES ASSUME NEW q \in Pids, proc'[q].state # "free",
                      NEW c, c = proc'[q].stage, NEW i, i = proc'[q].act
               PROVE  IF proc'[q].state = "running" /\ ~Actions(c)[i].sync
                      THEN ran'[c][i] = "running"
                      ELSE IF Actions(c)[i].sync THEN ran'[c][i] = "over"
                           ELSE /\ ran'[c][i] \in {"over", "killed"}
                                /\ code'[c][i] = WExitStatus(proc'[q])
    BY <1>1 DEF ProcessIsAction, OverWith, WExitStatus
  <2>1. CASE q = p
    BY <2>1, <1>3, <1>4, <1>5 DEF Entry
  <2>2. CASE q # p
    <3>1. proc'[q] = proc[q]
      BY <2>2, <1>5
    <3>2. c \in Stages /\ c # b /\ i \in DOMAIN Actions(c)
      BY <3>1 DEF IInv, ChildHasOwner, ActsAreActions, LoopOwnsNothing
    <3>3. ran'[c][i] = ran[c][i] /\ code'[c][i] = code[c][i]
      BY <3>2, <1>3 DEF Entry
    <3>4. QED
      BY <3>1, <3>3 DEF Decided, ProcessIsAction, OverWith
  <2>3. QED
    BY <2>1, <2>2
<1>10. NotBegun'
  <2>1. p # NoPid
    BY PidsAssumption DEF NoPid
  <2>2. QED
    BY <2>1, <1>1, <1>2, <1>4, <1>5 DEF Decided, NotBegun, InLoop
<1>11. RetcodeIsOverall'
  <2> SUFFICES ASSUME NEW c \in Stages, ~GrabberFailed(c)'
               PROVE  (retcode[c] = Overall(c, Accounted(c)))'
    BY <1>1 DEF RetcodeIsOverall
  <2>1. ~GrabberFailed(c)
    BY <1>3 DEF Counted
  <2>2. DOMAIN retcode = Stages
    BY DEF IInv, TypeOK
  <2>3. CASE c # b
    <3>1. Accounted(c)' = Accounted(c)
      BY <1>1, <1>2, <1>4, <2>3 DEF Accounted, InLoop
    <3>2. retcode'[c] = retcode[c]
      BY <2>2, <2>3 DEF SetRetcode
    <3>3. \A m : Overall(c, m)' = Overall(c, m)
      BY <1>3, <2>3 DEF Counted
    <3>4. retcode[c] = Overall(c, Accounted(c))
      BY <2>1 DEF Decided, RetcodeIsOverall
    <3>5. QED
      BY <3>1, <3>2, <3>3, <3>4
  <2>4. CASE c = b
    <3>1. retcode[c] = Overall(c, n - 1)
      BY <1>3, <2>1, <2>4
    <3>2. n # 0
      BY <1>1, StagesAre DEF IInv
    <3>3. CASE NextAction.sync
      <4>1. Accounted(c)' = n
        BY <1>1, <1>2, <1>4, <2>4, <3>3 DEF Accounted
      <4>2. Overall(c, n)' = IF Actions(c)[n].update_retcode
                             THEN value ELSE Overall(c, n - 1)
        BY <1>3, <2>4, <3>3 DEF Counted
      <4>3. retcode'[c] = IF Actions(c)[n].update_retcode THEN value ELSE retcode[c]
        BY <1>4, <2>2, <2>4, <3>3 DEF SetRetcode
      <4>4. QED
        BY <3>1, <4>1, <4>2, <4>3
    <3>4. CASE ~NextAction.sync
      <4>1. Accounted(c)' = n - 1
        BY <1>1, <1>2, <1>4, <2>4, <3>2, <3>4 DEF Accounted, InLoop
      <4>2. Overall(c, n - 1)' = Overall(c, n - 1)
        <5>1. n - 1 \in Int /\ n - 1 < n
          BY <1>1
        <5>2. QED
          BY <5>1, <1>3, <2>4 DEF Counted
      <4>3. QED
        BY <3>1, <3>4, <4>1, <4>2
    <3>5. QED
      BY <3>3, <3>4
  <2>5. QED
    BY <2>3, <2>4
<1>12. QED
  BY <1>3, <1>6, <1>7, <1>8, <1>9, <1>10, <1>11 DEF Decided

(* The end of a grabber tells nothing new of its ACTION.                   *)
LEMMA GrabberDiesDecided ==
  ASSUME IInv, Decided, NEW p \in Pids, Running(p), IsGrabber(p),
         NEW what, NEW value, NEW k, Die(p, what, value, k)
  PROVE  Decided'
<1>1. UNCHANGED <<ran, code, pipeline, dry_run, action_iter, retcode, pid, done,
                  fdin, fdout, pc, each, wpid, exitstatus, result>>
  BY DEF Die, ctxvars, jobvars, history
<1>2. Stages' = Stages /\ \A c : Actions(c)' = Actions(c)
  BY <1>1 DEF Stages, Actions
<1>3. \A q \in Pids : /\ proc'[q].stage = proc[q].stage /\ proc'[q].act = proc[q].act
                      /\ q # p => proc'[q] = proc[q]
                      /\ proc'[q].state = "free" <=> proc[q].state = "free"
  BY DEF Die, IInv, TypeOK, Running, ProcType
<1>4. \A c, i, v : OverWith(c, i, v)' = OverWith(c, i, v)
  BY <1>1, <1>2 DEF OverWith
<1>5. ProcessIsAction'
  <2> SUFFICES ASSUME NEW q \in Pids, proc'[q].state # "free",
                      NEW c, c = proc'[q].stage, NEW i, i = proc'[q].act
               PROVE  IF proc'[q].state = "running" /\ ~Actions(c)[i].sync
                      THEN ran'[c][i] = "running"
                      ELSE OverWith(c, i, WExitStatus(proc'[q]))
    BY <1>1, <1>2 DEF ProcessIsAction, OverWith, WExitStatus
  <2>1. CASE q = p
    <3>1. Actions(c)[i].sync
      BY <2>1, <1>3 DEF IsGrabber
    <3>2. OverWith(c, i, WExitStatus(proc[p]))
      BY <2>1, <3>1, <1>3 DEF Decided, ProcessIsAction, Running
    <3>3. QED
      BY <3>1, <3>2 DEF OverWith
  <2>2. CASE q # p
    BY <2>2, <1>1, <1>3 DEF Decided, ProcessIsAction
  <2>3. QED
    BY <2>1, <2>2
<1>6. KeepsEnds' /\ InOrder' /\ LoopIsDecided' /\ NotBegun'
  BY <1>1, <1>2 DEF Decided, KeepsEnds, InOrder, LoopIsDecided, NotBegun, InLoop
<1>7. ReapedIsAction'
  BY <1>1, <1>2, <1>4 DEF Decided, ReapedIsAction
<1>8. IdleIsDone'
  <2>1. KexecDone' = KexecDone /\ KexecRetcode' = KexecRetcode
    BY <1>1, <1>2 DEF KexecDone, KexecRetcode
  <2>2. QED
    BY <1>1, <2>1 DEF Decided, IdleIsDone
<1>9. /\ \A c \in Stages : GrabberFailed(c)' = GrabberFailed(c)
      /\ \A c \in Stages : \A n : Overall(c, n)' = Overall(c, n)
  BY <1>1, <1>2, OverallIs DEF GrabberFailed
<1>10. SkippedAsDocumented'
  BY <1>1, <1>2, <1>9 DEF Decided, SkippedAsDocumented, MeetExecConditions
<1>11. RetcodeIsOverall'
  <2>1. \A c \in Stages : Accounted(c)' = Accounted(c)
    BY <1>1, <1>2 DEF Accounted, InLoop
  <2>2. QED
    BY <1>1, <1>2, <1>9, <2>1 DEF Decided, RetcodeIsOverall
<1>12. QED
  BY <1>5, <1>6, <1>7, <1>8, <1>10, <1>11 DEF Decided

(* The end of an ACTION's process is recorded; its retcode is not changed  *)
(* before the process is reaped.                                           *)
LEMMA ActionDiesDecided ==
  ASSUME IInv, Decided, NEW p \in Pids, Running(p), ~IsGrabber(p),
         NEW what \in {"over", "killed"}, NEW value, NEW k \in BOOLEAN,
         k => value = 0,
         Die(p, what, value, k)
  PROVE  Decided'
<1> PICK b : b = proc[p].stage
  OBVIOUS
<1> PICK n : n = proc[p].act
  OBVIOUS
<1>1. UNCHANGED <<pipeline, action_iter, retcode, pid, done,
                  fdin, fdout, pc, each, wpid, exitstatus, result>>
  BY DEF Die, ctxvars, jobvars
<1>2. Stages' = Stages /\ \A c : Actions(c)' = Actions(c)
  BY <1>1 DEF Stages, Actions
<1>3. /\ b \in Stages /\ n \in DOMAIN Actions(b) /\ ~done[b] /\ pid[b] = p
      /\ action_iter[b] = n /\ pc # "idle" /\ ~InLoop(b)
  BY DEF IInv, ChildHasOwner, ActsAreActions, LoopOwnsNothing, Running, InLoop
<1>4. ~Actions(b)[n].sync /\ ran[b][n] = "running"
  BY DEF IsGrabber, Running, Decided, ProcessIsAction
<1>5. Entry(b, n, what, value)
  <2>1. /\ ran' = [ran EXCEPT ![b][n] = what]
        /\ code' = [code EXCEPT ![b][n] = value]
    BY DEF Die
  <2>2. /\ n \in DOMAIN ran[b] /\ n \in DOMAIN code[b]
        /\ b \in DOMAIN ran /\ b \in DOMAIN code
    BY <1>3, StagesAre DEF IInv, TypeOK
  <2>3. ran'[b][n] = what /\ code'[b][n] = value
    BY <2>1, <2>2
  <2>4. \A c \in Stages : \A i \in DOMAIN Actions(c) : c # b \/ i # n =>
          ran'[c][i] = ran[c][i] /\ code'[c][i] = code[c][i]
    BY <2>1, <2>2, StagesAre DEF IInv, TypeOK
  <2>5. QED
    BY <2>3, <2>4 DEF Entry
<1>6. Counted(b, n, what, value)
  BY <1>1, <1>3, <1>4, <1>5, NewEntry DEF IInv
<1>e. /\ ran'[b][n] = what /\ code'[b][n] = value
      /\ \A c \in Stages : \A i \in DOMAIN Actions(c) : c # b \/ i # n =>
           ran'[c][i] = ran[c][i] /\ code'[c][i] = code[c][i]
  BY <1>5 DEF Entry
<1>7. InOrder'
  <2> SUFFICES ASSUME NEW c \in Stages, NEW i \in DOMAIN Actions(c)
               PROVE  /\ done[c] => ran'[c][i] \notin {"todo", "running"}
                      /\ ~done[c] /\ i < action_iter[c]
                           => ran'[c][i] \notin {"todo", "running"}
                      /\ ~done[c] /\ i = action_iter[c] => ran'[c][i] # "todo"
                      /\ ~done[c] /\ i > action_iter[c] => ran'[c][i] = "todo"
    BY <1>1, <1>2 DEF InOrder
  <2>1. CASE c # b \/ i # n
    BY <2>1, <1>e DEF Decided, InOrder
  <2>2. CASE c = b /\ i = n
    <3>1. n \in Nat
      BY <1>3, StagesAre DEF IInv
    <3>2. QED
      BY <2>2, <3>1, <1>3, <1>e
  <2>3. QED
    BY <2>1, <2>2
<1>8. \A c \in Stages : c # b => \A i \in DOMAIN Actions(c) : \A v :
        OverWith(c, i, v)' = OverWith(c, i, v)
  BY <1>2, <1>e DEF OverWith
<1>9. ProcessIsAction'
  <2> SUFFICES ASSUME NEW q \in Pids, proc'[q].state # "free",
                      NEW c, c = proc'[q].stage, NEW i, i = proc'[q].act
               PROVE  IF proc'[q].state = "running" /\ ~Actions(c)[i].sync
                      THEN ran'[c][i] = "running"
                      ELSE IF Actions(c)[i].sync THEN ran'[c][i] = "over"
                           ELSE /\ ran'[c][i] \in {"over", "killed"}
                                /\ code'[c][i] = WExitStatus(proc'[q])
    BY <1>2 DEF ProcessIsAction, OverWith, WExitStatus
  <2>1. CASE q = p
    <3>1. /\ proc'[p].state = "zombie" /\ proc'[p].stage = b /\ proc'[p].act = n
          /\ proc'[p].code = value /\ proc'[p].killed = k
      BY DEF Die, IInv, TypeOK, ProcType
    <3>2. WExitStatus(proc'[p]) = value
      BY <3>1 DEF WExitStatus
    <3>3. QED
      BY <2>1, <3>1, <3>2, <1>4, <1>e
  <2>2. CASE q # p
    <3>1. proc'[q] = proc[q]
      BY <2>2 DEF Die, IInv, TypeOK
    <3>2. c \in Stages /\ i \in DOMAIN Actions(c) /\ pid[c] = q
      BY <3>1 DEF IInv, ChildHasOwner, ActsAreActions
    <3>3. c # b
      BY <2>2, <3>2, <1>3
    <3>4. ran'[c][i] = ran[c][i] /\ code'[c][i] = code[c][i]
      BY <3>2, <3>3, <1>e
    <3>5. QED
      BY <3>1, <3>4 DEF Decided, ProcessIsAction, OverWith
  <2>3. QED
    BY <2>1, <2>2
<1>10. ReapedIsAction'
  <2> SUFFICES ASSUME pc = "each", wpid # NoPid,
                      NEW c \in Stages, ~done[c], pid[c] = wpid
               PROVE  action_iter[c] # 0 /\ OverWith(c, action_iter[c], exitstatus)'
    BY <1>1, <1>2 DEF ReapedIsAction, OverWith
  <2>1. c # b
    BY <1>3 DEF IInv, ReapedIsFree, Walking, Running
  <2>2. action_iter[c] # 0 /\ OverWith(c, action_iter[c], exitstatus)
    BY DEF Decided, ReapedIsAction
  <2>3. action_iter[c] \in DOMAIN Actions(c)
    <3>1. action_iter[c] \in 0 .. Len(Actions(c)) /\ Len(Actions(c)) \in Nat
          /\ DOMAIN Actions(c) = 1 .. Len(Actions(c))
      BY StagesAre DEF IInv
    <3>2. QED
      BY <2>2, <3>1
  <2>4. /\ ran'[c][action_iter[c]] = ran[c][action_iter[c]]
        /\ code'[c][action_iter[c]] = code[c][action_iter[c]]
    BY <2>1, <2>3, <1>e
  <2>5. QED
    BY <2>2, <2>4, <1>1, <1>2 DEF OverWith
<1>11. KeepsEnds' /\ NotBegun' /\ IdleIsDone'
  BY <1>1, <1>2, <1>3 DEF Decided, KeepsEnds, NotBegun, InLoop, IdleIsDone
<1>12. LoopIsDecided'
  <2> SUFFICES ASSUME pc = "loop", action_iter[each] # 0
               PROVE  ran'[each][action_iter[each]] # "running"
    BY <1>1 DEF LoopIsDecided
  <2>1. each \in Stages /\ each # b
    BY <1>3 DEF IInv, TypeOK, InLoop
  <2>2. action_iter[each] \in DOMAIN Actions(each)
    <3>1. action_iter[each] \in 0 .. Len(Actions(each)) /\ Len(Actions(each)) \in Nat
          /\ DOMAIN Actions(each) = 1 .. Len(Actions(each))
      BY <2>1, StagesAre DEF IInv
    <3>2. QED
      BY <3>1
  <2>3. QED
    BY <2>1, <2>2, <1>e DEF Decided, LoopIsDecided
<1>13. RetcodeIsOverall'
  <2> SUFFICES ASSUME NEW c \in Stages, ~GrabberFailed(c)'
               PROVE  (retcode[c] = Overall(c, Accounted(c)))'
    BY <1>2 DEF RetcodeIsOverall
  <2>1. retcode[c] = Overall(c, Accounted(c))
    BY <1>6 DEF Decided, RetcodeIsOverall, Counted
  <2>2. Accounted(c)' = Accounted(c)
    BY <1>1, <1>2 DEF Accounted, InLoop
  <2>3. CASE c # b
    BY <2>1, <2>2, <2>3, <1>1, <1>6 DEF Counted
  <2>4. CASE c = b
    <3>1. n \in Nat /\ n # 0
      BY <1>3, StagesAre DEF IInv
    <3>2. Accounted(c) = n - 1
      BY <2>4, <3>1, <1>3, <1>4 DEF Accounted
    <3>3. Overall(c, n - 1)' = Overall(c, n - 1)
      <4>1. n - 1 \in Int /\ n - 1 < n
        BY <3>1
      <4>2. QED
        BY <4>1, <2>4, <1>6 DEF Counted
    <3>4. QED
      BY <2>1, <2>2, <3>2, <3>3, <1>1
  <2>5. QED
    BY <2>3, <2>4
<1>14. SkippedAsDocumented'
  <2> SUFFICES ASSUME NEW c \in Stages, NEW i \in DOMAIN Actions(c),
                      ran'[c][i] # "todo", ~GrabberFailed(c)'
               PROVE  ran'[c][i] = "skipped" <=>
                        ~MeetExecConditions(Actions(c)[i], Overall(c, i - 1)')
    BY <1>2 DEF SkippedAsDocumented, MeetExecConditions
  <2>1. ~GrabberFailed(c)
    BY <1>6 DEF Counted
  <2>2. i \in Nat /\ n \in Nat
    BY <1>3, StagesAre DEF IInv
  <2>3. ran'[c][i] = "skipped" <=> ran[c][i] = "skipped"
    BY <1>4, <1>e
  <2>4. ran[c][i] # "todo"
    BY <1>4, <1>e
  <2>5. Overall(c, i - 1)' = Overall(c, i - 1)
    <3>1. CASE c # b
      BY <3>1, <1>6 DEF Counted
    <3>2. CASE c = b
      <4>1. i <= n
        BY <2>2, <2>4, <3>2, <1>3 DEF Decided, InOrder
      <4>2. i - 1 \in Int /\ i - 1 < n
        BY <2>2, <4>1
      <4>3. QED
        BY <3>2, <4>2, <1>6 DEF Counted
    <3>3. QED
      BY <3>1, <3>2
  <2>6. QED
    BY <2>1, <2>3, <2>4, <2>5 DEF Decided, SkippedAsDocumented
<1>15. QED
  BY <1>7, <1>9, <1>10, <1>11, <1>12, <1>13, <1>14 DEF Decided

-----------------------------------------------------------------------------
(* Every step preserves what is decided: one case per action.              *)
LEMMA NextDecided ==
  ASSUME IInv, IInv', Decided, [Next]_vars
  PROVE  Decided'
<1>t. TypeOK'
  BY DEF IInv
<1>1. ASSUME NEW p \in Pipelines, NEW d \in BOOLEAN, KexecExec(p, d) PROVE Decided'
  BY <1>1, <1>t, KexecExecDecided
<1>2. CASE \/ SkipContext \/ NoMoreContexts \/ SigChld \/ SigChldIdle \/ ReapNone
           \/ \E p \in Pids : Reap(p)
  BY <1>2, ControlDecided
<1>3. CASE EnterContext
  BY <1>3, EnterContextDecided
<1>4. CASE SequenceEnd
  BY <1>4, SequenceEndDecided
<1>5. CASE SkipAction \/ DryRunAction \/ ForkFails \/ \E v \in Codes : SilentAction(v)
  BY <1>5, <1>t, DecideDecided
<1>6. ASSUME NEW p \in Pids, NEW v \in Codes, SyncAction(p, v) PROVE Decided'
  <2>1. /\ pc = "loop" /\ HasNext /\ Fork(p) /\ NextContext /\ Advance
        /\ Record("over", v) /\ SetRetcode(v) /\ NextAction.sync
        /\ UNCHANGED <<pipeline, done, fdin, fdout, wpid>>
        /\ MeetExecConditions(NextAction, retcode[each])
    BY <1>6 DEF SyncAction, Selected, NeedsGrabber, jobvars
  <2>2. QED
    BY <2>1, <1>t, ForkDecided
<1>7. ASSUME NEW p \in Pids, AsyncAction(p) PROVE Decided'
  <2>1. /\ pc = "loop" /\ HasNext /\ Fork(p) /\ NextContext /\ Advance
        /\ Record("running", 0) /\ UNCHANGED retcode /\ ~NextAction.sync
        /\ UNCHANGED <<pipeline, done, fdin, fdout, wpid>>
        /\ MeetExecConditions(NextAction, retcode[each])
    BY <1>7 DEF AsyncAction, Selected, jobvars
  <2>2. QED
    BY <2>1, <1>t, ForkDecided
<1>8. ASSUME NEW p \in Pids, NEW v \in Codes, ChildExit(p, v) PROVE Decided'
  <2>1. Running(p) /\ Die(p, "over", v, FALSE)
    BY <1>8 DEF ChildExit
  <2>2. QED
    BY <2>1, GrabberDiesDecided, ActionDiesDecided
<1>9. ASSUME NEW p \in Pids, ChildKilled(p) PROVE Decided'
  <2>1. Running(p) /\ Die(p, "killed", 0, TRUE)
    BY <1>9 DEF ChildKilled
  <2>2. QED
    BY <2>1, GrabberDiesDecided, ActionDiesDecided, CodesAssumption
<1>10. CASE UNCHANGED vars
  <2>1. Stages' = Stages /\ \A c : Actions(c)' = Actions(c)
    BY <1>10 DEF vars, Stages, Actions
  <2>2. /\ \A c \in Stages : GrabberFailed(c)' = GrabberFailed(c)
        /\ \A c \in Stages : \A n : Overall(c, n)' = Overall(c, n)
        /\ \A c \in Stages : Accounted(c)' = Accounted(c)
        /\ \A c, i, v : OverWith(c, i, v)' = OverWith(c, i, v)
    BY <1>10, <2>1, OverallIs DEF vars, GrabberFailed, Accounted, InLoop, OverWith
  <2>3. KexecDone' = KexecDone /\ KexecRetcode' = KexecRetcode
    BY <1>10, <2>1 DEF vars, KexecDone, KexecRetcode
  <2>4. KeepsEnds' /\ InOrder' /\ LoopIsDecided' /\ NotBegun' /\ IdleIsDone'
    BY <1>10, <2>1, <2>3 DEF vars, Decided, KeepsEnds, InOrder, LoopIsDecided,
       NotBegun, InLoop, IdleIsDone
  <2>5. ProcessIsAction' /\ ReapedIsAction'
    BY <1>10, <2>1, <2>2 DEF vars, Decided, ProcessIsAction, ReapedIsAction,
       WExitStatus
  <2>6. SkippedAsDocumented' /\ RetcodeIsOverall'
    BY <1>10, <2>1, <2>2 DEF vars, Decided, SkippedAsDocumented,
       RetcodeIsOverall, MeetExecConditions
  <2>7. QED
    BY <2>4, <2>5, <2>6 DEF Decided
<1>11. QED
  BY <1>1, <1>2, <1>3, <1>4, <1>5, <1>6, <1>7, <1>8, <1>9, <1>10
  DEF Next, Server

(* What is decided of every ACTION, its history, and the retcode of every  *)
(* stage agree with each other and with the process table in every state.  *)
THEOREM KexecDecided == Spec => []Decided
<1>1. Init => Decided
  BY InitDecided
<1>2. IInv /\ IInv' /\ Decided /\ [Next]_vars => Decided'
  BY NextDecided
<1>3. QED
  BY <1>1, <1>2, KexecInvariant, PTL DEF Spec

(* A stage's pipe ends are open until nothing of the stage is undecided or *)
(* running: no ACTION is started on closed streams, and no neighbour sees  *)
(* an early EOF.                                                           *)
THEOREM KexecEndsOpen == Spec => []EndsOpenWhileStageRuns
<1>1. IInv /\ Decided => EndsOpenWhileStageRuns
  <2> SUFFICES ASSUME IInv, Decided, NEW c \in Stages, pc # "idle",
                      ~fdin[c] \/ ~fdout[c]
               PROVE  /\ \A i \in DOMAIN Actions(c) : ran[c][i] \notin {"todo", "running"}
                      /\ \A p \in Pids : proc[p].state # "free" => proc[p].stage # c
    BY DEF EndsOpenWhileStageRuns
  <2>1. done[c]
    BY DEF Decided, KeepsEnds
  <2>2. \A i \in DOMAIN Actions(c) : ran[c][i] \notin {"todo", "running"}
    BY <2>1 DEF Decided, InOrder
  <2>3. \A p \in Pids : proc[p].state # "free" => proc[p].stage # c
    BY <2>1 DEF IInv, ChildHasOwner
  <2>4. QED
    BY <2>2, <2>3
<1>2. QED
  BY <1>1, KexecDecided, KexecInvariant, PTL

(* ACTIONs are decided one at a time and in order, each executed or        *)
(* skipped as its exec_on and the overall return code so far say.          *)
THEOREM KexecExecOn == Spec => []ExecOnAsDocumented
<1>1. IInv /\ Decided => ExecOnAsDocumented
  <2> SUFFICES ASSUME IInv, Decided, NEW c \in Stages,
                      NEW i \in DOMAIN Actions(c), ran[c][i] # "todo"
               PROVE  /\ \A j \in 1 .. i - 1 : ran[c][j] \notin {"todo", "running"}
                      /\ GrabberFailed(c) \/
                           (ran[c][i] = "skipped" <=>
                              ~MeetExecConditions(Actions(c)[i], Overall(c, i - 1)))
    BY DEF ExecOnAsDocumented
  <2>1. /\ DOMAIN Actions(c) = 1 .. Len(Actions(c)) /\ Len(Actions(c)) \in Nat
        /\ action_iter[c] \in Nat
    BY StagesAre DEF IInv
  <2>2. ASSUME NEW j \in 1 .. i - 1 PROVE ran[c][j] \notin {"todo", "running"}
    <3>1. j \in DOMAIN Actions(c) /\ j < i
      BY <2>1
    <3>2. CASE done[c]
      BY <3>1, <3>2 DEF Decided, InOrder
    <3>3. CASE ~done[c]
      <4>1. ~(i > action_iter[c])
        BY <3>3 DEF Decided, InOrder
      <4>2. j < action_iter[c]
        BY <2>1, <3>1, <4>1
      <4>3. QED
        BY <3>1, <3>3, <4>2 DEF Decided, InOrder
    <3>4. QED
      BY <3>2, <3>3
  <2>3. QED
    BY <2>2 DEF Decided, SkippedAsDocumented
<1>2. QED
  BY <1>1, KexecDecided, KexecInvariant, PTL

(* The retcode of a finished job is the overall return code of its first   *)
(* failed stage.                                                           *)
THEOREM KexecJobRetcode == Spec => []JobRetcode
<1>1. IInv /\ Decided => JobRetcode
  <2> SUFFICES ASSUME IInv, Decided, pc = "idle",
                      \A c \in Stages : ~GrabberFailed(c)
               PROVE  JobRetcode
    BY DEF JobRetcode
  <2> DEFINE overall(c) == Overall(c, Len(Actions(c)))
             Failed == {c \in Stages : overall(c) # 0}
  <2>1. (\A c \in Stages : done[c]) /\ result = KexecRetcode
    BY DEF Decided, IdleIsDone, KexecDone
  <2>2. \A c \in Stages : retcode[c] = overall(c)
    BY <2>1 DEF Decided, RetcodeIsOverall, Accounted
  <2>3. Stages \subseteq Nat
    BY StagesAre DEF IInv
  <2>4. CASE Failed = {}
    <3>1. \A c \in Stages : retcode[c] = 0
      BY <2>2, <2>4
    <3>2. result = 0
      BY <2>1, <3>1 DEF KexecRetcode
    <3>3. QED
      BY <2>4, <3>2 DEF JobRetcode
  <2>5. CASE Failed # {}
    <3>1. Failed \subseteq Nat /\ \A c \in Stages : c \in Failed <=> retcode[c] # 0
      BY <2>2, <2>3
    <3>2. PICK m \in Failed : \A d \in Failed : m <= d
      <4> HIDE DEF Failed
      <4> QED BY <2>5, <3>1, SmallestNat
    <3>3. m \in Stages /\ m \in Nat /\ retcode[m] # 0
      BY <3>1
    <3>4. \A d \in Stages : d < m => retcode[d] = 0
      BY <2>3, <3>1, <3>2, <3>3
    <3>5. \A c \in Stages : (retcode[c] # 0 /\ \A d \in Stages : d < c => retcode[d] = 0)
                              <=> c = m
      <4> SUFFICES ASSUME NEW c \in Stages, retcode[c] # 0,
                          \A d \in Stages : d < c => retcode[d] = 0
                   PROVE  c = m
        BY <3>3, <3>4
      <4>1. m <= c /\ ~(m < c) /\ c \in Nat
        BY <2>3, <3>1, <3>2, <3>3
      <4>2. QED
        BY <3>3, <4>1
    <3>6. (CHOOSE c \in Stages :
             retcode[c] # 0 /\ \A d \in Stages : d < c => retcode[d] = 0) = m
      BY <3>3, <3>5
    <3>7. result = retcode[m]
      BY <2>1, <3>3, <3>6 DEF KexecRetcode
    <3>8. \A c \in Failed : (\A d \in Failed : c <= d) <=> c = m
      <4> HIDE DEF Failed
      <4> QED BY <3>1, <3>2
    <3>9. (CHOOSE c \in Failed : \A d \in Failed : c <= d) = m
      <4> HIDE DEF Failed
      <4> QED BY <3>2, <3>8
    <3>10. result = overall(CHOOSE c \in Failed : \A d \in Failed : c <= d)
      BY <2>2, <3>3, <3>7, <3>9
    <3>11. QED
      BY <2>5, <3>10 DEF JobRetcode
  <2>6. QED
    BY <2>4, <2>5
<1>2. QED
  BY <1>1, KexecDecided, KexecInvariant, PTL
=============================================================================
