------------------------- MODULE KtpdSessionProofs -------------------------
(* Proofs about one session of klishd, for all clients (plans), sizes of   *)
(* buffers and pipes, and amounts of output.                               *)
EXTENDS KtpdSession, SequenceTheorems, FiniteSetTheorems, TLAPS

\* A command is being executed in the state that says so; without one there
\* is nothing to read or write.
ExecIsState ==
  /\ exec # 0 <=> state = "WAIT_FOR_PROCESS"
  /\ exec = 0 => stream = NoStreams /\ pipe = NoData /\ stdin = "none"

\* What a command writes fits a message, and what is in its pipes is owed.
OutputBounds ==
  /\ \A s \in Streams : pipe[s] + todo[s] <= MaxOut
  /\ exec # 0 => \A s \in Streams : pipe[s] <= owed[exec][s]

\* Every command that is served has been sent.
Counted == plan \in DOMAIN Plans /\ ncmd + Len(c2s) <= sent

\* A block of messages is only dispatched when the client was polled.
Heard == inev /\ exec = 0 => pollin

\* The exit flag stops the loop before the next event.
ExitStops == exit => inev \/ ~alive

IInv ==
  /\ TypeOK /\ ExecIsState /\ OutputBounds /\ Counted
  /\ NoLostWakeup /\ Heard /\ ExitStops

-----------------------------------------------------------------------------
(* Messages are typed; where they come from makes no difference.           *)
LEMMA AckTyped ==
  /\ \A c \in {"AUTH", "CMD", "COMPLETION", "HELP"} :
       Ack[c] \in {Ack[d] : d \in DOMAIN Ack}
  /\ "CMD_ACK" \in {Ack[d] : d \in DOMAIN Ack}
  /\ "AUTH_ACK" \in {Ack[d] : d \in DOMAIN Ack}
<1>1. DOMAIN Ack = {"AUTH", "CMD", "COMPLETION", "HELP"}
  BY DEF Ack
<1>2. Ack["AUTH"] = "AUTH_ACK" /\ Ack["CMD"] = "CMD_ACK"
  BY DEF Ack
<1>3. QED
  BY <1>1, <1>2

LEMMA AnswerTyped ==
  ASSUME NEW cmd \in {Ack[c] : c \in DOMAIN Ack} \cup {"NOTIFICATION"},
         NEW n \in Nat, NEW status \in SUBSET Flags
  PROVE  /\ Answer(cmd, n, status) \in AnswerType
         /\ <<Answer(cmd, n, status)>> \in Seq(AnswerType)
<1>1. Answer(cmd, n, status) \in AnswerType
  BY DEF Answer, AnswerType
<1>2. QED
  BY <1>1

LEMMA ErrorTyped ==
  ASSUME NEW cmd \in {Ack[c] : c \in DOMAIN Ack} \cup {"NOTIFICATION"},
         NEW n \in Nat
  PROVE  <<Error(cmd, n)>> \in Seq(AnswerType)
  BY AnswerTyped DEF Error, Flags

LEMMA DataTyped ==
  ASSUME NEW s \in Streams, NEW n \in Nat, NEW len \in Nat
  PROVE  Data(s, n, len) \in Seq(AnswerType)
<1>1. [cmd |-> s, n |-> n, status |-> {}, len |-> len] \in AnswerType
  BY DEF AnswerType
<1>2. QED
  BY <1>1 DEF Data

LEMMA FinalAnswerTyped ==
  ASSUME NEW n \in Nat, NEW data \in [Streams -> Nat], NEW over \in BOOLEAN
  PROVE  FinalAnswer(n, data, over) \in Seq(AnswerType)
<1>1. data["STDOUT"] \in Nat /\ data["STDERR"] \in Nat
  BY DEF Streams
<1>2. /\ Data("STDOUT", n, data["STDOUT"]) \in Seq(AnswerType)
      /\ Data("STDERR", n, data["STDERR"]) \in Seq(AnswerType)
  BY <1>1, DataTyped DEF Streams
<1>3. <<Answer("CMD_ACK", n, ExitStatus(over))>> \in Seq(AnswerType)
  BY AnswerTyped, AckTyped DEF ExitStatus, Flags
<1>4. QED
  BY <1>2, <1>3 DEF FinalAnswer

(* A sequence is the part before a place and the part behind it.           *)
LEMMA CutSeq ==
  ASSUME NEW S, NEW s \in Seq(S), NEW k \in 0 .. Len(s)
  PROVE  /\ SubSeq(s, 1, k) \in Seq(S)
         /\ SubSeq(s, k + 1, Len(s)) \in Seq(S)
         /\ Len(SubSeq(s, k + 1, Len(s))) = Len(s) - k
         /\ SubSeq(s, 1, k) \o SubSeq(s, k + 1, Len(s)) = s
<1>1. Len(s) \in Nat /\ \A i \in 1 .. Len(s) : s[i] \in S
  BY LenProperties, ElementOfSeq
<1>2. SubSeq(s, 1, k) \in Seq(S)
  <2>1. \A i \in 1 .. k : s[i] \in S
    BY <1>1
  <2>2. QED
    BY <1>1, <2>1, SubSeqProperties
<1>3. /\ SubSeq(s, k + 1, Len(s)) \in Seq(S)
      /\ Len(SubSeq(s, k + 1, Len(s))) = Len(s) - k
  <2>1. \A i \in k + 1 .. Len(s) : s[i] \in S
    BY <1>1
  <2>2. /\ SubSeq(s, k + 1, Len(s)) \in Seq(S)
        /\ Len(SubSeq(s, k + 1, Len(s)))
             = IF k + 1 <= Len(s) THEN Len(s) - (k + 1) + 1 ELSE 0
    BY <1>1, <2>1, SubSeqProperties
  <2>3. QED
    BY <1>1, <2>2
<1>4. SubSeq(s, 1, k) \o SubSeq(s, k + 1, Len(s)) = SubSeq(s, 1, Len(s))
  <2>1. /\ 1 \in 1 .. Len(s) + 1 /\ k \in 1 - 1 .. Len(s)
        /\ Len(s) \in k .. Len(s)
    BY <1>1
  <2>2. QED
    BY <2>1, ConcatAdjacentSubSeq, Zenon
<1>5. QED
  BY <1>2, <1>3, <1>4, SubSeqFull

LEMMA CutAppended ==
  ASSUME NEW S, NEW s \in Seq(S), NEW t \in Seq(S), NEW k \in 0 .. Len(t)
  PROVE  (s \o SubSeq(t, 1, k)) \o SubSeq(t, k + 1, Len(t)) = s \o t
<1>. DEFINE a == SubSeq(t, 1, k)
            b == SubSeq(t, k + 1, Len(t))
<1>1. a \in Seq(S) /\ b \in Seq(S)
  BY CutSeq
<1>2. a \o b = t
  BY CutSeq
<1>. HIDE DEF a, b
<1>3. (s \o a) \o b = s \o (a \o b)
  BY <1>1, ConcatAssociative, SMTT(60)
<1>4. QED
  BY <1>2, <1>3 DEF a, b

(* faux_msg_send_async(): what is sent and what is left in the buffer are  *)
(* together what was there before and the new messages, in this order; and *)
(* what is left has a POLLOUT to come.                                     *)
LEMMA EmitAppends ==
  ASSUME s2c \in Seq(AnswerType), obuf \in Seq(AnswerType), pollout \in BOOLEAN,
         NEW msgs \in Seq(AnswerType), Emit(msgs)
  PROVE  /\ s2c' \in Seq(AnswerType) /\ obuf' \in Seq(AnswerType)
         /\ pollout' \in BOOLEAN
         /\ Answers' = Answers \o msgs
         /\ obuf' # << >> => pollout'
         /\ pollout => pollout'
<1>. DEFINE all == obuf \o msgs
<1>1. all \in Seq(AnswerType)
  OBVIOUS
<1>2. PICK k \in 0 .. Len(all) : /\ s2c' = s2c \o SubSeq(all, 1, k)
                                 /\ obuf' = SubSeq(all, k + 1, Len(all))
                                 /\ pollout' = (pollout \/ k < Len(all))
  BY DEF Emit
<1>. HIDE DEF all
<1>3. /\ SubSeq(all, 1, k) \in Seq(AnswerType) /\ obuf' \in Seq(AnswerType)
      /\ Len(obuf') = Len(all) - k
      /\ SubSeq(all, 1, k) \o obuf' = all
  BY <1>1, <1>2, CutSeq
<1>4. s2c' \in Seq(AnswerType)
  BY <1>2, <1>3, ConcatProperties
<1>poll. pollout' \in BOOLEAN /\ (pollout => pollout')
  BY <1>2
<1>5. Answers' = s2c \o all
  <2>1. Answers' = (s2c \o SubSeq(all, 1, k)) \o SubSeq(all, k + 1, Len(all))
    BY <1>2 DEF Answers
  <2>2. QED
    BY <2>1, <1>1, CutAppended
<1>6. Answers' = Answers \o msgs
  <2>1. (s2c \o obuf) \o msgs = s2c \o (obuf \o msgs)
    BY ConcatAssociative, SMTT(60)
  <2>2. QED
    BY <1>5, <2>1 DEF Answers, all
<1>7. obuf' # << >> => pollout'
  <2>1. obuf' # << >> => Len(obuf') # 0
    BY <1>3, EmptySeq
  <2>2. k < Len(all) => pollout'
    BY <1>2
  <2>3. QED
    BY <1>1, <1>3, <2>1, <2>2, LenProperties
<1>8. QED
  BY <1>3, <1>4, <1>poll, <1>6, <1>7

(* client_ev(): what goes from the buffer to the socket is not changed.    *)
LEMMA AsyncOutAppends ==
  ASSUME s2c \in Seq(AnswerType), obuf \in Seq(AnswerType), AsyncOut
  PROVE  /\ s2c' \in Seq(AnswerType) /\ obuf' \in Seq(AnswerType)
         /\ pollout' \in BOOLEAN
         /\ Answers' = Answers
         /\ obuf' # << >> => pollout'
<1>1. PICK k \in 0 .. Len(obuf) : /\ s2c' = s2c \o SubSeq(obuf, 1, k)
                                  /\ obuf' = SubSeq(obuf, k + 1, Len(obuf))
                                  /\ pollout' = (k < Len(obuf))
  BY DEF AsyncOut
<1>2. /\ SubSeq(obuf, 1, k) \in Seq(AnswerType) /\ obuf' \in Seq(AnswerType)
      /\ Len(obuf') = Len(obuf) - k
      /\ SubSeq(obuf, 1, k) \o obuf' = obuf
  BY <1>1, CutSeq
<1>3. s2c' \in Seq(AnswerType) /\ pollout' \in BOOLEAN
  <2>1. s2c' \in Seq(AnswerType)
    BY <1>1, <1>2, ConcatProperties
  <2>2. pollout' \in BOOLEAN
    BY <1>1
  <2>3. QED
    BY <2>1, <2>2
<1>4. Answers' = Answers
  <2>1. Answers' = (s2c \o SubSeq(obuf, 1, k)) \o SubSeq(obuf, k + 1, Len(obuf))
    BY <1>1 DEF Answers
  <2>2. QED
    BY <2>1, CutAppended DEF Answers
<1>5. obuf' # << >> => Len(obuf') # 0
  BY <1>2, EmptySeq
<1>6. Len(obuf') # 0 => pollout'
  <2>1. Len(obuf) \in Nat
    BY LenProperties
  <2>2. k < Len(obuf) => pollout'
    BY <1>1
  <2>3. QED
    BY <1>2, <2>1, <2>2
<1>7. QED
  BY <1>2, <1>3, <1>4, <1>5, <1>6

(* One write to the command's stdin takes no more than there is and fits.  *)
LEMMA WrittenBounds ==
  ASSUME pipe_in \in 0 .. PipeCap, NEW b \in Nat, NEW k \in Written(b)
  PROVE  k \in Nat /\ k <= b /\ pipe_in + k \in 0 .. PipeCap
<1>. DEFINE room == IF stdin = "open" /\ reader THEN PipeCap - pipe_in ELSE 0
<1>1. room \in Nat /\ room <= PipeCap - pipe_in
  BY BoundsAssumption
<1>2. k \in IF room = 0 \/ b = 0 THEN {0}
           ELSE 1 .. (IF b < room THEN b ELSE room)
  BY DEF Written
<1>. HIDE DEF room
<1>3. k \in Nat /\ k <= b /\ k <= room
  BY <1>1, <1>2
<1>4. QED
  BY <1>1, <1>3, BoundsAssumption

(* What a command is owed is counted.                                      *)
LEMMA OwedTyped ==
  ASSUME owed \in [Cmds -> [Streams -> Nat]], NEW n \in Cmds,
         NEW s \in Streams, NEW v \in Nat
  PROVE  /\ [owed EXCEPT ![n][s] = v] \in [Cmds -> [Streams -> Nat]]
         /\ [owed EXCEPT ![n][s] = v][n][s] = v
         /\ \A t \in Streams \ {s} :
              [owed EXCEPT ![n][s] = v][n][t] = owed[n][t]
  OBVIOUS

(* The parts of what a command will do.                                    *)
LEMMA WorkOut ==
  ASSUME NEW w \in WorkType
  PROVE  /\ w.out \in [Streams -> 0 .. MaxOut] /\ w.out \in [Streams -> Nat]
         /\ w.features \subseteq Features /\ w.procs \in Nat \ {0}
         /\ w.filter \in BOOLEAN /\ w.quiet \in BOOLEAN
<1>1. /\ w.out \in [Streams -> 0 .. MaxOut] /\ w.procs \in Nat \ {0}
      /\ w.features \subseteq Features /\ w.filter \in BOOLEAN
      /\ w.quiet \in BOOLEAN
  BY DEF WorkType
<1>2. 0 .. MaxOut \subseteq Nat
  BY MaxOutAssumption
<1>3. QED
  BY <1>1, <1>2

(* The commands that are served have a number among Cmds, and their work   *)
(* is one of the plan's.                                                   *)
LEMMA PlanTyped ==
  ASSUME IInv
  PROVE  /\ ncmd \in Nat /\ exec \in Nat /\ sent \in Nat
         /\ exec # 0 => exec \in Cmds
         /\ c2s # << >> => ncmd + 1 \in Cmds /\ ncmd + 1 <= sent
         /\ Plans[plan].works \subseteq WorkType
         /\ Plans[plan].msgs \in Nat
<1>1. /\ plan \in DOMAIN Plans /\ ncmd + Len(c2s) <= sent
      /\ sent \in 0 .. Plans[plan].msgs /\ ncmd \in 0 .. sent
      /\ exec \in 0 .. ncmd /\ c2s \in Seq(Requests)
  BY DEF IInv, TypeOK, Counted
<1>2. /\ Plans[plan].works \subseteq WorkType
      /\ Plans[plan].msgs \in Nat /\ Plans[plan].msgs <= MaxMsgs
  BY <1>1, PlansAssumption, BoundsAssumption
<1>3. c2s # << >> => Len(c2s) >= 1
  BY <1>1
<1>4. QED
  BY <1>1, <1>2, <1>3, BoundsAssumption DEF Cmds

(* The handlers that send: what they send is messages.                     *)
Sends ==
  \/ \E m \in Requests : Refuse(m.cmd)
  \/ ProcessAuth \/ EmptyCmd \/ ErrorCmd \/ SilentCmd \/ StartCmd
  \/ \E cmd \in {"COMPLETION", "HELP"} : Hint(cmd)
  \/ \E s \in Streams : StreamIn(s) \/ StreamHup(s)
  \/ Done

LEMMA SendsMessages ==
  ASSUME IInv, Sends
  PROVE  \/ \E msgs \in Seq(AnswerType) : Emit(msgs)
         \/ UNCHANGED toclient
<1>. DEFINE Goal == \/ \E msgs \in Seq(AnswerType) : Emit(msgs)
                    \/ UNCHANGED toclient
<1>pipe. pipe \in [Streams -> Nat]
  BY DEF IInv, TypeOK
<1>num. /\ ncmd \in Nat /\ exec \in Nat
        /\ Plans[plan].works \subseteq WorkType
  BY PlanTyped
<1>1. ASSUME NEW m \in Requests, Refuse(m.cmd)
      PROVE  Goal
  <2>1. /\ <<Error("CMD_ACK", ncmd + 1)>> \in Seq(AnswerType)
        /\ <<Error("AUTH_ACK", 0)>> \in Seq(AnswerType)
        /\ <<Error("NOTIFICATION", 0)>> \in Seq(AnswerType)
    BY <1>num, AckTyped, ErrorTyped
  <2>2. m.cmd \in {"COMPLETION", "HELP"} =>
          <<Error(Ack[m.cmd], 0)>> \in Seq(AnswerType)
    BY AckTyped, ErrorTyped
  <2>3. \/ Emit(<<Error("CMD_ACK", ncmd + 1)>>)
        \/ m.cmd \in {"COMPLETION", "HELP"} /\ Emit(<<Error(Ack[m.cmd], 0)>>)
        \/ Emit(<<Error("AUTH_ACK", 0)>>)
        \/ Emit(<<Error("NOTIFICATION", 0)>>)
        \/ UNCHANGED toclient
    BY <1>1 DEF Refuse, NoEmit
  <2>. QED
    BY <2>1, <2>2, <2>3
<1>2. ASSUME ProcessAuth
      PROVE  Goal
  <2>1. /\ <<Answer("AUTH_ACK", 0, {})>> \in Seq(AnswerType)
        /\ <<Answer("AUTH_ACK", 0, {"ERROR", "EXIT"})>> \in Seq(AnswerType)
    BY AckTyped, AnswerTyped DEF Flags
  <2>2. \/ Emit(<<Answer("AUTH_ACK", 0, {})>>)
        \/ Emit(<<Answer("AUTH_ACK", 0, {"ERROR", "EXIT"})>>)
    BY <1>2 DEF ProcessAuth
  <2>. QED
    BY <2>1, <2>2
<1>3. ASSUME EmptyCmd
      PROVE  Goal
  <2>1. <<Answer("CMD_ACK", ncmd + 1, {})>> \in Seq(AnswerType)
    BY <1>num, AckTyped, AnswerTyped
  <2>2. Emit(<<Answer("CMD_ACK", ncmd + 1, {})>>)
    BY <1>3 DEF EmptyCmd
  <2>. QED
    BY <2>1, <2>2
<1>4. ASSUME ErrorCmd
      PROVE  Goal
  <2>1. <<Error("CMD_ACK", ncmd + 1)>> \in Seq(AnswerType)
    BY <1>num, AckTyped, ErrorTyped
  <2>2. Emit(<<Error("CMD_ACK", ncmd + 1)>>)
    BY <1>4 DEF ErrorCmd
  <2>. QED
    BY <2>1, <2>2
<1>5. ASSUME SilentCmd
      PROVE  Goal
  <2>1. PICK w \in Plans[plan].works, running \in Terms :
          Emit(FinalAnswer(ncmd + 1, w.out,
                           session_done \/ Message.quit \/ running))
    BY <1>5 DEF SilentCmd
  <2>2. w.out \in [Streams -> Nat]
    BY <1>num, WorkOut
  <2>3. (session_done \/ Message.quit \/ running) \in BOOLEAN
    OBVIOUS
  <2>num. ncmd + 1 \in Nat
    BY <1>num
  <2>4. FinalAnswer(ncmd + 1, w.out, session_done \/ Message.quit \/ running)
          \in Seq(AnswerType)
    BY <2>num, <2>2, <2>3, FinalAnswerTyped
  <2>. QED
    BY <2>1, <2>4
<1>6. ASSUME StartCmd
      PROVE  Goal
  <2>1. PICK w \in Plans[plan].works :
          Emit(<<Answer("CMD_ACK", ncmd + 1, {"INCOMPLETED"} \cup w.features)>>)
    BY <1>6 DEF StartCmd
  <2>2. {"INCOMPLETED"} \cup w.features \in SUBSET Flags
    BY <1>num, WorkOut DEF Flags
  <2>3. <<Answer("CMD_ACK", ncmd + 1, {"INCOMPLETED"} \cup w.features)>>
          \in Seq(AnswerType)
    BY <1>num, <2>2, AckTyped, AnswerTyped
  <2>. QED
    BY <2>1, <2>3
<1>7. ASSUME NEW cmd \in {"COMPLETION", "HELP"}, Hint(cmd)
      PROVE  Goal
  <2>1. <<Error(Ack[cmd], 0)>> \in Seq(AnswerType)
    BY AckTyped, ErrorTyped
  <2>2. \A over \in BOOLEAN :
          <<Answer(Ack[cmd], 0, ExitStatus(over))>> \in Seq(AnswerType)
    BY AckTyped, AnswerTyped DEF ExitStatus, Flags
  <2>3. \/ Emit(<<Error(Ack[cmd], 0)>>)
        \/ \E parsing \in Terms :
             Emit(<<Answer(Ack[cmd], 0, ExitStatus(session_done \/ parsing))>>)
    BY <1>7 DEF Hint
  <2>4. \A parsing \in Terms : (session_done \/ parsing) \in BOOLEAN
    OBVIOUS
  <2>. QED
    BY <2>1, <2>2, <2>3, <2>4
<1>8. ASSUME NEW s \in Streams, StreamIn(s)
      PROVE  Goal
  <2>1. PICK k \in 1 .. pipe[s] : Emit(Data(s, exec, k))
    BY <1>8 DEF StreamIn
  <2>2. Data(s, exec, k) \in Seq(AnswerType)
    BY <1>num, <1>pipe, DataTyped
  <2>. QED
    BY <2>1, <2>2
<1>9. ASSUME NEW s \in Streams, StreamHup(s)
      PROVE  Goal
  <2>1. \/ \E k \in 1 .. pipe[s] : Emit(Data(s, exec, k))
        \/ UNCHANGED toclient
    BY <1>9 DEF StreamHup, NoEmit
  <2>2. \A k \in 1 .. pipe[s] : Data(s, exec, k) \in Seq(AnswerType)
    BY <1>num, <1>pipe, DataTyped
  <2>. QED
    BY <2>1, <2>2
<1>10. ASSUME Done
      PROVE  Goal
  <2>1. PICK log \in Terms : Emit(FinalAnswer(exec, pipe, session_done \/ log))
    BY <1>10 DEF Done
  <2>2. (session_done \/ log) \in BOOLEAN
    OBVIOUS
  <2>3. FinalAnswer(exec, pipe, session_done \/ log) \in Seq(AnswerType)
    BY <1>num, <1>pipe, <2>2, FinalAnswerTyped
  <2>. QED
    BY <2>1, <2>3
<1>. QED
  BY <1>1, <1>2, <1>3, <1>4, <1>5, <1>6, <1>7, <1>8, <1>9, <1>10 DEF Sends

(* Every variable keeps its type.                                          *)
LEMMA TypeStep ==
  ASSUME IInv, [Next]_vars
  PROVE  TypeOK'
<1>state. state \in States
  BY DEF IInv, TypeOK
<1>exec. exec \in 0 .. ncmd
  BY DEF IInv, TypeOK
<1>ncmd. ncmd \in 0 .. sent
  BY DEF IInv, TypeOK
<1>sent. sent \in 0 .. Plans[plan].msgs
  BY DEF IInv, TypeOK
<1>bufin. bufin \in Nat
  BY DEF IInv, TypeOK
<1>left. left \in Nat
  BY DEF IInv, TypeOK
<1>pipe_in. pipe_in \in 0 .. PipeCap
  BY DEF IInv, TypeOK
<1>stdin. stdin \in {"none", "open", "gone", "closed"}
  BY DEF IInv, TypeOK
<1>stream. stream \in [Streams -> {"none", "in", "off", "gone", "closed"}]
  BY DEF IInv, TypeOK
<1>todo. todo \in [Streams -> Nat]
  BY DEF IInv, TypeOK
<1>pipe. pipe \in [Streams -> Nat]
  BY DEF IInv, TypeOK
<1>owed. owed \in [Cmds -> [Streams -> Nat]]
  BY DEF IInv, TypeOK
<1>c2s. c2s \in Seq(Requests)
  BY DEF IInv, TypeOK
<1>obuf. obuf \in Seq(AnswerType)
  BY DEF IInv, TypeOK
<1>s2c. s2c \in Seq(AnswerType)
  BY DEF IInv, TypeOK
<1>bool. /\ stdin_must_be_closed \in BOOLEAN /\ exit \in BOOLEAN
         /\ session_done \in BOOLEAN /\ alive \in BOOLEAN
         /\ inev \in BOOLEAN /\ pollin \in BOOLEAN
         /\ pollout \in BOOLEAN /\ pollstdin \in BOOLEAN
         /\ reader \in BOOLEAN /\ filter \in BOOLEAN
         /\ sigchld \in BOOLEAN /\ closereq \in BOOLEAN
         /\ lastdone \in BOOLEAN
  BY DEF IInv, TypeOK
<1>count. ncmd + Len(c2s) <= sent
  BY DEF IInv, Counted
<1>num. /\ ncmd \in Nat /\ exec \in Nat /\ sent \in Nat
        /\ exec # 0 => exec \in Cmds
        /\ c2s # << >> => ncmd + 1 \in Cmds /\ ncmd + 1 <= sent
        /\ Plans[plan].works \subseteq WorkType
        /\ Plans[plan].msgs \in Nat
  BY PlanTyped
<1>. USE DEF ktpd, input, output, job, toclient, net
<1>emit. ASSUME \/ \E msgs \in Seq(AnswerType) : Emit(msgs)
                \/ UNCHANGED toclient
         PROVE  /\ (s2c \in Seq(AnswerType))' /\ (obuf \in Seq(AnswerType))'
                /\ (pollout \in BOOLEAN)'
  BY <1>emit, <1>s2c, <1>obuf, <1>bool, EmitAppends
<1>1. ASSUME AsyncOut
      PROVE  TypeOK'
  <2>1. /\ (s2c \in Seq(AnswerType))' /\ (obuf \in Seq(AnswerType))'
        /\ (pollout \in BOOLEAN)'
    BY <1>1, <1>s2c, <1>obuf, AsyncOutAppends
  <2>2. (stream \in [Streams -> {"none", "in", "off", "gone", "closed"}])'
    BY <1>1, <1>stream DEF AsyncOut, Event, NoData, NoStreams, States
  <2>. QED
    BY <1>1, <2>1, <2>2 DEF IInv, TypeOK, AsyncOut, Event
<1>2. ASSUME ClientEvEnd
      PROVE  TypeOK'
  <2>1. (inev \in BOOLEAN)' /\ (alive \in BOOLEAN)'
    BY <1>2, <1>bool DEF ClientEvEnd
  <2>. QED
    BY <1>2, <2>1 DEF IInv, TypeOK, ClientEvEnd
<1>3. ASSUME LoopStops
      PROVE  TypeOK'
  <2>1. (alive \in BOOLEAN)'
    BY <1>3, <1>bool DEF LoopStops, Event
  <2>. QED
    BY <1>3, <2>1 DEF IInv, TypeOK, LoopStops, Event
<1>4. ASSUME NEW m \in Requests, Refuse(m.cmd)
      PROVE  TypeOK'
  <2>1. (inev \in BOOLEAN)'
    BY <1>4, <1>bool DEF Refuse, Dispatch
  <2>2. /\ (s2c \in Seq(AnswerType))' /\ (obuf \in Seq(AnswerType))'
        /\ (pollout \in BOOLEAN)'
    BY <1>4, SendsMessages, <1>emit DEF Sends
  <2>3. (c2s \in Seq(Requests))'
    BY <1>4, <1>c2s DEF Refuse, Dispatch
  <2>4. (exec \in 0 .. ncmd)' /\ (ncmd \in 0 .. sent)'
    BY <1>4, <1>exec, <1>ncmd, <1>sent, <1>num DEF Refuse, Dispatch
  <2>. QED
    BY <1>4, <2>1, <2>2, <2>3, <2>4 DEF IInv, TypeOK, Refuse, Dispatch
<1>5. ASSUME ProcessAuth
      PROVE  TypeOK'
  <2>1. /\ (inev \in BOOLEAN)'
        /\ (session_done \in BOOLEAN)'
        /\ (exit \in BOOLEAN)'
    BY <1>5, <1>bool DEF ProcessAuth, Dispatch
  <2>2. /\ (s2c \in Seq(AnswerType))' /\ (obuf \in Seq(AnswerType))'
        /\ (pollout \in BOOLEAN)'
    BY <1>5, SendsMessages, <1>emit DEF Sends
  <2>3. (c2s \in Seq(Requests))'
    BY <1>5, <1>c2s DEF ProcessAuth, Dispatch
  <2>4. (state \in States)'
    BY <1>5, <1>state DEF ProcessAuth, Dispatch, NoData, NoStreams, States
  <2>. QED
    BY <1>5, <2>1, <2>2, <2>3, <2>4 DEF IInv, TypeOK, ProcessAuth, Dispatch
<1>6. ASSUME EmptyCmd
      PROVE  TypeOK'
  <2>1. (inev \in BOOLEAN)' /\ (session_done \in BOOLEAN)'
    BY <1>6, <1>bool DEF EmptyCmd, Dispatch
  <2>2. /\ (s2c \in Seq(AnswerType))' /\ (obuf \in Seq(AnswerType))'
        /\ (pollout \in BOOLEAN)'
    BY <1>6, SendsMessages, <1>emit DEF Sends
  <2>3. (c2s \in Seq(Requests))'
    BY <1>6, <1>c2s DEF EmptyCmd, Dispatch
  <2>4. (exec \in 0 .. ncmd)' /\ (ncmd \in 0 .. sent)'
    BY <1>6, <1>exec, <1>ncmd, <1>sent, <1>num DEF EmptyCmd, Dispatch
  <2>. QED
    BY <1>6, <2>1, <2>2, <2>3, <2>4 DEF IInv, TypeOK, EmptyCmd, Dispatch
<1>7. ASSUME ErrorCmd
      PROVE  TypeOK'
  <2>1. /\ (inev \in BOOLEAN)'
        /\ (session_done \in BOOLEAN)'
        /\ (exit \in BOOLEAN)'
    BY <1>7, <1>bool DEF ErrorCmd, Dispatch, SetDone
  <2>2. /\ (s2c \in Seq(AnswerType))' /\ (obuf \in Seq(AnswerType))'
        /\ (pollout \in BOOLEAN)'
    BY <1>7, SendsMessages, <1>emit DEF Sends
  <2>3. (c2s \in Seq(Requests))'
    BY <1>7, <1>c2s DEF ErrorCmd, Dispatch, SetDone
  <2>4. (exec \in 0 .. ncmd)' /\ (ncmd \in 0 .. sent)'
    BY <1>7, <1>exec, <1>ncmd, <1>sent, <1>num DEF ErrorCmd, Dispatch, SetDone
  <2>. QED
    BY <1>7, <2>1, <2>2, <2>3, <2>4
       DEF IInv, TypeOK, ErrorCmd, Dispatch, SetDone
<1>8. ASSUME SilentCmd
      PROVE  TypeOK'
  <2>1. /\ (inev \in BOOLEAN)'
        /\ (session_done \in BOOLEAN)'
        /\ (exit \in BOOLEAN)'
    BY <1>8, <1>bool DEF SilentCmd, Dispatch, SetDone
  <2>2. /\ (s2c \in Seq(AnswerType))' /\ (obuf \in Seq(AnswerType))'
        /\ (pollout \in BOOLEAN)'
    BY <1>8, SendsMessages, <1>emit DEF Sends
  <2>3. (c2s \in Seq(Requests))'
    BY <1>8, <1>c2s DEF SilentCmd, Dispatch, SetDone
  <2>4. (exec \in 0 .. ncmd)' /\ (ncmd \in 0 .. sent)'
    BY <1>8, <1>exec, <1>ncmd, <1>sent, <1>num DEF SilentCmd, Dispatch, SetDone
  <2>5. (owed \in [Cmds -> [Streams -> Nat]])'
    BY <1>8, <1>owed, <1>num, <1>pipe DEF SilentCmd, Dispatch, SetDone, WorkType
  <2>. QED
    BY <1>8, <2>1, <2>2, <2>3, <2>4, <2>5
       DEF IInv, TypeOK, SilentCmd, Dispatch, SetDone
<1>9. ASSUME StartCmd
      PROVE  TypeOK'
  <2>1. /\ (inev \in BOOLEAN)' /\ (filter \in BOOLEAN)' /\ (lastdone \in BOOLEAN)'
        /\ (session_done \in BOOLEAN)' /\ (reader \in BOOLEAN)'
        /\ (pollstdin \in BOOLEAN)' /\ (closereq \in BOOLEAN)'
    BY <1>9, <1>bool, <1>num DEF StartCmd, Dispatch, WorkType
  <2>2. /\ (s2c \in Seq(AnswerType))' /\ (obuf \in Seq(AnswerType))'
        /\ (pollout \in BOOLEAN)'
    BY <1>9, SendsMessages, <1>emit DEF Sends
  <2>3. (c2s \in Seq(Requests))'
    BY <1>9, <1>c2s DEF StartCmd, Dispatch
  <2>4. (exec \in 0 .. ncmd)' /\ (ncmd \in 0 .. sent)'
    BY <1>9, <1>exec, <1>ncmd, <1>sent, <1>num DEF StartCmd, Dispatch
  <2>5. (left \in Nat)'
    BY <1>9, <1>left, <1>num DEF StartCmd, Dispatch, WorkType
  <2>6. (todo \in [Streams -> Nat])'
    BY <1>9, <1>todo, <1>num DEF StartCmd, Dispatch, WorkType
  <2>7. (state \in States)'
    BY <1>9, <1>state DEF StartCmd, Dispatch, NoData, NoStreams, States
  <2>8. (stream \in [Streams -> {"none", "in", "off", "gone", "closed"}])'
    BY <1>9, <1>stream DEF StartCmd, Dispatch, NoData, NoStreams, States
  <2>9. (pipe \in [Streams -> Nat])'
    BY <1>9, <1>pipe DEF StartCmd, Dispatch, NoData, NoStreams, States
  <2>10. (stdin \in {"none", "open", "gone", "closed"})'
    BY <1>9, <1>stdin DEF StartCmd, Dispatch
  <2>11. (bufin \in Nat)'
    BY <1>9, <1>bufin, <1>pipe_in, WrittenBounds, BoundsAssumption
       DEF StartCmd, Dispatch
  <2>12. (pipe_in \in 0 .. PipeCap)'
    BY <1>9, <1>bufin, <1>pipe_in, WrittenBounds, BoundsAssumption
       DEF StartCmd, Dispatch
  <2>. QED
    BY <1>9, <2>1, <2>2, <2>3, <2>4, <2>5, <2>6, <2>7, <2>8, <2>9, <2>10,
       <2>11, <2>12 DEF IInv, TypeOK, StartCmd, Dispatch
<1>10. ASSUME NEW cmd \in {"COMPLETION", "HELP"}, Hint(cmd)
      PROVE  TypeOK'
  <2>1. /\ (inev \in BOOLEAN)'
        /\ (session_done \in BOOLEAN)'
        /\ (exit \in BOOLEAN)'
    BY <1>10, <1>bool DEF Hint, Dispatch, SetDone
  <2>2. /\ (s2c \in Seq(AnswerType))' /\ (obuf \in Seq(AnswerType))'
        /\ (pollout \in BOOLEAN)'
    BY <1>10, SendsMessages, <1>emit DEF Sends
  <2>3. (c2s \in Seq(Requests))'
    BY <1>10, <1>c2s DEF Hint, Dispatch, SetDone
  <2>. QED
    BY <1>10, <2>1, <2>2, <2>3 DEF IInv, TypeOK, Hint, Dispatch, SetDone
<1>11. ASSUME ProcessStdin
      PROVE  TypeOK'
  <2>1. (inev \in BOOLEAN)' /\ (pollstdin \in BOOLEAN)' /\ (pollin \in BOOLEAN)'
    BY <1>11, <1>bool DEF ProcessStdin, Dispatch, NoEmit
  <2>2. (c2s \in Seq(Requests))'
    BY <1>11, <1>c2s DEF ProcessStdin, Dispatch, NoEmit
  <2>3. (bufin \in Nat)'
    BY <1>11, <1>bufin, <1>pipe_in, WrittenBounds, BoundsAssumption
       DEF ProcessStdin, Dispatch, NoEmit
  <2>4. (pipe_in \in 0 .. PipeCap)'
    BY <1>11, <1>bufin, <1>pipe_in, WrittenBounds, BoundsAssumption
       DEF ProcessStdin, Dispatch, NoEmit
  <2>. QED
    BY <1>11, <2>1, <2>2, <2>3, <2>4
       DEF IInv, TypeOK, ProcessStdin, Dispatch, NoEmit
<1>12. ASSUME ProcessStdinClose
      PROVE  TypeOK'
  <2>1. /\ (inev \in BOOLEAN)' /\ (stdin_must_be_closed \in BOOLEAN)'
        /\ (closereq \in BOOLEAN)' /\ (pollin \in BOOLEAN)'
        /\ (pollstdin \in BOOLEAN)'
    BY <1>12, <1>bool DEF ProcessStdinClose, Dispatch, PushStdin, NoEmit
  <2>2. (c2s \in Seq(Requests))'
    BY <1>12, <1>c2s DEF ProcessStdinClose, Dispatch, PushStdin, NoEmit
  <2>3. (bufin \in Nat)'
    BY <1>12, <1>bufin, <1>pipe_in, WrittenBounds, BoundsAssumption
       DEF ProcessStdinClose, Dispatch, PushStdin, NoEmit
  <2>4. (pipe_in \in 0 .. PipeCap)'
    BY <1>12, <1>bufin, <1>pipe_in, WrittenBounds, BoundsAssumption
       DEF ProcessStdinClose, Dispatch, PushStdin, NoEmit
  <2>5. (stdin \in {"none", "open", "gone", "closed"})'
    BY <1>12, <1>stdin DEF ProcessStdinClose, Dispatch, PushStdin, NoEmit
  <2>. QED
    BY <1>12, <2>1, <2>2, <2>3, <2>4, <2>5
       DEF IInv, TypeOK, ProcessStdinClose, Dispatch, PushStdin, NoEmit
<1>13. ASSUME NEW s \in Streams, ProcessStreamClose(s)
      PROVE  TypeOK'
  <2>1. (inev \in BOOLEAN)'
    BY <1>13, <1>bool DEF ProcessStreamClose, CloseStream, Dispatch, NoEmit
  <2>2. (c2s \in Seq(Requests))'
    BY <1>13, <1>c2s DEF ProcessStreamClose, CloseStream, Dispatch, NoEmit
  <2>3. (stream \in [Streams -> {"none", "in", "off", "gone", "closed"}])'
    BY <1>13, <1>stream
       DEF ProcessStreamClose, CloseStream, Dispatch, NoEmit, NoData,
           NoStreams, States
  <2>4. (pipe \in [Streams -> Nat])'
    BY <1>13, <1>pipe
       DEF ProcessStreamClose, CloseStream, Dispatch, NoEmit, NoData,
           NoStreams, States
  <2>5. (owed \in [Cmds -> [Streams -> Nat]])'
    <3>1. exec \in Cmds /\ pipe[s] <= owed[exec][s]
      BY <1>13, <1>num DEF ProcessStreamClose, IInv, ExecIsState, OutputBounds
    <3>2. owed[exec][s] - pipe[s] \in Nat
      BY <3>1, <1>owed, <1>pipe
    <3>3. owed' = [owed EXCEPT ![exec][s] = owed[exec][s] - pipe[s]]
      BY <1>13 DEF ProcessStreamClose, CloseStream
    <3>4. [owed EXCEPT ![exec][s] = owed[exec][s] - pipe[s]]
            \in [Cmds -> [Streams -> Nat]]
      BY <3>1, <3>2, <1>owed, OwedTyped
    <3>. QED
      BY <3>3, <3>4 DEF Cmds
  <2>. QED
    BY <1>13, <2>1, <2>2, <2>3, <2>4, <2>5
       DEF IInv, TypeOK, ProcessStreamClose, CloseStream, Dispatch, NoEmit
<1>14. ASSUME StdinReady
      PROVE  TypeOK'
  <2>1. (pollin \in BOOLEAN)' /\ (pollstdin \in BOOLEAN)'
    BY <1>14, <1>bool DEF StdinReady, PushStdin, Event
  <2>2. (bufin \in Nat)'
    BY <1>14, <1>bufin, <1>pipe_in, WrittenBounds, BoundsAssumption
       DEF StdinReady, PushStdin, Event
  <2>3. (pipe_in \in 0 .. PipeCap)'
    BY <1>14, <1>bufin, <1>pipe_in, WrittenBounds, BoundsAssumption
       DEF StdinReady, PushStdin, Event
  <2>4. (stdin \in {"none", "open", "gone", "closed"})'
    BY <1>14, <1>stdin DEF StdinReady, PushStdin, Event
  <2>. QED
    BY <1>14, <2>1, <2>2, <2>3, <2>4
       DEF IInv, TypeOK, StdinReady, PushStdin, Event
<1>15. ASSUME StdinHup
      PROVE  TypeOK'
  <2>1. (pollstdin \in BOOLEAN)'
    BY <1>15, <1>bool DEF StdinHup
  <2>2. (stdin \in {"none", "open", "gone", "closed"})'
    BY <1>15, <1>stdin DEF StdinHup
  <2>. QED
    BY <1>15, <2>1, <2>2 DEF IInv, TypeOK, StdinHup
<1>16. ASSUME NEW s \in Streams, StreamIn(s)
      PROVE  TypeOK'
  <2>1. /\ (s2c \in Seq(AnswerType))' /\ (obuf \in Seq(AnswerType))'
        /\ (pollout \in BOOLEAN)'
    BY <1>16, SendsMessages, <1>emit DEF Sends
  <2>2. (pipe \in [Streams -> Nat])'
    BY <1>16, <1>pipe DEF StreamIn, PauseAfter, NoData, NoStreams, States
  <2>3. (stream \in [Streams -> {"none", "in", "off", "gone", "closed"}])'
    BY <1>16, <1>stream DEF StreamIn, PauseAfter, NoData, NoStreams, States
  <2>. QED
    BY <1>16, <2>1, <2>2, <2>3 DEF IInv, TypeOK, StreamIn, PauseAfter
<1>17. ASSUME NEW s \in Streams, StreamHup(s)
      PROVE  TypeOK'
  <2>1. /\ (s2c \in Seq(AnswerType))' /\ (obuf \in Seq(AnswerType))'
        /\ (pollout \in BOOLEAN)'
    BY <1>17, SendsMessages, <1>emit DEF Sends
  <2>2. (pipe \in [Streams -> Nat])'
    BY <1>17, <1>pipe DEF StreamHup, NoEmit, NoData, NoStreams, States
  <2>3. (stream \in [Streams -> {"none", "in", "off", "gone", "closed"}])'
    BY <1>17, <1>stream DEF StreamHup, NoEmit, NoData, NoStreams, States
  <2>. QED
    BY <1>17, <2>1, <2>2, <2>3 DEF IInv, TypeOK, StreamHup, NoEmit
<1>18. ASSUME NotDone
      PROVE  TypeOK'
  <2>1. (sigchld \in BOOLEAN)' /\ (lastdone \in BOOLEAN)'
    BY <1>18, <1>bool DEF NotDone
  <2>2. (todo \in [Streams -> Nat])'
    BY <1>18, <1>todo DEF NotDone
  <2>. QED
    BY <1>18, <2>1, <2>2 DEF IInv, TypeOK, NotDone
<1>19. ASSUME Done
      PROVE  TypeOK'
  <2>1. /\ (sigchld \in BOOLEAN)' /\ (pollstdin \in BOOLEAN)'
        /\ (closereq \in BOOLEAN)' /\ (session_done \in BOOLEAN)'
        /\ (exit \in BOOLEAN)' /\ (alive \in BOOLEAN)'
    BY <1>19, <1>bool DEF Done, FreeExec, SetDone
  <2>2. /\ (s2c \in Seq(AnswerType))' /\ (obuf \in Seq(AnswerType))'
        /\ (pollout \in BOOLEAN)'
    BY <1>19, SendsMessages, <1>emit DEF Sends
  <2>3. (exec \in 0 .. ncmd)'
    BY <1>19, <1>exec, <1>ncmd, <1>sent DEF Done, FreeExec, SetDone
  <2>4. (state \in States)'
    BY <1>19, <1>state DEF Done, FreeExec, SetDone, NoData, NoStreams, States
  <2>5. (stream \in [Streams -> {"none", "in", "off", "gone", "closed"}])'
    BY <1>19, <1>stream DEF Done, FreeExec, SetDone, NoData, NoStreams, States
  <2>6. (pipe \in [Streams -> Nat])'
    BY <1>19, <1>pipe DEF Done, FreeExec, SetDone, NoData, NoStreams, States
  <2>7. (stdin \in {"none", "open", "gone", "closed"})'
    BY <1>19, <1>stdin DEF Done, FreeExec, SetDone
  <2>8. (bufin \in Nat)'
    BY <1>19, <1>bufin, <1>pipe_in, WrittenBounds, BoundsAssumption
       DEF Done, FreeExec, SetDone
  <2>. QED
    BY <1>19, <2>1, <2>2, <2>3, <2>4, <2>5, <2>6, <2>7, <2>8
       DEF IInv, TypeOK, Done, FreeExec, SetDone
<1>20. ASSUME NEW s \in Streams, ProcWrite(s)
      PROVE  TypeOK'
  <2>1. (todo \in [Streams -> Nat])'
    BY <1>20, <1>todo DEF ProcWrite, Running, NoData, NoStreams, States
  <2>2. (pipe \in [Streams -> Nat])'
    BY <1>20, <1>pipe DEF ProcWrite, Running, NoData, NoStreams, States
  <2>3. (owed \in [Cmds -> [Streams -> Nat]])'
    BY <1>20, <1>owed, <1>num, <1>pipe, OwedTyped DEF ProcWrite, Running
  <2>. QED
    BY <1>20, <2>1, <2>2, <2>3 DEF IInv, TypeOK, ProcWrite, Running
<1>21. ASSUME NEW s \in Streams, ProcEpipe(s)
      PROVE  TypeOK'
  <2>1. (todo \in [Streams -> Nat])'
    BY <1>21, <1>todo DEF ProcEpipe, NoData, NoStreams, States
  <2>. QED
    BY <1>21, <2>1 DEF IInv, TypeOK, ProcEpipe
<1>22. ASSUME ProcRead
      PROVE  TypeOK'
  <2>1. (pipe_in \in 0 .. PipeCap)'
    BY <1>22, <1>bufin, <1>pipe_in, WrittenBounds, BoundsAssumption DEF ProcRead
  <2>. QED
    BY <1>22, <2>1 DEF IInv, TypeOK, ProcRead
<1>23. ASSUME ProcCloseStdin
      PROVE  TypeOK'
  <2>1. (reader \in BOOLEAN)'
    BY <1>23, <1>bool DEF ProcCloseStdin
  <2>2. (pipe_in \in 0 .. PipeCap)'
    BY <1>23, <1>bufin, <1>pipe_in, WrittenBounds, BoundsAssumption
       DEF ProcCloseStdin
  <2>. QED
    BY <1>23, <2>1, <2>2 DEF IInv, TypeOK, ProcCloseStdin
<1>24. ASSUME ProcExit \/ ProcKilled
      PROVE  TypeOK'
  <2>1. (sigchld \in BOOLEAN)' /\ (reader \in BOOLEAN)'
    BY <1>24, <1>bool DEF ProcExit, ProcKilled, ProcEnds, Running
  <2>2. (left \in Nat)'
    BY <1>24, <1>left DEF ProcExit, ProcKilled, ProcEnds, Running
  <2>3. (pipe_in \in 0 .. PipeCap)'
    BY <1>24, <1>bufin, <1>pipe_in, WrittenBounds, BoundsAssumption
       DEF ProcExit, ProcKilled, ProcEnds, Running
  <2>4. (todo \in [Streams -> Nat])'
    BY <1>24, <1>todo
       DEF ProcExit, ProcKilled, ProcEnds, Running, NoData, NoStreams, States
  <2>. QED
    BY <1>24, <2>1, <2>2, <2>3, <2>4
       DEF IInv, TypeOK, ProcExit, ProcKilled, ProcEnds, Running
<1>25. ASSUME NEW m \in Requests, ClientSend(m)
      PROVE  TypeOK'
  <2>1. (c2s \in Seq(Requests))'
    BY <1>25, <1>c2s DEF ClientSend
  <2>2. (ncmd \in 0 .. sent)' /\ (sent \in 0 .. Plans[plan].msgs)'
    BY <1>25, <1>ncmd, <1>sent, <1>num DEF ClientSend
  <2>. QED
    BY <1>25, <2>1, <2>2 DEF IInv, TypeOK, ClientSend
<1>26. CASE UNCHANGED vars
  BY <1>26 DEF vars, IInv, TypeOK, Cmds
<1>. QED
  BY <1>1, <1>2, <1>3, <1>4, <1>5, <1>6, <1>7, <1>8, <1>9, <1>10, <1>11,
     <1>12, <1>13, <1>14, <1>15, <1>16, <1>17, <1>18, <1>19, <1>20, <1>21,
     <1>22, <1>23, <1>24, <1>25, <1>26
     DEF Next, ClientEv, SigChldEv

-----------------------------------------------------------------------------
(* A command is being executed in the state that says so.                  *)
LEMMA ExecStep ==
  ASSUME IInv, [Next]_vars
  PROVE  ExecIsState'
<1>. USE DEF ktpd, input, output, job, toclient, net
<1>inv. ExecIsState
  BY DEF IInv
<1>num. ncmd \in Nat
  BY PlanTyped
<1>stream. stream \in [Streams -> {"none", "in", "off", "gone", "closed"}]
  BY DEF IInv, TypeOK
<1>same. ASSUME UNCHANGED <<state, exec, stream, pipe, stdin>>
         PROVE  ExecIsState'
  BY <1>same, <1>inv DEF ExecIsState
<1>busy. ASSUME exec # 0, UNCHANGED <<state, exec>>
         PROVE  ExecIsState'
  BY <1>busy, <1>inv DEF ExecIsState
<1>1. CASE AsyncOut
  <2>1. CASE exec # 0
    BY <1>1, <2>1, <1>busy DEF AsyncOut
  <2>2. CASE exec = 0
    <3>1. stream' = stream
      BY <1>1, <2>2, <1>stream DEF AsyncOut
    <3>2. UNCHANGED <<state, exec, stream, pipe, stdin>>
      BY <1>1, <3>1 DEF AsyncOut
    <3>3. QED
      BY <3>2, <1>same
  <2>3. QED
    BY <2>1, <2>2
<1>2. CASE ProcessAuth
  BY <1>2, <1>inv DEF ProcessAuth, ExecIsState
<1>3. CASE StartCmd
  BY <1>3, <1>num DEF StartCmd, ExecIsState
<1>4. CASE Done
  BY <1>4 DEF Done, FreeExec, ExecIsState
<1>5. CASE ProcessStdinClose \/ \E s \in Streams : ProcessStreamClose(s)
  <2>1. exec # 0 /\ UNCHANGED <<state, exec>>
    BY <1>5, <1>inv DEF ProcessStdinClose, ProcessStreamClose, ExecIsState
  <2>2. QED
    BY <2>1, <1>busy
<1>6. CASE \/ StdinReady \/ StdinHup
           \/ \E s \in Streams : StreamIn(s) \/ StreamHup(s) \/ ProcWrite(s)
  <2>1. exec # 0 /\ UNCHANGED <<state, exec>>
    BY <1>6 DEF StdinReady, StdinHup, StreamIn, StreamHup, ProcWrite, Running
  <2>2. QED
    BY <2>1, <1>busy
<1>7. CASE \/ ClientEvEnd \/ LoopStops \/ \E m \in Requests : Refuse(m.cmd)
           \/ EmptyCmd \/ ErrorCmd \/ SilentCmd \/ ProcessStdin
           \/ \E cmd \in {"COMPLETION", "HELP"} : Hint(cmd)
  BY <1>7, <1>same DEF ClientEvEnd, LoopStops, Refuse, EmptyCmd, ErrorCmd,
     SilentCmd, ProcessStdin, Hint
<1>8. CASE \/ NotDone \/ \E s \in Streams : ProcEpipe(s)
           \/ ProcRead \/ ProcCloseStdin \/ ProcExit \/ ProcKilled
           \/ \E m \in Requests : ClientSend(m)
  BY <1>8, <1>same DEF NotDone, ProcEpipe, ProcRead, ProcCloseStdin, ProcExit,
     ProcKilled, ProcEnds, ClientSend
<1>9. CASE UNCHANGED vars
  BY <1>9, <1>same DEF vars
<1>. QED
  BY <1>1, <1>2, <1>3, <1>4, <1>5, <1>6, <1>7, <1>8, <1>9
     DEF Next, ClientEv, SigChldEv

(* Every command that is served has been sent.                             *)
LEMMA CountStep ==
  ASSUME IInv, [Next]_vars
  PROVE  Counted'
<1>. USE DEF ktpd, input, output, job, toclient, net
<1>inv. plan \in DOMAIN Plans /\ ncmd + Len(c2s) <= sent
  BY DEF IInv, Counted
<1>typed. ncmd \in Nat /\ sent \in Nat /\ c2s \in Seq(Requests)
  BY PlanTyped DEF IInv, TypeOK
<1>same. ASSUME UNCHANGED <<plan, ncmd, c2s, sent>>
         PROVE  Counted'
  BY <1>same, <1>inv DEF Counted
<1>served. ASSUME NEW cmd, Dispatch(cmd), ncmd' = ncmd \/ ncmd' = ncmd + 1
           PROVE  Counted'
  <2>1. /\ c2s # << >> /\ c2s' = Tail(c2s)
        /\ UNCHANGED <<plan, sent>>
    BY <1>served DEF Dispatch
  <2>2. Len(c2s) \in Nat /\ Len(c2s') = Len(c2s) - 1
    BY <2>1, <1>typed, LenProperties, HeadTailProperties
  <2>3. QED
    BY <1>served, <2>1, <2>2, <1>typed, <1>inv DEF Counted
<1>1. CASE \/ \E m \in Requests : Refuse(m.cmd)
           \/ ProcessAuth \/ EmptyCmd \/ ErrorCmd \/ SilentCmd \/ StartCmd
           \/ \E cmd \in {"COMPLETION", "HELP"} : Hint(cmd)
           \/ ProcessStdin \/ ProcessStdinClose
           \/ \E s \in Streams : ProcessStreamClose(s)
  <2>1. /\ \E cmd : Dispatch(cmd)
        /\ ncmd' = ncmd \/ ncmd' = ncmd + 1
    BY <1>1 DEF Refuse, ProcessAuth, EmptyCmd, ErrorCmd, SilentCmd, StartCmd,
       Hint, ProcessStdin, ProcessStdinClose, ProcessStreamClose
  <2>2. QED
    BY <2>1, <1>served
<1>2. CASE \E m \in Requests : ClientSend(m)
  <2>1. PICK m \in Requests : ClientSend(m)
    BY <1>2
  <2>2. /\ c2s' = Append(c2s, m) /\ sent' = sent + 1
        /\ UNCHANGED <<plan, ncmd>>
    BY <2>1 DEF ClientSend
  <2>3. Len(c2s) \in Nat /\ Len(c2s') = Len(c2s) + 1
    BY <2>2, <1>typed, LenProperties, AppendProperties
  <2>4. QED
    BY <2>2, <2>3, <1>typed, <1>inv DEF Counted
<1>3. CASE \/ AsyncOut \/ ClientEvEnd \/ LoopStops \/ StdinReady \/ StdinHup
           \/ \E s \in Streams : StreamIn(s) \/ StreamHup(s)
  BY <1>3, <1>same DEF AsyncOut, ClientEvEnd, LoopStops, StdinReady, StdinHup,
     StreamIn, StreamHup
<1>4. CASE NotDone \/ Done
  BY <1>4, <1>same DEF NotDone, Done, FreeExec
<1>5. CASE \/ \E s \in Streams : ProcWrite(s) \/ ProcEpipe(s)
           \/ ProcRead \/ ProcCloseStdin \/ ProcExit \/ ProcKilled
  BY <1>5, <1>same DEF ProcWrite, ProcEpipe, ProcRead, ProcCloseStdin,
     ProcExit, ProcKilled, ProcEnds
<1>6. CASE UNCHANGED vars
  BY <1>6, <1>same DEF vars
<1>. QED
  BY <1>1, <1>2, <1>3, <1>4, <1>5, <1>6 DEF Next, ClientEv, SigChldEv

(* The handlers of the client's messages keep client_ev() going.           *)
LEMMA MessageStep ==
  ASSUME \/ \E m \in Requests : Refuse(m.cmd)
         \/ ProcessAuth \/ EmptyCmd \/ ErrorCmd \/ SilentCmd \/ StartCmd
         \/ \E cmd \in {"COMPLETION", "HELP"} : Hint(cmd)
         \/ ProcessStdin \/ ProcessStdinClose
         \/ \E s \in Streams : ProcessStreamClose(s)
  PROVE  /\ \E cmd : Dispatch(cmd)
         /\ alive /\ (inev \/ pollin) /\ inev' = TRUE /\ alive' = alive
  BY DEF Refuse, ProcessAuth, EmptyCmd, ErrorCmd, SilentCmd, StartCmd,
     Hint, ProcessStdin, ProcessStdinClose, ProcessStreamClose, Dispatch

(* A block of messages is only dispatched when the client was polled.      *)
LEMMA HeardStep ==
  ASSUME IInv, [Next]_vars
  PROVE  Heard'
<1>. USE DEF ktpd, input, output, job, toclient, net
<1>inv. Heard /\ ExecIsState
  BY DEF IInv
<1>num. ncmd \in Nat
  BY PlanTyped
<1>1. CASE \/ \E m \in Requests : Refuse(m.cmd)
           \/ ProcessAuth \/ EmptyCmd \/ ErrorCmd \/ SilentCmd
           \/ \E cmd \in {"COMPLETION", "HELP"} : Hint(cmd)
           \/ \E s \in Streams : ProcessStreamClose(s)
  <2>1. inev \/ pollin
    BY <1>1, MessageStep
  <2>2. UNCHANGED <<exec, pollin>>
    BY <1>1 DEF Refuse, ProcessAuth, EmptyCmd, ErrorCmd, SilentCmd, Hint,
       ProcessStreamClose
  <2>3. QED
    BY <2>1, <2>2, <1>inv DEF Heard
<1>2. CASE StartCmd
  BY <1>2, <1>num DEF StartCmd, Heard
<1>3. CASE ProcessStdin \/ ProcessStdinClose
  BY <1>3, <1>inv DEF ProcessStdin, ProcessStdinClose, ExecIsState, Heard
<1>4. CASE ClientEvEnd
  BY <1>4 DEF ClientEvEnd, Heard
<1>5. CASE \/ AsyncOut \/ LoopStops \/ StdinReady \/ StdinHup
           \/ \E s \in Streams : StreamIn(s) \/ StreamHup(s)
           \/ NotDone \/ Done
  BY <1>5 DEF AsyncOut, LoopStops, StdinReady, StdinHup, StreamIn, StreamHup,
     NotDone, Done, Event, Heard
<1>6. CASE \/ \E s \in Streams : ProcWrite(s) \/ ProcEpipe(s)
           \/ ProcRead \/ ProcCloseStdin \/ ProcExit \/ ProcKilled
           \/ \E m \in Requests : ClientSend(m)
  BY <1>6, <1>inv DEF ProcWrite, ProcEpipe, ProcRead, ProcCloseStdin, ProcExit,
     ProcKilled, ProcEnds, ClientSend, Heard
<1>7. CASE UNCHANGED vars
  BY <1>7, <1>inv DEF vars, Heard
<1>. QED
  BY <1>1, <1>2, <1>3, <1>4, <1>5, <1>6, <1>7 DEF Next, ClientEv, SigChldEv

(* The exit flag stops the loop before the next event.                     *)
LEMMA ExitStopsStep ==
  ASSUME IInv, [Next]_vars
  PROVE  ExitStops'
<1>. USE DEF ktpd, input, output, job, toclient, net
<1>inv. ExitStops
  BY DEF IInv
<1>1. CASE \/ \E m \in Requests : Refuse(m.cmd)
           \/ ProcessAuth \/ EmptyCmd \/ ErrorCmd \/ SilentCmd \/ StartCmd
           \/ \E cmd \in {"COMPLETION", "HELP"} : Hint(cmd)
           \/ ProcessStdin \/ ProcessStdinClose
           \/ \E s \in Streams : ProcessStreamClose(s)
  BY <1>1, MessageStep DEF ExitStops
<1>2. CASE ClientEvEnd \/ LoopStops
  BY <1>2 DEF ClientEvEnd, LoopStops, ExitStops
<1>3. CASE Done
  BY <1>3 DEF Done, ExitStops
<1>4. CASE \/ AsyncOut \/ StdinReady \/ StdinHup
           \/ \E s \in Streams : StreamIn(s) \/ StreamHup(s)
           \/ NotDone
  <2>1. UNCHANGED <<exit, inev, alive>>
    BY <1>4 DEF AsyncOut, StdinReady, StdinHup, StreamIn, StreamHup, NotDone
  <2>2. QED
    BY <2>1, <1>inv DEF ExitStops
<1>5. CASE \/ \E s \in Streams : ProcWrite(s) \/ ProcEpipe(s)
           \/ ProcRead \/ ProcCloseStdin \/ ProcExit \/ ProcKilled
           \/ \E m \in Requests : ClientSend(m)
  <2>1. UNCHANGED <<exit, inev, alive>>
    BY <1>5 DEF ProcWrite, ProcEpipe, ProcRead, ProcCloseStdin, ProcExit,
       ProcKilled, ProcEnds, ClientSend
  <2>2. QED
    BY <2>1, <1>inv DEF ExitStops
<1>6. CASE UNCHANGED vars
  BY <1>6, <1>inv DEF vars, ExitStops
<1>. QED
  BY <1>1, <1>2, <1>3, <1>4, <1>5, <1>6 DEF Next, ClientEv, SigChldEv

(* What is in the pipes is owed, and fits a message.                       *)
LEMMA BoundsStep ==
  ASSUME IInv, [Next]_vars
  PROVE  OutputBounds'
<1>. USE DEF ktpd, input, output, job, toclient, net
<1>inv. /\ \A s \in Streams : pipe[s] + todo[s] <= MaxOut
        /\ exec # 0 => \A s \in Streams : pipe[s] <= owed[exec][s]
  BY DEF IInv, OutputBounds
<1>exec. ExecIsState
  BY DEF IInv
<1>todo. todo \in [Streams -> Nat]
  BY DEF IInv, TypeOK
<1>pipe. pipe \in [Streams -> Nat]
  BY DEF IInv, TypeOK
<1>owed. owed \in [Cmds -> [Streams -> Nat]]
  BY DEF IInv, TypeOK
<1>num. /\ ncmd \in Nat
        /\ exec # 0 => exec \in Cmds
        /\ c2s # << >> => ncmd + 1 \in Cmds
        /\ Plans[plan].works \subseteq WorkType
  BY PlanTyped
<1>max. MaxOut \in Nat
  BY MaxOutAssumption
<1>same. ASSUME UNCHANGED <<pipe, todo, exec>>, exec # 0 => owed' = owed
         PROVE  OutputBounds'
  BY <1>same, <1>inv DEF OutputBounds
<1>1. CASE \E s \in Streams : ProcessStreamClose(s)
  <2>1. PICK s \in Streams : ProcessStreamClose(s)
    BY <1>1
  <2>2. exec # 0 /\ exec \in Cmds
    BY <2>1, <1>exec, <1>num DEF ProcessStreamClose, ExecIsState
  <2>3. /\ pipe' = [pipe EXCEPT ![s] = 0] /\ todo' = todo /\ exec' = exec
        /\ owed' = [owed EXCEPT ![exec][s] = owed[exec][s] - pipe[s]]
    BY <2>1 DEF ProcessStreamClose, CloseStream
  <2>4. owed[exec][s] - pipe[s] \in Nat
    BY <2>2, <1>inv, <1>owed, <1>pipe
  <2>5. /\ owed'[exec][s] = owed[exec][s] - pipe[s]
        /\ \A t \in Streams \ {s} : owed'[exec][t] = owed[exec][t]
    BY <2>2, <2>3, <2>4, <1>owed, OwedTyped
  <2>6. /\ pipe'[s] = 0
        /\ \A t \in Streams \ {s} : pipe'[t] = pipe[t]
    BY <2>3, <1>pipe
  <2>7. \A t \in Streams : pipe'[t] + todo[t] <= MaxOut
    BY <2>6, <1>inv, <1>pipe, <1>todo, <1>max
  <2>8. \A t \in Streams : pipe'[t] <= owed'[exec][t]
    BY <2>2, <2>4, <2>5, <2>6, <1>inv
  <2>9. QED
    BY <2>3, <2>7, <2>8 DEF OutputBounds
<1>2. CASE StartCmd
  <2>1. PICK w \in Plans[plan].works : todo' = w.out
    BY <1>2 DEF StartCmd
  <2>2. w.out \in [Streams -> 0 .. MaxOut]
    BY <1>num, WorkOut
  <2>3. pipe' = NoData /\ owed' = owed /\ exec' = ncmd + 1 /\ ncmd + 1 \in Cmds
    BY <1>2, <1>num DEF StartCmd, Dispatch
  <2>4. \A s \in Streams : pipe'[s] = 0
    BY <2>3 DEF NoData
  <2>5. \A s \in Streams : todo'[s] \in 0 .. MaxOut
    BY <2>1, <2>2
  <2>6. \A s \in Streams : pipe'[s] + todo'[s] <= MaxOut
    BY <2>4, <2>5, <1>max
  <2>7. \A s \in Streams : owed'[exec'][s] \in Nat
    BY <2>3, <1>owed
  <2>8. QED
    BY <2>4, <2>6, <2>7 DEF OutputBounds
<1>3. CASE \E s \in Streams : StreamIn(s) \/ StreamHup(s)
  <2>1. PICK s \in Streams : StreamIn(s) \/ StreamHup(s)
    BY <1>3
  <2>2. \/ \E k \in 1 .. pipe[s] : pipe' = [pipe EXCEPT ![s] = pipe[s] - k]
        \/ pipe' = pipe
    BY <2>1 DEF StreamIn, StreamHup
  <2>3. \A t \in Streams : pipe'[t] \in Nat /\ pipe'[t] <= pipe[t]
    BY <2>2, <1>pipe
  <2>4. todo' = todo /\ owed' = owed /\ exec' = exec
    BY <2>1 DEF StreamIn, StreamHup
  <2>5. \A t \in Streams : pipe'[t] + todo[t] <= MaxOut
    BY <2>3, <1>inv, <1>pipe, <1>todo, <1>max
  <2>6. exec # 0 => \A t \in Streams : pipe'[t] <= owed[exec][t]
    BY <2>3, <1>inv, <1>pipe, <1>owed, <1>num
  <2>7. QED
    BY <2>4, <2>5, <2>6 DEF OutputBounds
<1>4. CASE Done
  <2>1. pipe' = NoData /\ todo' = todo /\ exec' = 0
    BY <1>4 DEF Done, FreeExec
  <2>2. \A s \in Streams : pipe'[s] = 0
    BY <2>1 DEF NoData
  <2>3. \A s \in Streams : pipe'[s] + todo'[s] <= MaxOut
    BY <2>1, <2>2, <1>inv, <1>pipe, <1>todo, <1>max
  <2>4. QED
    BY <2>1, <2>3 DEF OutputBounds
<1>5. CASE \E s \in Streams : ProcWrite(s)
  <2>1. PICK s \in Streams : ProcWrite(s)
    BY <1>5
  <2>2. /\ exec # 0 /\ exec \in Cmds /\ exec' = exec /\ todo[s] > 0
        /\ todo' = [todo EXCEPT ![s] = todo[s] - 1]
        /\ pipe' = [pipe EXCEPT ![s] = pipe[s] + 1]
        /\ owed' = [owed EXCEPT ![exec][s] = owed[exec][s] + 1]
    BY <2>1, <1>num DEF ProcWrite, Running
  <2>3. owed[exec][s] + 1 \in Nat
    BY <2>2, <1>owed
  <2>4. /\ owed'[exec][s] = owed[exec][s] + 1
        /\ \A t \in Streams \ {s} : owed'[exec][t] = owed[exec][t]
    BY <2>2, <2>3, <1>owed, OwedTyped
  <2>5. /\ pipe'[s] = pipe[s] + 1 /\ todo'[s] = todo[s] - 1
        /\ \A t \in Streams \ {s} : pipe'[t] = pipe[t] /\ todo'[t] = todo[t]
    BY <2>2, <1>pipe, <1>todo
  <2>6. \A t \in Streams : pipe'[t] + todo'[t] <= MaxOut
    BY <2>5, <1>inv, <1>pipe, <1>todo, <1>max
  <2>7. \A t \in Streams : pipe'[t] <= owed'[exec][t]
    <3>1. pipe[s] \in Nat /\ owed[exec][s] \in Nat /\ pipe[s] <= owed[exec][s]
      BY <2>2, <1>inv, <1>pipe, <1>owed
    <3>2. pipe'[s] <= owed'[exec][s]
      BY <3>1, <2>4, <2>5
    <3>3. \A t \in Streams \ {s} : pipe'[t] <= owed'[exec][t]
      BY <2>2, <2>4, <2>5, <1>inv
    <3>4. QED
      BY <3>2, <3>3
  <2>8. QED
    BY <2>2, <2>6, <2>7 DEF OutputBounds
<1>6. CASE (\E s \in Streams : ProcEpipe(s)) \/ ProcExit \/ ProcKilled \/ NotDone
  <2>1. /\ UNCHANGED <<pipe, exec, owed>>
        /\ \/ \E s \in Streams : todo' = [todo EXCEPT ![s] = 0]
           \/ todo' = NoData \/ todo' = todo
    BY <1>6 DEF ProcEpipe, ProcExit, ProcKilled, ProcEnds, NotDone, Streams
  <2>2. \A t \in Streams : todo'[t] \in Nat /\ todo'[t] <= todo[t]
    BY <2>1, <1>todo DEF NoData
  <2>3. \A t \in Streams : pipe[t] + todo'[t] <= MaxOut
    BY <2>2, <1>inv, <1>pipe, <1>todo, <1>max
  <2>4. QED
    BY <2>1, <2>3, <1>inv DEF OutputBounds
<1>7. CASE SilentCmd
  <2>1. exec = 0
    BY <1>7, <1>exec DEF SilentCmd, ExecIsState
  <2>2. QED
    BY <1>7, <2>1, <1>same DEF SilentCmd
<1>8. CASE \/ AsyncOut \/ ClientEvEnd \/ LoopStops
           \/ \E m \in Requests : Refuse(m.cmd)
           \/ ProcessAuth \/ EmptyCmd \/ ErrorCmd
           \/ \E cmd \in {"COMPLETION", "HELP"} : Hint(cmd)
           \/ ProcessStdin \/ ProcessStdinClose
  BY <1>8, <1>same DEF AsyncOut, ClientEvEnd, LoopStops, Refuse, ProcessAuth,
     EmptyCmd, ErrorCmd, Hint, ProcessStdin, ProcessStdinClose
<1>9. CASE \/ StdinReady \/ StdinHup \/ ProcRead \/ ProcCloseStdin
           \/ \E m \in Requests : ClientSend(m)
  BY <1>9, <1>same DEF StdinReady, StdinHup, ProcRead, ProcCloseStdin,
     ClientSend
<1>10. CASE UNCHANGED vars
  BY <1>10, <1>same DEF vars
<1>. QED
  BY <1>1, <1>2, <1>3, <1>4, <1>5, <1>6, <1>7, <1>8, <1>9, <1>10
     DEF Next, ClientEv, SigChldEv

(* Whatever is paused has a wake-up to come.                               *)
LEMMA WakeupStep ==
  ASSUME IInv, [Next]_vars
  PROVE  NoLostWakeup'
<1>. USE DEF ktpd, input, output, job, toclient, net
<1>out. (\E s \in Streams : stream[s] = "off") \/ obuf # << >> => pollout
  BY DEF IInv, NoLostWakeup
<1>in. ~pollin /\ stdin = "open" => exec # 0 /\ pollstdin
  BY DEF IInv, NoLostWakeup
<1>exec. ExecIsState
  BY DEF IInv
<1>heard. Heard
  BY DEF IInv
<1>stream. stream \in [Streams -> {"none", "in", "off", "gone", "closed"}]
  BY DEF IInv, TypeOK
<1>s2c. s2c \in Seq(AnswerType) /\ obuf \in Seq(AnswerType)
  BY DEF IInv, TypeOK
<1>pollout. pollout \in BOOLEAN
  BY DEF IInv, TypeOK
<1>bufin. bufin \in Nat
  BY DEF IInv, TypeOK
<1>pipe_in. pipe_in \in 0 .. PipeCap
  BY DEF IInv, TypeOK
<1>num. ncmd \in Nat
  BY PlanTyped
<1>limit. BufLimit \in Nat \ {0}
  BY BoundsAssumption
<1>goal. ASSUME (\E s \in Streams : stream'[s] = "off") \/ obuf' # << >>
                  => pollout',
                ~pollin' /\ stdin' = "open" => exec' # 0 /\ pollstdin'
         PROVE  NoLostWakeup'
  BY <1>goal DEF NoLostWakeup
<1>same. ASSUME UNCHANGED <<pollin, stdin, exec, pollstdin>>
         PROVE  ~pollin' /\ stdin' = "open" => exec' # 0 /\ pollstdin'
  BY <1>same, <1>in
<1>quiet. ASSUME UNCHANGED <<stream, obuf, pollout>>
          PROVE  (\E s \in Streams : stream'[s] = "off") \/ obuf' # << >>
                   => pollout'
  BY <1>quiet, <1>out
<1>sends. ASSUME NEW msgs \in Seq(AnswerType), Emit(msgs),
                 \A s \in Streams : stream'[s] = "off" =>
                   stream[s] = "off" \/ Len(obuf') > BufLimit
          PROVE  (\E s \in Streams : stream'[s] = "off") \/ obuf' # << >>
                   => pollout'
  <2>1. /\ obuf' # << >> => pollout'
        /\ pollout => pollout'
    BY <1>sends, <1>s2c, <1>pollout, EmitAppends
  <2>2. Len(obuf') > BufLimit => obuf' # << >>
    BY <1>limit
  <2>3. QED
    BY <2>1, <2>2, <1>sends, <1>out
<1>push. ASSUME exec # 0, PushStdin, exec' = exec
         PROVE  ~pollin' /\ stdin' = "open" => exec' # 0 /\ pollstdin'
  <2>1. PICK k \in Written(bufin) :
               /\ bufin' = bufin - k
               /\ pollin' = (pollin \/ bufin' < BufLimit)
               /\ pollstdin' = (pollstdin /\ bufin' # 0)
               /\ stdin' = IF bufin' = 0 /\ stdin_must_be_closed' THEN "closed"
                           ELSE stdin
    BY <1>push DEF PushStdin
  <2>2. bufin' \in Nat
    BY <2>1, <1>bufin, <1>pipe_in, WrittenBounds
  <2>3. ~pollin' => ~pollin /\ bufin' # 0
    <3>1. ~(bufin' < BufLimit) => bufin' # 0
      BY <2>2, <1>limit
    <3>2. pollin' = (pollin \/ bufin' < BufLimit)
      BY <2>1
    <3>3. QED
      BY <3>1, <3>2, Zenon
  <2>4. stdin' = "open" => stdin = "open"
    BY <2>1
  <2>5. QED
    BY <2>1, <2>3, <2>4, <1>push, <1>in
<1>1. CASE AsyncOut
  <2>1. obuf' # << >> => pollout'
    BY <1>1, <1>s2c, AsyncOutAppends
  <2>2. ASSUME NEW s \in Streams, stream'[s] = "off"
        PROVE  obuf' # << >>
    <3>1. exec # 0 /\ ~(Len(obuf') < BufLimit)
      BY <1>1, <2>2, <1>exec DEF AsyncOut, ExecIsState, NoStreams
    <3>2. QED
      BY <3>1, <1>limit
  <2>3. ~pollin' /\ stdin' = "open" => exec' # 0 /\ pollstdin'
    BY <1>1, <1>same DEF AsyncOut
  <2>4. QED
    BY <2>1, <2>2, <2>3, <1>goal
<1>2. CASE \/ \E m \in Requests : Refuse(m.cmd)
           \/ ProcessAuth \/ EmptyCmd \/ ErrorCmd \/ SilentCmd
           \/ \E cmd \in {"COMPLETION", "HELP"} : Hint(cmd)
  <2>1. UNCHANGED <<pollin, stdin, exec, pollstdin, stream>>
    BY <1>2 DEF Refuse, ProcessAuth, EmptyCmd, ErrorCmd, SilentCmd, Hint
  <2>2. \/ \E msgs \in Seq(AnswerType) : Emit(msgs)
        \/ UNCHANGED toclient
    BY <1>2, SendsMessages DEF Sends
  <2>3. (\E s \in Streams : stream'[s] = "off") \/ obuf' # << >> => pollout'
    BY <2>1, <2>2, <1>sends, <1>quiet
  <2>4. QED
    BY <2>1, <2>3, <1>same, <1>goal
<1>3. CASE StartCmd
  <2>1. stream' = [s \in Streams |-> "in"] /\ pollin' = pollin /\ exec = 0
    BY <1>3, <1>exec DEF StartCmd, ExecIsState
  <2>2. pollin
    <3>1. inev \/ pollin
      BY <1>3, MessageStep
    <3>2. QED
      BY <2>1, <3>1, <1>heard DEF Heard
  <2>3. \/ \E msgs \in Seq(AnswerType) : Emit(msgs)
        \/ UNCHANGED toclient
    BY <1>3, SendsMessages DEF Sends
  <2>4. \A s \in Streams : stream'[s] # "off"
    BY <2>1
  <2>5. (\E s \in Streams : stream'[s] = "off") \/ obuf' # << >> => pollout'
    BY <2>3, <2>4, <1>sends, <1>out
  <2>6. QED
    BY <2>1, <2>2, <2>5, <1>goal
<1>4. CASE ProcessStdin
  <2>1. PICK k \in Written(bufin + 1) : bufin' = bufin + 1 - k
    BY <1>4 DEF ProcessStdin
  <2>2. /\ UNCHANGED <<stdin, exec, stream>> /\ UNCHANGED toclient
        /\ exec # 0
        /\ pollstdin' = (pollstdin \/ (stdin = "open" /\ bufin' # 0))
        /\ pollin' = (pollin /\ bufin' <= BufLimit)
    BY <1>4, <1>exec DEF ProcessStdin, NoEmit, ExecIsState
  <2>3. bufin' \in Nat
    <3>1. bufin + 1 \in Nat
      BY <1>bufin
    <3>2. k \in Nat /\ k <= bufin + 1
      BY <3>1, <1>pipe_in, WrittenBounds
    <3>3. QED
      BY <2>1, <3>2, <1>bufin
  <2>4. ~(bufin' <= BufLimit) => bufin' # 0
    BY <2>3, <1>limit
  <2>5. ~pollin' /\ stdin' = "open" => exec' # 0 /\ pollstdin'
    BY <2>2, <2>4, <1>in
  <2>6. QED
    BY <2>2, <2>5, <1>quiet, <1>goal
<1>5. CASE ProcessStdinClose \/ StdinReady
  <2>1. /\ exec # 0 /\ PushStdin /\ exec' = exec
        /\ UNCHANGED <<stream, obuf, pollout>>
    BY <1>5, <1>exec DEF ProcessStdinClose, StdinReady, NoEmit, ExecIsState
  <2>2. QED
    BY <2>1, <1>push, <1>quiet, <1>goal
<1>6. CASE \E s \in Streams : ProcessStreamClose(s)
  <2>1. PICK s \in Streams : ProcessStreamClose(s)
    BY <1>6
  <2>2. /\ stream' = [stream EXCEPT ![s] = "closed"]
        /\ UNCHANGED <<obuf, pollout, pollin, stdin, exec, pollstdin>>
    BY <2>1 DEF ProcessStreamClose, CloseStream, NoEmit
  <2>3. \A t \in Streams : stream'[t] = "off" => stream[t] = "off"
    BY <2>2, <1>stream
  <2>4. QED
    BY <2>2, <2>3, <1>out, <1>same, <1>goal
<1>7. CASE StdinHup
  <2>1. UNCHANGED <<stream, obuf, pollout>> /\ stdin' = "gone"
    BY <1>7 DEF StdinHup
  <2>2. QED
    BY <2>1, <1>quiet, <1>goal
<1>8. CASE \E s \in Streams : StreamIn(s)
  <2>1. PICK s \in Streams : StreamIn(s)
    BY <1>8
  <2>2. \E msgs \in Seq(AnswerType) : Emit(msgs)
    <3>1. \E k \in 1 .. pipe[s] : Emit(Data(s, exec, k))
      BY <2>1 DEF StreamIn
    <3>2. \A k \in 1 .. pipe[s] : Data(s, exec, k) \in Seq(AnswerType)
      <4>1. pipe[s] \in Nat /\ exec \in Nat
        BY PlanTyped DEF IInv, TypeOK
      <4>2. QED
        BY <4>1, DataTyped
    <3>3. QED
      BY <3>1, <3>2
  <2>3. PauseAfter(s) /\ UNCHANGED <<pollin, stdin, exec, pollstdin>>
    BY <2>1 DEF StreamIn
  <2>4. \A t \in Streams : stream'[t] = "off" =>
          stream[t] = "off" \/ Len(obuf') > BufLimit
    BY <2>3, <1>stream DEF PauseAfter
  <2>5. QED
    BY <2>2, <2>3, <2>4, <1>sends, <1>same, <1>goal
<1>9. CASE \E s \in Streams : StreamHup(s)
  <2>1. PICK s \in Streams : StreamHup(s)
    BY <1>9
  <2>2. \/ \E msgs \in Seq(AnswerType) : Emit(msgs)
        \/ UNCHANGED toclient
    BY <2>1, SendsMessages DEF Sends
  <2>3. /\ stream' = [stream EXCEPT ![s] = "gone"]
        /\ UNCHANGED <<pollin, stdin, exec, pollstdin>>
    BY <2>1 DEF StreamHup
  <2>4. \A t \in Streams : stream'[t] = "off" => stream[t] = "off"
    BY <2>3, <1>stream
  <2>5. (\E t \in Streams : stream'[t] = "off") \/ obuf' # << >> => pollout'
    BY <2>2, <2>4, <1>sends, <1>out
  <2>6. QED
    BY <2>3, <2>5, <1>same, <1>goal
<1>10. CASE Done
  <2>1. \/ \E msgs \in Seq(AnswerType) : Emit(msgs)
        \/ UNCHANGED toclient
    BY <1>10, SendsMessages DEF Sends
  <2>2. stream' = NoStreams /\ stdin' = "none"
    BY <1>10 DEF Done, FreeExec
  <2>3. \A s \in Streams : stream'[s] # "off"
    BY <2>2 DEF NoStreams
  <2>4. (\E s \in Streams : stream'[s] = "off") \/ obuf' # << >> => pollout'
    BY <2>1, <2>3, <1>sends, <1>out
  <2>5. QED
    BY <2>2, <2>4, <1>goal
<1>11. CASE ClientEvEnd \/ LoopStops \/ NotDone
  BY <1>11, <1>same, <1>quiet, <1>goal DEF ClientEvEnd, LoopStops, NotDone
<1>12. CASE \/ \E s \in Streams : ProcWrite(s) \/ ProcEpipe(s)
            \/ ProcRead \/ ProcCloseStdin \/ ProcExit \/ ProcKilled
            \/ \E m \in Requests : ClientSend(m)
  BY <1>12, <1>same, <1>quiet, <1>goal DEF ProcWrite, ProcEpipe, ProcRead,
     ProcCloseStdin, ProcExit, ProcKilled, ProcEnds, ClientSend
<1>13. CASE UNCHANGED vars
  BY <1>13, <1>same, <1>quiet, <1>goal DEF vars
<1>. QED
  BY <1>1, <1>2, <1>3, <1>4, <1>5, <1>6, <1>7, <1>8, <1>9, <1>10, <1>11,
     <1>12, <1>13 DEF Next, ClientEv, SigChldEv

-----------------------------------------------------------------------------
(* Initially nothing is paused, owed or under way.                         *)
LEMMA InitHolds ==
  ASSUME Init
  PROVE  IInv
<1>1. /\ exec = 0 /\ ncmd = 0 /\ sent = 0 /\ bufin = 0 /\ left = 0
      /\ pipe_in = 0 /\ c2s = << >> /\ s2c = << >> /\ obuf = << >>
      /\ plan \in DOMAIN Plans /\ state = "UNAUTHORIZED" /\ stdin = "none"
  BY DEF Init
<1>2. /\ stream = NoStreams /\ pipe = NoData /\ todo = NoData
      /\ owed = [n \in Cmds |-> NoData]
  BY DEF Init
<1>3. Plans[plan].msgs \in Nat
  BY <1>1, PlansAssumption, BoundsAssumption
<1>4. TypeOK
  <2>1. /\ c2s \in Seq(Requests) /\ s2c \in Seq(AnswerType)
        /\ obuf \in Seq(AnswerType)
    BY <1>1, EmptySeq
  <2>2. /\ exec \in 0 .. ncmd /\ ncmd \in 0 .. sent
        /\ sent \in 0 .. Plans[plan].msgs /\ pipe_in \in 0 .. PipeCap
        /\ bufin \in Nat /\ left \in Nat
    BY <1>1, <1>3, BoundsAssumption
  <2>3. /\ stream \in [Streams -> {"none", "in", "off", "gone", "closed"}]
        /\ pipe \in [Streams -> Nat] /\ todo \in [Streams -> Nat]
        /\ owed \in [Cmds -> [Streams -> Nat]]
    BY <1>2 DEF NoStreams, NoData
  <2>4. QED
    BY <2>1, <2>2, <2>3 DEF Init, TypeOK, States
<1>5. OutputBounds
  <2>1. \A s \in Streams : pipe[s] = 0 /\ todo[s] = 0
    BY <1>2 DEF NoData
  <2>2. QED
    BY <1>1, <2>1, MaxOutAssumption DEF OutputBounds
<1>6. Counted
  BY <1>1, EmptySeq DEF Counted
<1>7. NoLostWakeup
  <2>1. \A s \in Streams : stream[s] # "off"
    BY <1>2 DEF NoStreams
  <2>2. QED
    BY <1>1, <2>1 DEF NoLostWakeup
<1>8. ExecIsState /\ Heard /\ ExitStops
  BY DEF Init, ExecIsState, Heard, ExitStops
<1>9. QED
  BY <1>4, <1>5, <1>6, <1>7, <1>8 DEF IInv

(* The inductive invariant holds in every reachable state of a session,    *)
(* whatever its client sends and its commands do.                          *)
THEOREM SessionInvariant == Spec => []IInv
<1>1. Init => IInv
  BY InitHolds
<1>2. IInv /\ [Next]_vars => IInv'
  BY TypeStep, ExecStep, BoundsStep, CountStep, WakeupStep, HeardStep,
     ExitStopsStep DEF IInv
<1>3. QED
  BY <1>1, <1>2, PTL DEF Spec

(* Every variable of a session keeps its type: among others, numbers of     *)
(* commands are those of messages sent, and the buffer to the client holds *)
(* whole messages.                                                         *)
THEOREM SessionTypeOK == Spec => []TypeOK
<1>1. IInv => TypeOK
  BY DEF IInv
<1>2. QED
  BY <1>1, SessionInvariant, PTL

(* What ktpd_session.c pauses it resumes: a stream that is not polled on   *)
(* account of a full buffer has a POLLOUT of the client to come, and a     *)
(* client that is not polled has a write to the command's stdin to come,   *)
(* for every BUF_LIMIT, size of pipes, client and command.                 *)
THEOREM SessionNoLostWakeup == Spec => []NoLostWakeup
<1>1. IInv => NoLostWakeup
  BY DEF IInv
<1>2. QED
  BY <1>1, SessionInvariant, PTL

-----------------------------------------------------------------------------
(* Without a SIGTERM during a local execution, the done flag is looked at   *)
(* in time.                                                                *)
NoSigterm == \A p \in DOMAIN Plans : ~Plans[p].term

LEMMA NoTerms ==
  ASSUME NoSigterm, IInv
  PROVE  \A t \in Terms : ~t
  BY DEF NoSigterm, Terms, IInv, Counted

OverExits == session_done /\ exec = 0 => exit

LEMMA OverStep ==
  ASSUME NoSigterm, IInv, OverExits, [Next]_vars
  PROVE  OverExits'
<1>. USE DEF ktpd, input, output, job, toclient, net
<1>terms. \A t \in Terms : ~t
  BY NoTerms
<1>num. ncmd \in Nat
  BY PlanTyped
<1>exec. ExecIsState
  BY DEF IInv
<1>same. ASSUME UNCHANGED <<session_done, exit, exec>>
         PROVE  OverExits'
  BY <1>same DEF OverExits
<1>over. ASSUME NEW over, NEW later \in Terms, SetDone(over, later)
         PROVE  OverExits'
  BY <1>over, <1>terms DEF SetDone, OverExits
<1>1. CASE ProcessAuth \/ EmptyCmd
  <2>1. /\ exec' = exec
        /\ (session_done' => session_done) \/ exit'
        /\ exit => exit'
    <3>1. \/ \E t \in Terms : session_done' = (session_done \/ t)
          \/ session_done' = session_done
      BY <1>1 DEF ProcessAuth, EmptyCmd
    <3>2. session_done' => session_done
      BY <3>1, <1>terms, Zenon
    <3>3. exec' = exec /\ (exit' = exit \/ exit' = TRUE)
      BY <1>1 DEF ProcessAuth, EmptyCmd
    <3>4. QED
      BY <3>2, <3>3
  <2>2. QED
    BY <2>1 DEF OverExits
<1>2. CASE ErrorCmd \/ SilentCmd \/ Done
  <2>1. \E over : \E later \in Terms : SetDone(over, later)
    BY <1>2 DEF ErrorCmd, SilentCmd, Done
  <2>2. QED
    BY <2>1, <1>over
<1>3. CASE StartCmd
  BY <1>3, <1>num DEF StartCmd, OverExits
<1>4. CASE \E cmd \in {"COMPLETION", "HELP"} : Hint(cmd)
  <2>1. \/ \E over : \E later \in Terms : SetDone(over, later)
        \/ /\ \E parsing \in Terms : session_done' = (session_done \/ parsing)
           /\ UNCHANGED <<exit, exec>>
    BY <1>4 DEF Hint
  <2>2. QED
    BY <2>1, <1>over, <1>terms DEF OverExits
<1>5. CASE \/ \E m \in Requests : Refuse(m.cmd)
           \/ ProcessStdin \/ ProcessStdinClose
           \/ \E s \in Streams : ProcessStreamClose(s)
           \/ AsyncOut \/ ClientEvEnd \/ LoopStops
  BY <1>5, <1>same DEF Refuse, ProcessStdin, ProcessStdinClose,
     ProcessStreamClose, AsyncOut, ClientEvEnd, LoopStops
<1>6. CASE \/ StdinReady \/ StdinHup \/ NotDone
           \/ \E s \in Streams : StreamIn(s) \/ StreamHup(s)
  BY <1>6, <1>same DEF StdinReady, StdinHup, NotDone, StreamIn, StreamHup
<1>7. CASE \/ \E s \in Streams : ProcWrite(s) \/ ProcEpipe(s)
           \/ ProcRead \/ ProcCloseStdin \/ ProcExit \/ ProcKilled
           \/ \E m \in Requests : ClientSend(m)
  BY <1>7, <1>same DEF ProcWrite, ProcEpipe, ProcRead, ProcCloseStdin,
     ProcExit, ProcKilled, ProcEnds, ClientSend
<1>8. CASE UNCHANGED vars
  BY <1>8, <1>same DEF vars
<1>. QED
  BY <1>1, <1>2, <1>3, <1>4, <1>5, <1>6, <1>7, <1>8
     DEF Next, ClientEv, SigChldEv

(* What the client has been told it has been told.                         *)
LEMMA AnswersGrow ==
  ASSUME IInv, [Next]_vars
  PROVE  /\ Answers \in Seq(AnswerType)
         /\ \E msgs \in Seq(AnswerType) : Answers' = Answers \o msgs
<1>. USE DEF ktpd, input, output, job, toclient, net
<1>typed. s2c \in Seq(AnswerType) /\ obuf \in Seq(AnswerType)
  BY DEF IInv, TypeOK
<1>pollout. pollout \in BOOLEAN
  BY DEF IInv, TypeOK
<1>answers. Answers \in Seq(AnswerType)
  BY <1>typed, ConcatProperties DEF Answers
<1>none. ASSUME Answers' = Answers
         PROVE  \E msgs \in Seq(AnswerType) : Answers' = Answers \o msgs
  BY <1>none, <1>answers, EmptySeq, ConcatEmptySeq
<1>same. ASSUME UNCHANGED <<s2c, obuf>>
         PROVE  \E msgs \in Seq(AnswerType) : Answers' = Answers \o msgs
  BY <1>same, <1>none DEF Answers
<1>1. CASE Sends
  <2>1. \/ \E msgs \in Seq(AnswerType) : Emit(msgs)
        \/ UNCHANGED <<s2c, obuf>>
    BY <1>1, SendsMessages
  <2>2. QED
    BY <2>1, <1>typed, <1>pollout, <1>answers, <1>same, EmitAppends
<1>2. CASE AsyncOut
  BY <1>2, <1>typed, <1>answers, <1>none, AsyncOutAppends
<1>3. CASE \/ ClientEvEnd \/ LoopStops \/ ProcessStdin \/ ProcessStdinClose
           \/ \E s \in Streams : ProcessStreamClose(s)
           \/ StdinReady \/ StdinHup \/ NotDone
  BY <1>3, <1>answers, <1>same DEF ClientEvEnd, LoopStops, ProcessStdin,
     ProcessStdinClose, ProcessStreamClose, NoEmit, StdinReady, StdinHup,
     NotDone
<1>4. CASE \/ \E s \in Streams : ProcWrite(s) \/ ProcEpipe(s)
           \/ ProcRead \/ ProcCloseStdin \/ ProcExit \/ ProcKilled
           \/ \E m \in Requests : ClientSend(m)
  BY <1>4, <1>answers, <1>same DEF ProcWrite, ProcEpipe, ProcRead,
     ProcCloseStdin, ProcExit, ProcKilled, ProcEnds, ClientSend
<1>5. CASE UNCHANGED vars
  BY <1>5, <1>answers, <1>same DEF vars
<1>. QED
  BY <1>1, <1>2, <1>3, <1>4, <1>5, <1>answers
     DEF Next, ClientEv, SigChldEv, Sends

(* The last message of an answer that says that the session is over.       *)
LEMMA ExitIsSaid ==
  ASSUME NEW before \in Seq(AnswerType), NEW msgs \in Seq(AnswerType),
         \E i \in DOMAIN msgs : "EXIT" \in msgs[i].status
  PROVE  \E i \in DOMAIN (before \o msgs) :
           "EXIT" \in (before \o msgs)[i].status
<1>1. PICK i \in DOMAIN msgs : "EXIT" \in msgs[i].status
  OBVIOUS
<1>2. /\ DOMAIN msgs = 1 .. Len(msgs) /\ Len(msgs) \in Nat
      /\ Len(before) \in Nat
  BY LenProperties
<1>3. /\ before \o msgs \in Seq(AnswerType)
      /\ Len(before \o msgs) = Len(before) + Len(msgs)
      /\ \A j \in 1 .. Len(before) + Len(msgs) : (before \o msgs)[j] =
           IF j <= Len(before) THEN before[j] ELSE msgs[j - Len(before)]
  BY ConcatProperties
<1>4. DOMAIN (before \o msgs) = 1 .. Len(before) + Len(msgs)
  BY <1>3, LenProperties
<1>5. /\ Len(before) + i \in 1 .. Len(before) + Len(msgs)
      /\ ~(Len(before) + i <= Len(before))
      /\ Len(before) + i - Len(before) = i
  BY <1>1, <1>2
<1>6. (before \o msgs)[Len(before) + i] = msgs[i]
  BY <1>3, <1>5
<1>7. QED
  BY <1>1, <1>4, <1>5, <1>6

LEMMA ExitWasSaid ==
  ASSUME NEW before \in Seq(AnswerType), NEW msgs \in Seq(AnswerType),
         \E i \in DOMAIN before : "EXIT" \in before[i].status
  PROVE  \E i \in DOMAIN (before \o msgs) :
           "EXIT" \in (before \o msgs)[i].status
<1>1. PICK i \in DOMAIN before : "EXIT" \in before[i].status
  OBVIOUS
<1>2. /\ DOMAIN before = 1 .. Len(before) /\ Len(msgs) \in Nat
      /\ Len(before) \in Nat
  BY LenProperties
<1>3. /\ before \o msgs \in Seq(AnswerType)
      /\ Len(before \o msgs) = Len(before) + Len(msgs)
      /\ \A j \in 1 .. Len(before) + Len(msgs) : (before \o msgs)[j] =
           IF j <= Len(before) THEN before[j] ELSE msgs[j - Len(before)]
  BY ConcatProperties
<1>4. DOMAIN (before \o msgs) = 1 .. Len(before) + Len(msgs)
  BY <1>3, LenProperties
<1>5. i \in 1 .. Len(before) + Len(msgs) /\ i <= Len(before)
  BY <1>1, <1>2
<1>6. (before \o msgs)[i] = before[i]
  BY <1>3, <1>5
<1>7. QED
  BY <1>1, <1>4, <1>5, <1>6

LEMMA ExitIsOnlySaid ==
  ASSUME NEW m, "EXIT" \in m.status
  PROVE  \E i \in DOMAIN <<m>> : "EXIT" \in <<m>>[i].status
  OBVIOUS

(* A final answer that is over says so.                                    *)
LEMMA FinalAnswerSaysExit ==
  ASSUME NEW n \in Nat, NEW data \in [Streams -> Nat]
  PROVE  \E i \in DOMAIN FinalAnswer(n, data, TRUE) :
           "EXIT" \in FinalAnswer(n, data, TRUE)[i].status
<1>. DEFINE out == Data("STDOUT", n, data["STDOUT"]) \o
                   Data("STDERR", n, data["STDERR"])
            last == <<Answer("CMD_ACK", n, ExitStatus(TRUE))>>
<1>1. data["STDOUT"] \in Nat /\ data["STDERR"] \in Nat
  BY DEF Streams
<1>2. /\ Data("STDOUT", n, data["STDOUT"]) \in Seq(AnswerType)
      /\ Data("STDERR", n, data["STDERR"]) \in Seq(AnswerType)
  BY <1>1, DataTyped DEF Streams
<1>3. out \in Seq(AnswerType)
  BY <1>2, ConcatProperties
<1>4. last \in Seq(AnswerType)
  BY AnswerTyped, AckTyped DEF ExitStatus, Flags
<1>5. \E i \in DOMAIN last : "EXIT" \in last[i].status
  <2>1. 1 \in DOMAIN last /\ last[1] = Answer("CMD_ACK", n, ExitStatus(TRUE))
    OBVIOUS
  <2>2. "EXIT" \in Answer("CMD_ACK", n, ExitStatus(TRUE)).status
    BY DEF Answer, ExitStatus
  <2>3. QED
    BY <2>1, <2>2
<1>6. FinalAnswer(n, data, TRUE) = out \o last
  BY DEF FinalAnswer
<1>. HIDE DEF out, last
<1>7. QED
  BY <1>3, <1>4, <1>5, <1>6, ExitIsSaid

ExitSaid == exit => \E i \in DOMAIN Answers : "EXIT" \in Answers[i].status

LEMMA SaidStep ==
  ASSUME NoSigterm, IInv, OverExits, ExitSaid, [Next]_vars
  PROVE  ExitSaid'
<1>. USE DEF ktpd, input, output, job, toclient, net
<1>terms. \A t \in Terms : ~t
  BY NoTerms
<1>typed. s2c \in Seq(AnswerType) /\ obuf \in Seq(AnswerType)
  BY DEF IInv, TypeOK
<1>pollout. pollout \in BOOLEAN
  BY DEF IInv, TypeOK
<1>pipe. pipe \in [Streams -> Nat]
  BY DEF IInv, TypeOK
<1>num. /\ ncmd \in Nat /\ exec \in Nat /\ ncmd + 1 \in Nat
        /\ Plans[plan].works \subseteq WorkType
  BY PlanTyped
<1>exec. ExecIsState
  BY DEF IInv
<1>answers. Answers \in Seq(AnswerType)
  BY AnswersGrow
<1>same. ASSUME exit' => exit
         PROVE  ExitSaid'
  <2>1. PICK msgs \in Seq(AnswerType) : Answers' = Answers \o msgs
    BY AnswersGrow
  <2>2. ASSUME exit
        PROVE  \E i \in DOMAIN (Answers \o msgs) :
                 "EXIT" \in (Answers \o msgs)[i].status
    BY <2>2, <1>answers, ExitWasSaid DEF ExitSaid
  <2>3. QED
    BY <2>1, <2>2, <1>same DEF ExitSaid
<1>says. ASSUME NEW msgs \in Seq(AnswerType), Emit(msgs),
                \E i \in DOMAIN msgs : "EXIT" \in msgs[i].status
         PROVE  ExitSaid'
  <2>1. Answers' = Answers \o msgs
    BY <1>says, <1>typed, <1>pollout, EmitAppends
  <2>2. QED
    BY <2>1, <1>says, <1>answers, ExitIsSaid DEF ExitSaid
<1>final. ASSUME NEW n \in Nat, NEW data \in [Streams -> Nat], NEW over,
                 Emit(FinalAnswer(n, data, over)), over = TRUE
          PROVE  ExitSaid'
  BY <1>final, <1>says, FinalAnswerSaysExit, FinalAnswerTyped
<1>1. CASE ProcessAuth
  <2>1. \/ exit' = exit
        \/ Emit(<<Answer("AUTH_ACK", 0, {"ERROR", "EXIT"})>>)
    BY <1>1 DEF ProcessAuth
  <2>2. <<Answer("AUTH_ACK", 0, {"ERROR", "EXIT"})>> \in Seq(AnswerType)
    BY AckTyped, AnswerTyped DEF Flags
  <2>3. \E i \in DOMAIN <<Answer("AUTH_ACK", 0, {"ERROR", "EXIT"})>> :
          "EXIT" \in <<Answer("AUTH_ACK", 0, {"ERROR", "EXIT"})>>[i].status
    <3>1. "EXIT" \in Answer("AUTH_ACK", 0, {"ERROR", "EXIT"}).status
      BY DEF Answer
    <3>2. QED
      BY <3>1
  <2>4. QED
    BY <2>1, <2>2, <2>3, <1>same, <1>says
<1>2. CASE ErrorCmd
  <2>1. exec = 0 /\ (exit' => exit \/ session_done)
    <3>1. \E parsing \in Terms : exit' = (exit \/ (session_done \/ parsing))
      BY <1>2 DEF ErrorCmd, SetDone
    <3>2. exit' => exit \/ session_done
      BY <3>1, <1>terms, Zenon
    <3>3. QED
      BY <1>2, <3>2, <1>exec DEF ErrorCmd, ExecIsState
  <2>2. QED
    BY <2>1, <1>same DEF OverExits
<1>3. CASE SilentCmd
  <2>1. PICK w \in Plans[plan].works, running \in Terms :
          LET over == session_done \/ Message.quit \/ running
          IN /\ exit' = (exit \/ over)
             /\ Emit(FinalAnswer(ncmd + 1, w.out, over))
    BY <1>3 DEF SilentCmd, SetDone
  <2>. DEFINE over == session_done \/ Message.quit \/ running
  <2>2. exit' = (exit \/ over) /\ Emit(FinalAnswer(ncmd + 1, w.out, over))
    BY <2>1
  <2>3. w.out \in [Streams -> Nat]
    BY <1>num, WorkOut
  <2>4. over \in BOOLEAN
    OBVIOUS
  <2>. HIDE DEF over
  <2>5. over = TRUE => ExitSaid'
    BY <2>2, <2>3, <1>num, <1>final
  <2>6. over = FALSE => (exit' => exit)
    BY <2>2
  <2>7. QED
    BY <2>4, <2>5, <2>6, <1>same
<1>4. CASE Done
  <2>1. PICK log \in Terms :
          LET over == session_done \/ log
          IN exit' = (exit \/ over) /\ Emit(FinalAnswer(exec, pipe, over))
    BY <1>4 DEF Done, SetDone
  <2>. DEFINE over == session_done \/ log
  <2>2. exit' = (exit \/ over) /\ Emit(FinalAnswer(exec, pipe, over))
    BY <2>1
  <2>4. over \in BOOLEAN
    OBVIOUS
  <2>. HIDE DEF over
  <2>5. over = TRUE => ExitSaid'
    BY <2>2, <1>pipe, <1>num, <1>final
  <2>6. over = FALSE => (exit' => exit)
    BY <2>2
  <2>7. QED
    BY <2>4, <2>5, <2>6, <1>same
<1>5. CASE \E cmd \in {"COMPLETION", "HELP"} : Hint(cmd)
  <2>1. PICK cmd \in {"COMPLETION", "HELP"} : Hint(cmd)
    BY <1>5
  <2>2. PICK parsing \in Terms :
          LET over == session_done \/ parsing
          IN \/ exit' = exit
             \/ /\ exit' = (exit \/ over)
                /\ Emit(<<Answer(Ack[cmd], 0, ExitStatus(over))>>)
    BY <2>1 DEF Hint, SetDone
  <2>. DEFINE over == session_done \/ parsing
  <2>3. \/ exit' = exit
        \/ /\ exit' = (exit \/ over)
           /\ Emit(<<Answer(Ack[cmd], 0, ExitStatus(over))>>)
    BY <2>2
  <2>4. over \in BOOLEAN
    OBVIOUS
  <2>. HIDE DEF over
  <2>5. <<Answer(Ack[cmd], 0, ExitStatus(TRUE))>> \in Seq(AnswerType)
    BY AckTyped, AnswerTyped DEF ExitStatus, Flags
  <2>6. \E i \in DOMAIN <<Answer(Ack[cmd], 0, ExitStatus(TRUE))>> :
          "EXIT" \in <<Answer(Ack[cmd], 0, ExitStatus(TRUE))>>[i].status
    <3>1. "EXIT" \in Answer(Ack[cmd], 0, ExitStatus(TRUE)).status
      BY DEF Answer, ExitStatus
    <3>2. QED
      BY <3>1, ExitIsOnlySaid
  <2>7. over = TRUE => ExitSaid'
    <3>1. exit' = exit => ExitSaid'
      BY <1>same
    <3>2. over = TRUE /\ Emit(<<Answer(Ack[cmd], 0, ExitStatus(over))>>)
            => Emit(<<Answer(Ack[cmd], 0, ExitStatus(TRUE))>>)
      OBVIOUS
    <3>3. Emit(<<Answer(Ack[cmd], 0, ExitStatus(TRUE))>>) => ExitSaid'
      BY <2>5, <2>6, <1>says
    <3>4. QED
      BY <2>3, <3>1, <3>2, <3>3
  <2>8. over = FALSE => (exit' => exit)
    BY <2>3
  <2>9. QED
    BY <2>4, <2>7, <2>8, <1>same
<1>6. CASE \/ EmptyCmd \/ StartCmd \/ \E m \in Requests : Refuse(m.cmd)
           \/ ProcessStdin \/ ProcessStdinClose
           \/ \E s \in Streams : ProcessStreamClose(s)
           \/ AsyncOut \/ ClientEvEnd \/ LoopStops
  <2>1. exit' = exit
    BY <1>6 DEF EmptyCmd, StartCmd, Refuse, ProcessStdin,
       ProcessStdinClose, ProcessStreamClose, AsyncOut, ClientEvEnd, LoopStops
  <2>2. QED
    BY <2>1, <1>same
<1>7. CASE \/ StdinReady \/ StdinHup \/ NotDone
           \/ \E s \in Streams : StreamIn(s) \/ StreamHup(s)
  BY <1>7, <1>same DEF StdinReady, StdinHup, NotDone, StreamIn, StreamHup
<1>8. CASE \/ \E s \in Streams : ProcWrite(s) \/ ProcEpipe(s)
           \/ ProcRead \/ ProcCloseStdin \/ ProcExit \/ ProcKilled
           \/ \E m \in Requests : ClientSend(m)
  BY <1>8, <1>same DEF ProcWrite, ProcEpipe, ProcRead, ProcCloseStdin,
     ProcExit, ProcKilled, ProcEnds, ClientSend
<1>9. CASE UNCHANGED vars
  BY <1>9, <1>same DEF vars
<1>. QED
  BY <1>1, <1>2, <1>3, <1>4, <1>5, <1>6, <1>7, <1>8, <1>9
     DEF Next, ClientEv, SigChldEv

(* A session that is over leaves its event loop at once, and not one       *)
(* command later: ktpd_session.c:1543.  It holds as long as SIGTERM does   *)
(* not hit a local execution: one that comes after the done flag was read  *)
(* ends the session with the next command.  The first half, the exit flag  *)
(* stops the loop, holds with SIGTERM too (ExitStops of the invariant).    *)
THEOREM SessionExitIsPrompt ==
  ASSUME NoSigterm
  PROVE  Spec => []ExitIsPrompt
<1>1. Init => IInv /\ OverExits
  BY InitHolds DEF Init, OverExits
<1>2. IInv /\ OverExits /\ [Next]_vars => OverExits'
  BY NoSigterm, OverStep
<1>3. IInv /\ OverExits => ExitIsPrompt
  BY DEF IInv, ExitStops, OverExits, ExitIsPrompt
<1>4. QED
  BY <1>1, <1>2, <1>3, SessionInvariant, PTL DEF Spec

(* The client is told that the session is over before the loop stops for   *)
(* that reason (ktpd_session.c:557 "Notify client about exiting"), on      *)
(* every path that sets the exit flag, without SIGTERM as above.           *)
THEOREM SessionExitAnnounced ==
  ASSUME NoSigterm
  PROVE  Spec => []ExitAnnounced
<1>1. Init => OverExits /\ ExitSaid
  BY DEF Init, OverExits, ExitSaid
<1>2. IInv /\ OverExits /\ [Next]_vars => OverExits'
  BY NoSigterm, OverStep
<1>3. IInv /\ OverExits /\ ExitSaid /\ [Next]_vars => ExitSaid'
  BY NoSigterm, SaidStep
<1>4. ExitSaid => ExitAnnounced
  BY DEF ExitSaid, ExitAnnounced
<1>5. QED
  BY <1>1, <1>2, <1>3, <1>4, SessionInvariant, PTL DEF Spec

-----------------------------------------------------------------------------
(* Output is conserved: units are counted message by message.              *)

(* msgs are worth k units of stream s of command n, whatever they follow.  *)
Worth(msgs, n, s, k) ==
  \A q \in Seq(AnswerType) :
    IsFiniteSet(Units(q, n, s)) =>
      /\ IsFiniteSet(Units(q \o msgs, n, s))
      /\ Cardinality(Units(q \o msgs, n, s)) = Cardinality(Units(q, n, s)) + k

(* The units of a message stand alone.                                     *)
LEMMA ItsUnits ==
  ASSUME NEW i, NEW len \in Nat
  PROVE  IsFiniteSet({i} \X (1 .. len)) /\ Cardinality({i} \X (1 .. len)) = len
<1>1. IsFiniteSet({i}) /\ Cardinality({i}) = 1
  BY FS_Singleton
<1>2. IsFiniteSet(1 .. len) /\ Cardinality(1 .. len) = len
  <2>1. 1 \in Int /\ len \in Int
    OBVIOUS
  <2>2. /\ IsFiniteSet(1 .. len)
        /\ Cardinality(1 .. len) = IF 1 > len THEN 0 ELSE len - 1 + 1
    BY <2>1, FS_Interval, Zenon
  <2>3. QED
    BY <2>2
<1>3. /\ IsFiniteSet({i} \X (1 .. len))
      /\ Cardinality({i} \X (1 .. len)) = Cardinality({i}) * Cardinality(1 .. len)
  BY <1>1, <1>2, FS_Product
<1>4. QED
  BY <1>1, <1>2, <1>3

LEMMA WorthOne ==
  ASSUME NEW m \in AnswerType, NEW n, NEW s
  PROVE  Worth(<<m>>, n, s, IF m.cmd = s /\ m.n = n THEN m.len ELSE 0)
<1> SUFFICES ASSUME NEW q \in Seq(AnswerType), IsFiniteSet(Units(q, n, s))
             PROVE  LET r == q \o <<m>>
                        k == IF m.cmd = s /\ m.n = n THEN m.len ELSE 0
                    IN /\ IsFiniteSet(Units(r, n, s))
                       /\ Cardinality(Units(r, n, s)) = Cardinality(Units(q, n, s)) + k
  BY DEF Worth
<1> DEFINE r == q \o <<m>>
           last == Len(q) + 1
           mine == {last} \X (1 .. m.len)
<1>1. /\ DOMAIN q = 1 .. Len(q) /\ Len(q) \in Nat
      /\ DOMAIN r = DOMAIN q \cup {last} /\ last \notin DOMAIN q
      /\ r[last] = m /\ \A i \in DOMAIN q : r[i] = q[i]
  OBVIOUS
<1> HIDE DEF r, last
<1>2. m.len \in Nat
  BY DEF AnswerType
<1>3. Cardinality(Units(q, n, s)) \in Nat
  BY FS_CardinalityType
<1>4. CASE m.cmd = s /\ m.n = n
  <2>1. Units(r, n, s) = Units(q, n, s) \cup mine
    BY <1>1, <1>4 DEF Units
  <2>2. Units(q, n, s) \cap mine = {}
    BY <1>1 DEF Units
  <2>3. IsFiniteSet(mine) /\ Cardinality(mine) = m.len
    BY <1>2, ItsUnits
  <2> HIDE DEF mine
  <2>4. /\ IsFiniteSet(Units(q, n, s) \cup mine)
        /\ Cardinality(Units(q, n, s) \cup mine) =
             Cardinality(Units(q, n, s)) + Cardinality(mine) - Cardinality({})
    BY <2>2, <2>3, FS_Union
  <2>5. Cardinality({}) = 0
    BY FS_EmptySet
  <2>6. Cardinality(Units(r, n, s)) = Cardinality(Units(q, n, s)) + m.len
    BY <1>2, <1>3, <2>1, <2>3, <2>4, <2>5
  <2>7. IsFiniteSet(Units(r, n, s))
    BY <2>1, <2>4
  <2> QED
    BY <1>4, <2>6, <2>7 DEF r
<1>5. CASE ~(m.cmd = s /\ m.n = n)
  <2>1. Units(r, n, s) = Units(q, n, s)
    BY <1>1, <1>5 DEF Units
  <2> QED
    BY <1>3, <1>5, <2>1 DEF r
<1> QED
  BY <1>4, <1>5

LEMMA WorthNone ==
  ASSUME NEW n, NEW s
  PROVE  Worth(<< >>, n, s, 0)
<1> SUFFICES ASSUME NEW q \in Seq(AnswerType), IsFiniteSet(Units(q, n, s))
             PROVE  /\ IsFiniteSet(Units(q \o << >>, n, s))
                    /\ Cardinality(Units(q \o << >>, n, s)) = Cardinality(Units(q, n, s)) + 0
  BY DEF Worth
<1>1. q \o << >> = q
  BY ConcatEmptySeq
<1>2. Cardinality(Units(q, n, s)) \in Nat
  BY FS_CardinalityType
<1> QED
  BY <1>1, <1>2

LEMMA WorthBoth ==
  ASSUME NEW a \in Seq(AnswerType), NEW b \in Seq(AnswerType), NEW n, NEW s,
         NEW j \in Nat, NEW k \in Nat, Worth(a, n, s, j), Worth(b, n, s, k)
  PROVE  Worth(a \o b, n, s, j + k)
<1> SUFFICES ASSUME NEW q \in Seq(AnswerType), IsFiniteSet(Units(q, n, s))
             PROVE  /\ IsFiniteSet(Units(q \o (a \o b), n, s))
                    /\ Cardinality(Units(q \o (a \o b), n, s))
                         = Cardinality(Units(q, n, s)) + (j + k)
  BY DEF Worth
<1>1. q \o (a \o b) = (q \o a) \o b
  BY ConcatAssociative, SMTT(60)
<1>2. q \o a \in Seq(AnswerType)
  BY ConcatProperties
<1>3. Cardinality(Units(q, n, s)) \in Nat
  BY FS_CardinalityType
<1>4. /\ IsFiniteSet(Units(q \o a, n, s))
      /\ Cardinality(Units(q \o a, n, s)) = Cardinality(Units(q, n, s)) + j
  BY DEF Worth
<1>5. /\ IsFiniteSet(Units((q \o a) \o b, n, s))
      /\ Cardinality(Units((q \o a) \o b, n, s)) = Cardinality(Units(q \o a, n, s)) + k
  BY <1>2, <1>4 DEF Worth
<1> QED
  BY <1>1, <1>3, <1>4, <1>5

(* What the handlers send is worth what they say.                          *)
LEMMA WorthOfAnswer ==
  ASSUME NEW cmd \in {Ack[c] : c \in DOMAIN Ack} \cup {"NOTIFICATION"},
         NEW c \in Nat, NEW status \in SUBSET Flags, NEW n, NEW s \in Streams
  PROVE  Worth(<<Answer(cmd, c, status)>>, n, s, 0)
<1> DEFINE m == Answer(cmd, c, status)
<1>1. m \in AnswerType /\ m.cmd = cmd
  BY AnswerTyped DEF Answer
<1>2. cmd # s
  BY DEF Ack, Streams
<1> HIDE DEF m
<1>3. Worth(<<m>>, n, s, IF m.cmd = s /\ m.n = n THEN m.len ELSE 0)
  BY <1>1, WorthOne
<1> QED
  BY <1>1, <1>2, <1>3 DEF m

LEMMA WorthOfData ==
  ASSUME NEW t \in Streams, NEW c \in Nat, NEW len \in Nat, NEW n, NEW s
  PROVE  Worth(Data(t, c, len), n, s, IF t = s /\ c = n THEN len ELSE 0)
<1>1. CASE len = 0
  BY <1>1, WorthNone DEF Data
<1>2. CASE len # 0
  <2> DEFINE m == [cmd |-> t, n |-> c, status |-> {}, len |-> len]
  <2>1. m \in AnswerType /\ m.cmd = t /\ m.n = c /\ m.len = len
    BY DEF AnswerType
  <2>2. Data(t, c, len) = <<m>>
    BY <1>2 DEF Data
  <2> HIDE DEF m
  <2>3. Worth(<<m>>, n, s, IF m.cmd = s /\ m.n = n THEN m.len ELSE 0)
    BY <2>1, WorthOne
  <2> QED
    BY <2>1, <2>2, <2>3
<1> QED
  BY <1>1, <1>2

LEMMA WorthOfFinalAnswer ==
  ASSUME NEW c \in Nat, NEW data \in [Streams -> Nat], NEW over \in BOOLEAN,
         NEW n, NEW s \in Streams
  PROVE  Worth(FinalAnswer(c, data, over), n, s, IF c = n THEN data[s] ELSE 0)
<1> DEFINE out == Data("STDOUT", c, data["STDOUT"])
           err == Data("STDERR", c, data["STDERR"])
           last == <<Answer("CMD_ACK", c, ExitStatus(over))>>
           o == IF "STDOUT" = s /\ c = n THEN data["STDOUT"] ELSE 0
           e == IF "STDERR" = s /\ c = n THEN data["STDERR"] ELSE 0
<1>1. data["STDOUT"] \in Nat /\ data["STDERR"] \in Nat
  BY DEF Streams
<1>2. out \in Seq(AnswerType) /\ err \in Seq(AnswerType)
  BY <1>1, DataTyped DEF Streams
<1>3. Worth(out, n, s, o) /\ Worth(err, n, s, e)
  BY <1>1, WorthOfData DEF Streams
<1>4. ExitStatus(over) \in SUBSET Flags
  BY DEF ExitStatus, Flags
<1>5. last \in Seq(AnswerType) /\ Worth(last, n, s, 0)
  BY <1>4, AckTyped, AnswerTyped, WorthOfAnswer
<1>6. o \in Nat /\ e \in Nat
  BY <1>1
<1>7. o + e + 0 = IF c = n THEN data[s] ELSE 0
  BY <1>1 DEF Streams
<1>8. FinalAnswer(c, data, over) = (out \o err) \o last
  BY DEF FinalAnswer
<1> HIDE DEF out, err, last, o, e
<1>9. out \o err \in Seq(AnswerType) /\ Worth(out \o err, n, s, o + e)
  BY <1>2, <1>3, <1>6, WorthBoth, ConcatProperties
<1>10. Worth((out \o err) \o last, n, s, (o + e) + 0)
  <2>1. o + e \in Nat /\ 0 \in Nat
    BY <1>6
  <2> QED
    BY <2>1, <1>5, <1>9, WorthBoth
<1> QED
  BY <1>7, <1>8, <1>10

(* Command n has delivered, or still has in its pipe, what it owes; a      *)
(* command to come owes nothing yet.                                       *)
Balance(n, s) ==
  /\ IsFiniteSet(Units(Answers, n, s))
  /\ owed[n][s] = Delivered(n, s) + IF exec = n THEN pipe[s] ELSE 0
  /\ n > ncmd => owed[n][s] = 0

Conserved == \A n \in Cmds, s \in Streams : Balance(n, s)

(* What has been sent is worth k units more.                               *)
LEMMA DeliveredMore ==
  ASSUME NEW n \in Cmds, NEW s \in Streams, Balance(n, s),
         Answers \in Seq(AnswerType),
         NEW msgs \in Seq(AnswerType), Answers' = Answers \o msgs,
         NEW k \in Nat, Worth(msgs, n, s, k)
  PROVE  /\ IsFiniteSet(Units(Answers, n, s))'
         /\ Delivered(n, s)' = Delivered(n, s) + k
         /\ Delivered(n, s) \in Nat
<1>1. IsFiniteSet(Units(Answers, n, s))
  BY DEF Balance
<1>2. /\ IsFiniteSet(Units(Answers \o msgs, n, s))
      /\ Cardinality(Units(Answers \o msgs, n, s)) = Cardinality(Units(Answers, n, s)) + k
  BY <1>1 DEF Worth
<1>3. Delivered(n, s) \in Nat
  BY <1>1, FS_CardinalityType DEF Delivered
<1>4. Units(Answers, n, s)' = Units(Answers \o msgs, n, s)
  BY DEF Units
<1> QED
  BY <1>2, <1>3, <1>4 DEF Delivered

(* Messages without output.                                                *)
Bare(msgs) ==
  /\ msgs \in Seq(AnswerType)
  /\ \A n \in Cmds, s \in Streams : Worth(msgs, n, s, 0)

LEMMA BareAnswer ==
  ASSUME NEW cmd \in {Ack[c] : c \in DOMAIN Ack} \cup {"NOTIFICATION"},
         NEW c \in Nat, NEW status \in SUBSET Flags
  PROVE  Bare(<<Answer(cmd, c, status)>>)
  BY AnswerTyped, WorthOfAnswer DEF Bare

LEMMA BareError ==
  ASSUME NEW cmd \in {Ack[c] : c \in DOMAIN Ack} \cup {"NOTIFICATION"}, NEW c \in Nat
  PROVE  Bare(<<Error(cmd, c)>>)
  BY BareAnswer DEF Error, Flags

LEMMA BareNothing == Bare(<< >>)
  BY WorthNone DEF Bare

(* A step that sends no output and lets a command owe what it owed.        *)
LEMMA QuietStep ==
  ASSUME Conserved, Answers \in Seq(AnswerType),
         NEW msgs, Bare(msgs), Answers' = Answers \o msgs,
         UNCHANGED <<exec, pipe, owed>>, ncmd \in Nat, ncmd' \in {ncmd, ncmd + 1}
  PROVE  Conserved'
<1> SUFFICES ASSUME NEW n \in Cmds, NEW s \in Streams PROVE Balance(n, s)'
  BY DEF Conserved
<1>1. Balance(n, s)
  BY DEF Conserved
<1>2. /\ IsFiniteSet(Units(Answers, n, s))'
      /\ Delivered(n, s)' = Delivered(n, s) + 0 /\ Delivered(n, s) \in Nat
  <2>1. msgs \in Seq(AnswerType) /\ Worth(msgs, n, s, 0) /\ 0 \in Nat
    BY DEF Bare
  <2> QED
    BY <1>1, <2>1, DeliveredMore
<1>3. n \in Nat /\ (n > ncmd' => n > ncmd)
  BY DEF Cmds
<1> QED
  BY <1>1, <1>2, <1>3 DEF Balance

(* Output of the running command is sent, from its pipe.                   *)
LEMMA SendStep ==
  ASSUME IInv, Conserved, Answers \in Seq(AnswerType), NEW t \in Streams, exec # 0,
         NEW k \in 1 .. pipe[t], pipe' = [pipe EXCEPT ![t] = pipe[t] - k],
         Answers' = Answers \o Data(t, exec, k), UNCHANGED <<exec, owed, ncmd>>
  PROVE  Conserved'
<1> SUFFICES ASSUME NEW n \in Cmds, NEW s \in Streams PROVE Balance(n, s)'
  BY DEF Conserved
<1>1. Balance(n, s)
  BY DEF Conserved
<1>2. pipe \in [Streams -> Nat] /\ exec \in Nat
  BY PlanTyped DEF IInv, TypeOK
<1>3. k \in Nat /\ k <= pipe[t] /\ pipe[s] \in Nat /\ pipe[t] \in Nat
  BY <1>2
<1> DEFINE w == IF t = s /\ exec = n THEN k ELSE 0
<1>4. w \in Nat
  BY <1>3
<1>5. Data(t, exec, k) \in Seq(AnswerType) /\ Worth(Data(t, exec, k), n, s, w)
  BY <1>2, <1>3, DataTyped, WorthOfData
<1>6. /\ IsFiniteSet(Units(Answers, n, s))'
      /\ Delivered(n, s)' = Delivered(n, s) + w /\ Delivered(n, s) \in Nat
  <2> HIDE DEF w
  <2> QED
    BY <1>1, <1>4, <1>5, DeliveredMore
<1>7. pipe'[s] = IF t = s THEN pipe[s] - k ELSE pipe[s]
  BY <1>2
<1>8. owed[n][s] = Delivered(n, s) + IF exec = n THEN pipe[s] ELSE 0
  BY <1>1 DEF Balance
<1>9. owed[n][s] = Delivered(n, s)' + IF exec = n THEN pipe'[s] ELSE 0
  BY <1>3, <1>6, <1>7, <1>8
<1> QED
  BY <1>1, <1>6, <1>9 DEF Balance

(* The final answer of the running command takes all that is in its pipes. *)
LEMMA DoneStep ==
  ASSUME IInv, Conserved, Answers \in Seq(AnswerType), exec # 0,
         NEW over \in BOOLEAN, Answers' = Answers \o FinalAnswer(exec, pipe, over),
         exec' = 0, UNCHANGED <<owed, ncmd>>
  PROVE  Conserved'
<1> SUFFICES ASSUME NEW n \in Cmds, NEW s \in Streams PROVE Balance(n, s)'
  BY DEF Conserved
<1>1. Balance(n, s)
  BY DEF Conserved
<1>2. pipe \in [Streams -> Nat] /\ exec \in Nat /\ pipe[s] \in Nat
  BY PlanTyped DEF IInv, TypeOK
<1> DEFINE w == IF exec = n THEN pipe[s] ELSE 0
<1>3. w \in Nat
  BY <1>2
<1>4. /\ FinalAnswer(exec, pipe, over) \in Seq(AnswerType)
      /\ Worth(FinalAnswer(exec, pipe, over), n, s, w)
  BY <1>2, FinalAnswerTyped, WorthOfFinalAnswer
<1>5. /\ IsFiniteSet(Units(Answers, n, s))'
      /\ Delivered(n, s)' = Delivered(n, s) + w /\ Delivered(n, s) \in Nat
  <2> HIDE DEF w
  <2> QED
    BY <1>1, <1>3, <1>4, DeliveredMore
<1>6. owed[n][s] = Delivered(n, s) + w /\ (n > ncmd => owed[n][s] = 0)
  BY <1>1 DEF Balance
<1>7. exec' # n
  BY DEF Cmds
<1>8. owed[n][s] = Delivered(n, s)' + 0
  <2> HIDE DEF w
  <2> QED
    BY <1>3, <1>5, <1>6
<1> QED
  BY <1>5, <1>6, <1>7, <1>8 DEF Balance

(* A command that is answered at once has delivered all.                   *)
LEMMA SilentStep ==
  ASSUME IInv, Conserved, Answers \in Seq(AnswerType), exec = 0, ncmd + 1 \in Cmds,
         NEW out \in [Streams -> Nat], NEW over \in BOOLEAN,
         Answers' = Answers \o FinalAnswer(ncmd + 1, out, over),
         owed' = [owed EXCEPT ![ncmd + 1] = out],
         ncmd' = ncmd + 1, UNCHANGED exec
  PROVE  Conserved'
<1> SUFFICES ASSUME NEW n \in Cmds, NEW s \in Streams PROVE Balance(n, s)'
  BY DEF Conserved
<1>1. Balance(n, s)
  BY DEF Conserved
<1>2. ncmd \in Nat /\ ncmd + 1 \in Nat /\ n \in Nat /\ n # 0 /\ out[s] \in Nat
  BY PlanTyped DEF Cmds
<1> DEFINE w == IF ncmd + 1 = n THEN out[s] ELSE 0
<1>3. w \in Nat
  BY <1>2
<1>4. /\ FinalAnswer(ncmd + 1, out, over) \in Seq(AnswerType)
      /\ Worth(FinalAnswer(ncmd + 1, out, over), n, s, w)
  BY <1>2, FinalAnswerTyped, WorthOfFinalAnswer
<1>5. /\ IsFiniteSet(Units(Answers, n, s))'
      /\ Delivered(n, s)' = Delivered(n, s) + w /\ Delivered(n, s) \in Nat
  <2> HIDE DEF w
  <2> QED
    BY <1>1, <1>3, <1>4, DeliveredMore
<1>6. owed[n][s] = Delivered(n, s) /\ (n > ncmd => owed[n][s] = 0)
  <2>1. owed[n][s] = Delivered(n, s) + 0
    BY <1>1, <1>2 DEF Balance
  <2> QED
    BY <1>1, <1>5, <2>1 DEF Balance
<1>7. owed \in [Cmds -> [Streams -> Nat]]
  BY DEF IInv, TypeOK
<1>8. CASE n = ncmd + 1
  <2>1. owed'[n][s] = out[s]
    BY <1>7, <1>8
  <2>2. Delivered(n, s) = 0
    BY <1>2, <1>6, <1>8
  <2>3. owed'[n][s] = Delivered(n, s)' + 0
    BY <1>2, <1>5, <1>8, <2>1, <2>2
  <2> QED
    BY <1>2, <1>5, <1>8, <2>3 DEF Balance
<1>9. CASE n # ncmd + 1
  <2>1. owed'[n] = owed[n]
    BY <1>7, <1>9
  <2>2. owed'[n][s] = Delivered(n, s)' + 0
    BY <1>5, <1>6, <1>9, <2>1
  <2>3. n > ncmd + 1 => n > ncmd
    BY <1>2
  <2> QED
    BY <1>2, <1>5, <1>6, <2>1, <2>2, <2>3 DEF Balance
<1> QED
  BY <1>8, <1>9

(* A command that is started owes nothing yet.                             *)
LEMMA StartStep ==
  ASSUME IInv, Conserved, Answers \in Seq(AnswerType), exec = 0,
         NEW msgs, Bare(msgs), Answers' = Answers \o msgs,
         exec' = ncmd + 1, pipe' = NoData, ncmd' = ncmd + 1, UNCHANGED owed
  PROVE  Conserved'
<1> SUFFICES ASSUME NEW n \in Cmds, NEW s \in Streams PROVE Balance(n, s)'
  BY DEF Conserved
<1>1. Balance(n, s)
  BY DEF Conserved
<1>2. ncmd \in Nat /\ n \in Nat /\ n # 0 /\ pipe'[s] = 0
  BY PlanTyped DEF Cmds, NoData
<1>3. /\ IsFiniteSet(Units(Answers, n, s))'
      /\ Delivered(n, s)' = Delivered(n, s) + 0 /\ Delivered(n, s) \in Nat
  <2>1. msgs \in Seq(AnswerType) /\ Worth(msgs, n, s, 0) /\ 0 \in Nat
    BY DEF Bare
  <2> QED
    BY <1>1, <2>1, DeliveredMore
<1>4. owed[n][s] = Delivered(n, s) + 0 /\ (n > ncmd => owed[n][s] = 0)
  BY <1>1, <1>2 DEF Balance
<1>5. n > ncmd + 1 => n > ncmd
  BY <1>2
<1> QED
  BY <1>2, <1>3, <1>4, <1>5 DEF Balance

(* What the running command owes and what is in its pipe change alike.     *)
LEMMA PipeStep ==
  ASSUME IInv, Conserved, UNCHANGED <<s2c, obuf, exec, ncmd>>, exec # 0,
         NEW t \in Streams, NEW o \in Nat, NEW p \in Nat,
         o - owed[exec][t] = p - pipe[t],
         owed' = [owed EXCEPT ![exec][t] = o], pipe' = [pipe EXCEPT ![t] = p]
  PROVE  Conserved'
<1> SUFFICES ASSUME NEW n \in Cmds, NEW s \in Streams PROVE Balance(n, s)'
  BY DEF Conserved
<1>1. Balance(n, s) /\ Units(Answers, n, s)' = Units(Answers, n, s)
  BY DEF Conserved, Answers, Units
<1>2. Delivered(n, s)' = Delivered(n, s) /\ Delivered(n, s) \in Nat
  BY <1>1, FS_CardinalityType DEF Delivered, Balance
<1>3. /\ owed \in [Cmds -> [Streams -> Nat]] /\ pipe \in [Streams -> Nat]
      /\ exec \in Cmds /\ exec <= ncmd /\ exec \in Nat /\ ncmd \in Nat
  <2>1. owed \in [Cmds -> [Streams -> Nat]] /\ pipe \in [Streams -> Nat]
    BY DEF IInv, TypeOK
  <2>2. exec \in 0 .. ncmd
    BY DEF IInv, TypeOK
  <2>3. exec \in Cmds /\ exec \in Nat /\ ncmd \in Nat
    BY PlanTyped
  <2> QED
    BY <2>1, <2>2, <2>3
<1>4. owed[n][s] = Delivered(n, s) + IF exec = n THEN pipe[s] ELSE 0
  BY <1>1 DEF Balance
<1>5. CASE n = exec /\ s = t
  <2>1. owed'[n][s] = o /\ pipe'[s] = p
    BY <1>3, <1>5, OwedTyped
  <2>2. owed[n][s] \in Nat /\ pipe[s] \in Nat
    BY <1>3
  <2>3. owed'[n][s] = Delivered(n, s)' + pipe'[s]
    BY <1>2, <1>4, <1>5, <2>1, <2>2
  <2> QED
    BY <1>1, <1>3, <1>5, <2>3 DEF Balance
<1>6. CASE ~(n = exec /\ s = t)
  <2>1. owed'[n][s] = owed[n][s] /\ (exec = n => pipe'[s] = pipe[s])
    BY <1>3, <1>6
  <2> QED
    BY <1>1, <1>2, <2>1 DEF Balance
<1> QED
  BY <1>5, <1>6

LEMMA ConservedStep ==
  ASSUME IInv, Conserved, [Next]_vars
  PROVE  Conserved'
<1>. USE DEF ktpd, input, output, job, toclient, net
<1>typed. /\ s2c \in Seq(AnswerType) /\ obuf \in Seq(AnswerType)
          /\ pollout \in BOOLEAN
  BY DEF IInv, TypeOK
<1>answers. Answers \in Seq(AnswerType)
  BY <1>typed, ConcatProperties DEF Answers
<1>num. ncmd \in Nat /\ exec \in Nat /\ Plans[plan].works \subseteq WorkType
  BY PlanTyped
<1>exec. ExecIsState
  BY DEF IInv
<1>pipe. pipe \in [Streams -> Nat]
  BY DEF IInv, TypeOK
<1>owed. owed \in [Cmds -> [Streams -> Nat]]
  BY DEF IInv, TypeOK
<1>next. ASSUME NEW cmd, Dispatch(cmd)
         PROVE  ncmd + 1 \in Cmds
  BY <1>next, PlanTyped DEF Dispatch
<1>sent. ASSUME NEW msgs \in Seq(AnswerType), Emit(msgs)
         PROVE  Answers' = Answers \o msgs
  BY <1>sent, <1>typed, EmitAppends
<1>bare. ASSUME NEW msgs, Bare(msgs), Emit(msgs), UNCHANGED <<exec, pipe, owed>>,
                ncmd' \in {ncmd, ncmd + 1}
         PROVE  Conserved'
  <2>1. Answers' = Answers \o msgs
    BY <1>bare, <1>sent DEF Bare
  <2> QED
    BY <1>bare, <2>1, <1>answers, <1>num, QuietStep
<1>same. ASSUME Answers' = Answers, UNCHANGED <<exec, pipe, owed>>,
                ncmd' \in {ncmd, ncmd + 1}
         PROVE  Conserved'
  <2>1. Answers' = Answers \o << >>
    BY <1>same, <1>answers, ConcatEmptySeq
  <2> QED
    BY <1>same, <2>1, <1>answers, <1>num, QuietStep, BareNothing
<1>kept. ASSUME UNCHANGED <<s2c, obuf, exec, pipe, owed>>, ncmd' \in {ncmd, ncmd + 1}
         PROVE  Conserved'
  BY <1>kept, <1>same DEF Answers
<1>1. ASSUME NEW m \in Requests, Refuse(m.cmd)
      PROVE  Conserved'
  <2>1. UNCHANGED <<exec, pipe, owed>>
    BY <1>1 DEF Refuse
  <2>2. /\ Bare(<<Error("CMD_ACK", ncmd + 1)>>) /\ Bare(<<Error("AUTH_ACK", 0)>>)
        /\ Bare(<<Error("NOTIFICATION", 0)>>)
        /\ m.cmd \in {"COMPLETION", "HELP"} => Bare(<<Error(Ack[m.cmd], 0)>>)
    <3>1. ncmd + 1 \in Nat /\ 0 \in Nat
      BY <1>num
    <3> QED
      BY <3>1, AckTyped, BareError
  <2>3. \/ Emit(<<Error("CMD_ACK", ncmd + 1)>>) /\ ncmd' = ncmd + 1
        \/ /\ m.cmd \in {"COMPLETION", "HELP"}
           /\ Emit(<<Error(Ack[m.cmd], 0)>>) /\ ncmd' = ncmd
        \/ Emit(<<Error("AUTH_ACK", 0)>>) /\ ncmd' = ncmd
        \/ Emit(<<Error("NOTIFICATION", 0)>>) /\ ncmd' = ncmd
        \/ UNCHANGED <<s2c, obuf>> /\ ncmd' = ncmd
    BY <1>1 DEF Refuse, NoEmit
  <2> QED
    BY <2>1, <2>2, <2>3, <1>bare, <1>kept
<1>2. CASE ProcessAuth
  <2>1. UNCHANGED <<exec, pipe, owed, ncmd>>
    BY <1>2 DEF ProcessAuth
  <2>2. /\ Bare(<<Answer("AUTH_ACK", 0, {})>>)
        /\ Bare(<<Answer("AUTH_ACK", 0, {"ERROR", "EXIT"})>>)
    BY AckTyped, BareAnswer DEF Flags
  <2>3. \/ Emit(<<Answer("AUTH_ACK", 0, {})>>)
        \/ Emit(<<Answer("AUTH_ACK", 0, {"ERROR", "EXIT"})>>)
    BY <1>2 DEF ProcessAuth
  <2> QED
    BY <2>1, <2>2, <2>3, <1>bare
<1>3. CASE EmptyCmd \/ ErrorCmd
  <2>1. UNCHANGED <<exec, pipe, owed>> /\ ncmd' = ncmd + 1
    BY <1>3 DEF EmptyCmd, ErrorCmd
  <2>2. /\ Bare(<<Answer("CMD_ACK", ncmd + 1, {})>>)
        /\ Bare(<<Error("CMD_ACK", ncmd + 1)>>)
    <3>1. ncmd + 1 \in Nat
      BY <1>num
    <3> QED
      BY <3>1, AckTyped, BareAnswer, BareError
  <2>3. \/ Emit(<<Answer("CMD_ACK", ncmd + 1, {})>>)
        \/ Emit(<<Error("CMD_ACK", ncmd + 1)>>)
    BY <1>3 DEF EmptyCmd, ErrorCmd
  <2> QED
    BY <2>1, <2>2, <2>3, <1>bare
<1>4. CASE SilentCmd
  <2>1. PICK w \in Plans[plan].works, running \in Terms :
          /\ owed' = [owed EXCEPT ![ncmd + 1] = w.out]
          /\ Emit(FinalAnswer(ncmd + 1, w.out, session_done \/ Message.quit \/ running))
    BY <1>4 DEF SilentCmd
  <2> DEFINE over == session_done \/ Message.quit \/ running
             some == IF over THEN TRUE ELSE FALSE
  <2>2. w.out \in [Streams -> Nat]
    BY <1>num, WorkOut
  <2>3. FinalAnswer(ncmd + 1, w.out, over) = FinalAnswer(ncmd + 1, w.out, some)
    BY DEF FinalAnswer, ExitStatus
  <2>4. some \in BOOLEAN
    OBVIOUS
  <2>5. Emit(FinalAnswer(ncmd + 1, w.out, some))
    BY <2>1, <2>3
  <2> HIDE DEF over, some
  <2>6. ncmd + 1 \in Nat
    BY <1>num
  <2>7. Answers' = Answers \o FinalAnswer(ncmd + 1, w.out, some)
    BY <2>2, <2>4, <2>5, <2>6, <1>sent, FinalAnswerTyped
  <2>8. exec = 0 /\ ncmd + 1 \in Cmds /\ ncmd' = ncmd + 1 /\ UNCHANGED exec
    BY <1>4, <1>exec, <1>next DEF SilentCmd, ExecIsState
  <2> QED
    BY <2>1, <2>2, <2>4, <2>7, <2>8, <1>answers, SilentStep
<1>5. CASE StartCmd
  <2>1. PICK w \in Plans[plan].works :
          Emit(<<Answer("CMD_ACK", ncmd + 1, {"INCOMPLETED"} \cup w.features)>>)
    BY <1>5 DEF StartCmd
  <2>2. {"INCOMPLETED"} \cup w.features \in SUBSET Flags
    BY <1>num, WorkOut DEF Flags
  <2>3. ncmd + 1 \in Nat
    BY <1>num
  <2>4. Bare(<<Answer("CMD_ACK", ncmd + 1, {"INCOMPLETED"} \cup w.features)>>)
    BY <2>2, <2>3, AckTyped, BareAnswer
  <2>5. Answers' = Answers \o <<Answer("CMD_ACK", ncmd + 1, {"INCOMPLETED"} \cup w.features)>>
    BY <2>1, <2>4, <1>sent DEF Bare
  <2>6. exec = 0 /\ exec' = ncmd + 1 /\ pipe' = NoData /\ ncmd' = ncmd + 1 /\ UNCHANGED owed
    BY <1>5, <1>exec DEF StartCmd, ExecIsState
  <2> QED
    BY <2>4, <2>5, <2>6, <1>answers, StartStep
<1>6. ASSUME NEW cmd \in {"COMPLETION", "HELP"}, Hint(cmd)
      PROVE  Conserved'
  <2>1. UNCHANGED <<exec, pipe, owed, ncmd>>
    BY <1>6 DEF Hint
  <2>2. \/ Emit(<<Error(Ack[cmd], 0)>>)
        \/ \E over : Emit(<<Answer(Ack[cmd], 0, ExitStatus(over))>>)
    BY <1>6 DEF Hint
  <2>3. Bare(<<Error(Ack[cmd], 0)>>)
    BY AckTyped, BareError
  <2>4. ASSUME NEW over
        PROVE  Bare(<<Answer(Ack[cmd], 0, ExitStatus(over))>>)
    <3>1. ExitStatus(over) \in SUBSET Flags
      BY DEF ExitStatus, Flags
    <3> QED
      BY <3>1, AckTyped, BareAnswer
  <2> QED
    BY <2>1, <2>2, <2>3, <2>4, <1>bare
<1>7. ASSUME NEW s \in Streams, StreamIn(s) \/ StreamHup(s)
      PROVE  Conserved'
  <2>1. exec # 0 /\ UNCHANGED <<exec, owed, ncmd>>
    BY <1>7 DEF StreamIn, StreamHup
  <2>2. CASE UNCHANGED <<s2c, obuf, pipe>>
    BY <2>1, <2>2, <1>kept
  <2>3. CASE \E k \in 1 .. pipe[s] : /\ pipe' = [pipe EXCEPT ![s] = pipe[s] - k]
                                     /\ Emit(Data(s, exec, k))
    <3>1. PICK k \in 1 .. pipe[s] : /\ pipe' = [pipe EXCEPT ![s] = pipe[s] - k]
                                    /\ Emit(Data(s, exec, k))
      BY <2>3
    <3>2. k \in Nat
      BY <1>pipe
    <3>3. Answers' = Answers \o Data(s, exec, k)
      BY <3>1, <3>2, <1>num, <1>sent, DataTyped
    <3> QED
      BY <3>1, <3>3, <2>1, <1>answers, SendStep
  <2> QED
    BY <1>7, <2>2, <2>3 DEF StreamIn, StreamHup, NoEmit
<1>8. CASE Done
  <2>1. PICK log \in Terms : Emit(FinalAnswer(exec, pipe, session_done \/ log))
    BY <1>8 DEF Done
  <2> DEFINE over == session_done \/ log
             some == IF over THEN TRUE ELSE FALSE
  <2>2. FinalAnswer(exec, pipe, over) = FinalAnswer(exec, pipe, some)
    BY DEF FinalAnswer, ExitStatus
  <2>3. some \in BOOLEAN
    OBVIOUS
  <2>4. Emit(FinalAnswer(exec, pipe, some))
    BY <2>1, <2>2
  <2> HIDE DEF over, some
  <2>5. Answers' = Answers \o FinalAnswer(exec, pipe, some)
    BY <2>3, <2>4, <1>num, <1>pipe, <1>sent, FinalAnswerTyped
  <2>6. exec # 0 /\ exec' = 0 /\ UNCHANGED <<owed, ncmd>>
    BY <1>8 DEF Done, FreeExec
  <2> QED
    BY <2>3, <2>5, <2>6, <1>answers, DoneStep
<1>9. ASSUME NEW s \in Streams, ProcessStreamClose(s)
      PROVE  Conserved'
  <2>1. /\ exec # 0 /\ UNCHANGED <<s2c, obuf, exec, ncmd>>
        /\ pipe' = [pipe EXCEPT ![s] = 0]
    BY <1>9, <1>exec DEF ProcessStreamClose, CloseStream, NoEmit, ExecIsState
  <2>2. owed' = [owed EXCEPT ![exec][s] = owed[exec][s] - pipe[s]]
    BY <1>9 DEF ProcessStreamClose, CloseStream
  <2>3. exec \in Cmds /\ pipe[s] <= owed[exec][s]
    BY <2>1, PlanTyped DEF IInv, OutputBounds
  <2>4. owed[exec][s] \in Nat /\ pipe[s] \in Nat
    BY <2>3, <1>owed, <1>pipe
  <2> DEFINE o == owed[exec][s] - pipe[s]
  <2>5. o \in Nat /\ 0 \in Nat /\ o - owed[exec][s] = 0 - pipe[s]
    BY <2>3, <2>4
  <2>6. owed' = [owed EXCEPT ![exec][s] = o]
    BY <2>2
  <2> HIDE DEF o
  <2> QED
    BY <2>1, <2>5, <2>6, PipeStep
<1>10. ASSUME NEW s \in Streams, ProcWrite(s)
       PROVE  Conserved'
  <2>1. /\ exec # 0 /\ UNCHANGED <<s2c, obuf, exec, ncmd>>
        /\ pipe' = [pipe EXCEPT ![s] = pipe[s] + 1]
    BY <1>10 DEF ProcWrite, Running
  <2>2. owed' = [owed EXCEPT ![exec][s] = owed[exec][s] + 1]
    BY <1>10 DEF ProcWrite
  <2>3. exec \in Cmds
    BY <2>1, PlanTyped
  <2>4. owed[exec][s] \in Nat /\ pipe[s] \in Nat
    BY <2>3, <1>owed, <1>pipe
  <2> DEFINE o == owed[exec][s] + 1
             p == pipe[s] + 1
  <2>5. o \in Nat /\ p \in Nat /\ o - owed[exec][s] = p - pipe[s]
    BY <2>4
  <2>6. owed' = [owed EXCEPT ![exec][s] = o] /\ pipe' = [pipe EXCEPT ![s] = p]
    BY <2>1, <2>2
  <2> HIDE DEF o, p
  <2> QED
    BY <2>1, <2>5, <2>6, PipeStep
<1>11. CASE AsyncOut
  <2>1. Answers' = Answers
    BY <1>11, <1>typed, AsyncOutAppends
  <2>2. UNCHANGED <<exec, pipe, owed, ncmd>>
    BY <1>11 DEF AsyncOut
  <2> QED
    BY <2>1, <2>2, <1>same
<1>12. CASE \/ ClientEvEnd \/ LoopStops \/ ProcessStdin \/ ProcessStdinClose
            \/ StdinReady \/ StdinHup \/ NotDone
  BY <1>12, <1>kept DEF ClientEvEnd, LoopStops, ProcessStdin, ProcessStdinClose,
     NoEmit, StdinReady, StdinHup, NotDone
<1>13. CASE \/ \E s \in Streams : ProcEpipe(s)
            \/ ProcRead \/ ProcCloseStdin \/ ProcExit \/ ProcKilled
            \/ \E m \in Requests : ClientSend(m)
  BY <1>13, <1>kept DEF ProcEpipe, ProcRead, ProcCloseStdin, ProcExit, ProcKilled,
     ProcEnds, ClientSend
<1>14. CASE UNCHANGED vars
  BY <1>14, <1>kept DEF vars
<1>. QED
  BY <1>1, <1>2, <1>3, <1>4, <1>5, <1>6, <1>7, <1>8, <1>9, <1>10, <1>11, <1>12,
     <1>13, <1>14 DEF Next, ClientEv, SigChldEv

(* Every unit a command has written and its client has not closed the      *)
(* stream for has been sent exactly once or is still in the pipe: get_     *)
(* stream() and the rest that wait_for_actions_ev() reads lose and repeat  *)
(* nothing, for all sizes of buffers and amounts of output.                *)
THEOREM SessionOutputConserved == Spec => []OutputConserved
<1>1. Init => Conserved
  <2> SUFFICES ASSUME Init, NEW n \in Cmds, NEW s \in Streams PROVE Balance(n, s)
    BY DEF Conserved
  <2>1. Answers = << >>
    BY DEF Init, Answers
  <2>2. Units(Answers, n, s) = {}
    BY <2>1 DEF Units
  <2>3. owed[n][s] = 0 /\ exec = 0 /\ n # 0
    BY DEF Init, NoData, Cmds
  <2> QED
    BY <2>2, <2>3, FS_EmptySet DEF Balance, Delivered
<1>2. IInv /\ Conserved /\ [Next]_vars => Conserved'
  BY ConservedStep
<1>3. IInv /\ Conserved => OutputConserved
  <2> SUFFICES ASSUME IInv, Conserved, NEW n \in 1 .. ncmd, NEW s \in Streams
               PROVE  owed[n][s] = Delivered(n, s) + IF exec = n THEN pipe[s] ELSE 0
    BY DEF OutputConserved
  <2>1. n \in Cmds
    <3>1. /\ ncmd \in 0 .. sent /\ sent \in 0 .. Plans[plan].msgs
          /\ plan \in DOMAIN Plans
      BY DEF IInv, TypeOK, Counted
    <3>2. Plans[plan].msgs \in 0 .. MaxMsgs
      BY <3>1, PlansAssumption
    <3> QED
      BY <3>1, <3>2, BoundsAssumption DEF Cmds
  <2> QED
    BY <2>1 DEF Conserved, Balance
<1>4. QED
  BY <1>1, <1>2, <1>3, SessionInvariant, PTL DEF Spec

-----------------------------------------------------------------------------
(* A session of klishd implements the service of module KtpService: every  *)
(* step of the detailed model, seen through the messages ever sent, is one *)
(* of the service's steps or none.                                         *)

(* Both models build their messages in the same way.                       *)
LEMMA SameMessages ==
  /\ \A c, n, st : Service!Answer(c, n, st) = Answer(c, n, st)
  /\ \A c, n : Service!Error(c, n) = Error(c, n)
  /\ \A s, n, len : Service!Data(s, n, len) = Data(s, n, len)
  /\ \A over : Service!ExitStatus(over) = ExitStatus(over)
  /\ \A n, data, over :
       Service!FinalAnswer(n, data, over) = FinalAnswer(n, data, over)
  /\ Service!Ack = Ack /\ Service!Streams = Streams
  /\ Service!Features = Features
<1>1. \A c, n, st : Service!Answer(c, n, st) = Answer(c, n, st)
  BY DEF Service!Answer, Answer
<1>2. \A c, n : Service!Error(c, n) = Error(c, n)
  BY <1>1 DEF Service!Error, Error
<1>3. \A s, n, len : Service!Data(s, n, len) = Data(s, n, len)
  BY DEF Service!Data, Data
<1>4. \A over : Service!ExitStatus(over) = ExitStatus(over)
  BY DEF Service!ExitStatus, ExitStatus
<1>5. \A n, data, over :
        Service!FinalAnswer(n, data, over) = FinalAnswer(n, data, over)
  BY <1>1, <1>3, <1>4 DEF Service!FinalAnswer, FinalAnswer
<1>6. /\ Service!Ack = Ack /\ Service!Streams = Streams
      /\ Service!Features = Features
  BY DEF Service!Ack, Ack, Service!Streams, Streams, Service!Features, Features
<1>7. QED
  BY <1>1, <1>2, <1>3, <1>4, <1>5, <1>6

(* The phase of the service is the state of the protocol.                  *)
LEMMA PhaseIsState ==
  ASSUME state \in States
  PROVE  /\ Phase = "unauthorized" <=> state = "UNAUTHORIZED"
         /\ Phase = "idle" <=> state = "IDLE"
         /\ Phase = "running" <=> state = "WAIT_FOR_PROCESS"
  BY DEF Phase, States

(* A message that is dispatched is a request that is served.               *)
LEMMA DispatchServes ==
  ASSUME NEW cmd, Dispatch(cmd), NEW msgs, Answers' = Answers \o msgs
  PROVE  Service!Serve(cmd, msgs)
  BY DEF Dispatch, Service!Serve

(* An empty command's answer is a final answer without output.             *)
LEMMA EmptyIsFinal ==
  ASSUME NEW n
  PROVE  FinalAnswer(n, NoData, FALSE) = <<Answer("CMD_ACK", n, {})>>
<1>1. NoData["STDOUT"] = 0 /\ NoData["STDERR"] = 0
  BY DEF NoData, Streams
<1>2. /\ Data("STDOUT", n, NoData["STDOUT"]) = << >>
      /\ Data("STDERR", n, NoData["STDERR"]) = << >>
  BY <1>1 DEF Data
<1>. DEFINE m == Answer("CMD_ACK", n, {})
<1>3. FinalAnswer(n, NoData, FALSE) = (<< >> \o << >>) \o <<m>>
  BY <1>2 DEF FinalAnswer, ExitStatus
<1>. HIDE DEF m
<1>4. << >> \in Seq({m}) /\ <<m>> \in Seq({m})
  OBVIOUS
<1>5. << >> \o << >> = << >> /\ << >> \o <<m>> = <<m>>
  BY <1>4, ConcatEmptySeq
<1>6. QED
  BY <1>3, <1>5 DEF m

-----------------------------------------------------------------------------
LEMMA InitMaps ==
  ASSUME Init
  PROVE  Service!Init
<1>1. s2c = << >> /\ obuf = << >> /\ state = "UNAUTHORIZED"
  BY DEF Init
<1>2. Answers = << >>
  BY <1>1 DEF Answers
<1>3. Phase = "unauthorized"
  BY <1>1 DEF Phase
<1>4. QED
  BY <1>2, <1>3 DEF Init, Service!Init

(* Every step of the session is a step of the service, or none.            *)
LEMMA StepMaps ==
  ASSUME IInv, IInv', [Next]_vars
  PROVE  [Service!Next]_Service!vars
<1>. USE DEF ktpd, input, output, job, toclient, net
<1>state. state \in States /\ state' \in States
  BY DEF IInv, TypeOK
<1>phase. /\ Phase = "unauthorized" <=> state = "UNAUTHORIZED"
          /\ Phase = "idle" <=> state = "IDLE"
          /\ Phase = "running" <=> state = "WAIT_FOR_PROCESS"
  BY <1>state, PhaseIsState
<1>next. /\ state' = "IDLE" => Phase' = "idle"
         /\ state' = "WAIT_FOR_PROCESS" => Phase' = "running"
         /\ state' = state => Phase' = Phase
  BY DEF Phase
<1>s2c. s2c \in Seq(AnswerType) /\ obuf \in Seq(AnswerType)
  BY DEF IInv, TypeOK
<1>answers. Answers \in Seq(AnswerType)
  BY AnswersGrow
<1>pollout. pollout \in BOOLEAN
  BY DEF IInv, TypeOK
<1>pipe. pipe \in [Streams -> Nat]
  BY DEF IInv, TypeOK
<1>num. /\ ncmd \in Nat /\ exec \in Nat /\ ncmd + 1 \in Nat
        /\ Plans[plan].works \subseteq WorkType
  BY PlanTyped
<1>sends. \A msgs \in Seq(AnswerType) :
            Emit(msgs) => Answers' = Answers \o msgs
  BY <1>s2c, <1>pollout, EmitAppends
<1>silent. UNCHANGED <<s2c, obuf>> =>
             Answers' = Answers /\ Answers' = Answers \o << >>
  <2>1. Answers \o << >> = Answers
    BY <1>answers, ConcatEmptySeq
  <2>2. QED
    BY <2>1 DEF Answers
<1>stutter. ASSUME UNCHANGED <<c2s, state, exec, ncmd, closereq, alive>>,
                   Answers' = Answers
            PROVE  UNCHANGED Service!vars
  BY <1>stutter, <1>next DEF Service!vars
<1>acks. /\ \A c \in {"COMPLETION", "HELP"} :
              <<Error(Ack[c], 0)>> \in Seq(AnswerType)
         /\ \A n \in Nat : <<Error("CMD_ACK", n)>> \in Seq(AnswerType)
         /\ <<Error("AUTH_ACK", 0)>> \in Seq(AnswerType)
         /\ <<Error("NOTIFICATION", 0)>> \in Seq(AnswerType)
  BY AckTyped, ErrorTyped
<1>1. CASE \E m \in Requests : Refuse(m.cmd)
  <2>1. PICK m \in Requests : Refuse(m.cmd)
    BY <1>1
  <2>. DEFINE cmd == m.cmd
  <2>2. /\ Dispatch(cmd) /\ UNCHANGED <<state, exec, closereq>>
    BY <2>1 DEF Refuse
  <2>3. Phase' = Phase
    BY <2>2, <1>next
  <2>4. \/ /\ cmd = "CMD" /\ state # "IDLE" /\ ncmd' = ncmd + 1
           /\ Emit(<<Error("CMD_ACK", ncmd + 1)>>)
        \/ /\ cmd \in {"COMPLETION", "HELP"} /\ state # "IDLE" /\ ncmd' = ncmd
           /\ Emit(<<Error(Ack[cmd], 0)>>)
        \/ /\ cmd = "AUTH" /\ state = "WAIT_FOR_PROCESS" /\ ncmd' = ncmd
           /\ Emit(<<Error("AUTH_ACK", 0)>>)
        \/ /\ cmd = "STDIN" /\ state # "WAIT_FOR_PROCESS" /\ ncmd' = ncmd
           /\ Emit(<<Error("NOTIFICATION", 0)>>)
        \/ /\ cmd \in {"STDIN_CLOSE", "STDOUT_CLOSE", "STDERR_CLOSE"}
           /\ state # "WAIT_FOR_PROCESS" /\ ncmd' = ncmd
           /\ UNCHANGED <<s2c, obuf>>
        \/ /\ cmd = "UNSUPPORTED" /\ ncmd' = ncmd
           /\ Emit(<<Error("NOTIFICATION", 0)>>)
        \/ /\ cmd \in {"NOTIFICATION", "BROKEN"} /\ ncmd' = ncmd
           /\ UNCHANGED <<s2c, obuf>>
    BY <2>1 DEF Refuse, NoEmit
  <2>. HIDE DEF cmd
  <2>5. CASE /\ cmd = "CMD" /\ state # "IDLE" /\ ncmd' = ncmd + 1
             /\ Emit(<<Error("CMD_ACK", ncmd + 1)>>)
    <3>1. Service!Serve("CMD", <<Service!Error("CMD_ACK", ncmd')>>)
      BY <2>2, <2>5, <1>num, <1>acks, <1>sends, DispatchServes, SameMessages
    <3>2. Service!RefuseCmd
      BY <3>1, <2>2, <2>3, <2>5, <1>phase DEF Service!RefuseCmd
    <3>3. QED
      BY <3>2 DEF Service!Next, Service!Request
  <2>6. CASE /\ cmd \in {"COMPLETION", "HELP"} /\ state # "IDLE" /\ ncmd' = ncmd
             /\ Emit(<<Error(Ack[cmd], 0)>>)
    <3>1. Service!Serve(cmd, <<Service!Error(Service!Ack[cmd], 0)>>)
      BY <2>2, <2>6, <1>acks, <1>sends, DispatchServes, SameMessages
    <3>2. Service!Refuse
      BY <3>1, <2>2, <2>3, <2>6, <1>phase DEF Service!Refuse
    <3>3. QED
      BY <3>2 DEF Service!Next
  <2>7. CASE /\ cmd = "AUTH" /\ state = "WAIT_FOR_PROCESS" /\ ncmd' = ncmd
             /\ Emit(<<Error("AUTH_ACK", 0)>>)
    <3>1. Service!Serve("AUTH", <<Service!Error("AUTH_ACK", 0)>>)
      BY <2>2, <2>7, <1>acks, <1>sends, DispatchServes, SameMessages
    <3>2. Service!Refuse
      BY <3>1, <2>2, <2>3, <2>7, <1>phase DEF Service!Refuse
    <3>3. QED
      BY <3>2 DEF Service!Next
  <2>8. CASE /\ cmd = "STDIN" /\ state # "WAIT_FOR_PROCESS" /\ ncmd' = ncmd
             /\ Emit(<<Error("NOTIFICATION", 0)>>)
    <3>1. Service!Serve(cmd, <<Service!Error("NOTIFICATION", 0)>>)
      BY <2>2, <2>8, <1>acks, <1>sends, DispatchServes, SameMessages
    <3>2. Service!TooLate(cmd) /\ cmd \in Service!Streaming
      BY <3>1, <2>2, <2>3, <2>8, <1>phase
         DEF Service!TooLate, Service!Streaming
    <3>3. QED
      BY <3>2 DEF Service!Next, Service!Request
  <2>9. CASE /\ cmd \in {"STDIN_CLOSE", "STDOUT_CLOSE", "STDERR_CLOSE"}
             /\ state # "WAIT_FOR_PROCESS" /\ ncmd' = ncmd
             /\ UNCHANGED <<s2c, obuf>>
    <3>1. Service!Serve(cmd, << >>)
      BY <2>2, <2>9, <1>silent, DispatchServes
    <3>2. Service!TooLate(cmd) /\ cmd \in Service!Streaming
      BY <3>1, <2>2, <2>3, <2>9, <1>phase
         DEF Service!TooLate, Service!Streaming
    <3>3. QED
      BY <3>2 DEF Service!Next, Service!Request
  <2>10. CASE /\ cmd \in {"NOTIFICATION", "BROKEN"} /\ ncmd' = ncmd
              /\ UNCHANGED <<s2c, obuf>>
    <3>1. Service!Serve(cmd, << >>)
      BY <2>2, <2>10, <1>silent, DispatchServes
    <3>2. Service!Notified \/ Service!Refuse
      BY <3>1, <2>2, <2>3, <2>10 DEF Service!Notified, Service!Refuse
    <3>3. QED
      BY <3>2 DEF Service!Next, Service!Request
  <2>11. CASE /\ cmd = "UNSUPPORTED" /\ ncmd' = ncmd
              /\ Emit(<<Error("NOTIFICATION", 0)>>)
    <3>1. Service!Serve("UNSUPPORTED", <<Service!Error("NOTIFICATION", 0)>>)
      BY <2>2, <2>11, <1>acks, <1>sends, DispatchServes, SameMessages
    <3>2. Service!Refuse
      BY <3>1, <2>2, <2>3, <2>11, <1>phase DEF Service!Refuse
    <3>3. QED
      BY <3>2 DEF Service!Next
  <2>12. QED
    BY <2>4, <2>5, <2>6, <2>7, <2>8, <2>9, <2>10, <2>11
<1>2. CASE ProcessAuth
  <2>1. /\ Dispatch("AUTH") /\ state # "WAIT_FOR_PROCESS"
        /\ UNCHANGED <<exec, ncmd, closereq>>
        /\ \/ state' = "IDLE" /\ Emit(<<Answer("AUTH_ACK", 0, {})>>)
           \/ /\ state' = state
              /\ Emit(<<Answer("AUTH_ACK", 0, {"ERROR", "EXIT"})>>)
    BY <1>2 DEF ProcessAuth
  <2>2. /\ <<Answer("AUTH_ACK", 0, {})>> \in Seq(AnswerType)
        /\ <<Answer("AUTH_ACK", 0, {"ERROR", "EXIT"})>> \in Seq(AnswerType)
    BY AckTyped, AnswerTyped DEF Flags
  <2>3. \/ /\ Phase' = "idle"
           /\ Service!Serve("AUTH", <<Service!Answer("AUTH_ACK", 0, {})>>)
        \/ /\ Phase' = Phase
           /\ Service!Serve("AUTH",
                <<Service!Answer("AUTH_ACK", 0, {"ERROR", "EXIT"})>>)
    BY <2>1, <2>2, <1>next, <1>sends, DispatchServes, SameMessages
  <2>4. Service!Auth
    BY <2>1, <2>3, <1>phase DEF Service!Auth
  <2>5. QED
    BY <2>4 DEF Service!Next, Service!Request
<1>3. CASE EmptyCmd
  <2>1. /\ Dispatch("CMD") /\ state = "IDLE" /\ ncmd' = ncmd + 1
        /\ UNCHANGED <<state, exec, closereq>>
        /\ Emit(<<Answer("CMD_ACK", ncmd + 1, {})>>)
    BY <1>3 DEF EmptyCmd
  <2>2. <<Answer("CMD_ACK", ncmd + 1, {})>> \in Seq(AnswerType)
    BY <1>num, AckTyped, AnswerTyped
  <2>3. Service!Serve("CMD", Service!FinalAnswer(ncmd', NoData, FALSE))
    BY <2>1, <2>2, <1>sends, DispatchServes, SameMessages, EmptyIsFinal
  <2>4. NoData \in Service!Outputs
    BY MaxOutAssumption, SameMessages DEF NoData, Service!Outputs
  <2>5. Service!AnswerCmd
    BY <2>1, <2>3, <2>4, <1>phase, <1>next DEF Service!AnswerCmd
  <2>6. QED
    BY <2>5 DEF Service!Next, Service!Request
<1>4. CASE ErrorCmd
  <2>1. /\ Dispatch("CMD") /\ state = "IDLE" /\ ncmd' = ncmd + 1
        /\ UNCHANGED <<state, exec, closereq>>
        /\ Emit(<<Error("CMD_ACK", ncmd + 1)>>)
    BY <1>4 DEF ErrorCmd
  <2>2. Service!Serve("CMD", <<Service!Error("CMD_ACK", ncmd')>>)
    BY <2>1, <1>num, <1>acks, <1>sends, DispatchServes, SameMessages
  <2>3. Service!AnswerCmd
    BY <2>1, <2>2, <1>phase, <1>next DEF Service!AnswerCmd
  <2>4. QED
    BY <2>3 DEF Service!Next, Service!Request
<1>5. CASE SilentCmd
  <2>1. PICK w \in Plans[plan].works, running \in Terms :
          Emit(FinalAnswer(ncmd + 1, w.out,
                           session_done \/ Message.quit \/ running))
    BY <1>5 DEF SilentCmd
  <2>. DEFINE over == session_done \/ Message.quit \/ running
  <2>2. /\ Dispatch("CMD") /\ state = "IDLE" /\ ncmd' = ncmd + 1
        /\ UNCHANGED <<state, exec, closereq>>
    BY <1>5 DEF SilentCmd
  <2>3. over \in BOOLEAN /\ Emit(FinalAnswer(ncmd + 1, w.out, over))
    BY <2>1
  <2>. HIDE DEF over
  <2>4. w.out \in [Streams -> Nat] /\ w.out \in [Streams -> 0 .. MaxOut]
    BY <1>num, WorkOut
  <2>5. FinalAnswer(ncmd + 1, w.out, over) \in Seq(AnswerType)
    BY <2>3, <2>4, <1>num, FinalAnswerTyped
  <2>6. Service!Serve("CMD", Service!FinalAnswer(ncmd', w.out, over))
    BY <2>2, <2>3, <2>5, <1>sends, DispatchServes, SameMessages
  <2>7. w.out \in Service!Outputs
    BY <2>4, SameMessages DEF Service!Outputs
  <2>8. Service!AnswerCmd
    BY <2>2, <2>3, <2>6, <2>7, <1>phase, <1>next DEF Service!AnswerCmd
  <2>9. QED
    BY <2>8 DEF Service!Next, Service!Request
<1>6. CASE StartCmd
  <2>1. PICK w \in Plans[plan].works :
          Emit(<<Answer("CMD_ACK", ncmd + 1, {"INCOMPLETED"} \cup w.features)>>)
    BY <1>6 DEF StartCmd
  <2>2. /\ Dispatch("CMD") /\ state = "IDLE" /\ ncmd' = ncmd + 1
        /\ state' = "WAIT_FOR_PROCESS" /\ exec' = ncmd' /\ closereq' = FALSE
    BY <1>6 DEF StartCmd
  <2>3. w.features \in SUBSET Features
    BY <1>num, WorkOut
  <2>4. <<Answer("CMD_ACK", ncmd + 1, {"INCOMPLETED"} \cup w.features)>>
          \in Seq(AnswerType)
    <3>1. {"INCOMPLETED"} \cup w.features \in SUBSET Flags
      BY <2>3 DEF Flags
    <3>2. QED
      BY <3>1, <1>num, AckTyped, AnswerTyped
  <2>5. Service!Serve("CMD",
          <<Service!Answer("CMD_ACK", ncmd', {"INCOMPLETED"} \cup w.features)>>)
    BY <2>1, <2>2, <2>4, <1>sends, DispatchServes, SameMessages
  <2>6. Service!StartCmd
    BY <2>2, <2>3, <2>5, <1>phase, <1>next, SameMessages DEF Service!StartCmd
  <2>7. QED
    BY <2>6 DEF Service!Next, Service!Request
<1>7. CASE \E cmd \in {"COMPLETION", "HELP"} : Hint(cmd)
  <2>1. PICK cmd \in {"COMPLETION", "HELP"} : Hint(cmd)
    BY <1>7
  <2>2. /\ Dispatch(cmd) /\ state = "IDLE"
        /\ UNCHANGED <<state, exec, ncmd, closereq>>
        /\ \/ Emit(<<Error(Ack[cmd], 0)>>)
           \/ \E parsing \in Terms :
                Emit(<<Answer(Ack[cmd], 0, ExitStatus(session_done \/ parsing))>>)
    BY <2>1 DEF Hint
  <2>3. \A over \in BOOLEAN :
          <<Answer(Ack[cmd], 0, ExitStatus(over))>> \in Seq(AnswerType)
    BY AckTyped, AnswerTyped DEF ExitStatus, Flags
  <2>4. \A parsing \in Terms : (session_done \/ parsing) \in BOOLEAN
    OBVIOUS
  <2>5. \/ Service!Serve(cmd, <<Service!Error(Service!Ack[cmd], 0)>>)
        \/ \E over \in BOOLEAN :
             Service!Serve(cmd,
               <<Service!Answer(Service!Ack[cmd], 0, Service!ExitStatus(over))>>)
    <3>1. Emit(<<Error(Ack[cmd], 0)>>) =>
            Service!Serve(cmd, <<Service!Error(Service!Ack[cmd], 0)>>)
      BY <2>2, <1>acks, <1>sends, DispatchServes, SameMessages
    <3>2. \A over \in BOOLEAN :
            Emit(<<Answer(Ack[cmd], 0, ExitStatus(over))>>) =>
              Service!Serve(cmd,
                <<Service!Answer(Service!Ack[cmd], 0, Service!ExitStatus(over))>>)
      BY <2>2, <2>3, <1>sends, DispatchServes, SameMessages
    <3>3. QED
      BY <2>2, <2>4, <3>1, <3>2
  <2>6. Service!AnswerHint(cmd)
    BY <2>2, <2>5, <1>phase, <1>next DEF Service!AnswerHint
  <2>7. QED
    BY <2>6 DEF Service!Next, Service!Request
<1>8. CASE \/ ProcessStdin \/ ProcessStdinClose
           \/ \E s \in Streams : ProcessStreamClose(s)
  <2>1. /\ state = "WAIT_FOR_PROCESS" /\ UNCHANGED <<state, exec, ncmd>>
        /\ UNCHANGED <<s2c, obuf>>
    BY <1>8 DEF ProcessStdin, ProcessStdinClose, ProcessStreamClose, NoEmit
  <2>2. closereq \in BOOLEAN
    BY DEF IInv, TypeOK
  <2>3. \E cmd \in Service!Streaming :
          Dispatch(cmd) /\ closereq' = (closereq \/ cmd = "STDIN_CLOSE")
    <3>1. CASE ProcessStdin
      BY <3>1, <2>2 DEF ProcessStdin, Service!Streaming
    <3>2. CASE ProcessStdinClose
      BY <3>2 DEF ProcessStdinClose, Service!Streaming
    <3>3. CASE \E s \in Streams : ProcessStreamClose(s)
      <4>1. PICK s \in Streams : ProcessStreamClose(s)
        BY <3>3
      <4>2. CloseCmd[s] \in {"STDOUT_CLOSE", "STDERR_CLOSE"}
        BY DEF CloseCmd, Streams
      <4>3. Dispatch(CloseCmd[s]) /\ closereq' = closereq
        BY <4>1 DEF ProcessStreamClose
      <4>4. QED
        BY <4>2, <4>3, <2>2 DEF Service!Streaming
    <3>4. QED
      BY <1>8, <3>1, <3>2, <3>3
  <2>4. PICK cmd \in Service!Streaming :
          Dispatch(cmd) /\ closereq' = (closereq \/ cmd = "STDIN_CLOSE")
    BY <2>3
  <2>5. Service!Serve(cmd, << >>)
    BY <2>1, <2>4, <1>silent, DispatchServes
  <2>6. Service!Accept(cmd)
    BY <2>1, <2>4, <2>5, <1>phase, <1>next DEF Service!Accept
  <2>7. QED
    BY <2>6 DEF Service!Next, Service!Request
<1>9. CASE \E s \in Streams : StreamIn(s) \/ StreamHup(s)
  <2>1. PICK s \in Streams : StreamIn(s) \/ StreamHup(s)
    BY <1>9
  <2>2. /\ alive /\ exec # 0
        /\ UNCHANGED <<c2s, state, exec, ncmd, closereq, alive>>
        /\ \/ \E k \in 1 .. pipe[s] : Emit(Data(s, exec, k))
           \/ UNCHANGED <<s2c, obuf>>
    BY <2>1 DEF StreamIn, StreamHup, Event, NoEmit
  <2>3. Phase = "running"
    BY <2>2, <1>phase DEF IInv, ExecIsState
  <2>4. CASE \E k \in 1 .. pipe[s] : Emit(Data(s, exec, k))
    <3>1. PICK k \in 1 .. pipe[s] : Emit(Data(s, exec, k))
      BY <2>4
    <3>2. k \in Nat /\ k \in 1 .. MaxOut
      <4>1. pipe[s] \in Nat /\ todo[s] \in Nat /\ pipe[s] + todo[s] <= MaxOut
        BY DEF IInv, TypeOK, OutputBounds
      <4>2. QED
        BY <4>1, MaxOutAssumption
    <3>3. Answers' = Answers \o Service!Data(s, exec, k)
      BY <3>1, <3>2, <1>num, <1>sends, DataTyped, SameMessages
    <3>4. Service!Output(s)
      BY <3>2, <3>3, <2>2, <2>3, <1>next DEF Service!Output
    <3>5. QED
      BY <3>4, SameMessages DEF Service!Next
  <2>5. CASE UNCHANGED <<s2c, obuf>>
    BY <2>2, <2>5, <1>silent, <1>stutter
  <2>6. QED
    BY <2>2, <2>4, <2>5
<1>10. CASE Done
  <2>1. PICK log \in Terms :
          /\ Emit(FinalAnswer(exec, pipe, session_done \/ log))
          /\ exit' = (exit \/ (session_done \/ log))
    BY <1>10 DEF Done, SetDone
  <2>. DEFINE over == session_done \/ log
  <2>2. /\ alive /\ ~inev /\ exec # 0 /\ alive' = ~exit'
        /\ exec' = 0 /\ state' = "IDLE" /\ closereq' = FALSE
        /\ UNCHANGED <<c2s, ncmd>>
    BY <1>10 DEF Done, Event, FreeExec
  <2>3. ~exit
    BY <2>2 DEF IInv, ExitStops
  <2>4. /\ over \in BOOLEAN /\ alive' = ~over
        /\ Emit(FinalAnswer(exec, pipe, over))
    BY <2>1, <2>2, <2>3
  <2>. HIDE DEF over
  <2>5. pipe \in Service!Outputs
    <3>1. \A s \in Streams : pipe[s] \in Nat /\ todo[s] \in Nat
                               /\ pipe[s] + todo[s] <= MaxOut
      BY DEF IInv, TypeOK, OutputBounds
    <3>2. \A s \in Streams : pipe[s] \in 0 .. MaxOut
      BY <3>1, MaxOutAssumption
    <3>3. QED
      BY <3>2, <1>pipe, SameMessages DEF Service!Outputs
  <2>6. Answers' = Answers \o Service!FinalAnswer(exec, pipe, over)
    BY <2>4, <1>num, <1>pipe, <1>sends, FinalAnswerTyped, SameMessages
  <2>7. Phase = "running" /\ Phase' = "idle"
    BY <2>2, <1>phase, <1>next DEF IInv, ExecIsState
  <2>8. Service!Finish
    BY <2>2, <2>4, <2>5, <2>6, <2>7 DEF Service!Finish
  <2>9. QED
    BY <2>8 DEF Service!Next
<1>11. CASE \E m \in Requests : ClientSend(m)
  <2>1. PICK m \in Requests : ClientSend(m)
    BY <1>11
  <2>2. /\ c2s' = Append(c2s, m)
        /\ UNCHANGED <<state, exec, ncmd, closereq, alive, s2c, obuf>>
    BY <2>1 DEF ClientSend
  <2>3. Service!Send(m)
    BY <2>2, <1>next, <1>silent DEF Service!Send
  <2>4. QED
    BY <2>3 DEF Service!Next
<1>12. CASE ClientEvEnd \/ LoopStops
  <2>1. /\ UNCHANGED <<c2s, state, exec, ncmd, closereq, s2c, obuf>>
        /\ alive' = FALSE \/ alive' = alive
    BY <1>12 DEF ClientEvEnd, LoopStops
  <2>2. CASE alive' = alive
    BY <2>1, <2>2, <1>silent, <1>stutter
  <2>3. CASE alive' = FALSE
    <3>1. Service!Down
      BY <2>1, <2>3, <1>next, <1>silent DEF Service!Down
    <3>2. QED
      BY <3>1 DEF Service!Next
  <2>4. QED
    BY <2>1, <2>2, <2>3
<1>13. CASE AsyncOut
  <2>1. Answers' = Answers
    BY <1>13, <1>s2c, AsyncOutAppends
  <2>2. UNCHANGED <<c2s, state, exec, ncmd, closereq, alive>>
    BY <1>13 DEF AsyncOut
  <2>3. QED
    BY <2>1, <2>2, <1>stutter
<1>14. CASE StdinReady \/ StdinHup \/ NotDone
  <2>1. /\ UNCHANGED <<c2s, state, exec, ncmd, closereq, alive>>
        /\ UNCHANGED <<s2c, obuf>>
    BY <1>14 DEF StdinReady, StdinHup, NotDone
  <2>2. QED
    BY <2>1, <1>silent, <1>stutter
<1>15. CASE \/ \E s \in Streams : ProcWrite(s) \/ ProcEpipe(s)
            \/ ProcRead \/ ProcCloseStdin \/ ProcExit \/ ProcKilled
  <2>1. /\ UNCHANGED <<c2s, state, exec, ncmd, closereq, alive>>
        /\ UNCHANGED <<s2c, obuf>>
    BY <1>15 DEF ProcWrite, ProcEpipe, ProcRead, ProcCloseStdin, ProcExit,
       ProcKilled, ProcEnds
  <2>2. QED
    BY <2>1, <1>silent, <1>stutter
<1>16. CASE UNCHANGED vars
  <2>1. /\ UNCHANGED <<c2s, state, exec, ncmd, closereq, alive>>
        /\ UNCHANGED <<s2c, obuf>>
    BY <1>16 DEF vars
  <2>2. QED
    BY <2>1, <1>silent, <1>stutter
<1>. QED
  BY <1>1, <1>2, <1>3, <1>4, <1>5, <1>6, <1>7, <1>8, <1>9, <1>10, <1>11,
     <1>12, <1>13, <1>14, <1>15, <1>16 DEF Next, ClientEv, SigChldEv

(* A session keeps the promise of KtpService, whatever its buffers, pauses *)
(* and processes do: requests are answered in order, each as the phase     *)
(* allows, for all clients and commands.                                   *)
THEOREM SessionKeepsPromise == Spec => KeepsPromise
<1>1. Init => Service!Init
  BY InitMaps
<1>2. IInv /\ IInv' /\ [Next]_vars => [Service!Next]_Service!vars
  BY StepMaps
<1>3. QED
  BY <1>1, <1>2, SessionInvariant, PTL DEF Spec, KeepsPromise, Service!Spec
-----------------------------------------------------------------------------
(* What is proved of the service in module KtpServiceProofs holds of the   *)
(* session: that module is instantiated as KtpService is, and its actions  *)
(* are those of Service.                                                   *)
Promise == INSTANCE KtpServiceProofs WITH
  s2c <- Answers, phase <- Phase, cur <- exec, eof <- closereq, up <- alive

LEMMA PromisedMessages ==
  /\ \A c, n, st : Promise!Answer(c, n, st) = Service!Answer(c, n, st)
  /\ \A c, n : Promise!Error(c, n) = Service!Error(c, n)
  /\ \A s, n, len : Promise!Data(s, n, len) = Service!Data(s, n, len)
  /\ \A over : Promise!ExitStatus(over) = Service!ExitStatus(over)
  /\ \A n, data, over :
       Promise!FinalAnswer(n, data, over) = Service!FinalAnswer(n, data, over)
  /\ Promise!Ack = Service!Ack /\ Promise!Streams = Service!Streams
  /\ Promise!Features = Service!Features
<1>1. \A c, n, st : Promise!Answer(c, n, st) = Service!Answer(c, n, st)
  BY DEF Service!Answer, Promise!Answer
<1>2. \A c, n : Promise!Error(c, n) = Service!Error(c, n)
  BY <1>1 DEF Service!Error, Promise!Error
<1>3. \A s, n, len : Promise!Data(s, n, len) = Service!Data(s, n, len)
  BY DEF Service!Data, Promise!Data
<1>4. \A over : Promise!ExitStatus(over) = Service!ExitStatus(over)
  BY DEF Service!ExitStatus, Promise!ExitStatus
<1>5. \A n, data, over :
        Promise!FinalAnswer(n, data, over) = Service!FinalAnswer(n, data, over)
  BY <1>1, <1>3, <1>4 DEF Service!FinalAnswer, Promise!FinalAnswer
<1>6. /\ Promise!Ack = Service!Ack /\ Promise!Streams = Service!Streams
      /\ Promise!Features = Service!Features
  BY DEF Service!Ack, Promise!Ack, Service!Streams, Promise!Streams,
     Service!Features, Promise!Features
<1>7. QED
  BY <1>1, <1>2, <1>3, <1>4, <1>5, <1>6

LEMMA SameService ==
  /\ Service!Init <=> Promise!Init
  /\ Service!vars = Promise!vars
  /\ Service!Next <=> Promise!Next
<1>1. Service!Init <=> Promise!Init
  BY DEF Service!Init, Promise!Init
<1>2. Service!vars = Promise!vars
  BY DEF Service!vars, Promise!vars
<1>3. \A cmd, t : Service!Serve(cmd, t) <=> Promise!Serve(cmd, t)
  BY DEF Service!Serve, Promise!Serve
<1>out. Service!Outputs = Promise!Outputs /\ Service!Streaming = Promise!Streaming
  BY PromisedMessages DEF Service!Outputs, Promise!Outputs,
     Service!Streaming, Promise!Streaming
<1>4. Service!Auth <=> Promise!Auth
  BY <1>3, <1>out, PromisedMessages DEF Service!Auth, Promise!Auth
<1>5. Service!AnswerCmd <=> Promise!AnswerCmd
  BY <1>3, <1>out, PromisedMessages DEF Service!AnswerCmd, Promise!AnswerCmd
<1>6. Service!StartCmd <=> Promise!StartCmd
  BY <1>3, <1>out, PromisedMessages DEF Service!StartCmd, Promise!StartCmd
<1>7. Service!RefuseCmd <=> Promise!RefuseCmd
  BY <1>3, <1>out, PromisedMessages DEF Service!RefuseCmd, Promise!RefuseCmd
<1>8. Service!Notified <=> Promise!Notified
  BY <1>3, <1>out, PromisedMessages DEF Service!Notified, Promise!Notified
<1>9. Service!Refuse <=> Promise!Refuse
  BY <1>3, <1>out, PromisedMessages DEF Service!Refuse, Promise!Refuse
<1>10. Service!Finish <=> Promise!Finish
  BY <1>3, <1>out, PromisedMessages DEF Service!Finish, Promise!Finish
<1>11. Service!Down <=> Promise!Down
  BY <1>3, <1>out, PromisedMessages DEF Service!Down, Promise!Down
<1>12. \A cmd : Service!AnswerHint(cmd) <=> Promise!AnswerHint(cmd)
  BY <1>3, <1>out, PromisedMessages DEF Service!AnswerHint, Promise!AnswerHint
<1>13. \A cmd : Service!Accept(cmd) <=> Promise!Accept(cmd)
  BY <1>3, <1>out, PromisedMessages DEF Service!Accept, Promise!Accept
<1>14. \A cmd : Service!TooLate(cmd) <=> Promise!TooLate(cmd)
  BY <1>3, <1>out, PromisedMessages DEF Service!TooLate, Promise!TooLate
<1>15. \A s : Service!Output(s) <=> Promise!Output(s)
  BY <1>3, <1>out, PromisedMessages DEF Service!Output, Promise!Output
<1>16. \A m : Service!Send(m) <=> Promise!Send(m)
  BY <1>3, <1>out, PromisedMessages DEF Service!Send, Promise!Send
<1>17. Service!Request <=> Promise!Request
  BY <1>4, <1>5, <1>6, <1>7, <1>8, <1>12, <1>13, <1>14, <1>out DEF Service!Request, Promise!Request
<1>18. Service!Next <=> Promise!Next
  BY <1>9, <1>10, <1>11, <1>15, <1>16, <1>17, PromisedMessages
  DEF Service!Next, Promise!Next
<1>. QED
  BY <1>1, <1>2, <1>18

LEMMA PromiseHolds == Spec => Promise!Spec
<1>1. Spec => Service!Spec
  BY SessionKeepsPromise DEF KeepsPromise
<1>2. Service!Init => Promise!Init
  BY SameService
<1>3. [Service!Next]_Service!vars => [Promise!Next]_Promise!vars
  <2>1. Service!vars' = Service!vars => Promise!vars' = Promise!vars
    BY DEF Service!vars, Promise!vars
  <2>2. QED
    BY <2>1, SameService
<1>4. QED
  BY <1>1, <1>2, <1>3, PTL DEF Service!Spec, Promise!Spec

(* Every command a session has taken has exactly one final answer, the     *)
(* running one none as yet: no path through process_cmd(), dispatch() and  *)
(* wait_for_actions_ev() forgets the answer or gives it twice.             *)
THEOREM SessionOneFinalAnswer == Spec => []Service!OneFinalAnswer
<1>1. Promise!Spec => []Promise!OneFinalAnswer
  BY Promise!ServiceOneFinalAnswer, MaxOutAssumption, PTL
<1>2. Promise!OneFinalAnswer => Service!OneFinalAnswer
  BY DEF Promise!OneFinalAnswer, Service!OneFinalAnswer,
     Promise!IsFinal, Service!IsFinal
<1>3. QED
  BY <1>1, <1>2, PromiseHolds, PTL

(* Output of a command is sent between the first answer to a command that  *)
(* waits for processes and its final answer, never outside of them: the    *)
(* rest of the pipes is read in wait_for_actions_ev() before the status is *)
(* sent, and nothing of a command is left to read behind it.               *)
THEOREM SessionOutputInsideCommand == Spec => []OutputInsideCommand
<1>1. Promise!Spec => []Promise!OutputBeforeFinal
  BY Promise!ServiceOutputBeforeFinal, MaxOutAssumption, PTL
<1>2. Promise!Spec => []Promise!AcknowledgedFirst
  BY Promise!ServiceAcknowledgedFirst, MaxOutAssumption, PTL
<1>3. Promise!OutputBeforeFinal /\ Promise!AcknowledgedFirst
        => OutputInsideCommand
  <2> SUFFICES ASSUME Promise!OutputBeforeFinal, Promise!AcknowledgedFirst,
                      NEW i \in DOMAIN Answers, NEW j \in DOMAIN Answers,
                      Answers[i].cmd = "CMD_ACK", Answers[j].cmd \in Streams,
                      Answers[i].n = Answers[j].n
               PROVE  IF "INCOMPLETED" \in Answers[i].status
                      THEN i < j ELSE j < i
    BY DEF OutputInsideCommand
  <2>1. Promise!IsOutput(Answers[j], Answers[i].n)
    BY DEF Promise!IsOutput, Promise!Streams, Streams
  <2>2. CASE "INCOMPLETED" \in Answers[i].status
    <3>1. Promise!IsFirst(Answers[i])
      BY <2>2 DEF Promise!IsFirst
    <3>2. QED
      BY <2>1, <2>2, <3>1 DEF Promise!AcknowledgedFirst
  <2>3. CASE "INCOMPLETED" \notin Answers[i].status
    <3>1. Promise!IsFinal(Answers[i], Answers[i].n)
      BY <2>3 DEF Promise!IsFinal
    <3>2. QED
      BY <2>1, <2>3, <3>1 DEF Promise!OutputBeforeFinal
  <2>4. QED
    BY <2>2, <2>3
<1>4. QED
  BY <1>1, <1>2, <1>3, PromiseHolds, PTL
=============================================================================
