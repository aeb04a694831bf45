-------------------------- MODULE KtpServiceProofs --------------------------
(***************************************************************************)
(* The contract between client and server is a sound one: whatever clients *)
(* send and however often the server refuses, every command has one final  *)
(* answer, at its end.  The proofs hold for every set of requests and all  *)
(* sizes of messages; the invariants of KtpService are not inductive, what *)
(* makes them so is that every message belongs to a command served so far, *)
(* and that the running one has no final answer yet.                       *)
(***************************************************************************)
EXTENDS KtpService, TLAPS

(* What is known of the messages s of k commands, c of which is running   *)
(* (0: none): they belong to these commands, the running one has no final  *)
(* answer, every other one has one, no command has two, and none has       *)
(* output behind it.                                                       *)
Numbered(s, k) == \A i \in DOMAIN s : s[i].n \in 0 .. k
NotYet(s, c) ==
  \A i \in DOMAIN s : IsFinal(s[i], s[i].n) => s[i].n # c /\ s[i].n # 0
Answered(s, c, k) ==
  \A n \in 1 .. k : n # c => \E i \in DOMAIN s : IsFinal(s[i], n)
Once(s) ==
  \A i, j \in DOMAIN s : IsFinal(s[i], s[i].n) /\ IsFinal(s[j], s[i].n) => i = j
Last(s) ==
  \A i, j \in DOMAIN s : IsFinal(s[i], s[i].n) /\ IsOutput(s[j], s[i].n) => j < i

Ordered(s, c, k) ==
  Numbered(s, k) /\ NotYet(s, c) /\ Answered(s, c, k) /\ Once(s) /\ Last(s)

(* The inductive invariant.                                                *)
SInv ==
  /\ phase = "running" <=> cur # 0
  /\ Ordered(s2c, cur, ncmd)

(* The messages t end command n: their last one is its final answer.       *)
Ends(t, n) ==
  /\ t # << >>
  /\ \A i \in DOMAIN t : t[i].n = n
  /\ \A i \in DOMAIN t : IsFinal(t[i], n) <=> i = Len(t)
  /\ \A i \in DOMAIN t : ~(IsFinal(t[i], n) /\ IsOutput(t[i], n))

(* The messages t are output of command c, or answer no command at all.    *)
Continues(t, c) ==
  \A i \in DOMAIN t :
    /\ t[i].n \in {0, c}
    /\ ~IsFinal(t[i], t[i].n)
    /\ c = 0 => ~IsOutput(t[i], t[i].n)
    /\ t[i].n = 0 => ~IsOutput(t[i], 0)

-----------------------------------------------------------------------------
(* What messages are: members of AnswerType, with the n they were made for. *)
LEMMA AnswerIs ==
  ASSUME NEW cmd \in {Ack[c] : c \in DOMAIN Ack} \cup {"NOTIFICATION"},
         NEW n \in Nat, NEW status \in SUBSET Flags
  PROVE  /\ Answer(cmd, n, status) \in AnswerType
         /\ Answer(cmd, n, status).n = n
         /\ \A k : ~IsOutput(Answer(cmd, n, status), k)
         /\ IsFinal(Answer(cmd, n, status), n) <=>
              cmd = "CMD_ACK" /\ "INCOMPLETED" \notin status
  BY DEF Answer, AnswerType, IsOutput, IsFinal, Streams, Ack

LEMMA AckIsAck ==
  /\ \A c \in {"AUTH", "CMD", "COMPLETION", "HELP"} : Ack[c] \in {Ack[d] : d \in DOMAIN Ack}
  /\ "CMD_ACK" \in {Ack[d] : d \in DOMAIN Ack} /\ "AUTH_ACK" \in {Ack[d] : d \in DOMAIN Ack}
  /\ \A c \in {"COMPLETION", "HELP"} : Ack[c] # "CMD_ACK"
  <1>1. DOMAIN Ack = {"AUTH", "CMD", "COMPLETION", "HELP"}
    BY DEF Ack
  <1>2. Ack["AUTH"] = "AUTH_ACK" /\ Ack["CMD"] = "CMD_ACK" /\ Ack["HELP"] = "HELP_ACK"
        /\ Ack["COMPLETION"] = "COMPLETION_ACK"
    BY DEF Ack
  <1> QED BY <1>1, <1>2

LEMMA DataIs ==
  ASSUME NEW s \in Streams, NEW n \in Nat, NEW len \in Nat
  PROVE  /\ Data(s, n, len) \in Seq(AnswerType)
         /\ \A i \in DOMAIN Data(s, n, len) :
              /\ Data(s, n, len)[i].n = n
              /\ IsOutput(Data(s, n, len)[i], n)
              /\ ~IsFinal(Data(s, n, len)[i], n)
  <1>1. CASE len = 0
    BY <1>1 DEF Data
  <1>2. CASE len # 0
    <2> DEFINE m == [cmd |-> s, n |-> n, status |-> {}, len |-> len]
    <2>1. m \in AnswerType BY DEF AnswerType, Flags
    <2>2. m.n = n /\ IsOutput(m, n) /\ ~IsFinal(m, n)
      BY DEF IsOutput, IsFinal, Streams
    <2>3. Data(s, n, len) = <<m>> BY <1>2 DEF Data
    <2> HIDE DEF m
    <2> QED BY <2>1, <2>2, <2>3
  <1> QED BY <1>1, <1>2

(* The messages that end a command.                                        *)
LEMMA ErrorEnds ==
  ASSUME NEW n \in Nat
  PROVE  /\ <<Error("CMD_ACK", n)>> \in Seq(AnswerType)
         /\ Ends(<<Error("CMD_ACK", n)>>, n)
  <1> DEFINE m == Answer("CMD_ACK", n, {"ERROR"})
  <1>1. /\ m \in AnswerType /\ m.n = n
        /\ ~IsOutput(m, n) /\ IsFinal(m, n)
    BY AnswerIs, AckIsAck DEF Flags
  <1>2. Error("CMD_ACK", n) = m BY DEF Error
  <1> HIDE DEF m
  <1>3. <<m>> \in Seq(AnswerType) /\ Ends(<<m>>, n)
    BY <1>1 DEF Ends, IsFinal, IsOutput
  <1> QED BY <1>2, <1>3

LEMMA FinalAnswerEnds ==
  ASSUME NEW n \in Nat, NEW data \in Outputs, NEW over \in BOOLEAN
  PROVE  /\ FinalAnswer(n, data, over) \in Seq(AnswerType)
         /\ Ends(FinalAnswer(n, data, over), n)
  <1> DEFINE m == Answer("CMD_ACK", n, ExitStatus(over))
             a == Data("STDOUT", n, data["STDOUT"])
             b == Data("STDERR", n, data["STDERR"])
  <1>1. data["STDOUT"] \in Nat /\ data["STDERR"] \in Nat
    BY MaxOutAssumption DEF Outputs, Streams
  <1>2. ExitStatus(over) \in SUBSET Flags /\ "INCOMPLETED" \notin ExitStatus(over)
    BY DEF ExitStatus, Flags
  <1>3. m \in AnswerType /\ m.n = n /\ ~IsOutput(m, n) /\ IsFinal(m, n)
    BY <1>2, AnswerIs, AckIsAck
  <1>4. /\ a \in Seq(AnswerType)
        /\ \A i \in DOMAIN a : a[i].n = n /\ IsOutput(a[i], n) /\ ~IsFinal(a[i], n)
    BY <1>1, DataIs DEF Streams
  <1>5. /\ b \in Seq(AnswerType)
        /\ \A i \in DOMAIN b : b[i].n = n /\ IsOutput(b[i], n) /\ ~IsFinal(b[i], n)
    BY <1>1, DataIs DEF Streams
  <1>6. FinalAnswer(n, data, over) = a \o b \o <<m>>
    BY DEF FinalAnswer
  <1> HIDE DEF a, b, m
  <1>7. a \o b \in Seq(AnswerType)
        /\ \A i \in DOMAIN (a \o b) :
             (a \o b)[i].n = n /\ ~IsFinal((a \o b)[i], n)
    BY <1>4, <1>5
  <1> DEFINE c == a \o b
  <1> HIDE DEF c
  <1>8. /\ c \in Seq(AnswerType)
        /\ \A i \in DOMAIN c : c[i].n = n /\ ~IsFinal(c[i], n)
    BY <1>7 DEF c
  <1>9. c \o <<m>> \in Seq(AnswerType) /\ Ends(c \o <<m>>, n)
    <2>1. c \o <<m>> \in Seq(AnswerType) BY <1>3, <1>8
    <2>2. Len(c \o <<m>>) = Len(c) + 1 /\ c \o <<m>> # << >> BY <1>8, <1>3
    <2>3. ASSUME NEW i \in DOMAIN (c \o <<m>>)
          PROVE  \/ i \in DOMAIN c /\ i # Len(c) + 1 /\ (c \o <<m>>)[i] = c[i]
                 \/ i = Len(c) + 1 /\ (c \o <<m>>)[i] = m
      BY <1>3, <1>8
    <2> QED BY <1>3, <1>8, <2>2, <2>3 DEF Ends, IsFinal, IsOutput
  <1> QED BY <1>6, <1>9 DEF c

(* What the other answers are.                                             *)
LEMMA AnswerContinues ==
  ASSUME NEW cmd \in {"AUTH_ACK", "COMPLETION_ACK", "HELP_ACK", "NOTIFICATION"},
         NEW status \in SUBSET Flags, NEW c \in Nat
  PROVE  /\ <<Answer(cmd, 0, status)>> \in Seq(AnswerType)
         /\ Continues(<<Answer(cmd, 0, status)>>, c)
  <1> DEFINE m == Answer(cmd, 0, status)
  <1>1. cmd \in {Ack[d] : d \in DOMAIN Ack} \cup {"NOTIFICATION"} /\ cmd # "CMD_ACK"
    <2>1. DOMAIN Ack = {"AUTH", "CMD", "COMPLETION", "HELP"} BY DEF Ack
    <2> QED BY <2>1 DEF Ack
  <1>2. m \in AnswerType /\ m.n = 0 /\ ~IsOutput(m, 0) /\ ~IsFinal(m, 0)
    BY <1>1, AnswerIs
  <1> HIDE DEF m
  <1>3. <<m>> \in Seq(AnswerType) /\ Continues(<<m>>, c)
    BY <1>2 DEF Continues, IsFinal, IsOutput
  <1> QED BY <1>3 DEF m

LEMMA RunningContinues ==
  ASSUME NEW n \in Nat \ {0}, NEW f \in SUBSET Features
  PROVE  /\ <<Answer("CMD_ACK", n, {"INCOMPLETED"} \cup f)>> \in Seq(AnswerType)
         /\ Continues(<<Answer("CMD_ACK", n, {"INCOMPLETED"} \cup f)>>, n)
  <1> DEFINE m == Answer("CMD_ACK", n, {"INCOMPLETED"} \cup f)
  <1>1. {"INCOMPLETED"} \cup f \in SUBSET Flags BY DEF Flags, Features
  <1>2. m \in AnswerType /\ m.n = n /\ ~IsOutput(m, n) /\ ~IsFinal(m, n)
    BY <1>1, AnswerIs, AckIsAck DEF IsFinal, IsOutput
  <1> HIDE DEF m
  <1>3. <<m>> \in Seq(AnswerType) /\ Continues(<<m>>, n)
    BY <1>2 DEF Continues, IsFinal, IsOutput
  <1> QED BY <1>3 DEF m

LEMMA DataContinues ==
  ASSUME NEW s \in Streams, NEW c \in Nat \ {0}, NEW len \in Nat
  PROVE  Data(s, c, len) \in Seq(AnswerType) /\ Continues(Data(s, c, len), c)
  <1> DEFINE t == Data(s, c, len)
  <1>1. /\ t \in Seq(AnswerType)
        /\ \A i \in DOMAIN t : t[i].n = c /\ IsOutput(t[i], c) /\ ~IsFinal(t[i], c)
    BY DataIs
  <1> HIDE DEF t
  <1>2. t \in Seq(AnswerType) /\ Continues(t, c)
    BY <1>1 DEF Continues, IsFinal, IsOutput
  <1> QED BY <1>2 DEF t

-----------------------------------------------------------------------------
(* Messages stay ordered when those of one step are appended.              *)
LEMMA Appended ==
  ASSUME NEW s \in Seq(AnswerType), NEW t \in Seq(AnswerType)
  PROVE  /\ s \o t \in Seq(AnswerType)
         /\ Len(s) \in Nat /\ Len(t) \in Nat
         /\ DOMAIN s = 1 .. Len(s) /\ DOMAIN t = 1 .. Len(t)
         /\ DOMAIN (s \o t) = 1 .. (Len(s) + Len(t))
         /\ \A i \in 1 .. Len(s) : (s \o t)[i] = s[i]
         /\ \A i \in 1 .. Len(t) : (s \o t)[i + Len(s)] = t[i]
         /\ \A i \in (1 .. (Len(s) + Len(t))) \ (1 .. Len(s)) :
              i - Len(s) \in 1 .. Len(t) /\ (s \o t)[i] = t[i - Len(s)]
  <1>1. s \o t \in Seq(AnswerType) OBVIOUS
  <1>2. Len(s \o t) = Len(s) + Len(t) /\ Len(s) \in Nat /\ Len(t) \in Nat OBVIOUS
  <1>3. DOMAIN s = 1 .. Len(s) /\ DOMAIN t = 1 .. Len(t) OBVIOUS
  <1>4. DOMAIN (s \o t) = 1 .. (Len(s) + Len(t))
    BY <1>1, <1>2
  <1>5. \A i \in 1 .. Len(s) : (s \o t)[i] = s[i] BY <1>2
  <1>6. \A i \in 1 .. Len(t) : (s \o t)[i + Len(s)] = t[i] BY <1>2
  <1>7. \A i \in (1 .. (Len(s) + Len(t))) \ (1 .. Len(s)) :
          i - Len(s) \in 1 .. Len(t) /\ (s \o t)[i] = t[i - Len(s)]
    BY <1>2
  <1> QED BY <1>1, <1>2, <1>3, <1>4, <1>5, <1>6, <1>7

(* u is s followed by t, as a case distinction on positions.               *)
Joins(s, t, u) ==
  /\ Len(s) \in Nat
  /\ DOMAIN s = 1 .. Len(s) /\ DOMAIN t = 1 .. Len(t)
  /\ \A i \in DOMAIN u :
       /\ i \in Nat
       /\ \/ i \in DOMAIN s /\ u[i] = s[i]
          \/ i > Len(s) /\ i - Len(s) \in DOMAIN t /\ u[i] = t[i - Len(s)]
  /\ \A i \in DOMAIN s : i \in DOMAIN u /\ u[i] = s[i]
  /\ \A j \in DOMAIN t : j + Len(s) \in DOMAIN u /\ u[j + Len(s)] = t[j]

LEMMA Joined ==
  ASSUME NEW s \in Seq(AnswerType), NEW t \in Seq(AnswerType)
  PROVE  Joins(s, t, s \o t)
  <1> DEFINE u == s \o t
  <1>1. /\ Len(s) \in Nat /\ Len(t) \in Nat
        /\ DOMAIN s = 1 .. Len(s) /\ DOMAIN t = 1 .. Len(t)
        /\ DOMAIN u = 1 .. (Len(s) + Len(t))
        /\ \A i \in 1 .. Len(s) : u[i] = s[i]
        /\ \A i \in 1 .. Len(t) : u[i + Len(s)] = t[i]
        /\ \A i \in (1 .. (Len(s) + Len(t))) \ (1 .. Len(s)) :
             i - Len(s) \in 1 .. Len(t) /\ u[i] = t[i - Len(s)]
    BY Appended
  <1> HIDE DEF u
  <1> QED BY <1>1 DEF Joins, u

(* ... by output of the running command, and by answers to other requests. *)
LEMMA OrderedContinues ==
  ASSUME NEW s, NEW t, NEW u, Joins(s, t, u),
         NEW k \in Nat, NEW c \in 0 .. k, Ordered(s, c, k), Continues(t, c)
  PROVE  Ordered(u, c, k)
  <1>1. Numbered(u, k)
    <2> SUFFICES ASSUME NEW i \in DOMAIN u PROVE u[i].n \in 0 .. k
      BY DEF Numbered
    <2>1. CASE i \in DOMAIN s /\ u[i] = s[i]
      BY <2>1 DEF Ordered, Numbered
    <2>2. CASE i - Len(s) \in DOMAIN t /\ u[i] = t[i - Len(s)]
      BY <2>2 DEF Continues
    <2> QED BY <2>1, <2>2 DEF Joins
  <1>2. NotYet(u, c)
    <2> SUFFICES ASSUME NEW i \in DOMAIN u, IsFinal(u[i], u[i].n) PROVE u[i].n # c /\ u[i].n # 0
      BY DEF NotYet
    <2>1. CASE i \in DOMAIN s /\ u[i] = s[i]
      BY <2>1 DEF Ordered, Numbered, NotYet, IsFinal
    <2>2. CASE i - Len(s) \in DOMAIN t /\ u[i] = t[i - Len(s)]
      BY <2>2 DEF Continues, IsFinal
    <2> QED BY <2>1, <2>2 DEF Joins
  <1>3. Answered(u, c, k)
    <2> SUFFICES ASSUME NEW n \in 1 .. k, n # c
                 PROVE  \E i \in DOMAIN u : IsFinal(u[i], n)
      BY DEF Answered
    <2>1. PICK i \in DOMAIN s : IsFinal(s[i], n) BY DEF Ordered, Answered
    <2> QED BY <2>1 DEF Joins
  <1>4. Once(u)
    <2> SUFFICES ASSUME NEW i \in DOMAIN u, NEW j \in DOMAIN u,
                        IsFinal(u[i], u[i].n), IsFinal(u[j], u[i].n)
                 PROVE  i = j
      BY DEF Once
    <2> DEFINE Old(p) == p \in DOMAIN s /\ u[p] = s[p]
               New(p) == p - Len(s) \in DOMAIN t /\ u[p] = t[p - Len(s)]
    <2>1. CASE Old(i) /\ Old(j) BY <2>1 DEF Ordered, Once
    <2>2. CASE New(i) /\ New(j) BY <2>2 DEF Continues, IsFinal
    <2>3. CASE Old(i) /\ New(j) BY <2>3 DEF Ordered, Numbered, NotYet, Continues, IsFinal
    <2>4. CASE New(i) /\ Old(j) BY <2>4 DEF Ordered, Numbered, NotYet, Continues, IsFinal
    <2> QED BY <2>1, <2>2, <2>3, <2>4 DEF Joins
  <1>5. Last(u)
    <2> SUFFICES ASSUME NEW i \in DOMAIN u, NEW j \in DOMAIN u,
                        IsFinal(u[i], u[i].n), IsOutput(u[j], u[i].n)
                 PROVE  j < i
      BY DEF Last
    <2> DEFINE Old(p) == p \in DOMAIN s /\ u[p] = s[p]
               New(p) == p > Len(s) /\ p - Len(s) \in DOMAIN t /\ u[p] = t[p - Len(s)]
    <2>1. CASE Old(i) /\ Old(j) BY <2>1 DEF Ordered, Last
    <2>2. CASE New(i) /\ New(j) BY <2>2 DEF Continues
    <2>3. CASE Old(i) /\ New(j) BY <2>3 DEF Ordered, Numbered, NotYet, Continues, IsFinal, IsOutput
    <2>4. CASE New(i) /\ Old(j) BY <2>4 DEF Joins
    <2> QED BY <2>1, <2>2, <2>3, <2>4 DEF Joins
  <1> QED BY <1>1, <1>2, <1>3, <1>4, <1>5 DEF Ordered

(* ... when a command starts, *)
LEMMA OrderedStarts ==
  ASSUME NEW s, NEW t, NEW u, Joins(s, t, u),
         NEW k \in Nat, Ordered(s, 0, k), Continues(t, k + 1)
  PROVE  Ordered(u, k + 1, k + 1)
  <1>1. Numbered(u, k + 1)
    <2> SUFFICES ASSUME NEW i \in DOMAIN u PROVE u[i].n \in 0 .. (k + 1)
      BY DEF Numbered
    <2>1. CASE i \in DOMAIN s /\ u[i] = s[i]
      BY <2>1 DEF Ordered, Numbered
    <2>2. CASE i - Len(s) \in DOMAIN t /\ u[i] = t[i - Len(s)]
      BY <2>2 DEF Continues
    <2> QED BY <2>1, <2>2 DEF Joins
  <1>2. NotYet(u, k + 1)
    <2> SUFFICES ASSUME NEW i \in DOMAIN u, IsFinal(u[i], u[i].n) PROVE u[i].n # k + 1 /\ u[i].n # 0
      BY DEF NotYet
    <2>1. CASE i \in DOMAIN s /\ u[i] = s[i]
      BY <2>1 DEF Ordered, Numbered, NotYet, IsFinal
    <2>2. CASE i - Len(s) \in DOMAIN t /\ u[i] = t[i - Len(s)]
      BY <2>2 DEF Continues, IsFinal
    <2> QED BY <2>1, <2>2 DEF Joins
  <1>3. Answered(u, k + 1, k + 1)
    <2> SUFFICES ASSUME NEW n \in 1 .. (k + 1), n # k + 1
                 PROVE  \E i \in DOMAIN u : IsFinal(u[i], n)
      BY DEF Answered
    <2>1. PICK i \in DOMAIN s : IsFinal(s[i], n) BY DEF Ordered, Answered
    <2> QED BY <2>1 DEF Joins
  <1>4. Once(u)
    <2> SUFFICES ASSUME NEW i \in DOMAIN u, NEW j \in DOMAIN u,
                        IsFinal(u[i], u[i].n), IsFinal(u[j], u[i].n)
                 PROVE  i = j
      BY DEF Once
    <2> DEFINE Old(p) == p \in DOMAIN s /\ u[p] = s[p]
               New(p) == p - Len(s) \in DOMAIN t /\ u[p] = t[p - Len(s)]
    <2>1. CASE Old(i) /\ Old(j) BY <2>1 DEF Ordered, Once
    <2>2. CASE New(i) /\ New(j) BY <2>2 DEF Continues, IsFinal
    <2>3. CASE Old(i) /\ New(j) BY <2>3 DEF Ordered, Numbered, NotYet, Continues, IsFinal
    <2>4. CASE New(i) /\ Old(j) BY <2>4 DEF Ordered, Numbered, NotYet, Continues, IsFinal
    <2> QED BY <2>1, <2>2, <2>3, <2>4 DEF Joins
  <1>5. Last(u)
    <2> SUFFICES ASSUME NEW i \in DOMAIN u, NEW j \in DOMAIN u,
                        IsFinal(u[i], u[i].n), IsOutput(u[j], u[i].n)
                 PROVE  j < i
      BY DEF Last
    <2> DEFINE Old(p) == p \in DOMAIN s /\ u[p] = s[p]
               New(p) == p > Len(s) /\ p - Len(s) \in DOMAIN t /\ u[p] = t[p - Len(s)]
    <2>1. CASE Old(i) /\ Old(j) BY <2>1 DEF Ordered, Last
    <2>2. CASE New(i) /\ New(j) BY <2>2 DEF Continues
    <2>3. CASE Old(i) /\ New(j) BY <2>3 DEF Ordered, Numbered, NotYet, Continues, IsFinal, IsOutput
    <2>4. CASE New(i) /\ Old(j) BY <2>4 DEF Joins
    <2> QED BY <2>1, <2>2, <2>3, <2>4 DEF Joins
  <1> QED BY <1>1, <1>2, <1>3, <1>4, <1>5 DEF Ordered

(* ... when a command is answered at once, even during another one, *)
LEMMA OrderedAnswers ==
  ASSUME NEW s, NEW t, NEW u, Joins(s, t, u),
         NEW k \in Nat, NEW c \in 0 .. k, Ordered(s, c, k), Ends(t, k + 1)
  PROVE  Ordered(u, c, k + 1)
  <1>1. Numbered(u, k + 1)
    <2> SUFFICES ASSUME NEW i \in DOMAIN u PROVE u[i].n \in 0 .. (k + 1)
      BY DEF Numbered
    <2>1. CASE i \in DOMAIN s /\ u[i] = s[i]
      BY <2>1 DEF Ordered, Numbered
    <2>2. CASE i - Len(s) \in DOMAIN t /\ u[i] = t[i - Len(s)]
      BY <2>2 DEF Ends
    <2> QED BY <2>1, <2>2 DEF Joins
  <1>2. NotYet(u, c)
    <2> SUFFICES ASSUME NEW i \in DOMAIN u, IsFinal(u[i], u[i].n) PROVE u[i].n # c /\ u[i].n # 0
      BY DEF NotYet
    <2>1. CASE i \in DOMAIN s /\ u[i] = s[i]
      BY <2>1 DEF Ordered, Numbered, NotYet, IsFinal
    <2>2. CASE i - Len(s) \in DOMAIN t /\ u[i] = t[i - Len(s)]
      BY <2>2 DEF Ends, IsFinal
    <2> QED BY <2>1, <2>2 DEF Joins
  <1>3. Answered(u, c, k + 1)
    <2> SUFFICES ASSUME NEW n \in 1 .. (k + 1), n # c
                 PROVE  \E i \in DOMAIN u : IsFinal(u[i], n)
      BY DEF Answered
    <2>1. CASE n = k + 1
      <3>1. Len(t) \in DOMAIN t BY DEF Ends, Joins
      <3>2. IsFinal(t[Len(t)], k + 1) BY <3>1 DEF Ends
      <3> QED BY <2>1, <3>1, <3>2 DEF Joins
    <2>2. CASE n # k + 1
      <3>1. PICK i \in DOMAIN s : IsFinal(s[i], n) BY <2>2 DEF Ordered, Answered
      <3> QED BY <3>1 DEF Joins
    <2> QED BY <2>1, <2>2
  <1>4. Once(u)
    <2> SUFFICES ASSUME NEW i \in DOMAIN u, NEW j \in DOMAIN u,
                        IsFinal(u[i], u[i].n), IsFinal(u[j], u[i].n)
                 PROVE  i = j
      BY DEF Once
    <2> DEFINE Old(p) == p \in DOMAIN s /\ u[p] = s[p]
               New(p) == p - Len(s) \in DOMAIN t /\ u[p] = t[p - Len(s)]
    <2>1. CASE Old(i) /\ Old(j) BY <2>1 DEF Ordered, Once
    <2>2. CASE New(i) /\ New(j) BY <2>2 DEF Ends, Joins, IsFinal
    <2>3. CASE Old(i) /\ New(j) BY <2>3 DEF Ordered, Numbered, NotYet, Ends, IsFinal
    <2>4. CASE New(i) /\ Old(j) BY <2>4 DEF Ordered, Numbered, NotYet, Ends, IsFinal
    <2> QED BY <2>1, <2>2, <2>3, <2>4 DEF Joins
  <1>5. Last(u)
    <2> SUFFICES ASSUME NEW i \in DOMAIN u, NEW j \in DOMAIN u,
                        IsFinal(u[i], u[i].n), IsOutput(u[j], u[i].n)
                 PROVE  j < i
      BY DEF Last
    <2> DEFINE Old(p) == p \in DOMAIN s /\ u[p] = s[p]
               New(p) == p > Len(s) /\ p - Len(s) \in DOMAIN t /\ u[p] = t[p - Len(s)]
    <2>1. CASE Old(i) /\ Old(j) BY <2>1 DEF Ordered, Last
    <2>2. CASE New(i) /\ New(j)
      <3>1. /\ IsFinal(t[i - Len(s)], t[i - Len(s)].n) /\ IsOutput(t[j - Len(s)], t[i - Len(s)].n)
            /\ i - Len(s) \in DOMAIN t /\ j - Len(s) \in DOMAIN t
        BY <2>2
      <3>2. i - Len(s) = Len(t) BY <3>1 DEF Ends
      <3>3. j - Len(s) # Len(t) BY <3>1 DEF Ends
      <3>4. i \in Nat /\ j \in Nat /\ Len(s) \in Nat BY DEF Joins
      <3> QED BY <3>1, <3>2, <3>3, <3>4 DEF Joins
    <2>3. CASE Old(i) /\ New(j) BY <2>3 DEF Ordered, Numbered, NotYet, Ends, IsFinal, IsOutput
    <2>4. CASE New(i) /\ Old(j) BY <2>4 DEF Joins
    <2> QED BY <2>1, <2>2, <2>3, <2>4 DEF Joins
  <1> QED BY <1>1, <1>2, <1>3, <1>4, <1>5 DEF Ordered

(* ... and when the running command is over. *)
LEMMA OrderedFinishes ==
  ASSUME NEW s, NEW t, NEW u, Joins(s, t, u),
         NEW k \in Nat, NEW c \in 1 .. k, Ordered(s, c, k), Ends(t, c)
  PROVE  Ordered(u, 0, k)
  <1>1. Numbered(u, k)
    <2> SUFFICES ASSUME NEW i \in DOMAIN u PROVE u[i].n \in 0 .. k
      BY DEF Numbered
    <2>1. CASE i \in DOMAIN s /\ u[i] = s[i]
      BY <2>1 DEF Ordered, Numbered
    <2>2. CASE i - Len(s) \in DOMAIN t /\ u[i] = t[i - Len(s)]
      BY <2>2 DEF Ends
    <2> QED BY <2>1, <2>2 DEF Joins
  <1>2. NotYet(u, 0)
    <2> SUFFICES ASSUME NEW i \in DOMAIN u, IsFinal(u[i], u[i].n) PROVE u[i].n # 0 /\ u[i].n # 0
      BY DEF NotYet
    <2>1. CASE i \in DOMAIN s /\ u[i] = s[i]
      BY <2>1 DEF Ordered, Numbered, NotYet, IsFinal
    <2>2. CASE i - Len(s) \in DOMAIN t /\ u[i] = t[i - Len(s)]
      BY <2>2 DEF Ends, IsFinal
    <2> QED BY <2>1, <2>2 DEF Joins
  <1>3. Answered(u, 0, k)
    <2> SUFFICES ASSUME NEW n \in 1 .. k, n # 0
                 PROVE  \E i \in DOMAIN u : IsFinal(u[i], n)
      BY DEF Answered
    <2>1. CASE n = c
      <3>1. Len(t) \in DOMAIN t BY DEF Ends, Joins
      <3>2. IsFinal(t[Len(t)], c) BY <3>1 DEF Ends
      <3> QED BY <2>1, <3>1, <3>2 DEF Joins
    <2>2. CASE n # c
      <3>1. PICK i \in DOMAIN s : IsFinal(s[i], n) BY <2>2 DEF Ordered, Answered
      <3> QED BY <3>1 DEF Joins
    <2> QED BY <2>1, <2>2
  <1>4. Once(u)
    <2> SUFFICES ASSUME NEW i \in DOMAIN u, NEW j \in DOMAIN u,
                        IsFinal(u[i], u[i].n), IsFinal(u[j], u[i].n)
                 PROVE  i = j
      BY DEF Once
    <2> DEFINE Old(p) == p \in DOMAIN s /\ u[p] = s[p]
               New(p) == p - Len(s) \in DOMAIN t /\ u[p] = t[p - Len(s)]
    <2>1. CASE Old(i) /\ Old(j) BY <2>1 DEF Ordered, Once
    <2>2. CASE New(i) /\ New(j) BY <2>2 DEF Ends, Joins, IsFinal
    <2>3. CASE Old(i) /\ New(j) BY <2>3 DEF Ordered, Numbered, NotYet, Ends, IsFinal
    <2>4. CASE New(i) /\ Old(j) BY <2>4 DEF Ordered, Numbered, NotYet, Ends, IsFinal
    <2> QED BY <2>1, <2>2, <2>3, <2>4 DEF Joins
  <1>5. Last(u)
    <2> SUFFICES ASSUME NEW i \in DOMAIN u, NEW j \in DOMAIN u,
                        IsFinal(u[i], u[i].n), IsOutput(u[j], u[i].n)
                 PROVE  j < i
      BY DEF Last
    <2> DEFINE Old(p) == p \in DOMAIN s /\ u[p] = s[p]
               New(p) == p > Len(s) /\ p - Len(s) \in DOMAIN t /\ u[p] = t[p - Len(s)]
    <2>1. CASE Old(i) /\ Old(j) BY <2>1 DEF Ordered, Last
    <2>2. CASE New(i) /\ New(j)
      <3>1. /\ IsFinal(t[i - Len(s)], t[i - Len(s)].n) /\ IsOutput(t[j - Len(s)], t[i - Len(s)].n)
            /\ i - Len(s) \in DOMAIN t /\ j - Len(s) \in DOMAIN t
        BY <2>2
      <3>2. i - Len(s) = Len(t) BY <3>1 DEF Ends
      <3>3. j - Len(s) # Len(t) BY <3>1 DEF Ends
      <3>4. i \in Nat /\ j \in Nat /\ Len(s) \in Nat BY DEF Joins
      <3> QED BY <3>1, <3>2, <3>3, <3>4 DEF Joins
    <2>3. CASE Old(i) /\ New(j) BY <2>3 DEF Ordered, Numbered, NotYet, Ends, IsFinal, IsOutput
    <2>4. CASE New(i) /\ Old(j) BY <2>4 DEF Joins
    <2> QED BY <2>1, <2>2, <2>3, <2>4 DEF Joins
  <1> QED BY <1>1, <1>2, <1>3, <1>4, <1>5 DEF Ordered

-----------------------------------------------------------------------------
(* What a step does to the messages.                                       *)
LEMMA Serves ==
  ASSUME TypeOK, NEW cmd, NEW t \in Seq(AnswerType), Serve(cmd, t)
  PROVE  /\ c2s' \in Seq(Requests) /\ up' \in BOOLEAN
         /\ s2c' \in Seq(AnswerType) /\ Joins(s2c, t, s2c')
  <1>1. s2c' = s2c \o t /\ c2s' = Tail(c2s) /\ c2s # << >> /\ up' = up
    BY DEF Serve
  <1>2. s2c \in Seq(AnswerType) /\ c2s \in Seq(Requests) /\ up \in BOOLEAN BY DEF TypeOK
  <1>3. s2c \o t \in Seq(AnswerType) /\ Joins(s2c, t, s2c \o t) BY <1>2, Joined
  <1>4. Tail(c2s) \in Seq(Requests) BY <1>1, <1>2
  <1> QED BY <1>1, <1>2, <1>3, <1>4

(* An answer to a request that is no command.                              *)
LEMMA ServesOther ==
  ASSUME TypeOK, SInv, NEW cmd, NEW t \in Seq(AnswerType), Continues(t, cur),
         Serve(cmd, t), phase' \in {phase, "idle"}, phase' # phase => phase # "running",
         UNCHANGED <<cur, ncmd>>, eof' \in BOOLEAN
  PROVE  TypeOK' /\ SInv'
  <1>1. /\ c2s' \in Seq(Requests) /\ up' \in BOOLEAN
        /\ s2c' \in Seq(AnswerType) /\ Joins(s2c, t, s2c')
    BY Serves
  <1>2. ncmd \in Nat /\ cur \in 0 .. ncmd /\ Ordered(s2c, cur, ncmd)
    BY DEF TypeOK, SInv
  <1>3. Ordered(s2c', cur, ncmd) BY <1>1, <1>2, OrderedContinues
  <1>4. TypeOK' BY <1>1 DEF TypeOK, Phases
  <1>5. SInv' BY <1>3 DEF SInv
  <1> QED BY <1>4, <1>5

(* A command that is answered at once.                                     *)
LEMMA ServesCmd ==
  ASSUME TypeOK, SInv, NEW t \in Seq(AnswerType), Ends(t, ncmd + 1),
         Serve("CMD", t), ncmd' = ncmd + 1, UNCHANGED <<phase, cur, eof>>
  PROVE  TypeOK' /\ SInv'
  <1>1. /\ c2s' \in Seq(Requests) /\ up' \in BOOLEAN
        /\ s2c' \in Seq(AnswerType) /\ Joins(s2c, t, s2c')
    BY Serves
  <1>2. ncmd \in Nat /\ cur \in 0 .. ncmd /\ Ordered(s2c, cur, ncmd)
    BY DEF TypeOK, SInv
  <1>3. Ordered(s2c', cur, ncmd + 1) BY <1>1, <1>2, OrderedAnswers
  <1>4. TypeOK' BY <1>1, <1>2 DEF TypeOK
  <1>5. SInv' BY <1>3 DEF SInv
  <1> QED BY <1>4, <1>5

(* A step that sends nothing.                                              *)
LEMMA SendsNothing ==
  ASSUME TypeOK, SInv, c2s' \in Seq(Requests), up' \in BOOLEAN,
         UNCHANGED <<s2c, phase, cur, ncmd, eof>>
  PROVE  TypeOK' /\ SInv'
  BY DEF TypeOK, SInv

-----------------------------------------------------------------------------
(* One lemma for each kind of action.                                      *)
LEMMA AuthStep ==
  ASSUME TypeOK, SInv, Auth PROVE TypeOK' /\ SInv'
  <1>1. cur \in Nat /\ phase # "running" /\ UNCHANGED <<cur, ncmd, eof>> /\ eof' \in BOOLEAN
    BY DEF TypeOK, Auth
  <1>2. CASE Serve("AUTH", <<Answer("AUTH_ACK", 0, {})>>) /\ phase' = "idle"
    <2>1. /\ <<Answer("AUTH_ACK", 0, {})>> \in Seq(AnswerType)
          /\ Continues(<<Answer("AUTH_ACK", 0, {})>>, cur)
      BY <1>1, AnswerContinues
    <2> QED BY <1>1, <1>2, <2>1, ServesOther
  <1>3. CASE Serve("AUTH", <<Answer("AUTH_ACK", 0, {"ERROR", "EXIT"})>>) /\ UNCHANGED phase
    <2>1. {"ERROR", "EXIT"} \in SUBSET Flags BY DEF Flags
    <2>2. /\ <<Answer("AUTH_ACK", 0, {"ERROR", "EXIT"})>> \in Seq(AnswerType)
          /\ Continues(<<Answer("AUTH_ACK", 0, {"ERROR", "EXIT"})>>, cur)
      BY <1>1, <2>1, AnswerContinues
    <2> QED BY <1>1, <1>3, <2>2, ServesOther
  <1> QED BY <1>2, <1>3 DEF Auth

LEMMA AnswerCmdStep ==
  ASSUME TypeOK, SInv, AnswerCmd PROVE TypeOK' /\ SInv'
  <1>1. ncmd \in Nat /\ ncmd' = ncmd + 1 /\ ncmd + 1 \in Nat /\ UNCHANGED <<phase, cur, eof>>
    BY DEF TypeOK, AnswerCmd
  <1>2. CASE Serve("CMD", <<Error("CMD_ACK", ncmd + 1)>>)
    BY <1>1, <1>2, ErrorEnds, ServesCmd
  <1>3. ASSUME NEW data \in Outputs, NEW over \in BOOLEAN,
               Serve("CMD", FinalAnswer(ncmd + 1, data, over))
        PROVE  TypeOK' /\ SInv'
    BY <1>1, <1>3, FinalAnswerEnds, ServesCmd
  <1> QED BY <1>1, <1>2, <1>3 DEF AnswerCmd

LEMMA RefuseCmdStep ==
  ASSUME TypeOK, SInv, RefuseCmd PROVE TypeOK' /\ SInv'
  <1>1. ncmd \in Nat /\ ncmd' = ncmd + 1 /\ ncmd + 1 \in Nat /\ UNCHANGED <<phase, cur, eof>>
    BY DEF TypeOK, RefuseCmd
  <1>2. Serve("CMD", <<Error("CMD_ACK", ncmd + 1)>>) BY <1>1 DEF RefuseCmd
  <1> QED BY <1>1, <1>2, ErrorEnds, ServesCmd

LEMMA StartCmdStep ==
  ASSUME TypeOK, SInv, StartCmd PROVE TypeOK' /\ SInv'
  <1>1. PICK f \in SUBSET Features :
          Serve("CMD", <<Answer("CMD_ACK", ncmd + 1, {"INCOMPLETED"} \cup f)>>)
    BY DEF StartCmd
  <1>2. /\ phase = "idle" /\ ncmd' = ncmd + 1
        /\ phase' = "running" /\ cur' = ncmd + 1 /\ eof' = FALSE
    BY DEF StartCmd
  <1> DEFINE t == <<Answer("CMD_ACK", ncmd + 1, {"INCOMPLETED"} \cup f)>>
  <1>3. ncmd \in Nat /\ cur = 0 /\ Ordered(s2c, 0, ncmd)
    BY <1>2 DEF TypeOK, SInv
  <1>4. t \in Seq(AnswerType) /\ Continues(t, ncmd + 1)
    BY <1>3, RunningContinues
  <1> HIDE DEF t
  <1>5. Serve("CMD", t) BY <1>1 DEF t
  <1>6. /\ c2s' \in Seq(Requests) /\ up' \in BOOLEAN
        /\ s2c' \in Seq(AnswerType) /\ Joins(s2c, t, s2c')
    BY <1>4, <1>5, Serves
  <1>7. Ordered(s2c', ncmd + 1, ncmd + 1) BY <1>3, <1>4, <1>6, OrderedStarts
  <1>8. TypeOK'
    <2>1. ncmd' \in Nat /\ cur' \in 0 .. ncmd' BY <1>2, <1>3
    <2>2. phase' \in Phases /\ eof' \in BOOLEAN BY <1>2 DEF Phases
    <2> QED BY <1>6, <2>1, <2>2 DEF TypeOK
  <1>9. SInv' BY <1>2, <1>3, <1>7 DEF SInv
  <1> QED BY <1>8, <1>9

LEMMA HintStep ==
  ASSUME TypeOK, SInv, NEW cmd \in {"COMPLETION", "HELP"}, AnswerHint(cmd)
  PROVE  TypeOK' /\ SInv'
  <1>1. cur \in Nat /\ UNCHANGED <<phase, cur, ncmd, eof>> /\ eof' \in BOOLEAN
    BY DEF TypeOK, AnswerHint
  <1>2. Ack[cmd] \in {"COMPLETION_ACK", "HELP_ACK"} BY DEF Ack
  <1>3. PICK status \in SUBSET Flags : Serve(cmd, <<Answer(Ack[cmd], 0, status)>>)
    <2>1. {"ERROR"} \in SUBSET Flags /\ \A over \in BOOLEAN : ExitStatus(over) \in SUBSET Flags
      BY DEF Flags, ExitStatus
    <2> QED BY <2>1 DEF AnswerHint, Error
  <1>4. /\ <<Answer(Ack[cmd], 0, status)>> \in Seq(AnswerType)
        /\ Continues(<<Answer(Ack[cmd], 0, status)>>, cur)
    BY <1>1, <1>2, AnswerContinues
  <1> QED BY <1>1, <1>3, <1>4, ServesOther

(* Requests that are not answered, and those that come too late.           *)
LEMMA Unanswered ==
  ASSUME TypeOK, SInv, NEW cmd, Serve(cmd, << >>), UNCHANGED <<phase, cur, ncmd>>,
         eof' \in BOOLEAN
  PROVE  TypeOK' /\ SInv'
  <1>1. << >> \in Seq(AnswerType) /\ Continues(<< >>, cur)
    BY DEF Continues
  <1> QED BY <1>1, ServesOther

LEMMA TooLateStep ==
  ASSUME TypeOK, SInv, NEW cmd, TooLate(cmd) PROVE TypeOK' /\ SInv'
  <1>1. cur \in Nat /\ UNCHANGED <<phase, cur, ncmd, eof>> /\ eof' \in BOOLEAN
    BY DEF TypeOK, TooLate
  <1>2. CASE Serve(cmd, << >>) BY <1>1, <1>2, Unanswered
  <1>3. CASE Serve(cmd, <<Error("NOTIFICATION", 0)>>)
    <2>1. {"ERROR"} \in SUBSET Flags BY DEF Flags
    <2>2. /\ <<Answer("NOTIFICATION", 0, {"ERROR"})>> \in Seq(AnswerType)
          /\ Continues(<<Answer("NOTIFICATION", 0, {"ERROR"})>>, cur)
      BY <1>1, <2>1, AnswerContinues
    <2>3. Serve(cmd, <<Answer("NOTIFICATION", 0, {"ERROR"})>>) BY <1>3 DEF Error
    <2> QED BY <1>1, <2>2, <2>3, ServesOther
  <1> QED BY <1>2, <1>3 DEF TooLate

LEMMA RefuseStep ==
  ASSUME TypeOK, SInv, Refuse PROVE TypeOK' /\ SInv'
  <1>1. cur \in Nat /\ UNCHANGED <<phase, cur, ncmd, eof>> /\ eof' \in BOOLEAN
    BY DEF TypeOK, Refuse
  <1> DEFINE kinds == {"COMPLETION_ACK", "HELP_ACK", "AUTH_ACK", "NOTIFICATION"}
  <1>2. \/ \E cmd \in {"COMPLETION", "HELP", "AUTH"} : Serve(cmd, <<Error(Ack[cmd], 0)>>)
        \/ Serve("UNSUPPORTED", <<Error("NOTIFICATION", 0)>>)
        \/ Serve("BROKEN", << >>)
    BY DEF Refuse, Ack
  <1>3. CASE Serve("BROKEN", << >>) BY <1>1, <1>3, Unanswered
  <1>4. ASSUME NEW cmd, NEW kind \in kinds, Serve(cmd, <<Error(kind, 0)>>)
        PROVE  TypeOK' /\ SInv'
    <2>1. {"ERROR"} \in SUBSET Flags BY DEF Flags
    <2>2. /\ <<Answer(kind, 0, {"ERROR"})>> \in Seq(AnswerType)
          /\ Continues(<<Answer(kind, 0, {"ERROR"})>>, cur)
      BY <1>1, <2>1, AnswerContinues
    <2>3. Serve(cmd, <<Answer(kind, 0, {"ERROR"})>>) BY <1>4 DEF Error
    <2> QED BY <1>1, <2>2, <2>3, ServesOther
  <1>5. /\ "NOTIFICATION" \in kinds
        /\ \A cmd \in {"COMPLETION", "HELP", "AUTH"} : Ack[cmd] \in kinds
    BY DEF Ack
  <1> HIDE DEF kinds
  <1> QED BY <1>2, <1>3, <1>4, <1>5

LEMMA OutputStep ==
  ASSUME TypeOK, SInv, NEW s \in Streams, Output(s) PROVE TypeOK' /\ SInv'
  <1>1. PICK len \in 1 .. MaxOut : s2c' = s2c \o Data(s, cur, len) BY DEF Output
  <1>2. len \in Nat BY MaxOutAssumption
  <1>3. /\ ncmd \in Nat /\ cur \in 0 .. ncmd /\ cur \in Nat \ {0}
        /\ Ordered(s2c, cur, ncmd) /\ s2c \in Seq(AnswerType)
    BY DEF TypeOK, SInv, Output
  <1>4. Data(s, cur, len) \in Seq(AnswerType) /\ Continues(Data(s, cur, len), cur)
    BY <1>2, <1>3, DataContinues
  <1>5. s2c' \in Seq(AnswerType) /\ Joins(s2c, Data(s, cur, len), s2c')
    BY <1>1, <1>3, <1>4, Joined
  <1>6. Ordered(s2c', cur, ncmd) BY <1>3, <1>4, <1>5, OrderedContinues
  <1>7. UNCHANGED <<c2s, phase, cur, ncmd, eof, up>> BY DEF Output
  <1> QED BY <1>5, <1>6, <1>7 DEF TypeOK, SInv

LEMMA FinishStep ==
  ASSUME TypeOK, SInv, Finish PROVE TypeOK' /\ SInv'
  <1>1. PICK data \in Outputs, over \in BOOLEAN :
          s2c' = s2c \o FinalAnswer(cur, data, over) /\ up' = ~over
    BY DEF Finish
  <1>2. /\ ncmd \in Nat /\ cur \in 1 .. ncmd /\ cur \in Nat
        /\ Ordered(s2c, cur, ncmd) /\ s2c \in Seq(AnswerType)
    BY DEF TypeOK, SInv, Finish
  <1> DEFINE t == FinalAnswer(cur, data, over)
  <1>3. t \in Seq(AnswerType) /\ Ends(t, cur) BY <1>2, FinalAnswerEnds
  <1> HIDE DEF t
  <1>4. s2c' = s2c \o t BY <1>1 DEF t
  <1>5. s2c' \in Seq(AnswerType) /\ Joins(s2c, t, s2c') BY <1>2, <1>3, <1>4, Joined
  <1>6. Ordered(s2c', 0, ncmd) BY <1>2, <1>3, <1>5, OrderedFinishes
  <1>7. phase' = "idle" /\ cur' = 0 /\ eof' = FALSE /\ UNCHANGED <<c2s, ncmd>>
    BY DEF Finish
  <1>8. TypeOK'
    <2>1. ncmd' \in Nat /\ cur' \in 0 .. ncmd' BY <1>2, <1>7
    <2>2. phase' \in Phases /\ eof' \in BOOLEAN BY <1>7 DEF Phases
    <2>3. up' \in BOOLEAN BY <1>1
    <2>4. c2s' \in Seq(Requests) BY <1>7 DEF TypeOK
    <2> QED BY <1>5, <2>1, <2>2, <2>3, <2>4 DEF TypeOK
  <1>9. SInv' BY <1>6, <1>7 DEF SInv
  <1> QED BY <1>8, <1>9

-----------------------------------------------------------------------------
LEMMA SInit == Init => TypeOK /\ SInv
  <1> SUFFICES ASSUME Init PROVE TypeOK /\ SInv
    OBVIOUS
  <1>1. s2c = << >> /\ cur = 0 /\ ncmd = 0 /\ phase = "unauthorized" BY DEF Init
  <1>2. Ordered(<< >>, 0, 0)
    BY DEF Ordered, Numbered, NotYet, Answered, Once, Last
  <1>3. SInv BY <1>1, <1>2 DEF SInv
  <1>4. ncmd \in Nat /\ cur \in 0 .. ncmd BY <1>1
  <1>5. c2s \in Seq(Requests) /\ s2c \in Seq(AnswerType) BY DEF Init
  <1>6. phase \in Phases /\ eof \in BOOLEAN /\ up \in BOOLEAN BY DEF Init, Phases
  <1>7. TypeOK BY <1>4, <1>5, <1>6 DEF TypeOK
  <1> QED BY <1>3, <1>7

LEMMA SNext == TypeOK /\ SInv /\ [Next]_vars => TypeOK' /\ SInv'
  <1> SUFFICES ASSUME TypeOK, SInv, [Next]_vars PROVE TypeOK' /\ SInv'
    OBVIOUS
  <1>1. ASSUME NEW m \in Requests, Send(m) PROVE TypeOK' /\ SInv'
    <2>1. c2s' \in Seq(Requests) /\ up' \in BOOLEAN BY <1>1 DEF Send, TypeOK
    <2> QED BY <1>1, <2>1, SendsNothing DEF Send
  <1>2. CASE Auth BY <1>2, AuthStep
  <1>3. CASE AnswerCmd BY <1>3, AnswerCmdStep
  <1>4. CASE StartCmd BY <1>4, StartCmdStep
  <1>5. CASE RefuseCmd BY <1>5, RefuseCmdStep
  <1>6. ASSUME NEW cmd \in {"COMPLETION", "HELP"}, AnswerHint(cmd) PROVE TypeOK' /\ SInv'
    BY <1>6, HintStep
  <1>7. ASSUME NEW cmd \in Streaming, Accept(cmd) PROVE TypeOK' /\ SInv'
    <2>1. eof' \in BOOLEAN BY <1>7 DEF Accept, TypeOK
    <2> QED BY <1>7, <2>1, Unanswered DEF Accept
  <1>8. ASSUME NEW cmd \in Streaming, TooLate(cmd) PROVE TypeOK' /\ SInv'
    BY <1>8, TooLateStep
  <1>9. CASE Notified
    <2>1. eof' \in BOOLEAN BY <1>9 DEF Notified, TypeOK
    <2> QED BY <1>9, <2>1, Unanswered DEF Notified
  <1>10. CASE Refuse BY <1>10, RefuseStep
  <1>11. ASSUME NEW s \in Streams, Output(s) PROVE TypeOK' /\ SInv'
    BY <1>11, OutputStep
  <1>12. CASE Finish BY <1>12, FinishStep
  <1>13. CASE Down
    <2>1. c2s' \in Seq(Requests) /\ up' \in BOOLEAN BY <1>13 DEF Down, TypeOK
    <2> QED BY <1>13, <2>1, SendsNothing DEF Down
  <1>14. CASE UNCHANGED vars
    BY <1>14 DEF vars, TypeOK, SInv
  <1> QED
    BY <1>1, <1>2, <1>3, <1>4, <1>5, <1>6, <1>7, <1>8, <1>9, <1>10, <1>11, <1>12, <1>13, <1>14
    DEF Next, Request

(* The inductive invariant.                                                *)
THEOREM ServiceInvariant == Spec => [](TypeOK /\ SInv)
  BY SInit, SNext, PTL DEF Spec

(* Requests, messages, phase and counters keep their types.                 *)
THEOREM ServiceTypeOK == Spec => []TypeOK
  BY ServiceInvariant, PTL

(* Every command served, refused ones included, has exactly one final       *)
(* answer, the running one none as yet.                                     *)
THEOREM ServiceOneFinalAnswer == Spec => []OneFinalAnswer
  <1>1. TypeOK /\ SInv => OneFinalAnswer
    <2> SUFFICES ASSUME TypeOK, SInv, NEW n \in 1 .. ncmd
                 PROVE  /\ n # cur => \E i \in DOMAIN s2c : IsFinal(s2c[i], n)
                        /\ n = cur => \A i \in DOMAIN s2c : ~IsFinal(s2c[i], n)
                        /\ \A i, j \in DOMAIN s2c :
                             IsFinal(s2c[i], n) /\ IsFinal(s2c[j], n) => i = j
      BY DEF OneFinalAnswer
    <2>1. n # cur => \E i \in DOMAIN s2c : IsFinal(s2c[i], n)
      BY DEF SInv, Ordered, Answered
    <2>2. n = cur => \A i \in DOMAIN s2c : ~IsFinal(s2c[i], n)
      BY DEF SInv, Ordered, NotYet, IsFinal
    <2>3. \A i, j \in DOMAIN s2c : IsFinal(s2c[i], n) /\ IsFinal(s2c[j], n) => i = j
      BY DEF SInv, Ordered, Once, IsFinal
    <2> QED BY <2>1, <2>2, <2>3
  <1> QED BY <1>1, ServiceInvariant, PTL

(* No output of a command is sent behind its final answer.                  *)
THEOREM ServiceOutputBeforeFinal == Spec => []OutputBeforeFinal
  <1>1. SInv => OutputBeforeFinal
    BY DEF SInv, Ordered, Last, OutputBeforeFinal
  <1> QED BY <1>1, ServiceInvariant, PTL

-----------------------------------------------------------------------------
(* The first answer to a command that waits for processes, with flag       *)
(* INCOMPLETED, is sent before its output.                                 *)
IsFirst(m) == m.cmd = "CMD_ACK" /\ "INCOMPLETED" \in m.status

AcknowledgedFirst ==
  \A i, j \in DOMAIN s2c :
    IsFirst(s2c[i]) /\ IsOutput(s2c[j], s2c[i].n) => i < j

(* The messages t announce only commands behind the first k, and hold none *)
(* of their output.                                                        *)
Opens(t, k) ==
  /\ t \in Seq(AnswerType)
  /\ \A i, j \in DOMAIN t :
       IsFirst(t[i]) => t[i].n \notin 0 .. k /\ ~IsOutput(t[j], t[i].n)

(* Messages without the flag announce nothing.                             *)
LEMMA PlainOpens ==
  ASSUME NEW t \in Seq(AnswerType), NEW k,
         \A i \in DOMAIN t : "INCOMPLETED" \notin t[i].status
  PROVE  Opens(t, k)
  BY DEF Opens, IsFirst

LEMMA AnswerOpens ==
  ASSUME NEW cmd \in {Ack[c] : c \in DOMAIN Ack} \cup {"NOTIFICATION"},
         NEW n \in Nat, NEW k,
         NEW status \in SUBSET Flags, "INCOMPLETED" \notin status
  PROVE  Opens(<<Answer(cmd, n, status)>>, k)
  <1> DEFINE m == Answer(cmd, n, status)
  <1>1. m \in AnswerType BY AnswerIs
  <1>2. m.status = status BY DEF Answer
  <1> HIDE DEF m
  <1>3. <<m>> \in Seq(AnswerType) BY <1>1
  <1>4. \A i \in DOMAIN <<m>> : "INCOMPLETED" \notin <<m>>[i].status BY <1>2
  <1>5. Opens(<<m>>, k) BY <1>3, <1>4, PlainOpens
  <1> QED BY <1>5 DEF m

LEMMA ErrorOpens ==
  ASSUME NEW cmd \in {Ack[c] : c \in DOMAIN Ack} \cup {"NOTIFICATION"},
         NEW n \in Nat, NEW k
  PROVE  Opens(<<Error(cmd, n)>>, k)
  <1>1. {"ERROR"} \in SUBSET Flags /\ "INCOMPLETED" \notin {"ERROR"}
    BY DEF Flags
  <1> QED BY <1>1, AnswerOpens DEF Error

LEMMA DataOpens ==
  ASSUME NEW s \in Streams, NEW n \in Nat, NEW len \in Nat, NEW k
  PROVE  /\ Opens(Data(s, n, len), k)
         /\ \A i \in DOMAIN Data(s, n, len) :
              "INCOMPLETED" \notin Data(s, n, len)[i].status
  <1>1. Data(s, n, len) \in Seq(AnswerType) BY DataIs
  <1>2. \A i \in DOMAIN Data(s, n, len) :
          "INCOMPLETED" \notin Data(s, n, len)[i].status
    <2>1. CASE len = 0
      BY <2>1 DEF Data
    <2>2. CASE len # 0
      <3> DEFINE m == [cmd |-> s, n |-> n, status |-> {}, len |-> len]
      <3>1. m.status = {} OBVIOUS
      <3>2. Data(s, n, len) = <<m>> BY <2>2 DEF Data
      <3> HIDE DEF m
      <3> QED BY <3>1, <3>2
    <2> QED BY <2>1, <2>2
  <1> QED BY <1>1, <1>2, PlainOpens

LEMMA FinalAnswerOpens ==
  ASSUME NEW n \in Nat, NEW data \in Outputs, NEW over \in BOOLEAN, NEW k
  PROVE  Opens(FinalAnswer(n, data, over), k)
  <1> DEFINE t == FinalAnswer(n, data, over)
  <1>1. t \in Seq(AnswerType) /\ Ends(t, n) BY FinalAnswerEnds
  <1>2. Opens(t, k)
    <2> SUFFICES ASSUME NEW i \in DOMAIN t PROVE ~IsFirst(t[i])
      BY <1>1 DEF Opens
    <2> DEFINE m == Answer("CMD_ACK", n, ExitStatus(over))
               a == Data("STDOUT", n, data["STDOUT"])
               b == Data("STDERR", n, data["STDERR"])
    <2>1. data["STDOUT"] \in Nat /\ data["STDERR"] \in Nat
      BY MaxOutAssumption DEF Outputs, Streams
    <2>2. /\ a \in Seq(AnswerType)
          /\ \A p \in DOMAIN a : "INCOMPLETED" \notin a[p].status
      BY <2>1, DataOpens, DataIs DEF Streams
    <2>3. /\ b \in Seq(AnswerType)
          /\ \A p \in DOMAIN b : "INCOMPLETED" \notin b[p].status
      BY <2>1, DataOpens, DataIs DEF Streams
    <2>4. "INCOMPLETED" \notin m.status BY DEF Answer, ExitStatus
    <2>5. m \in AnswerType
      <3>1. ExitStatus(over) \in SUBSET Flags BY DEF ExitStatus, Flags
      <3> QED BY <3>1, AnswerIs, AckIsAck
    <2>6. t = (a \o b) \o <<m>> BY DEF FinalAnswer
    <2> HIDE DEF a, b, m, t
    <2>7. a \o b \in Seq(AnswerType) BY <2>2, <2>3
    <2>8. Joins(a, b, a \o b) BY <2>2, <2>3, Joined
    <2>9. <<m>> \in Seq(AnswerType) BY <2>5
    <2>10. Joins(a \o b, <<m>>, t) BY <2>6, <2>7, <2>9, Joined
    <2>11. \A p \in DOMAIN (a \o b) : "INCOMPLETED" \notin (a \o b)[p].status
      BY <2>2, <2>3, <2>8 DEF Joins
    <2>12. \A p \in DOMAIN <<m>> : "INCOMPLETED" \notin <<m>>[p].status
      BY <2>4
    <2>13. "INCOMPLETED" \notin t[i].status
      BY <2>10, <2>11, <2>12 DEF Joins
    <2> QED BY <2>13 DEF IsFirst
  <1> QED BY <1>2

LEMMA StartOpens ==
  ASSUME NEW k \in Nat, NEW f \in SUBSET Features
  PROVE  Opens(<<Answer("CMD_ACK", k + 1, {"INCOMPLETED"} \cup f)>>, k)
  <1> DEFINE m == Answer("CMD_ACK", k + 1, {"INCOMPLETED"} \cup f)
  <1>1. {"INCOMPLETED"} \cup f \in SUBSET Flags BY DEF Flags, Features
  <1>2. m \in AnswerType /\ m.n = k + 1 /\ ~IsOutput(m, k + 1)
    <2>1. k + 1 \in Nat OBVIOUS
    <2>2. m \in AnswerType /\ m.n = k + 1 BY <1>1, <2>1, AnswerIs, AckIsAck
    <2>3. m.cmd = "CMD_ACK" BY DEF Answer
    <2> QED BY <2>2, <2>3 DEF IsOutput, Streams
  <1>3. k + 1 \notin 0 .. k OBVIOUS
  <1> HIDE DEF m
  <1>4. <<m>> \in Seq(AnswerType) BY <1>2
  <1>5. \A i, j \in DOMAIN <<m>> : <<m>>[i] = m /\ <<m>>[j] = m OBVIOUS
  <1>6. Opens(<<m>>, k) BY <1>2, <1>3, <1>4, <1>5 DEF Opens
  <1> QED BY <1>6 DEF m

(* Appending such messages keeps first answers first.                      *)
LEMMA FirstAppended ==
  ASSUME TypeOK, SInv, AcknowledgedFirst,
         NEW t, Opens(t, ncmd), s2c' = s2c \o t
  PROVE  AcknowledgedFirst'
  <1>1. Joins(s2c, t, s2c')
    BY Joined DEF TypeOK, Opens
  <1>2. Numbered(s2c, ncmd) BY DEF SInv, Ordered
  <1> SUFFICES ASSUME NEW i \in DOMAIN s2c', NEW j \in DOMAIN s2c',
                      IsFirst(s2c'[i]), IsOutput(s2c'[j], s2c'[i].n)
               PROVE  i < j
    BY DEF AcknowledgedFirst
  <1> DEFINE Old(p) == p \in DOMAIN s2c /\ s2c'[p] = s2c[p]
             New(p) == p > Len(s2c) /\ p - Len(s2c) \in DOMAIN t
                         /\ s2c'[p] = t[p - Len(s2c)]
  <1>3. CASE Old(i) /\ Old(j) BY <1>3 DEF AcknowledgedFirst
  <1>4. CASE Old(i) /\ New(j) BY <1>1, <1>4 DEF Joins
  <1>5. CASE New(i) /\ New(j) BY <1>5 DEF Opens
  <1>6. CASE New(i) /\ Old(j)
    <2>1. s2c'[j].n \in 0 .. ncmd BY <1>2, <1>6 DEF Numbered
    <2>2. s2c'[i].n \notin 0 .. ncmd BY <1>6 DEF Opens
    <2>3. s2c'[j].n = s2c'[i].n BY DEF IsOutput
    <2> QED BY <2>1, <2>2, <2>3
  <1> QED BY <1>1, <1>3, <1>4, <1>5, <1>6 DEF Joins

LEMMA FirstStep ==
  ASSUME TypeOK, SInv, AcknowledgedFirst, [Next]_vars
  PROVE  AcknowledgedFirst'
  <1>nat. ncmd \in Nat /\ cur \in Nat /\ ncmd + 1 \in Nat BY DEF TypeOK
  <1>ack. /\ "CMD_ACK" \in {Ack[d] : d \in DOMAIN Ack}
          /\ \A c \in {"AUTH", "CMD", "COMPLETION", "HELP"} :
               Ack[c] \in {Ack[d] : d \in DOMAIN Ack}
          /\ "AUTH_ACK" \in {Ack[d] : d \in DOMAIN Ack}
          /\ Ack["AUTH"] = "AUTH_ACK"
    BY AckIsAck DEF Ack
  <1>none. Opens(<< >>, ncmd) BY DEF Opens
  <1>same. ASSUME UNCHANGED s2c PROVE AcknowledgedFirst'
    BY <1>same DEF AcknowledgedFirst
  <1>serve. ASSUME NEW cmd, NEW t, Serve(cmd, t), Opens(t, ncmd)
            PROVE  AcknowledgedFirst'
    BY <1>serve, FirstAppended DEF Serve
  <1>1. CASE Auth
    <2>1. {} \in SUBSET Flags /\ {"ERROR", "EXIT"} \in SUBSET Flags
          /\ "INCOMPLETED" \notin {} /\ "INCOMPLETED" \notin {"ERROR", "EXIT"}
      BY DEF Flags
    <2>2. /\ Opens(<<Answer("AUTH_ACK", 0, {})>>, ncmd)
          /\ Opens(<<Answer("AUTH_ACK", 0, {"ERROR", "EXIT"})>>, ncmd)
      BY <2>1, <1>ack, AnswerOpens
    <2> QED BY <1>1, <2>2, <1>serve DEF Auth
  <1>2. CASE AnswerCmd
    <2>1. ncmd' = ncmd + 1 BY <1>2 DEF AnswerCmd
    <2>2. Opens(<<Error("CMD_ACK", ncmd')>>, ncmd)
      BY <2>1, <1>nat, <1>ack, ErrorOpens
    <2>3. \A data \in Outputs, over \in BOOLEAN :
            Opens(FinalAnswer(ncmd', data, over), ncmd)
      BY <2>1, <1>nat, FinalAnswerOpens
    <2> QED BY <1>2, <2>2, <2>3, <1>serve DEF AnswerCmd
  <1>3. CASE StartCmd
    <2>1. ncmd' = ncmd + 1 BY <1>3 DEF StartCmd
    <2>2. PICK f \in SUBSET Features :
            Serve("CMD", <<Answer("CMD_ACK", ncmd + 1, {"INCOMPLETED"} \cup f)>>)
      BY <1>3, <2>1 DEF StartCmd
    <2> QED BY <2>2, <1>nat, <1>serve, StartOpens
  <1>4. CASE RefuseCmd
    <2>1. Serve("CMD", <<Error("CMD_ACK", ncmd + 1)>>) BY <1>4 DEF RefuseCmd
    <2>2. Opens(<<Error("CMD_ACK", ncmd + 1)>>, ncmd)
      BY <1>nat, <1>ack, ErrorOpens
    <2> QED BY <2>1, <2>2, <1>serve
  <1>5. ASSUME NEW cmd \in {"COMPLETION", "HELP"}, AnswerHint(cmd)
        PROVE  AcknowledgedFirst'
    <2>1. Opens(<<Error(Ack[cmd], 0)>>, ncmd) BY <1>ack, ErrorOpens
    <2>2. ASSUME NEW over \in BOOLEAN
          PROVE  Opens(<<Answer(Ack[cmd], 0, ExitStatus(over))>>, ncmd)
      <3>1. ExitStatus(over) \in SUBSET Flags
            /\ "INCOMPLETED" \notin ExitStatus(over)
        BY DEF ExitStatus, Flags
      <3> QED BY <3>1, <1>ack, AnswerOpens
    <2> QED BY <1>5, <2>1, <2>2, <1>serve DEF AnswerHint
  <1>6. ASSUME NEW cmd, Accept(cmd) PROVE AcknowledgedFirst'
    BY <1>6, <1>none, <1>serve DEF Accept
  <1>7. ASSUME NEW cmd, TooLate(cmd) PROVE AcknowledgedFirst'
    <2>1. Opens(<<Error("NOTIFICATION", 0)>>, ncmd) BY ErrorOpens
    <2> QED BY <1>7, <2>1, <1>none, <1>serve DEF TooLate
  <1>8. CASE Notified
    BY <1>8, <1>none, <1>serve DEF Notified
  <1>9. CASE Refuse
    <2>1. \A cmd \in {"COMPLETION", "HELP"} : Opens(<<Error(Ack[cmd], 0)>>, ncmd)
      BY <1>ack, ErrorOpens
    <2>2. Opens(<<Error("AUTH_ACK", 0)>>, ncmd) BY <1>ack, ErrorOpens
    <2>3. Opens(<<Error("NOTIFICATION", 0)>>, ncmd) BY ErrorOpens
    <2> QED BY <1>9, <2>1, <2>2, <2>3, <1>none, <1>serve DEF Refuse
  <1>10. ASSUME NEW s \in Streams, Output(s) PROVE AcknowledgedFirst'
    <2>1. PICK len \in 1 .. MaxOut : s2c' = s2c \o Data(s, cur, len)
      BY <1>10 DEF Output
    <2>2. len \in Nat BY MaxOutAssumption
    <2> QED BY <2>1, <2>2, <1>nat, DataOpens, FirstAppended
  <1>11. CASE Finish
    <2>1. PICK data \in Outputs, over \in BOOLEAN :
            s2c' = s2c \o FinalAnswer(cur, data, over)
      BY <1>11 DEF Finish
    <2> QED BY <2>1, <1>nat, FinalAnswerOpens, FirstAppended
  <1>12. CASE (\E m \in Requests : Send(m)) \/ Down \/ UNCHANGED vars
    BY <1>12, <1>same DEF Send, Down, vars
  <1> QED
    BY <1>1, <1>2, <1>3, <1>4, <1>5, <1>6, <1>7, <1>8, <1>9, <1>10, <1>11,
       <1>12 DEF Next, Request

(* The first answer to a command comes before all of its output.            *)
THEOREM ServiceAcknowledgedFirst == Spec => []AcknowledgedFirst
  <1>1. Init => AcknowledgedFirst
    BY DEF Init, AcknowledgedFirst
  <1>2. TypeOK /\ SInv /\ AcknowledgedFirst /\ [Next]_vars => AcknowledgedFirst'
    BY FirstStep
  <1> QED BY <1>1, <1>2, ServiceInvariant, PTL DEF Spec
=============================================================================
