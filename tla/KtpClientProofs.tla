--------------------------- MODULE KtpClientProofs ---------------------------
(***************************************************************************)
(* Proofs about KtpClient: the client klish against every server that      *)
(* keeps the promise of KtpService, for all ways to start it, buffers of   *)
(* every size, any number of commands, keys and signals.                   *)
(***************************************************************************)
EXTENDS KtpClient, SequenceTheorems, TLAPS

(***************************************************************************)
(* The inductive invariant                                                 *)
(***************************************************************************)
Wanted == [cmd: Commands, n: Nat]

(* The requests that are on their way, those the socket has not taken too. *)
Queue == c2s \o obuf

(* Requests that have an answer, and the state that expects it.            *)
Asking == DOMAIN Ack
WaitsFor(cmd) == Expected[Ack[cmd]]
IsAnswer(m) ==
  /\ m.cmd \in {Ack[c] : c \in Asking}
  /\ m.cmd = "CMD_ACK" => "INCOMPLETED" \notin m.status

Asked(q, cmds) == \E i \in DOMAIN q : q[i].cmd \in cmds
Unanswered(s) == \A i \in DOMAIN s : ~IsAnswer(s[i])

(* A client in state st has asked for something and waits for the answer,  *)
(* which is either still a request in q, or the command that the server    *)
(* runs, or the last message in s that is no notification.                 *)
Agree(q, s, st, ph) ==
  /\ \A i \in DOMAIN q : q[i].cmd \in Asking => st = WaitsFor(q[i].cmd)
  /\ \A i, j \in DOMAIN q : q[i].cmd \in Asking /\ q[j].cmd \in Asking => i = j
  /\ \A i \in DOMAIN s : s[i].cmd = "NOTIFICATION" \/ st = Expected[s[i].cmd]
  /\ \A i, j \in DOMAIN s : i < j /\ IsAnswer(s[i]) => s[j].cmd = "NOTIFICATION"
  /\ Asked(q, Asking) => ph # "running" /\ Unanswered(s)
  /\ ph = "running" => st = "WAIT_FOR_CMD" /\ Unanswered(s)

(* The running command is the last one sent, and so is the command a       *)
(* request that concerns its streams belongs to when the server comes to   *)
(* it while a command runs.                                                *)
Counted(q, ph, c, n, last) ==
  /\ ph = "running" => c = last
  /\ last = IF Asked(q, {"CMD"}) THEN n + 1 ELSE n
  /\ \A i \in DOMAIN q :
       /\ q[i].cmd \in Server!Streaming
       /\ ph = "running" \/ \E j \in DOMAIN q : j < i /\ q[j].cmd = "CMD"
       => q[i].n = last

(* The server knows the client, unless the client is about to leave.       *)
Leaving == done /\ (over = "no" => inev)
Authorized ==
  /\ Asked(Queue, {"AUTH"}) => phase = "unauthorized"
  /\ Asked(Queue, {"COMPLETION", "HELP"}) => phase # "unauthorized"
  /\ phase = "unauthorized" =>
       \/ Leaving
       \/ /\ state = "UNAUTHORIZED"
          /\ \A i \in DOMAIN s2c : s2c[i].cmd = "AUTH_ACK" => "EXIT" \in s2c[i].status

(* A command's stdin is closed after all data.                             *)
ClosedAtEnd == eof \/ Asked(Queue, {"STDIN_CLOSE"}) => input = 0

(* A client that stops on an error has nothing else to do.                 *)
Stopped ==
  failed => /\ state = "IDLE" /\ retcode # 0 /\ Leaving
            /\ over # "no" /\ ~Interactive => over = "failure"

(* What is stalled will be sent, and stdin is polled then.                 *)
Rearmed ==
  /\ obuf # << >> => pollout
  /\ NeverDeaf

(* The types, of what the proofs look at.                                  *)
Types ==
  /\ c2s \in Seq(Wanted) /\ obuf \in Seq(Wanted) /\ s2c \in Seq(AnswerType)
  /\ cur \in Nat /\ ncmd \in Nat /\ sent \in Nat
  /\ eof \in BOOLEAN /\ phase \in {"unauthorized", "idle", "running"}
  /\ done \in BOOLEAN /\ pollout \in BOOLEAN
  /\ input \in Nat /\ lines \in Nat

IInv ==
  /\ Types
  /\ Agree(Queue, s2c, state, phase)
  /\ Counted(Queue, phase, cur, ncmd, sent)
  /\ Authorized
  /\ ClosedAtEnd
  /\ Stopped
  /\ Rearmed

(***************************************************************************)
(* Agree                                                                   *)
(***************************************************************************)
LEMMA Acks ==
  /\ Asking = {"AUTH", "CMD", "COMPLETION", "HELP"}
  /\ Ack["AUTH"] = "AUTH_ACK" /\ Ack["CMD"] = "CMD_ACK"
  /\ Ack["COMPLETION"] = "COMPLETION_ACK" /\ Ack["HELP"] = "HELP_ACK"
  /\ {Ack[c] : c \in Asking} = {"AUTH_ACK", "CMD_ACK", "COMPLETION_ACK", "HELP_ACK"}
<1>1. Asking = {"AUTH", "CMD", "COMPLETION", "HELP"}
  BY DEF Asking, Ack
<1>2. /\ Ack["AUTH"] = "AUTH_ACK" /\ Ack["CMD"] = "CMD_ACK"
      /\ Ack["COMPLETION"] = "COMPLETION_ACK" /\ Ack["HELP"] = "HELP_ACK"
  BY DEF Ack
<1> QED
  BY <1>1, <1>2

LEMMA Expectations ==
  /\ Expected["AUTH_ACK"] = "UNAUTHORIZED" /\ Expected["CMD_ACK"] = "WAIT_FOR_CMD"
  /\ Expected["STDOUT"] = "WAIT_FOR_CMD" /\ Expected["STDERR"] = "WAIT_FOR_CMD"
  /\ Expected["COMPLETION_ACK"] = "WAIT_FOR_COMPLETION"
  /\ Expected["HELP_ACK"] = "WAIT_FOR_HELP"
BY DEF Expected

LEMMA Waits ==
  /\ WaitsFor("AUTH") = "UNAUTHORIZED" /\ WaitsFor("CMD") = "WAIT_FOR_CMD"
  /\ WaitsFor("COMPLETION") = "WAIT_FOR_COMPLETION"
  /\ WaitsFor("HELP") = "WAIT_FOR_HELP"
BY Acks, Expectations DEF WaitsFor

(* The client asks for nothing more.                                       *)
LEMMA AgreeSends ==
  ASSUME NEW q \in Seq(Wanted), NEW s, NEW st, NEW ph, Agree(q, s, st, ph),
         NEW m \in Wanted, m.cmd \notin Asking
  PROVE  Agree(Append(q, m), s, st, ph)
<1> DEFINE u == Append(q, m)
<1>1. \A i \in DOMAIN u : (i \in DOMAIN q /\ u[i] = q[i]) \/ u[i].cmd \notin Asking
  OBVIOUS
<1> HIDE DEF u
<1>2. Asked(u, Asking) => Asked(q, Asking)
  BY <1>1 DEF Asked
<1> QED
  BY <1>1, <1>2 DEF Agree, u

(* It asks for something when it waits for nothing.                        *)
LEMMA AgreeAsks ==
  ASSUME NEW q \in Seq(Wanted), NEW s \in Seq(AnswerType), NEW ph,
         Agree(q, s, "IDLE", ph),
         NEW m \in Wanted, m.cmd \in Asking
  PROVE  Agree(Append(q, m), s, WaitsFor(m.cmd), ph)
<1>1. \A c \in Asking : WaitsFor(c) # "IDLE"
  BY Acks, Waits
<1>2. \A i \in DOMAIN q : q[i].cmd \notin Asking
  BY <1>1 DEF Agree
<1>3. ph # "running"
  BY DEF Agree
<1>4. \A i \in DOMAIN s : s[i].cmd = "NOTIFICATION"
  <2>1. \A i \in DOMAIN s : s[i].cmd \in DOMAIN Expected \cup {"NOTIFICATION"}
    <3>1. \A i \in DOMAIN s : s[i] \in AnswerType
      OBVIOUS
    <3>2. \A a \in AnswerType : a.cmd \in
            {Ack[c] : c \in Asking} \cup {"STDOUT", "STDERR", "NOTIFICATION"}
      BY DEF AnswerType, Streams, Asking
    <3>3. DOMAIN Expected = {"AUTH_ACK", "CMD_ACK", "STDOUT", "STDERR",
                             "COMPLETION_ACK", "HELP_ACK"}
      BY DEF Expected
    <3> QED
      BY <3>1, <3>2, <3>3, Acks
  <2>2. \A c \in DOMAIN Expected : Expected[c] # "IDLE"
    BY DEF Expected
  <2> QED
    BY <2>1, <2>2 DEF Agree
<1>5. Unanswered(s)
  BY <1>4, Acks DEF Unanswered, IsAnswer
<1> DEFINE u == Append(q, m)
<1>6. \A i \in DOMAIN u : (i \in DOMAIN q /\ u[i] = q[i]) \/ (i = Len(q) + 1 /\ u[i] = m)
  OBVIOUS
<1> HIDE DEF u
<1>7. \A i \in DOMAIN u : u[i].cmd \in Asking => i = Len(q) + 1 /\ u[i] = m
  BY <1>2, <1>6
<1> QED
  BY <1>3, <1>4, <1>5, <1>7 DEF Agree, u

LEMMA TailOf ==
  ASSUME NEW S, NEW s \in Seq(S), s # << >>
  PROVE  /\ Tail(s) \in Seq(S) /\ Head(s) \in S /\ Head(s) = s[1]
         /\ 1 \in DOMAIN s
         /\ \A i \in DOMAIN Tail(s) :
              i \in Nat /\ i + 1 \in DOMAIN s /\ i + 1 # 1 /\ Tail(s)[i] = s[i + 1]
OBVIOUS

(* The client takes a message.                                             *)
LEMMA AgreeHears ==
  ASSUME NEW q, NEW s \in Seq(AnswerType), s # << >>, NEW st, NEW ph,
         Agree(q, s, st, ph)
  PROVE  Agree(q, Tail(s), st, ph)
<1> DEFINE t == Tail(s)
<1>1. \A i \in DOMAIN t : i \in Nat /\ i + 1 \in DOMAIN s /\ t[i] = s[i + 1]
  BY TailOf
<1> HIDE DEF t
<1>2. Unanswered(s) => Unanswered(t)
  BY <1>1 DEF Unanswered
<1>3. \A i, j \in DOMAIN t : i < j => i + 1 < j + 1
  BY <1>1
<1>4. \A i, j \in DOMAIN t : i < j /\ IsAnswer(t[i]) => t[j].cmd = "NOTIFICATION"
  BY <1>1, <1>3 DEF Agree
<1> QED
  BY <1>1, <1>2, <1>4 DEF Agree, t

(* The client takes the answer it waits for.                               *)
LEMMA AgreeAnswered ==
  ASSUME NEW q, NEW s \in Seq(AnswerType), s # << >>, NEW st, NEW ph,
         Agree(q, s, st, ph), IsAnswer(Head(s))
  PROVE  Agree(q, Tail(s), "IDLE", ph) /\ ph # "running" /\ ~Asked(q, Asking)
<1> DEFINE t == Tail(s)
<1>1. /\ Head(s) = s[1] /\ 1 \in DOMAIN s
      /\ \A i \in DOMAIN t : i \in Nat /\ i + 1 \in DOMAIN s /\ 1 < i + 1 /\ t[i] = s[i + 1]
  <2>1. \A i \in DOMAIN t : i \in Nat /\ i + 1 \in DOMAIN s /\ i + 1 # 1 /\ t[i] = s[i + 1]
    BY TailOf
  <2>2. \A i \in Nat : i + 1 # 1 => 1 < i + 1
    OBVIOUS
  <2> QED
    BY <2>1, <2>2, TailOf
<1> HIDE DEF t
<1>2. ~Unanswered(s)
  BY <1>1 DEF Unanswered
<1>3. ph # "running" /\ ~Asked(q, Asking)
  BY <1>2 DEF Agree
<1>4. \A i \in DOMAIN t : t[i].cmd = "NOTIFICATION"
  BY <1>1 DEF Agree
<1>5. Unanswered(t)
  BY <1>4, Acks DEF Unanswered, IsAnswer
<1>6. \A i \in DOMAIN q : q[i].cmd \notin Asking
  BY <1>3 DEF Asked
<1> QED
  BY <1>3, <1>4, <1>5, <1>6 DEF Agree, t

(* The server takes a request.                                             *)
LEMMA AgreeServes ==
  ASSUME NEW q \in Seq(Wanted), q # << >>, NEW s, NEW st, NEW ph,
         Agree(q, s, st, ph)
  PROVE  /\ Agree(Tail(q), s, st, ph)
         /\ Head(q).cmd \in Asking =>
              /\ ~Asked(Tail(q), Asking) /\ Unanswered(s) /\ ph # "running"
              /\ st = WaitsFor(Head(q).cmd)
<1> DEFINE u == Tail(q)
<1>1. /\ Head(q) = q[1] /\ 1 \in DOMAIN q
      /\ \A i \in DOMAIN u : i \in Nat /\ i + 1 \in DOMAIN q /\ i + 1 # 1 /\ u[i] = q[i + 1]
  BY TailOf
<1> HIDE DEF u
<1>2. \A i, j \in DOMAIN u : i + 1 = j + 1 => i = j
  BY <1>1
<1>3. Asked(u, Asking) => Asked(q, Asking)
  BY <1>1 DEF Asked
<1>4. Agree(u, s, st, ph)
  <2>1. \A i, j \in DOMAIN u : u[i].cmd \in Asking /\ u[j].cmd \in Asking => i = j
    BY <1>1, <1>2 DEF Agree
  <2> QED
    BY <1>1, <1>3, <2>1 DEF Agree
<1>5. ASSUME Head(q).cmd \in Asking
      PROVE  /\ ~Asked(u, Asking) /\ Unanswered(s) /\ ph # "running"
             /\ st = WaitsFor(Head(q).cmd)
  <2>1. Asked(q, Asking)
    BY <1>1, <1>5 DEF Asked
  <2>2. ~Asked(u, Asking)
    BY <1>1, <1>5 DEF Asked, Agree
  <2> QED
    BY <1>1, <1>5, <2>1, <2>2 DEF Agree
<1> QED
  BY <1>4, <1>5 DEF u

(* The server sends the messages t, which the client expects; an answer is *)
(* the last of them.  Only notifications follow an answer.                 *)
ExpectedIn(t, st) ==
  /\ \A i \in DOMAIN t : t[i].cmd = "NOTIFICATION" \/ st = Expected[t[i].cmd]
  /\ \A i \in DOMAIN t : IsAnswer(t[i]) => i = Len(t)

Late(t) == \A i \in DOMAIN t : t[i].cmd = "NOTIFICATION"

LEMMA AgreeTells ==
  ASSUME NEW q, NEW s \in Seq(AnswerType), NEW st, NEW ph, Agree(q, s, st, ph),
         NEW t \in Seq(AnswerType), ExpectedIn(t, st), Late(t) \/ Unanswered(s),
         NEW nx,
         Asked(q, Asking) => nx # "running" /\ Unanswered(s) /\ Unanswered(t),
         nx = "running" => st = "WAIT_FOR_CMD" /\ Unanswered(s) /\ Unanswered(t)
  PROVE  Agree(q, s \o t, st, nx)
<1> DEFINE u == s \o t
<1>1. /\ Len(s) \in Nat /\ Len(t) \in Nat
      /\ DOMAIN s = 1 .. Len(s) /\ DOMAIN t = 1 .. Len(t)
      /\ \A i \in DOMAIN u : i \in Nat /\ (\/ i \in DOMAIN s /\ u[i] = s[i]
                                 \/ /\ i - Len(s) \in DOMAIN t
                                    /\ u[i] = t[i - Len(s)] /\ i > Len(s))
  OBVIOUS
<1> HIDE DEF u
<1>2. \A i \in DOMAIN u : u[i].cmd = "NOTIFICATION" \/ st = Expected[u[i].cmd]
  BY <1>1 DEF Agree, ExpectedIn
<1>3. Unanswered(s) /\ Unanswered(t) => Unanswered(u)
  BY <1>1 DEF Unanswered
<1>4. ASSUME NEW i \in DOMAIN u, NEW j \in DOMAIN u, i < j, IsAnswer(u[i])
      PROVE  u[j].cmd = "NOTIFICATION"
  <2>1. CASE i \in DOMAIN s /\ u[i] = s[i]
    <3>1. ~Unanswered(s)
      BY <1>4, <2>1 DEF Unanswered
    <3>2. CASE j \in DOMAIN s /\ u[j] = s[j]
      BY <1>4, <2>1, <3>2 DEF Agree
    <3>3. CASE j - Len(s) \in DOMAIN t /\ u[j] = t[j - Len(s)]
      BY <3>1, <3>3 DEF Late
    <3> QED
      BY <1>1, <3>2, <3>3
  <2>2. CASE i - Len(s) \in DOMAIN t /\ u[i] = t[i - Len(s)] /\ i > Len(s)
    <3>1. i - Len(s) = Len(t)
      BY <1>4, <2>2 DEF ExpectedIn
    <3>2. i \in Nat /\ j \in Nat /\ j > Len(s) + Len(t)
      BY <1>1, <1>4, <3>1
    <3> QED
      BY <1>1, <3>2
  <2> QED
    BY <1>1, <2>1, <2>2
<1> QED
  BY <1>2, <1>3, <1>4 DEF Agree, u

(***************************************************************************)
(* Counted                                                                 *)
(***************************************************************************)
LEMMA StreamRequests ==
  Server!Streaming = {"STDIN", "STDIN_CLOSE", "STDOUT_CLOSE", "STDERR_CLOSE"}
BY DEF Server!Streaming

(* A request that is no command, for the last command if for any.          *)
LEMMA CountedSends ==
  ASSUME NEW q \in Seq(Wanted), NEW ph, NEW c, NEW n, NEW last,
         Counted(q, ph, c, n, last),
         NEW m \in Wanted, m.cmd # "CMD",
         m.cmd \in Server!Streaming => m.n = last
  PROVE  Counted(Append(q, m), ph, c, n, last)
<1> DEFINE u == Append(q, m)
<1>1. /\ \A i \in DOMAIN u : i \in Nat /\ (\/ i \in DOMAIN q /\ u[i] = q[i]
                                           \/ i = Len(q) + 1 /\ u[i] = m)
      /\ \A i \in DOMAIN q : i \in DOMAIN u /\ u[i] = q[i]
      /\ Len(q) \in Nat
  OBVIOUS
<1> HIDE DEF u
<1>2. Asked(u, {"CMD"}) = Asked(q, {"CMD"})
  BY <1>1 DEF Asked
<1>3. ASSUME NEW i \in DOMAIN u, u[i].cmd \in Server!Streaming,
             ph = "running" \/ \E j \in DOMAIN u : j < i /\ u[j].cmd = "CMD"
      PROVE  u[i].n = last
  <2>1. CASE u[i] = m
    BY <1>3, <2>1
  <2>2. CASE i \in DOMAIN q /\ u[i] = q[i]
    BY <1>1, <1>3, <2>2 DEF Counted
  <2> QED
    BY <1>1, <2>1, <2>2
<1> QED
  BY <1>2, <1>3 DEF Counted, u

(* The next command.                                                       *)
LEMMA CountedCommands ==
  ASSUME NEW q \in Seq(Wanted), NEW ph, NEW c, NEW n, NEW last,
         Counted(q, ph, c, n, last), ph # "running", ~Asked(q, {"CMD"}),
         NEW m \in Wanted, m.cmd = "CMD"
  PROVE  Counted(Append(q, m), ph, c, n, last + 1)
<1> DEFINE u == Append(q, m)
<1>1. /\ \A i \in DOMAIN u : i \in 1 .. Len(q) + 1 /\ (\/ i \in DOMAIN q /\ u[i] = q[i]
                                                       \/ i = Len(q) + 1 /\ u[i] = m)
      /\ Len(q) + 1 \in DOMAIN u /\ u[Len(q) + 1] = m /\ Len(q) \in Nat
  OBVIOUS
<1> HIDE DEF u
<1>2. Asked(u, {"CMD"})
  BY <1>1 DEF Asked
<1>3. ASSUME NEW i \in DOMAIN u, NEW j \in DOMAIN u, j < i
      PROVE  u[j].cmd # "CMD"
  <2>1. j # Len(q) + 1
    BY <1>1, <1>3
  <2>2. j \in DOMAIN q /\ u[j] = q[j]
    BY <1>1, <2>1
  <2> QED
    BY <2>2 DEF Asked
<1> QED
  BY <1>2, <1>3 DEF Counted, u

(* The server serves a request that is no command.                         *)
LEMMA CountedServes ==
  ASSUME NEW q \in Seq(Wanted), q # << >>, NEW ph, NEW c, NEW n, NEW last,
         Counted(q, ph, c, n, last), Head(q).cmd # "CMD"
  PROVE  /\ Counted(Tail(q), ph, c, n, last)
         /\ ph = "running" /\ Head(q).cmd \in Server!Streaming => Head(q).n = c
<1> DEFINE u == Tail(q)
<1>1. /\ Head(q) = q[1] /\ 1 \in DOMAIN q
      /\ \A i \in DOMAIN u : i \in Nat /\ i + 1 \in DOMAIN q /\ i + 1 # 1 /\ u[i] = q[i + 1]
      /\ \A i \in DOMAIN q : i = 1 \/ (i - 1 \in DOMAIN u /\ u[i - 1] = q[i])
  <2>1. \A i \in DOMAIN q : i = 1 \/ (i - 1 \in DOMAIN u /\ u[i - 1] = q[i])
    OBVIOUS
  <2> QED
    BY <2>1, TailOf
<1> HIDE DEF u
<1>2. Asked(u, {"CMD"}) = Asked(q, {"CMD"})
  BY <1>1 DEF Asked
<1>3. ASSUME NEW i \in DOMAIN u, u[i].cmd \in Server!Streaming,
             ph = "running" \/ \E j \in DOMAIN u : j < i /\ u[j].cmd = "CMD"
      PROVE  u[i].n = last
  <2>1. ph = "running" \/ \E j \in DOMAIN q : j < i + 1 /\ q[j].cmd = "CMD"
    <3>1. ASSUME NEW j \in DOMAIN u, j < i, u[j].cmd = "CMD"
          PROVE  j + 1 \in DOMAIN q /\ j + 1 < i + 1 /\ q[j + 1].cmd = "CMD"
      <4>1. j + 1 \in DOMAIN q /\ u[j] = q[j + 1] /\ i \in Nat /\ j \in Nat
        BY <1>1
      <4> QED
        BY <3>1, <4>1
    <3> QED
      BY <1>3, <3>1
  <2> QED
    BY <1>1, <1>3, <2>1 DEF Counted
<1> QED
  BY <1>1, <1>2, <1>3 DEF Counted, u

(* The server serves a command, at once or by running it.                  *)
LEMMA CountedServesCommand ==
  ASSUME NEW q \in Seq(Wanted), q # << >>, NEW ph, NEW c, NEW n, NEW last,
         Counted(q, ph, c, n, last), Head(q).cmd = "CMD",
         ~Asked(Tail(q), {"CMD"}),
         NEW nx, NEW d, nx = "running" => d = n + 1
  PROVE  Counted(Tail(q), nx, d, n + 1, last)
<1> DEFINE u == Tail(q)
<1>1. /\ Head(q) = q[1] /\ 1 \in DOMAIN q
      /\ \A i \in DOMAIN u : i \in Nat /\ i + 1 \in DOMAIN q /\ i + 1 # 1 /\ u[i] = q[i + 1]
  BY TailOf
<1> HIDE DEF u
<1>2. last = n + 1
  BY <1>1 DEF Counted, Asked
<1>3. ASSUME NEW i \in DOMAIN u, u[i].cmd \in Server!Streaming
      PROVE  u[i].n = last
  <2>1. 1 < i + 1 /\ i + 1 \in DOMAIN q /\ u[i] = q[i + 1]
    BY <1>1
  <2> QED
    BY <1>1, <1>3, <2>1 DEF Counted
<1> QED
  BY <1>2, <1>3 DEF Counted, u

(* No command runs any more.                                               *)
LEMMA CountedIdle ==
  ASSUME NEW q, NEW ph, NEW c, NEW n, NEW last, Counted(q, ph, c, n, last),
         NEW nx, nx # "running", NEW d
  PROVE  Counted(q, nx, d, n, last)
BY DEF Counted

(***************************************************************************)
(* The queue of requests                                                   *)
(***************************************************************************)
(* A sequence is the part before a place and the part behind it.           *)
LEMMA CutRequests ==
  ASSUME NEW q \in Seq(Wanted), NEW r \in Seq(Wanted), NEW k \in 0 .. Len(r)
  PROVE  /\ SubSeq(r, 1, k) \in Seq(Wanted) /\ SubSeq(r, k + 1, Len(r)) \in Seq(Wanted)
         /\ SubSeq(r, k + 1, Len(r)) # << >> => k < Len(r)
         /\ (q \o SubSeq(r, 1, k)) \o SubSeq(r, k + 1, Len(r)) = q \o r
<1> DEFINE a == SubSeq(r, 1, k)
           b == SubSeq(r, k + 1, Len(r))
<1>1. Len(r) \in Nat /\ \A i \in 1 .. Len(r) : r[i] \in Wanted
  BY LenProperties, ElementOfSeq
<1>2. a \in Seq(Wanted)
  <2>1. \A i \in 1 .. k : r[i] \in Wanted
    BY <1>1
  <2> QED
    BY <1>1, <2>1, SubSeqProperties
<1>3. /\ b \in Seq(Wanted)
      /\ Len(b) = IF k + 1 <= Len(r) THEN Len(r) - (k + 1) + 1 ELSE 0
  <2>1. \A i \in k + 1 .. Len(r) : r[i] \in Wanted
    BY <1>1
  <2> QED
    BY <1>1, <2>1, SubSeqProperties
<1>4. a \o b = SubSeq(r, 1, Len(r))
  <2>1. /\ 1 \in 1 .. Len(r) + 1 /\ k \in 1 - 1 .. Len(r)
        /\ Len(r) \in k .. Len(r)
    BY <1>1
  <2> QED
    BY <2>1, ConcatAdjacentSubSeq, Zenon
<1>5. a \o b = r
  BY <1>4, SubSeqFull
<1>6. b # << >> => k < Len(r)
  BY <1>1, <1>3, EmptySeq
<1> HIDE DEF a, b
<1>7. (q \o a) \o b = q \o (a \o b)
  <2>1. b \in Seq(Wanted)
    BY <1>3
  <2> QED
    BY <1>2, <2>1, ConcatAssociative, SMTT(60)
<1> QED
  BY <1>2, <1>3, <1>5, <1>6, <1>7 DEF a, b

(* What is sent or stalled comes after what was sent or stalled before.    *)
LEMMA EmitAppends ==
  ASSUME c2s \in Seq(Wanted), obuf \in Seq(Wanted), pollout \in BOOLEAN,
         obuf # << >> => pollout,
         NEW msgs \in Seq(Wanted), Emit(msgs)
  PROVE  /\ c2s' \in Seq(Wanted) /\ obuf' \in Seq(Wanted) /\ pollout' \in BOOLEAN
         /\ Queue' = Queue \o msgs
         /\ obuf' # << >> => pollout'
         /\ pollout => pollout'
<1>1. CASE msgs = << >>
  <2>1. c2s' = c2s /\ obuf' = obuf /\ pollout' = pollout
    BY <1>1 DEF Emit, net
  <2>2. Queue \in Seq(Wanted)
    BY DEF Queue
  <2>3. Queue' = Queue
    BY <2>1 DEF Queue
  <2> QED
    BY <1>1, <2>1, <2>2, <2>3
<1>2. CASE msgs # << >>
  <2> DEFINE all == obuf \o msgs
             room == IF Len(c2s) < SockCap THEN SockCap - Len(c2s) ELSE 0
  <2>1. all \in Seq(Wanted) /\ Len(all) \in Nat
    OBVIOUS
  <2>2. room \in Nat
    BY LenProperties, LimitsAssumption
  <2> HIDE DEF room
  <2>3. (IF room < Len(all) THEN room ELSE Len(all)) \in 0 .. Len(all)
    BY <2>1, <2>2
  <2>4. PICK k \in 0 .. Len(all) : /\ c2s' = c2s \o SubSeq(all, 1, k)
                                   /\ obuf' = SubSeq(all, k + 1, Len(all))
                                   /\ pollout' = (pollout \/ k < Len(all))
    BY <1>2, <2>3 DEF Emit, room
  <2> HIDE DEF all
  <2>5. /\ SubSeq(all, 1, k) \in Seq(Wanted) /\ obuf' \in Seq(Wanted)
        /\ obuf' # << >> => k < Len(all)
        /\ (c2s \o SubSeq(all, 1, k)) \o SubSeq(all, k + 1, Len(all)) = c2s \o all
    BY <2>1, <2>4, CutRequests
  <2>6. c2s' \in Seq(Wanted)
    BY <2>4, <2>5, ConcatProperties
  <2>7. Queue' = c2s \o all
    BY <2>4, <2>5 DEF Queue
  <2>8. (c2s \o obuf) \o msgs = c2s \o (obuf \o msgs)
    <3>1. c2s \in Seq(Wanted) /\ obuf \in Seq(Wanted) /\ msgs \in Seq(Wanted)
      OBVIOUS
    <3> QED
      BY <3>1, ConcatAssociative, SMTT(60)
  <2>9. Queue' = Queue \o msgs
    BY <2>7, <2>8 DEF Queue, all
  <2>10. pollout' \in BOOLEAN /\ (pollout => pollout')
    BY <2>4
  <2>11. obuf' # << >> => pollout'
    BY <2>4, <2>5
  <2> QED
    BY <2>5, <2>6, <2>9, <2>10, <2>11
<1> QED
  BY <1>1, <1>2

(* Sending what was stalled adds nothing.                                  *)
LEMMA ServerOutKeeps ==
  ASSUME c2s \in Seq(Wanted), obuf \in Seq(Wanted), ServerOut
  PROVE  /\ c2s' \in Seq(Wanted) /\ obuf' \in Seq(Wanted) /\ pollout' \in BOOLEAN
         /\ Queue' = Queue
         /\ obuf' # << >> => pollout'
<1> DEFINE room == SockCap - Len(c2s)
<1>1. Len(obuf) \in Nat /\ room \in Nat
  BY LenProperties, LimitsAssumption DEF ServerOut
<1> HIDE DEF room
<1>2. (IF room < Len(obuf) THEN room ELSE Len(obuf)) \in 0 .. Len(obuf)
  BY <1>1
<1>3. PICK k \in 0 .. Len(obuf) : /\ c2s' = c2s \o SubSeq(obuf, 1, k)
                                  /\ obuf' = SubSeq(obuf, k + 1, Len(obuf))
                                  /\ pollout' = (k < Len(obuf))
  BY <1>2 DEF ServerOut, room
<1>4. /\ SubSeq(obuf, 1, k) \in Seq(Wanted) /\ obuf' \in Seq(Wanted)
      /\ obuf' # << >> => k < Len(obuf)
      /\ (c2s \o SubSeq(obuf, 1, k)) \o SubSeq(obuf, k + 1, Len(obuf)) = c2s \o obuf
  BY <1>3, CutRequests
<1>5. c2s' \in Seq(Wanted)
  BY <1>3, <1>4, ConcatProperties
<1>6. Queue' = Queue
  BY <1>3, <1>4 DEF Queue
<1>7. obuf' # << >> => pollout'
  BY <1>3, <1>4
<1>8. pollout' \in BOOLEAN
  <2>1. (k < Len(obuf)) \in BOOLEAN
    OBVIOUS
  <2> QED
    BY <1>3, <2>1, Zenon
<1> QED
  BY <1>4, <1>5, <1>6, <1>7, <1>8

(* The first of all requests is what the server gets.                      *)
LEMMA QueueHead ==
  ASSUME c2s \in Seq(Wanted), obuf \in Seq(Wanted), c2s # << >>
  PROVE  /\ Queue \in Seq(Wanted) /\ Queue # << >>
         /\ Head(Queue) = Head(c2s)
         /\ Tail(c2s) \in Seq(Wanted)
         /\ Tail(Queue) = Tail(c2s) \o obuf
BY DEF Queue

(***************************************************************************)
(* What a step of the client does to requests, answers and state           *)
(***************************************************************************)
(* A request that has no answer.                                           *)
Aside(m) ==
  /\ m \in Wanted /\ m.cmd \notin Asking
  /\ m.cmd \in Server!Streaming => m.n = sent
  /\ m.cmd = "STDIN_CLOSE" => input = 0

MaySend == Queue' = Queue \/ \E m : Aside(m) /\ Queue' = Append(Queue, m)

Quiet == MaySend /\ UNCHANGED <<server, s2c, state, sent>>

(* A message that is not the end of what the client waits for.             *)
Heard ==
  /\ MaySend
  /\ s2c # << >> /\ s2c' = Tail(s2c)
  /\ UNCHANGED <<server, state, sent>>

(* The user asks for something.                                            *)
Typed ==
  /\ state = "IDLE" /\ over = "no" /\ ~inev
  /\ \E cmd \in {"CMD", "COMPLETION", "HELP"}, n \in Nat :
       /\ Queue' = Append(Queue, Request(cmd, n))
       /\ state' = WaitsFor(cmd)
       /\ sent' = IF cmd = "CMD" THEN sent + 1 ELSE sent
  /\ UNCHANGED <<server, s2c>>

(* The answer the client waits for; it may send the next command.          *)
Replied ==
  /\ s2c # << >> /\ IsAnswer(Message) /\ s2c' = Tail(s2c)
  /\ \E q \in {Queue, Append(Queue, Request("NOTIFICATION", 0))} :
       \/ Queue' = q /\ state' = "IDLE" /\ sent' = sent
       \/ Queue' = Append(q, Command) /\ state' = "WAIT_FOR_CMD" /\ sent' = sent + 1
  /\ Exit => done' /\ inev'
  /\ UNCHANGED server

ClientActs == Quiet \/ Heard \/ Typed \/ Replied

(* Requests that are stalled will be sent.                                 *)
Buffers ==
  /\ c2s \in Seq(Wanted) /\ obuf \in Seq(Wanted) /\ pollout \in BOOLEAN
  /\ obuf # << >> => pollout

LEMMA BuffersHold == ASSUME Types, Rearmed PROVE Buffers
  BY DEF Types, Rearmed, Buffers

LEMMA RequestIs ==
  ASSUME NEW cmd \in Commands, NEW n \in Nat
  PROVE  /\ Request(cmd, n) \in Wanted
         /\ Request(cmd, n).cmd = cmd /\ Request(cmd, n).n = n
  BY DEF Request, Wanted

LEMMA EmitNone ==
  ASSUME Buffers, Emit(<< >>) \/ NoEmit
  PROVE  Buffers' /\ Queue' = Queue /\ pollout' = pollout
  BY DEF Buffers, Emit, NoEmit, net, Queue

LEMMA EmitOne ==
  ASSUME Buffers, NEW m \in Wanted, Emit(<<m>>)
  PROVE  Buffers' /\ Queue' = Append(Queue, m) /\ (pollout => pollout')
<1>1. <<m>> \in Seq(Wanted) /\ Queue \in Seq(Wanted)
  BY DEF Buffers, Queue
<1>2. /\ c2s' \in Seq(Wanted) /\ obuf' \in Seq(Wanted) /\ pollout' \in BOOLEAN
      /\ Queue' = Queue \o <<m>>
      /\ obuf' # << >> => pollout'
      /\ pollout => pollout'
  BY <1>1, EmitAppends DEF Buffers
<1>3. Queue \o <<m>> = Append(Queue, m)
  BY <1>1
<1> QED
  BY <1>2, <1>3 DEF Buffers

LEMMA EmitTwo ==
  ASSUME Buffers, NEW m \in Wanted, NEW k \in Wanted, Emit(Append(<<m>>, k))
  PROVE  Buffers' /\ Queue' = Append(Append(Queue, m), k) /\ (pollout => pollout')
<1>1. Append(<<m>>, k) \in Seq(Wanted) /\ Queue \in Seq(Wanted)
  BY DEF Buffers, Queue
<1>2. /\ c2s' \in Seq(Wanted) /\ obuf' \in Seq(Wanted) /\ pollout' \in BOOLEAN
      /\ Queue' = Queue \o Append(<<m>>, k)
      /\ obuf' # << >> => pollout'
      /\ pollout => pollout'
  BY <1>1, EmitAppends DEF Buffers
<1>3. Queue \o Append(<<m>>, k) = Append(Append(Queue, m), k)
  BY <1>1
<1> QED
  BY <1>2, <1>3 DEF Buffers

(* What holds after every step of the client: the buffers are sound, what  *)
(* is stalled still polls stdin later or has done so now, stdin does not   *)
(* get longer, and a client that is about to leave does nothing else.      *)
Steady ==
  /\ Buffers'
  /\ polled' \/ (pollout => pollout')
  /\ input = 0 => input' = 0
  /\ Leaving => Leaving'

(* send_next_command() after the answer, or after window size and answer.  *)
LEMMA SendNext ==
  ASSUME Buffers, sent \in Nat, NEW msgs, NEW q,
         \/ msgs = << >> /\ q = Queue
         \/ msgs = <<Request("NOTIFICATION", 0)>>
            /\ q = Append(Queue, Request("NOTIFICATION", 0)),
         NEW end \in BOOLEAN, NEW rc, NEW f, SendNextCommand(msgs, end, rc, f)
  PROVE  /\ Buffers' /\ (pollout => pollout')
         /\ \/ Queue' = q /\ state' = "IDLE" /\ sent' = sent
            \/ Queue' = Append(q, Command) /\ state' = "WAIT_FOR_CMD" /\ sent' = sent + 1
         /\ end => done'
         /\ input = 0 => input' = 0
<1> DEFINE w == Request("NOTIFICATION", 0)
<1>1. w \in Wanted /\ Command \in Wanted
  BY RequestIs DEF Command, Commands
<1> HIDE DEF w
<1>2. CASE NextLine(msgs, end)
  <2>1. /\ Emit(Append(msgs, Command)) /\ state' = "WAIT_FOR_CMD" /\ sent' = sent + 1
        /\ done' = end /\ (input = 0 => input' = 0)
    BY <1>2 DEF NextLine, Ask, HasLine
  <2>2. CASE msgs = << >> /\ q = Queue
    <3>1. Append(msgs, Command) = <<Command>>
      BY <2>2
    <3>2. Buffers' /\ Queue' = Append(Queue, Command) /\ (pollout => pollout')
      BY <1>1, <2>1, <3>1, EmitOne
    <3> QED
      BY <2>1, <2>2, <3>2
  <2>3. CASE msgs = <<w>> /\ q = Append(Queue, w)
    <3>1. Emit(Append(<<w>>, Command))
      BY <2>1, <2>3
    <3>2. Buffers' /\ Queue' = Append(Append(Queue, w), Command) /\ (pollout => pollout')
      BY <1>1, <3>1, EmitTwo
    <3> QED
      BY <2>1, <2>3, <3>2
  <2> QED
    BY <2>2, <2>3 DEF w
<1>3. CASE NoNextLine(msgs, end, rc, f)
  <2>1. /\ Emit(msgs) /\ state' = "IDLE" /\ sent' = sent /\ input' = input
        /\ end => done'
    BY <1>3 DEF NoNextLine
  <2>2. CASE msgs = << >> /\ q = Queue
    <3>1. Buffers' /\ Queue' = Queue /\ pollout' = pollout
      BY <2>1, <2>2, EmitNone
    <3> QED
      BY <2>1, <2>2, <3>1
  <2>3. CASE msgs = <<w>> /\ q = Append(Queue, w)
    <3>1. Emit(<<w>>)
      BY <2>1, <2>3
    <3>2. Buffers' /\ Queue' = Append(Queue, w) /\ (pollout => pollout')
      BY <1>1, <3>1, EmitOne
    <3> QED
      BY <2>1, <2>3, <3>2
  <2> QED
    BY <2>2, <2>3 DEF w
<1> QED
  BY <1>2, <1>3 DEF SendNextCommand

(* What every message is that is dispatched.                               *)
LEMMA Dispatched ==
  ASSUME Types, NEW cmd, Dispatch(cmd)
  PROVE  /\ s2c # << >> /\ Message \in AnswerType /\ Message.cmd = cmd
         /\ s2c' = Tail(s2c) /\ s2c' \in Seq(AnswerType)
         /\ over = "no" /\ over' = "no" /\ inev'
         /\ UNCHANGED <<server, opts, signals>>
<1>1. s2c # << >> /\ s2c \in Seq(AnswerType)
  BY DEF Dispatch, Types
<1>2. Head(s2c) \in AnswerType /\ Tail(s2c) \in Seq(AnswerType)
  BY <1>1
<1> QED
  BY <1>1, <1>2 DEF Dispatch, Message

LEMMA AuthAckActs ==
  ASSUME Types, Buffers, AuthAck
  PROVE  Steady /\ Replied
<1> DEFINE w == Request("NOTIFICATION", 0)
           end == done \/ Exit
<1>1. /\ Dispatch("AUTH_ACK") /\ SendNextCommand(<<w>>, end, 0, features)
      /\ polled' = (polled \/ Interactive)
  BY DEF AuthAck
<1>2. /\ s2c # << >> /\ Message.cmd = "AUTH_ACK" /\ s2c' = Tail(s2c)
      /\ over = "no" /\ over' = "no" /\ inev' /\ UNCHANGED server
  BY <1>1, Dispatched
<1>3. end \in BOOLEAN /\ sent \in Nat
  BY DEF Exit, Types
<1> HIDE DEF end
<1>4. /\ Buffers' /\ (pollout => pollout')
      /\ \/ Queue' = Append(Queue, w) /\ state' = "IDLE" /\ sent' = sent
         \/ /\ Queue' = Append(Append(Queue, w), Command)
            /\ state' = "WAIT_FOR_CMD" /\ sent' = sent + 1
      /\ end => done'
      /\ input = 0 => input' = 0
  BY <1>1, <1>3, SendNext
<1>5. IsAnswer(Message)
  BY <1>2, Acks DEF IsAnswer
<1>6. Leaving => Leaving'
  BY <1>2, <1>4 DEF Leaving, end
<1>7. Exit => done' /\ inev'
  BY <1>2, <1>4 DEF end
<1>8. Steady
  BY <1>4, <1>6 DEF Steady
<1>9. Replied
  BY <1>2, <1>4, <1>5, <1>7 DEF Replied
<1> QED
  BY <1>8, <1>9

LEMMA CmdRunningActs ==
  ASSUME Types, Buffers, CmdRunning
  PROVE  Steady /\ Heard
<1>1. /\ Dispatch("CMD_ACK") /\ NoEmit /\ state' = state /\ sent' = sent
      /\ done' = done /\ input' = input
  BY DEF CmdRunning, history
<1>2. /\ s2c # << >> /\ s2c' = Tail(s2c)
      /\ over = "no" /\ over' = "no" /\ inev' /\ UNCHANGED server
  BY <1>1, Dispatched
<1>3. Buffers' /\ Queue' = Queue /\ pollout' = pollout
  BY <1>1, EmitNone
<1> QED
  BY <1>1, <1>2, <1>3 DEF Steady, Heard, MaySend, Leaving

LEMMA CmdFailedActs ==
  ASSUME Types, Buffers, CmdFailed
  PROVE  Steady /\ Replied
<1>1. /\ Dispatch("CMD_ACK") /\ "INCOMPLETED" \notin Message.status
      /\ NoEmit /\ state' = "IDLE" /\ sent' = sent /\ done' /\ input' = input
  BY DEF CmdFailed, CmdEnded
<1>2. /\ s2c # << >> /\ Message.cmd = "CMD_ACK" /\ s2c' = Tail(s2c)
      /\ over = "no" /\ over' = "no" /\ inev' /\ UNCHANGED server
  BY <1>1, Dispatched
<1>3. Buffers' /\ Queue' = Queue /\ pollout' = pollout
  BY <1>1, EmitNone
<1>4. IsAnswer(Message)
  BY <1>1, <1>2, Acks DEF IsAnswer
<1> QED
  BY <1>1, <1>2, <1>3, <1>4 DEF Steady, Replied, Leaving

LEMMA CmdDoneActs ==
  ASSUME Types, Buffers, CmdDone
  PROVE  Steady /\ Replied
<1> DEFINE end == done \/ Exit
<1>1. PICK rc \in ReturnCodes : SendNextCommand(<< >>, end, rc, features)
  BY DEF CmdDone
<1>2. Dispatch("CMD_ACK") /\ "INCOMPLETED" \notin Message.status
  BY DEF CmdDone, CmdEnded
<1>3. /\ s2c # << >> /\ Message.cmd = "CMD_ACK" /\ s2c' = Tail(s2c)
      /\ over = "no" /\ over' = "no" /\ inev' /\ UNCHANGED server
  BY <1>2, Dispatched
<1>4. end \in BOOLEAN /\ sent \in Nat
  BY DEF Exit, Types
<1> HIDE DEF end
<1>5. /\ Buffers' /\ (pollout => pollout')
      /\ \/ Queue' = Queue /\ state' = "IDLE" /\ sent' = sent
         \/ Queue' = Append(Queue, Command) /\ state' = "WAIT_FOR_CMD" /\ sent' = sent + 1
      /\ end => done'
      /\ input = 0 => input' = 0
  BY <1>1, <1>4, SendNext
<1>6. IsAnswer(Message)
  BY <1>2, <1>3, Acks DEF IsAnswer
<1>7. Leaving => Leaving'
  BY <1>3, <1>5 DEF Leaving, end
<1>8. Exit => done' /\ inev'
  BY <1>3, <1>5 DEF end
<1>9. Steady
  BY <1>5, <1>7 DEF Steady
<1>10. Replied
  BY <1>3, <1>5, <1>6, <1>8 DEF Replied
<1> QED
  BY <1>9, <1>10

LEMMA StdoutActs ==
  ASSUME Types, Buffers, Stdout
  PROVE  Steady /\ Heard
<1> DEFINE m == Request("STDOUT_CLOSE", sent)
<1>1. PICK broken \in BOOLEAN : Emit(IF broken THEN <<m>> ELSE << >>)
  BY DEF Stdout
<1>2. /\ Dispatch("STDOUT") /\ state' = state /\ sent' = sent
      /\ done' = done /\ input' = input
  BY DEF Stdout, history, session
<1>3. /\ s2c # << >> /\ s2c' = Tail(s2c)
      /\ over = "no" /\ over' = "no" /\ inev' /\ UNCHANGED server
  BY <1>2, Dispatched
<1>4. m \in Wanted /\ m.cmd = "STDOUT_CLOSE" /\ m.n = sent
  BY RequestIs DEF Types, Commands
<1>5. Aside(m)
  BY <1>4, Acks DEF Aside
<1> HIDE DEF m
<1>6. Buffers' /\ MaySend /\ (pollout => pollout')
  <2>1. CASE broken
    BY <1>1, <1>4, <1>5, <2>1, EmitOne DEF MaySend
  <2>2. CASE ~broken
    BY <1>1, <2>2, EmitNone DEF MaySend
  <2> QED
    BY <2>1, <2>2
<1> QED
  BY <1>2, <1>3, <1>6 DEF Steady, Heard, Leaving

LEMMA ShownActs ==
  ASSUME Types, Buffers, Shown
  PROVE  Steady /\ Heard
<1>1. PICK cmd : Dispatch(cmd)
  BY DEF Shown
<1>2. /\ NoEmit /\ state' = state /\ sent' = sent /\ (done => done') /\ input' = input
  BY DEF Shown, history
<1>3. /\ s2c # << >> /\ s2c' = Tail(s2c)
      /\ over = "no" /\ over' = "no" /\ inev' /\ UNCHANGED server
  BY <1>1, Dispatched
<1>4. Buffers' /\ Queue' = Queue /\ pollout' = pollout
  BY <1>2, EmitNone
<1> QED
  BY <1>2, <1>3, <1>4 DEF Steady, Heard, MaySend, Leaving

LEMMA HintAckActs ==
  ASSUME Types, Buffers, HintAck
  PROVE  Steady /\ Replied
<1>1. PICK cmd \in {"COMPLETION_ACK", "HELP_ACK"} : Dispatch(cmd)
  BY DEF HintAck
<1>2. /\ NoEmit /\ state' = "IDLE" /\ sent' = sent /\ done' = (done \/ Exit)
      /\ input' = input
  BY DEF HintAck, history
<1>3. /\ s2c # << >> /\ Message.cmd = cmd /\ s2c' = Tail(s2c)
      /\ over = "no" /\ over' = "no" /\ inev' /\ UNCHANGED server
  BY <1>1, Dispatched
<1>4. Buffers' /\ Queue' = Queue /\ pollout' = pollout
  BY <1>2, EmitNone
<1>5. IsAnswer(Message)
  BY <1>3, Acks DEF IsAnswer
<1>6. (done => done') /\ (Exit => done')
  BY <1>2
<1>7. Steady
  BY <1>2, <1>3, <1>4, <1>6 DEF Steady, Leaving
<1>8. Replied
  BY <1>2, <1>3, <1>4, <1>5, <1>6 DEF Replied
<1> QED
  BY <1>7, <1>8

(* server_ev() begins or ends, the connection is lost, the client crashes. *)
LEMMA ServerEvActs ==
  ASSUME Types, Buffers, ServerOut \/ ServerEvEnd \/ HangUp \/ PagerCrash
  PROVE  Steady /\ Quiet
<1>1. CASE ServerOut
  <2>1. Buffers' /\ Queue' = Queue
    BY <1>1, ServerOutKeeps DEF Buffers
  <2>2. /\ polled' = TRUE /\ inev' = TRUE /\ input' = input /\ done' = done
        /\ over' = over /\ UNCHANGED <<server, s2c, state, sent>>
    BY <1>1 DEF ServerOut, outside, session, history
  <2> QED
    BY <2>1, <2>2 DEF Steady, Quiet, MaySend, Leaving
<1>2. CASE ServerEvEnd \/ HangUp \/ PagerCrash
  <2>1. NoEmit /\ polled' = polled /\ input' = input /\ done' = done
        /\ UNCHANGED <<server, s2c, state, sent>>
    BY <1>2 DEF ServerEvEnd, HangUp, PagerCrash, NoEmit, outside, session, history
  <2>2. Buffers' /\ Queue' = Queue /\ pollout' = pollout
    BY <2>1, EmitNone
  <2>3. Leaving => over' # "no"
    BY <1>2 DEF ServerEvEnd, HangUp, PagerCrash, Leaving, MainStatus
  <2> QED
    BY <2>1, <2>2, <2>3 DEF Steady, Quiet, MaySend, Leaving
<1> QED
  BY <1>1, <1>2

(* An event finds a client that does not leave.                            *)
LEMMA NotLeaving == Event => ~Leaving
  BY DEF Event, Leaving

LEMMA StdinPausedActs ==
  ASSUME Types, Buffers, StdinPaused
  PROVE  Steady /\ Quiet
<1>1. /\ Event /\ NoEmit /\ input' = input
      /\ UNCHANGED <<server, s2c, state, sent>>
  BY DEF StdinPaused, StdinEv, NoEmit, outside, session, history
<1>2. Buffers' /\ Queue' = Queue /\ pollout' = pollout
  BY <1>1, EmitNone
<1> QED
  BY <1>1, <1>2, NotLeaving DEF Steady, Quiet, MaySend

LEMMA KeyEnterActs ==
  ASSUME Types, Buffers, NEW hup \in BOOLEAN, KeyEnter(hup)
  PROVE  Steady /\ Typed
<1>1. /\ Event /\ state = "IDLE" /\ Emit(<<Command>>) /\ state' = "WAIT_FOR_CMD"
      /\ sent' = sent + 1 /\ input > 0 /\ UNCHANGED <<s2c, server>>
  BY DEF KeyEnter, StdinEv, ReadsLine, Ask, KeyDone
<1>2. Command \in Wanted /\ Command = Request("CMD", sent + 1) /\ sent + 1 \in Nat
  BY RequestIs DEF Types, Command, Commands
<1>3. Buffers' /\ Queue' = Append(Queue, Command) /\ (pollout => pollout')
  BY <1>1, <1>2, EmitOne
<1>4. Steady
  BY <1>1, <1>3, NotLeaving DEF Steady
<1>5. state' = WaitsFor("CMD")
  BY <1>1, Waits
<1>6. Typed
  BY <1>1, <1>2, <1>3, <1>5 DEF Typed, Event
<1> QED
  BY <1>4, <1>6

LEMMA KeyHintActs ==
  ASSUME Types, Buffers, NEW hup \in BOOLEAN,
         NEW cmd \in {"COMPLETION", "HELP"}, KeyHint(hup, cmd)
  PROVE  Steady /\ Typed
<1>1. /\ Event /\ state = "IDLE" /\ Emit(<<Request(cmd, 0)>>)
      /\ state' = WaitsFor(cmd)
      /\ sent' = sent /\ input > 0 /\ UNCHANGED <<s2c, server>>
  BY DEF KeyHint, StdinEv, ReadsLine, Ask, KeyDone, WaitsFor
<1>2. Request(cmd, 0) \in Wanted
  BY RequestIs DEF Commands
<1>3. Buffers' /\ Queue' = Append(Queue, Request(cmd, 0)) /\ (pollout => pollout')
  BY <1>1, <1>2, EmitOne
<1>4. Steady
  BY <1>1, <1>3, NotLeaving DEF Steady
<1>5. Typed
  BY <1>1, <1>3 DEF Typed, Event
<1> QED
  BY <1>4, <1>5

LEMMA KeyOtherActs ==
  ASSUME Types, Buffers, NEW hup \in BOOLEAN, KeyOther(hup)
  PROVE  Steady /\ Quiet
<1>1. /\ Event /\ NoEmit /\ (input = 0 => input' = 0)
      /\ UNCHANGED <<server, s2c, state, sent>>
  BY DEF KeyOther, StdinEv, KeyDone
<1>2. Buffers' /\ Queue' = Queue /\ pollout' = pollout
  BY <1>1, EmitNone
<1> QED
  BY <1>1, <1>2, NotLeaving DEF Steady, Quiet, MaySend

(* A request about the running command's streams, for the last one.        *)
LEMMA AsideIs ==
  ASSUME Types, NEW cmd \in Server!Streaming, cmd = "STDIN_CLOSE" => input = 0
  PROVE  Request(cmd, sent) \in Wanted /\ Aside(Request(cmd, sent))
<1>1. cmd \in Commands /\ cmd \notin Asking /\ sent \in Nat
  BY Acks, StreamRequests DEF Commands, Types
<1>2. /\ Request(cmd, sent) \in Wanted /\ Request(cmd, sent).cmd = cmd
      /\ Request(cmd, sent).n = sent
  BY <1>1, RequestIs
<1> QED
  BY <1>1, <1>2 DEF Aside

LEMMA FeedActs ==
  ASSUME Types, Buffers, NEW hup \in BOOLEAN, Feed(hup)
  PROVE  Steady /\ Quiet
<1>1. Event /\ UNCHANGED <<server, s2c, state, sent>>
  BY DEF Feed, StdinEv, session, history
<1>5. input = 0 => input' = 0
  BY DEF Feed
<1>2. PICK cmd \in {"STDIN", "STDIN_CLOSE"} :
        /\ Emit(<<Request(cmd, sent)>>)
        /\ cmd = "STDIN_CLOSE" => input = 0
  BY DEF Feed
<1>3. Request(cmd, sent) \in Wanted /\ Aside(Request(cmd, sent))
  BY <1>2, AsideIs, StreamRequests
<1>4. Buffers' /\ Queue' = Append(Queue, Request(cmd, sent)) /\ (pollout => pollout')
  BY <1>2, <1>3, EmitOne
<1> QED
  BY <1>1, <1>3, <1>4, <1>5, NotLeaving DEF Steady, Quiet, MaySend

LEMMA SignalActs ==
  ASSUME Types, Buffers, Winch \/ CtrlC
  PROVE  Steady /\ Quiet
<1>1. /\ Event /\ input' = input /\ UNCHANGED <<server, s2c, state, sent>>
  BY DEF Winch, CtrlC, Signal, session, history
<1>2. Buffers' /\ MaySend /\ (pollout => pollout')
  <2>1. CASE Emit(<< >>) \/ NoEmit
    BY <2>1, EmitNone DEF MaySend
  <2>2. CASE Emit(<<Request("STDIN", sent)>>)
    <3>1. Request("STDIN", sent) \in Wanted /\ Aside(Request("STDIN", sent))
      BY AsideIs, StreamRequests
    <3> QED
      BY <2>2, <3>1, EmitOne DEF MaySend
  <2>3. CASE Emit(<<Request("NOTIFICATION", 0)>>)
    <3>1. /\ Request("NOTIFICATION", 0) \in Wanted
          /\ Request("NOTIFICATION", 0).cmd = "NOTIFICATION"
      BY RequestIs DEF Commands
    <3>2. Aside(Request("NOTIFICATION", 0))
      BY <3>1, Acks, StreamRequests DEF Aside
    <3> QED
      BY <2>3, <3>1, <3>2, EmitOne DEF MaySend
  <2>4. \/ Emit(<<Request("NOTIFICATION", 0)>>)
        \/ Emit(<<Request("STDIN", sent)>>) \/ Emit(<< >>) \/ NoEmit
    BY DEF Winch, CtrlC
  <2> QED
    BY <2>1, <2>2, <2>3, <2>4
<1> QED
  BY <1>1, <1>2, NotLeaving DEF Steady, Quiet

(* All steps of the client.                                                *)
ClientStep ==
  ServerOut \/ Receive \/ ServerEvEnd \/ HangUp \/ StdinCb \/ Winch \/ CtrlC

LEMMA ClientStepActs ==
  ASSUME Types, Buffers, ClientStep
  PROVE  Steady /\ ClientActs
<1>1. CASE Receive
  BY <1>1, AuthAckActs, CmdRunningActs, CmdFailedActs, CmdDoneActs, StdoutActs,
     ShownActs, HintAckActs, ServerEvActs DEF Receive, ClientActs
<1>2. CASE StdinCb
  BY <1>2, StdinPausedActs, KeyEnterActs, KeyHintActs, KeyOtherActs, FeedActs
     DEF StdinCb, ClientActs
<1> QED
  BY <1>1, <1>2, ServerEvActs, SignalActs DEF ClientStep, ClientActs

(***************************************************************************)
(* Agree, Counted, Authorized and ClosedAtEnd: steps of the client         *)
(***************************************************************************)
LEMMA QuietOrHeardKeeps ==
  ASSUME Types, Agree(Queue, s2c, state, phase),
         Counted(Queue, phase, cur, ncmd, sent), Quiet \/ Heard
  PROVE  Agree(Queue, s2c, state, phase)' /\ Counted(Queue, phase, cur, ncmd, sent)'
<1>1. Queue \in Seq(Wanted) /\ s2c \in Seq(AnswerType)
  BY DEF Types, Queue
<1>2. UNCHANGED <<phase, cur, ncmd, state, sent>>
  BY DEF Quiet, Heard, server
<1>3. /\ Agree(Queue', s2c, state, phase)
      /\ Counted(Queue', phase, cur, ncmd, sent)
  <2>1. CASE Queue' = Queue
    BY <2>1
  <2>2. ASSUME NEW m, Aside(m), Queue' = Append(Queue, m)
        PROVE  /\ Agree(Queue', s2c, state, phase)
               /\ Counted(Queue', phase, cur, ncmd, sent)
    <3>1. /\ m \in Wanted /\ m.cmd \notin Asking /\ m.cmd # "CMD"
          /\ m.cmd \in Server!Streaming => m.n = sent
      BY <2>2, Acks DEF Aside
    <3> QED
      BY <1>1, <2>2, <3>1, AgreeSends, CountedSends
  <2> QED
    BY <2>1, <2>2 DEF Quiet, Heard, MaySend
<1>4. Agree(Queue', s2c', state, phase)
  <2>1. CASE s2c' = s2c
    BY <1>3, <2>1
  <2>2. CASE s2c # << >> /\ s2c' = Tail(s2c)
    BY <1>1, <1>3, <2>2, AgreeHears
  <2> QED
    BY <2>1, <2>2 DEF Quiet, Heard
<1> QED
  BY <1>2, <1>3, <1>4

LEMMA TypedKeeps ==
  ASSUME Types, Agree(Queue, s2c, state, phase),
         Counted(Queue, phase, cur, ncmd, sent), Typed
  PROVE  Agree(Queue, s2c, state, phase)' /\ Counted(Queue, phase, cur, ncmd, sent)'
<1>1. Queue \in Seq(Wanted) /\ s2c \in Seq(AnswerType)
  BY DEF Types, Queue
<1>2. UNCHANGED <<phase, cur, ncmd, s2c>>
  BY DEF Typed, server
<1>3. PICK cmd \in {"CMD", "COMPLETION", "HELP"}, n \in Nat :
        /\ Queue' = Append(Queue, Request(cmd, n))
        /\ state' = WaitsFor(cmd)
        /\ sent' = IF cmd = "CMD" THEN sent + 1 ELSE sent
  BY DEF Typed
<1> DEFINE m == Request(cmd, n)
<1>4. m \in Wanted /\ m.cmd = cmd
  BY RequestIs DEF Commands
<1> HIDE DEF m
<1>5. cmd \in Asking /\ cmd \notin Server!Streaming
  BY Acks, StreamRequests
<1>6. Agree(Queue, s2c, "IDLE", phase)
  BY DEF Typed
<1>7. phase # "running" /\ ~Asked(Queue, {"CMD"})
  <2>1. WaitsFor("CMD") # "IDLE"
    BY Waits
  <2> QED
    BY <1>6, <2>1, Acks DEF Agree, Asked
<1>8. Agree(Append(Queue, m), s2c, WaitsFor(cmd), phase)
  BY <1>1, <1>4, <1>5, <1>6, AgreeAsks
<1>9. Counted(Append(Queue, m), phase, cur, ncmd, sent')
  <2>1. CASE cmd = "CMD"
    <3>1. Counted(Append(Queue, m), phase, cur, ncmd, sent + 1)
      BY <1>1, <1>4, <1>7, <2>1, CountedCommands
    <3> QED
      BY <1>3, <2>1, <3>1
  <2>2. CASE cmd # "CMD"
    <3>1. Counted(Append(Queue, m), phase, cur, ncmd, sent)
      BY <1>1, <1>4, <1>5, <2>2, CountedSends
    <3> QED
      BY <1>3, <2>2, <3>1
  <2> QED
    BY <2>1, <2>2
<1> QED
  BY <1>2, <1>3, <1>8, <1>9 DEF m

LEMMA RepliedKeeps ==
  ASSUME Types, Agree(Queue, s2c, state, phase),
         Counted(Queue, phase, cur, ncmd, sent), Replied
  PROVE  Agree(Queue, s2c, state, phase)' /\ Counted(Queue, phase, cur, ncmd, sent)'
<1>1. Queue \in Seq(Wanted) /\ s2c \in Seq(AnswerType) /\ sent \in Nat
  BY DEF Types, Queue
<1>2. UNCHANGED <<phase, cur, ncmd>> /\ s2c' = Tail(s2c) /\ s2c # << >>
  BY DEF Replied, server
<1> DEFINE w == Request("NOTIFICATION", 0)
           rest == Tail(s2c)
           command == Command
<1>3. PICK q \in {Queue, Append(Queue, w)} :
        \/ Queue' = q /\ state' = "IDLE" /\ sent' = sent
        \/ Queue' = Append(q, command) /\ state' = "WAIT_FOR_CMD" /\ sent' = sent + 1
  BY DEF Replied
<1>4. w \in Wanted /\ w.cmd = "NOTIFICATION" /\ command \in Wanted /\ command.cmd = "CMD"
  BY <1>1, RequestIs DEF Command, Commands
<1>5. rest \in Seq(AnswerType)
  BY <1>1, <1>2
<1>6. /\ Agree(Queue, rest, "IDLE", phase) /\ phase # "running"
      /\ ~Asked(Queue, Asking)
  BY <1>1, <1>2, AgreeAnswered DEF Replied, Message
<1> HIDE DEF w, rest, command
<1>7. /\ q \in Seq(Wanted)
      /\ Agree(q, rest, "IDLE", phase)
      /\ Counted(q, phase, cur, ncmd, sent)
  <2>1. CASE q = Queue
    BY <1>1, <1>6, <2>1
  <2>2. CASE q = Append(Queue, w)
    <3>1. w.cmd \notin Asking /\ w.cmd \notin Server!Streaming /\ w.cmd # "CMD"
      BY <1>4, Acks, StreamRequests
    <3>2. Append(Queue, w) \in Seq(Wanted)
      BY <1>1, <1>4
    <3>3. Agree(Append(Queue, w), rest, "IDLE", phase)
      BY <1>1, <1>4, <1>6, <3>1, AgreeSends
    <3>4. Counted(Append(Queue, w), phase, cur, ncmd, sent)
      BY <1>1, <1>4, <3>1, CountedSends
    <3> QED
      BY <2>2, <3>2, <3>3, <3>4
  <2> QED
    BY <1>3, <2>1, <2>2
<1>8. CASE Queue' = q /\ state' = "IDLE" /\ sent' = sent
  BY <1>2, <1>7, <1>8 DEF rest
<1>9. CASE Queue' = Append(q, command) /\ state' = "WAIT_FOR_CMD" /\ sent' = sent + 1
  <2>1. ~Asked(q, {"CMD"})
    <3>1. WaitsFor("CMD") # "IDLE"
      BY Waits
    <3> QED
      BY <1>7, <3>1, Acks DEF Agree, Asked
  <2>2. Agree(Append(q, command), rest, WaitsFor(command.cmd), phase)
    BY <1>4, <1>5, <1>7, Acks, AgreeAsks
  <2>3. Agree(Append(q, command), rest, "WAIT_FOR_CMD", phase)
    BY <1>4, <2>2, Waits
  <2>4. Counted(Append(q, command), phase, cur, ncmd, sent + 1)
    BY <1>4, <1>6, <1>7, <2>1, CountedCommands
  <2> QED
    BY <1>2, <1>9, <2>3, <2>4 DEF rest
<1> QED
  BY <1>3, <1>8, <1>9

LEMMA AskedSends ==
  ASSUME NEW q \in Seq(Wanted), NEW m \in Wanted, NEW cmds,
         Asked(Append(q, m), cmds)
  PROVE  Asked(q, cmds) \/ m.cmd \in cmds
<1> DEFINE u == Append(q, m)
<1>1. \A i \in DOMAIN u : (i \in DOMAIN q /\ u[i] = q[i]) \/ u[i] = m
  OBVIOUS
<1> HIDE DEF u
<1>2. Asked(u, cmds)
  BY DEF u
<1> QED
  BY <1>1, <1>2 DEF Asked

(* What the client asks for in a step.                                     *)
LEMMA NewRequests ==
  ASSUME Types, ClientActs
  PROVE  /\ Asked(Queue', {"AUTH"}) => Asked(Queue, {"AUTH"})
         /\ Asked(Queue', {"COMPLETION", "HELP"}) =>
              Asked(Queue, {"COMPLETION", "HELP"}) \/ Typed
         /\ Asked(Queue', {"STDIN_CLOSE"}) =>
              Asked(Queue, {"STDIN_CLOSE"}) \/ input = 0
<1>1. Queue \in Seq(Wanted) /\ sent \in Nat
  BY DEF Types, Queue
<1>2. CASE MaySend
  <2>1. ASSUME NEW m, Aside(m), Queue' = Append(Queue, m), NEW cmds, Asked(Queue', cmds)
        PROVE  Asked(Queue, cmds) \/ m.cmd \in cmds
    BY <1>1, <2>1, AskedSends DEF Aside
  <2>2. ASSUME NEW m, Aside(m), Queue' = Append(Queue, m)
        PROVE  /\ m.cmd \notin {"AUTH"} /\ m.cmd \notin {"COMPLETION", "HELP"}
               /\ m.cmd \in {"STDIN_CLOSE"} => input = 0
    BY <2>2, Acks DEF Aside
  <2> QED
    BY <1>2, <2>1, <2>2 DEF MaySend
<1>3. CASE Typed
  <2>1. PICK cmd \in {"CMD", "COMPLETION", "HELP"}, n \in Nat :
          Queue' = Append(Queue, Request(cmd, n))
    BY <1>3 DEF Typed
  <2>2. Request(cmd, n) \in Wanted /\ Request(cmd, n).cmd = cmd
    BY RequestIs DEF Commands
  <2>3. ASSUME NEW cmds, Asked(Queue', cmds)
        PROVE  Asked(Queue, cmds) \/ cmd \in cmds
    BY <1>1, <2>1, <2>2, <2>3, AskedSends
  <2> QED
    BY <1>3, <2>3
<1>4. CASE Replied
  <2> DEFINE w == Request("NOTIFICATION", 0)
  <2>1. PICK q \in {Queue, Append(Queue, w)} :
          Queue' = q \/ Queue' = Append(q, Command)
    BY <1>4 DEF Replied
  <2>2. w \in Wanted /\ w.cmd = "NOTIFICATION" /\ Command \in Wanted /\ Command.cmd = "CMD"
    BY <1>1, RequestIs DEF Command, Commands
  <2>3. Append(Queue, w) \in Seq(Wanted)
    BY <1>1, <2>2
  <2> HIDE DEF w
  <2>4. ASSUME NEW cmds, Asked(Queue', cmds), "CMD" \notin cmds, "NOTIFICATION" \notin cmds
        PROVE  Asked(Queue, cmds)
    <3>1. q \in Seq(Wanted)
      BY <1>1, <2>1, <2>3
    <3>2. Asked(q, cmds)
      BY <2>1, <2>2, <2>4, <3>1, AskedSends
    <3> QED
      BY <1>1, <2>1, <2>2, <2>4, <3>2, AskedSends
  <2> QED
    BY <2>4
<1> QED
  BY <1>2, <1>3, <1>4 DEF ClientActs, Quiet, Heard

LEMMA ClientAuthorized ==
  ASSUME Types, Agree(Queue, s2c, state, phase), Authorized, Steady, ClientActs
  PROVE  Authorized'
<1>1. phase' = phase
  BY DEF ClientActs, Quiet, Heard, Typed, Replied, server
<1>2. Typed => phase # "unauthorized"
  BY DEF Typed, Authorized, Leaving
<1>3. /\ Asked(Queue', {"AUTH"}) => phase = "unauthorized"
      /\ Asked(Queue', {"COMPLETION", "HELP"}) => phase # "unauthorized"
  BY <1>2, NewRequests DEF Authorized
<1>4. ASSUME phase = "unauthorized", ~Leaving'
      PROVE  /\ state' = "UNAUTHORIZED"
             /\ \A i \in DOMAIN s2c' :
                  s2c'[i].cmd = "AUTH_ACK" => "EXIT" \in s2c'[i].status
  <2>1. ~Leaving
    BY <1>4 DEF Steady
  <2>2. /\ state = "UNAUTHORIZED"
        /\ \A i \in DOMAIN s2c : s2c[i].cmd = "AUTH_ACK" => "EXIT" \in s2c[i].status
    BY <1>4, <2>1 DEF Authorized
  <2>3. s2c \in Seq(AnswerType)
    BY DEF Types
  <2>4. CASE Quiet
    BY <2>2, <2>4 DEF Quiet
  <2>5. CASE Heard
    <3>1. s2c # << >> /\ s2c' = Tail(s2c) /\ state' = state
      BY <2>5 DEF Heard
    <3>2. \A i \in DOMAIN s2c' : i + 1 \in DOMAIN s2c /\ s2c'[i] = s2c[i + 1]
      BY <2>3, <3>1
    <3> QED
      BY <2>2, <3>1, <3>2
  <2>6. CASE Replied
    <3>1. /\ s2c # << >> /\ IsAnswer(s2c[1]) /\ 1 \in DOMAIN s2c
          /\ Message = s2c[1]
      BY <2>3, <2>6 DEF Replied, Message
    <3>2. s2c[1].cmd = "AUTH_ACK"
      BY <2>2, <3>1, Acks, Expectations DEF Agree, IsAnswer
    <3>3. Exit
      BY <2>2, <3>1, <3>2 DEF Exit
    <3> QED
      BY <1>4, <2>6, <3>3 DEF Replied, Leaving
  <2>7. ~Typed
    BY <1>2, <1>4
  <2> QED
    BY <2>4, <2>5, <2>6, <2>7 DEF ClientActs
<1> QED
  BY <1>1, <1>3, <1>4 DEF Authorized

LEMMA ClientClosesAtEnd ==
  ASSUME Types, ClosedAtEnd, Steady, ClientActs
  PROVE  ClosedAtEnd'
<1>1. eof' = eof
  BY DEF ClientActs, Quiet, Heard, Typed, Replied, server
<1> QED
  BY <1>1, NewRequests DEF ClosedAtEnd, Steady

(***************************************************************************)
(* Steps of the server                                                     *)
(***************************************************************************)
(* The messages it sends.                                                  *)
LEMMA ServerMessage ==
  ASSUME NEW cmd \in {"AUTH_ACK", "CMD_ACK", "COMPLETION_ACK", "HELP_ACK", "NOTIFICATION"},
         NEW n \in Nat, NEW st \in SUBSET Flags
  PROVE  /\ <<Server!Answer(cmd, n, st)>> \in Seq(AnswerType)
         /\ Len(<<Server!Answer(cmd, n, st)>>) = 1
         /\ \A i \in DOMAIN <<Server!Answer(cmd, n, st)>> :
              /\ i = 1
              /\ <<Server!Answer(cmd, n, st)>>[i].cmd = cmd
              /\ <<Server!Answer(cmd, n, st)>>[i].status = st
<1> DEFINE m == Server!Answer(cmd, n, st)
<1>1. m.cmd = cmd /\ m.status = st
  BY DEF Server!Answer
<1>2. cmd \in {Ack[c] : c \in DOMAIN Ack} \cup Streams \cup {"NOTIFICATION"}
  BY Acks DEF Asking
<1>3. m \in AnswerType
  BY <1>2 DEF Server!Answer, AnswerType
<1> HIDE DEF m
<1>4. <<m>> \in Seq(AnswerType) /\ Len(<<m>>) = 1
  BY <1>3
<1>5. \A i \in DOMAIN <<m>> : i = 1 /\ <<m>>[i] = m
  OBVIOUS
<1> QED
  BY <1>1, <1>4, <1>5 DEF m

(* Output of a command.                                                    *)
LEMMA ServerData ==
  ASSUME NEW s \in Streams, NEW n \in Nat, NEW len \in Nat
  PROVE  /\ Server!Data(s, n, len) \in Seq(AnswerType)
         /\ \A i \in DOMAIN Server!Data(s, n, len) :
              Server!Data(s, n, len)[i].cmd \in Streams
<1>1. CASE len = 0
  BY <1>1 DEF Server!Data
<1>2. CASE len # 0
  <2> DEFINE m == [cmd |-> s, n |-> n, status |-> {}, len |-> len]
  <2>1. m \in AnswerType
    BY DEF AnswerType, Flags
  <2>2. m.cmd \in Streams
    OBVIOUS
  <2>3. Server!Data(s, n, len) = <<m>>
    BY <1>2 DEF Server!Data
  <2> HIDE DEF m
  <2>4. <<m>> \in Seq(AnswerType) /\ \A i \in DOMAIN <<m>> : <<m>>[i] = m
    BY <2>1
  <2> QED
    BY <2>2, <2>3, <2>4
<1> QED
  BY <1>1, <1>2

LEMMA ServerFinalAnswer ==
  ASSUME NEW n \in Nat, NEW data \in Server!Outputs, NEW end \in BOOLEAN
  PROVE  /\ Server!FinalAnswer(n, data, end) \in Seq(AnswerType)
         /\ ExpectedIn(Server!FinalAnswer(n, data, end), "WAIT_FOR_CMD")
<1> DEFINE a == Server!Data("STDOUT", n, data["STDOUT"])
           b == Server!Data("STDERR", n, data["STDERR"])
           m == Server!Answer("CMD_ACK", n, Server!ExitStatus(end))
           c == a \o b
<1>1. data["STDOUT"] \in Nat /\ data["STDERR"] \in Nat
  BY MaxOutAssumption DEF Server!Outputs, Server!Streams
<1>2. /\ a \in Seq(AnswerType) /\ \A i \in DOMAIN a : a[i].cmd \in Streams
      /\ b \in Seq(AnswerType) /\ \A i \in DOMAIN b : b[i].cmd \in Streams
  <2>1. "STDOUT" \in Streams /\ "STDERR" \in Streams
    BY DEF Streams
  <2>2. a \in Seq(AnswerType) /\ \A i \in DOMAIN a : a[i].cmd \in Streams
    BY <1>1, <2>1, ServerData
  <2>3. b \in Seq(AnswerType) /\ \A i \in DOMAIN b : b[i].cmd \in Streams
    BY <1>1, <2>1, ServerData
  <2> QED
    BY <2>2, <2>3
<1>3. Server!ExitStatus(end) \in SUBSET Flags
  BY DEF Server!ExitStatus, Flags
<1>4. m \in AnswerType /\ m.cmd = "CMD_ACK"
  <2>1. "CMD_ACK" \in {Ack[d] : d \in DOMAIN Ack}
    BY Acks DEF Asking
  <2> QED
    BY <1>3, <2>1 DEF Server!Answer, AnswerType
<1>5. Server!FinalAnswer(n, data, end) = (a \o b) \o <<m>>
  BY DEF Server!FinalAnswer
<1> HIDE DEF a, b, m
<1>6. c \in Seq(AnswerType) /\ \A i \in DOMAIN c : c[i].cmd \in {"STDOUT", "STDERR"}
  BY <1>2 DEF Streams
<1> HIDE DEF c
<1>7. /\ c \o <<m>> \in Seq(AnswerType)
      /\ \A i \in DOMAIN (c \o <<m>>) :
           \/ (c \o <<m>>)[i].cmd \in {"STDOUT", "STDERR"}
           \/ i = Len(c \o <<m>>) /\ (c \o <<m>>)[i] = m
  BY <1>4, <1>6
<1>8. \A i \in DOMAIN (c \o <<m>>) :
        \/ /\ (c \o <<m>>)[i].cmd \in {"STDOUT", "STDERR"}
           /\ ~IsAnswer((c \o <<m>>)[i])
        \/ i = Len(c \o <<m>>) /\ (c \o <<m>>)[i].cmd = "CMD_ACK"
  BY <1>4, <1>7, Acks DEF IsAnswer
<1>9. ExpectedIn(c \o <<m>>, "WAIT_FOR_CMD")
  BY <1>8, Expectations DEF ExpectedIn
<1> QED
  BY <1>5, <1>7, <1>9 DEF c

(* A request is served with the answers t.                                 *)
LEMMA ServerServes ==
  ASSUME Types, NEW cmd, NEW t \in Seq(AnswerType), Server!Serve(cmd, t), obuf' = obuf
  PROVE  /\ Queue \in Seq(Wanted) /\ Queue # << >>
         /\ Head(Queue).cmd = cmd /\ Queue' = Tail(Queue)
         /\ c2s' \in Seq(Wanted) /\ s2c' = s2c \o t /\ s2c' \in Seq(AnswerType)
<1>1. /\ c2s # << >> /\ Head(c2s).cmd = cmd /\ c2s' = Tail(c2s)
      /\ s2c' = s2c \o t
  BY DEF Server!Serve
<1>2. c2s \in Seq(Wanted) /\ obuf \in Seq(Wanted) /\ s2c \in Seq(AnswerType)
  BY DEF Types
<1>3. /\ Queue \in Seq(Wanted) /\ Queue # << >>
      /\ Head(Queue) = Head(c2s)
      /\ Tail(c2s) \in Seq(Wanted)
      /\ Tail(Queue) = Tail(c2s) \o obuf
  BY <1>1, <1>2, QueueHead
<1>4. Queue' = Tail(Queue)
  BY <1>1, <1>3 DEF Queue
<1>5. s2c \o t \in Seq(AnswerType)
  BY <1>2
<1> QED
  BY <1>1, <1>3, <1>4, <1>5

(* A request without an answer, or any that is not a command, which has    *)
(* the answer the client waits for.                                        *)
LEMMA ServedKeeps ==
  ASSUME Types, Agree(Queue, s2c, state, phase),
         Counted(Queue, phase, cur, ncmd, sent),
         NEW cmd, NEW t \in Seq(AnswerType), Server!Serve(cmd, t), cmd # "CMD",
         UNCHANGED <<obuf, state, sent, cur, ncmd>>,
         \/ Late(t) /\ phase' = phase
         \/ /\ cmd \in Asking /\ ExpectedIn(t, WaitsFor(cmd))
            /\ phase' \in {phase, "idle"}
  PROVE  Agree(Queue, s2c, state, phase)' /\ Counted(Queue, phase, cur, ncmd, sent)'
<1>1. /\ Queue \in Seq(Wanted) /\ Queue # << >>
      /\ Head(Queue).cmd = cmd /\ Queue' = Tail(Queue)
      /\ s2c' = s2c \o t
  BY ServerServes
<1>2. s2c \in Seq(AnswerType)
  BY DEF Types
<1>3. /\ Agree(Tail(Queue), s2c, state, phase)
      /\ cmd \in Asking =>
           /\ ~Asked(Tail(Queue), Asking) /\ Unanswered(s2c) /\ phase # "running"
           /\ state = WaitsFor(cmd)
  BY <1>1, AgreeServes
<1>4. Counted(Tail(Queue), phase, cur, ncmd, sent)
  BY <1>1, CountedServes
<1> DEFINE q == Tail(Queue)
           nx == phase'
<1> HIDE DEF q
<1>5. CASE Late(t) /\ phase' = phase
  <2>1. Unanswered(t) /\ ExpectedIn(t, state)
    BY <1>5, Acks DEF Late, Unanswered, IsAnswer, ExpectedIn
  <2>2. /\ Asked(q, Asking) => phase # "running" /\ Unanswered(s2c)
        /\ phase = "running" => state = "WAIT_FOR_CMD" /\ Unanswered(s2c)
    BY <1>3 DEF Agree, q
  <2>3. Agree(q, s2c \o t, state, phase)
    BY <1>2, <1>3, <1>5, <2>1, <2>2, AgreeTells DEF q
  <2> QED
    BY <1>1, <1>4, <1>5, <2>3 DEF q
<1>6. CASE cmd \in Asking /\ ExpectedIn(t, WaitsFor(cmd)) /\ phase' \in {phase, "idle"}
  <2>1. nx # "running"
    BY <1>3, <1>6
  <2> HIDE DEF nx
  <2>2. Agree(q, s2c \o t, state, nx)
    BY <1>2, <1>3, <1>6, <2>1, AgreeTells DEF q
  <2>3. Counted(q, nx, cur, ncmd, sent)
    BY <1>4, <2>1, CountedIdle DEF q
  <2> QED
    BY <1>1, <2>2, <2>3 DEF q, nx
<1> QED
  BY <1>5, <1>6

(* A command, which is answered at once or starts to run.                  *)
LEMMA ServedCommand ==
  ASSUME Types, Agree(Queue, s2c, state, phase),
         Counted(Queue, phase, cur, ncmd, sent),
         NEW t \in Seq(AnswerType), Server!Serve("CMD", t), ncmd' = ncmd + 1,
         UNCHANGED <<obuf, state, sent>>,
         ExpectedIn(t, "WAIT_FOR_CMD"),
         \/ phase' = phase
         \/ phase' = "running" /\ cur' = ncmd + 1 /\ Unanswered(t)
  PROVE  Agree(Queue, s2c, state, phase)' /\ Counted(Queue, phase, cur, ncmd, sent)'
<1>1. /\ Queue \in Seq(Wanted) /\ Queue # << >>
      /\ Head(Queue).cmd = "CMD" /\ Queue' = Tail(Queue)
      /\ s2c' = s2c \o t
  BY ServerServes
<1>2. s2c \in Seq(AnswerType)
  BY DEF Types
<1>3. /\ Agree(Tail(Queue), s2c, state, phase)
      /\ ~Asked(Tail(Queue), Asking) /\ Unanswered(s2c) /\ phase # "running"
      /\ state = "WAIT_FOR_CMD"
  BY <1>1, AgreeServes, Acks, Waits
<1>4. ~Asked(Tail(Queue), {"CMD"})
  BY <1>3, Acks DEF Asked
<1> DEFINE q == Tail(Queue)
           nx == phase'
           c == cur'
<1>5. nx = "running" => c = ncmd + 1 /\ Unanswered(t)
  BY <1>3
<1> HIDE DEF q, nx, c
<1>6. Agree(q, s2c \o t, state, nx)
  BY <1>2, <1>3, <1>5, AgreeTells DEF q
<1>7. Counted(q, nx, c, ncmd + 1, sent)
  BY <1>1, <1>4, <1>5, CountedServesCommand DEF q
<1> QED
  BY <1>1, <1>6, <1>7 DEF q, nx, c

(* What the server's steps mean for Authorized and ClosedAtEnd.            *)
Told(t) ==
  /\ t \in Seq(AnswerType) /\ s2c' = s2c \o t
  /\ phase' = "unauthorized" =>
       /\ phase = "unauthorized"
       /\ \A i \in DOMAIN t : t[i].cmd = "AUTH_ACK" => "EXIT" \in t[i].status
  /\ UNCHANGED <<state, done, over, inev, input>>

Served(t) ==
  /\ Told(t)
  /\ Queue # << >> /\ Queue' = Tail(Queue)
  /\ eof' => eof \/ Head(Queue).cmd = "STDIN_CLOSE"
  /\ phase' # phase => Head(Queue).cmd \in Asking

Unasked(t) ==
  /\ Told(t)
  /\ Queue' = Queue
  /\ eof' => eof
  /\ phase' # phase => phase = "running"

LEMMA AskedServes ==
  ASSUME NEW q \in Seq(Wanted), q # << >>, NEW cmds, Asked(Tail(q), cmds)
  PROVE  Asked(q, cmds)
<1> DEFINE u == Tail(q)
<1>1. \A i \in DOMAIN u : i + 1 \in DOMAIN q /\ u[i] = q[i + 1]
  OBVIOUS
<1>2. Asked(u, cmds)
  OBVIOUS
<1> HIDE DEF u
<1> QED
  BY <1>1, <1>2 DEF Asked

LEMMA ServerAuthorized ==
  ASSUME Types, Agree(Queue, s2c, state, phase), Authorized, ClosedAtEnd,
         NEW t, Served(t) \/ Unasked(t)
  PROVE  Authorized' /\ ClosedAtEnd'
<1>1. Queue \in Seq(Wanted) /\ s2c \in Seq(AnswerType)
  BY DEF Types, Queue
<1>2. /\ t \in Seq(AnswerType) /\ s2c' = s2c \o t
      /\ UNCHANGED <<state, done, over, inev, input>>
      /\ phase' = "unauthorized" =>
           /\ phase = "unauthorized"
           /\ \A i \in DOMAIN t : t[i].cmd = "AUTH_ACK" => "EXIT" \in t[i].status
  BY DEF Served, Unasked, Told
<1>3. \A cmds : Asked(Queue', cmds) => Asked(Queue, cmds)
  BY <1>1, AskedServes DEF Served, Unasked
<1>4. Asked(Queue', {"AUTH"}) => phase' = "unauthorized"
  <2>1. CASE Served(t) /\ Head(Queue).cmd \in Asking
    <3>1. ~Asked(Queue', Asking)
      BY <1>1, <2>1, AgreeServes DEF Served
    <3> QED
      BY <3>1, Acks DEF Asked
  <2>2. CASE phase' = phase
    BY <1>3, <2>2 DEF Authorized
  <2>3. CASE phase = "running"
    BY <1>3, <2>3 DEF Authorized
  <2> QED
    BY <2>1, <2>2, <2>3 DEF Served, Unasked
<1>5. Asked(Queue', {"COMPLETION", "HELP"}) => phase' # "unauthorized"
  BY <1>2, <1>3 DEF Authorized
<1>6. ASSUME phase' = "unauthorized", ~Leaving', NEW i \in DOMAIN s2c',
             s2c'[i].cmd = "AUTH_ACK"
      PROVE  "EXIT" \in s2c'[i].status
  <2>1. \/ i \in DOMAIN s2c /\ s2c'[i] = s2c[i]
        \/ i - Len(s2c) \in DOMAIN t /\ s2c'[i] = t[i - Len(s2c)]
    BY <1>1, <1>2
  <2>2. ~Leaving
    BY <1>2, <1>6 DEF Leaving
  <2>3. \A k \in DOMAIN s2c : s2c[k].cmd = "AUTH_ACK" => "EXIT" \in s2c[k].status
    BY <1>2, <1>6, <2>2 DEF Authorized
  <2> QED
    BY <1>2, <1>6, <2>1, <2>3
<1>7. phase' = "unauthorized" /\ ~Leaving' => state' = "UNAUTHORIZED"
  BY <1>2 DEF Authorized, Leaving
<1>8. Authorized'
  BY <1>4, <1>5, <1>6, <1>7 DEF Authorized
<1>9. ClosedAtEnd'
  <2>1. CASE Served(t) /\ Head(Queue).cmd = "STDIN_CLOSE"
    <3>1. 1 \in DOMAIN Queue /\ Queue[1] = Head(Queue)
      BY <1>1, <2>1 DEF Served
    <3>2. Asked(Queue, {"STDIN_CLOSE"})
      BY <2>1, <3>1 DEF Asked
    <3> QED
      BY <1>2, <3>2 DEF ClosedAtEnd
  <2>2. CASE eof' => eof
    BY <1>2, <1>3, <2>2 DEF ClosedAtEnd
  <2> QED
    BY <2>1, <2>2 DEF Served, Unasked
<1> QED
  BY <1>8, <1>9

(* One answer, and one notification.                                       *)
LEMMA OneAnswer ==
  ASSUME NEW cmd \in Asking, NEW n \in Nat, NEW st \in SUBSET Flags
  PROVE  /\ <<Server!Answer(Ack[cmd], n, st)>> \in Seq(AnswerType)
         /\ ExpectedIn(<<Server!Answer(Ack[cmd], n, st)>>, WaitsFor(cmd))
         /\ \A i \in DOMAIN <<Server!Answer(Ack[cmd], n, st)>> :
              /\ <<Server!Answer(Ack[cmd], n, st)>>[i].cmd = Ack[cmd]
              /\ <<Server!Answer(Ack[cmd], n, st)>>[i].status = st
<1>1. Ack[cmd] \in {"AUTH_ACK", "CMD_ACK", "COMPLETION_ACK", "HELP_ACK"}
  BY Acks
<1> DEFINE t == <<Server!Answer(Ack[cmd], n, st)>>
<1>2. /\ t \in Seq(AnswerType) /\ Len(t) = 1
      /\ \A i \in DOMAIN t : i = 1 /\ t[i].cmd = Ack[cmd] /\ t[i].status = st
  BY <1>1, ServerMessage
<1> HIDE DEF t
<1>3. ExpectedIn(t, WaitsFor(cmd))
  BY <1>2 DEF ExpectedIn, WaitsFor
<1> QED
  BY <1>2, <1>3 DEF t

LEMMA OneNotification ==
  /\ <<Server!Error("NOTIFICATION", 0)>> \in Seq(AnswerType)
  /\ Late(<<Server!Error("NOTIFICATION", 0)>>)
<1> DEFINE t == <<Server!Answer("NOTIFICATION", 0, {"ERROR"})>>
<1>1. {"ERROR"} \in SUBSET Flags
  BY DEF Flags
<1>2. t \in Seq(AnswerType) /\ \A i \in DOMAIN t : t[i].cmd = "NOTIFICATION"
  BY <1>1, ServerMessage
<1>3. <<Server!Error("NOTIFICATION", 0)>> = t
  BY DEF Server!Error
<1> HIDE DEF t
<1> QED
  BY <1>2, <1>3 DEF Late

(* Both invariants after a step of the server, and what the others need.   *)
ServerActs ==
  /\ Agree(Queue, s2c, state, phase)' /\ Counted(Queue, phase, cur, ncmd, sent)'
  /\ \E t : Served(t) \/ Unasked(t)
  /\ c2s' \in Seq(Wanted) /\ s2c' \in Seq(AnswerType)
  /\ cur' \in Nat /\ ncmd' \in Nat /\ eof' \in BOOLEAN
  /\ phase' \in {"unauthorized", "idle", "running"}

(* What every step of the server finds.                                    *)
ServerFinds ==
  /\ Types /\ Agree(Queue, s2c, state, phase)
  /\ Counted(Queue, phase, cur, ncmd, sent)
  /\ UNCHANGED client

LEMMA AuthActs ==
  ASSUME ServerFinds, Server!Auth
  PROVE  ServerActs
<1>1. /\ UNCHANGED <<obuf, state, sent, done, over, inev, input>>
      /\ UNCHANGED <<cur, ncmd, eof>>
  BY DEF ServerFinds, client, Server!Auth
<1>2. PICK st \in {{}, {"ERROR", "EXIT"}} :
        /\ Server!Serve("AUTH", <<Server!Answer("AUTH_ACK", 0, st)>>)
        /\ \/ st = {} /\ phase' = "idle"
           \/ st = {"ERROR", "EXIT"} /\ phase' = phase
  <2>1. CASE /\ Server!Serve("AUTH", <<Server!Answer("AUTH_ACK", 0, {})>>)
             /\ phase' = "idle"
    BY <2>1
  <2>2. CASE /\ Server!Serve("AUTH", <<Server!Answer("AUTH_ACK", 0, {"ERROR", "EXIT"})>>)
             /\ phase' = phase
    BY <2>2
  <2> QED
    BY <2>1, <2>2 DEF Server!Auth
<1> DEFINE t == <<Server!Answer("AUTH_ACK", 0, st)>>
<1>3. "AUTH" \in Asking /\ Ack["AUTH"] = "AUTH_ACK" /\ st \in SUBSET Flags
  BY Acks DEF Flags
<1>4. /\ t \in Seq(AnswerType) /\ ExpectedIn(t, WaitsFor("AUTH"))
      /\ \A i \in DOMAIN t : t[i].status = st
  BY <1>3, OneAnswer
<1>5. phase' \in {phase, "idle"} /\ Server!Serve("AUTH", t)
  BY <1>2
<1> HIDE DEF t
<1>6. Agree(Queue, s2c, state, phase)' /\ Counted(Queue, phase, cur, ncmd, sent)'
  BY <1>1, <1>3, <1>4, <1>5, ServedKeeps DEF ServerFinds
<1>7. /\ Queue # << >> /\ Head(Queue).cmd = "AUTH" /\ Queue' = Tail(Queue)
      /\ c2s' \in Seq(Wanted) /\ s2c' = s2c \o t /\ s2c' \in Seq(AnswerType)
  BY <1>1, <1>4, <1>5, ServerServes DEF ServerFinds
<1>8. phase' = "unauthorized" => phase = "unauthorized" /\ "EXIT" \in st
  BY <1>2
<1>9. Served(t)
  BY <1>1, <1>3, <1>4, <1>7, <1>8 DEF Served, Told
<1> QED
  BY <1>1, <1>5, <1>6, <1>7, <1>9 DEF ServerActs, ServerFinds, Types

LEMMA AnswerHintActs ==
  ASSUME ServerFinds, NEW cmd \in {"COMPLETION", "HELP"}, Server!AnswerHint(cmd)
  PROVE  ServerActs
<1>1. /\ UNCHANGED <<obuf, state, sent, done, over, inev, input>>
      /\ UNCHANGED <<phase, cur, ncmd, eof>> /\ phase = "idle"
  BY DEF ServerFinds, client, Server!AnswerHint
<1>2. Server!Ack[cmd] = Ack[cmd]
  BY DEF Server!Ack, Ack
<1>3. PICK st \in {{}, {"EXIT"}, {"ERROR"}} :
        Server!Serve(cmd, <<Server!Answer(Ack[cmd], 0, st)>>)
  BY <1>2 DEF Server!AnswerHint, Server!Error, Server!ExitStatus
<1> DEFINE t == <<Server!Answer(Ack[cmd], 0, st)>>
<1>4. cmd \in Asking /\ cmd # "CMD" /\ st \in SUBSET Flags /\ Ack[cmd] # "AUTH_ACK"
  BY Acks DEF Flags
<1>5. /\ t \in Seq(AnswerType) /\ ExpectedIn(t, WaitsFor(cmd))
      /\ \A i \in DOMAIN t : t[i].cmd = Ack[cmd]
  BY <1>4, OneAnswer
<1>6. Server!Serve(cmd, t)
  BY <1>3
<1> HIDE DEF t
<1>7. Agree(Queue, s2c, state, phase)' /\ Counted(Queue, phase, cur, ncmd, sent)'
  BY <1>1, <1>4, <1>5, <1>6, ServedKeeps DEF ServerFinds
<1>8. /\ Queue # << >> /\ Head(Queue).cmd = cmd /\ Queue' = Tail(Queue)
      /\ c2s' \in Seq(Wanted) /\ s2c' = s2c \o t /\ s2c' \in Seq(AnswerType)
  BY <1>1, <1>5, <1>6, ServerServes DEF ServerFinds
<1>9. Served(t)
  BY <1>1, <1>4, <1>5, <1>8 DEF Served, Told
<1> QED
  BY <1>1, <1>7, <1>8, <1>9 DEF ServerActs, ServerFinds, Types

(* Requests without an answer, and late input.                             *)
LEMMA AsideActs ==
  ASSUME ServerFinds,
         \/ \E cmd \in Server!Streaming : Server!Accept(cmd) \/ Server!TooLate(cmd)
         \/ Server!Notified
  PROVE  ServerActs
<1>1. /\ UNCHANGED <<obuf, state, sent, done, over, inev, input>>
      /\ UNCHANGED <<phase, cur, ncmd>>
  BY DEF ServerFinds, client, Server!Accept, Server!TooLate, Server!Notified
<1>2. PICK cmd \in Server!Streaming \cup {"NOTIFICATION"},
           t \in {<< >>, <<Server!Error("NOTIFICATION", 0)>>} :
        /\ Server!Serve(cmd, t)
        /\ eof' = eof \/ eof' = (eof \/ cmd = "STDIN_CLOSE")
  BY DEF Server!Accept, Server!TooLate, Server!Notified
<1>3. t \in Seq(AnswerType) /\ Late(t)
  <2>1. << >> \in Seq(AnswerType) /\ Late(<< >>)
    BY DEF Late
  <2> QED
    BY <1>2, <2>1, OneNotification
<1>4. cmd # "CMD"
  BY StreamRequests
<1>5. Agree(Queue, s2c, state, phase)' /\ Counted(Queue, phase, cur, ncmd, sent)'
  BY <1>1, <1>2, <1>3, <1>4, ServedKeeps DEF ServerFinds
<1>6. /\ Queue # << >> /\ Head(Queue).cmd = cmd /\ Queue' = Tail(Queue)
      /\ c2s' \in Seq(Wanted) /\ s2c' = s2c \o t /\ s2c' \in Seq(AnswerType)
  BY <1>1, <1>2, <1>3, ServerServes DEF ServerFinds
<1>7. eof' \in BOOLEAN /\ (eof' => eof \/ cmd = "STDIN_CLOSE")
  <2>1. eof \in BOOLEAN /\ (cmd = "STDIN_CLOSE") \in BOOLEAN
    BY DEF ServerFinds, Types
  <2>2. eof' = eof \/ eof' = (eof \/ cmd = "STDIN_CLOSE")
    BY <1>2
  <2> QED
    BY <2>1, <2>2, Zenon
<1>8. Served(t)
  BY <1>1, <1>3, <1>6, <1>7 DEF Served, Told, Late
<1> QED
  BY <1>1, <1>5, <1>6, <1>7, <1>8 DEF ServerActs, ServerFinds, Types

(* A command that is answered at once, or starts to run.                   *)
LEMMA CommandActs ==
  ASSUME ServerFinds, Server!AnswerCmd \/ Server!StartCmd \/ Server!RefuseCmd
  PROVE  ServerActs
<1>1. UNCHANGED <<obuf, state, sent, done, over, inev, input>>
  BY DEF ServerFinds, client
<1>2. ncmd' = ncmd + 1 /\ ncmd \in Nat /\ ncmd' \in Nat
  <2>1. ncmd' = ncmd + 1
    BY DEF Server!AnswerCmd, Server!StartCmd, Server!RefuseCmd
  <2> QED
    BY <2>1 DEF ServerFinds, Types
<1>3. Ack["CMD"] = "CMD_ACK" /\ "CMD" \in Asking /\ WaitsFor("CMD") = "WAIT_FOR_CMD"
  BY Acks, Waits
<1> DEFINE n == ncmd'
           Outcome(t) ==
             /\ Server!Serve("CMD", t) /\ ExpectedIn(t, "WAIT_FOR_CMD")
             /\ \/ phase' = phase /\ cur' = cur /\ eof' = eof
                \/ phase' = "running" /\ cur' = n /\ eof' = FALSE /\ Unanswered(t)
<1>4. \E t \in Seq(AnswerType) : Outcome(t)
  <2>1. CASE Server!AnswerCmd \/ Server!RefuseCmd
    <3>1. UNCHANGED <<phase, cur, eof>>
      BY <2>1 DEF Server!AnswerCmd, Server!RefuseCmd
    <3>2. CASE Server!Serve("CMD", <<Server!Error("CMD_ACK", n)>>)
      <4> DEFINE st == {"ERROR"}
                 t == <<Server!Answer("CMD_ACK", n, st)>>
      <4>1. st \in SUBSET Flags
        BY DEF Flags
      <4>2. Server!Serve("CMD", t)
        BY <3>2 DEF Server!Error
      <4> HIDE DEF st
      <4>3. t \in Seq(AnswerType) /\ ExpectedIn(t, "WAIT_FOR_CMD")
        BY <1>2, <1>3, <4>1, OneAnswer
      <4> HIDE DEF t
      <4> QED
        BY <3>1, <4>2, <4>3
    <3>3. ASSUME NEW data \in Server!Outputs, NEW end \in BOOLEAN,
                 Server!Serve("CMD", Server!FinalAnswer(n, data, end))
          PROVE  \E t \in Seq(AnswerType) : Outcome(t)
      <4> DEFINE t == Server!FinalAnswer(n, data, end)
      <4>1. t \in Seq(AnswerType) /\ ExpectedIn(t, "WAIT_FOR_CMD")
        BY <1>2, ServerFinalAnswer
      <4> HIDE DEF t
      <4>2. Server!Serve("CMD", t)
        BY <3>3 DEF t
      <4> QED
        BY <3>1, <4>1, <4>2
    <3>4. \/ Server!Serve("CMD", <<Server!Error("CMD_ACK", n)>>)
          \/ \E data \in Server!Outputs, end \in BOOLEAN :
               Server!Serve("CMD", Server!FinalAnswer(n, data, end))
      BY <2>1 DEF Server!AnswerCmd, Server!RefuseCmd
    <3> QED
      BY <3>2, <3>3, <3>4
  <2>2. CASE Server!StartCmd
    <3>1. PICK f \in SUBSET Server!Features :
            Server!Serve("CMD", <<Server!Answer("CMD_ACK", n, {"INCOMPLETED"} \cup f)>>)
      BY <2>2 DEF Server!StartCmd
    <3> DEFINE st == {"INCOMPLETED"} \cup f
               t == <<Server!Answer("CMD_ACK", n, st)>>
    <3>2. st \in SUBSET Flags /\ "INCOMPLETED" \in st
      BY DEF Server!Features, Flags, Features
    <3> HIDE DEF st
    <3>3. /\ t \in Seq(AnswerType) /\ ExpectedIn(t, "WAIT_FOR_CMD")
          /\ \A i \in DOMAIN t : t[i].cmd = "CMD_ACK" /\ t[i].status = st
      BY <1>2, <1>3, <3>2, OneAnswer
    <3>4. Server!Serve("CMD", t)
      BY <3>1 DEF st
    <3> HIDE DEF t
    <3>5. Unanswered(t)
      BY <3>2, <3>3 DEF Unanswered, IsAnswer
    <3> QED
      BY <2>2, <3>3, <3>4, <3>5 DEF Server!StartCmd
  <2> QED
    BY <2>1, <2>2
<1>5. PICK t \in Seq(AnswerType) : Outcome(t)
  BY <1>4
<1>6. Agree(Queue, s2c, state, phase)' /\ Counted(Queue, phase, cur, ncmd, sent)'
  BY <1>1, <1>2, <1>5, ServedCommand DEF ServerFinds
<1>7. /\ Queue # << >> /\ Head(Queue).cmd = "CMD" /\ Queue' = Tail(Queue)
      /\ c2s' \in Seq(Wanted) /\ s2c' = s2c \o t /\ s2c' \in Seq(AnswerType)
  BY <1>1, <1>5, ServerServes DEF ServerFinds
<1>8. \A i \in DOMAIN t : t[i].cmd # "AUTH_ACK"
  BY <1>5, Expectations DEF ExpectedIn
<1>9. Served(t)
  BY <1>1, <1>3, <1>5, <1>7, <1>8 DEF Served, Told
<1>10. /\ cur' \in Nat /\ eof' \in BOOLEAN
       /\ phase' \in {"unauthorized", "idle", "running"}
  BY <1>2, <1>5 DEF ServerFinds, Types
<1> QED
  BY <1>2, <1>6, <1>7, <1>9, <1>10 DEF ServerActs

(* Output of the running command.                                          *)
LEMMA OutputActs ==
  ASSUME ServerFinds, NEW s \in Streams, Server!Output(s)
  PROVE  ServerActs
<1>1. /\ UNCHANGED <<obuf, state, sent, done, over, inev, input>>
      /\ UNCHANGED <<c2s, phase, cur, ncmd, eof>> /\ phase = "running"
  BY DEF ServerFinds, client, Server!Output
<1>2. PICK len \in 1 .. MaxOut : s2c' = s2c \o Server!Data(s, cur, len)
  BY DEF Server!Output
<1>3. cur \in Nat /\ len \in Nat /\ s2c \in Seq(AnswerType)
  BY <1>2, MaxOutAssumption DEF ServerFinds, Types
<1> DEFINE t == Server!Data(s, cur, len)
<1>4. t \in Seq(AnswerType) /\ \A i \in DOMAIN t : t[i].cmd \in Streams
  BY <1>3, ServerData
<1> HIDE DEF t
<1>5. /\ ExpectedIn(t, "WAIT_FOR_CMD") /\ Unanswered(t)
      /\ \A i \in DOMAIN t : t[i].cmd # "AUTH_ACK"
  BY <1>4, Acks, Expectations DEF ExpectedIn, Unanswered, IsAnswer, Streams
<1>6. ~Asked(Queue, Asking) /\ state = "WAIT_FOR_CMD" /\ Unanswered(s2c)
  BY <1>1 DEF ServerFinds, Agree
<1>7. Agree(Queue, s2c, state, phase)
  BY DEF ServerFinds
<1>8. Agree(Queue, s2c \o t, state, phase)
  BY <1>3, <1>4, <1>5, <1>6, <1>7, AgreeTells
<1>9. Queue' = Queue /\ s2c' = s2c \o t
  BY <1>1, <1>2 DEF Queue, t
<1>10. Agree(Queue, s2c, state, phase)' /\ Counted(Queue, phase, cur, ncmd, sent)'
  BY <1>1, <1>8, <1>9 DEF ServerFinds
<1>11. s2c' \in Seq(AnswerType)
  BY <1>3, <1>4, <1>9
<1>12. Unasked(t)
  BY <1>1, <1>4, <1>5, <1>9 DEF Unasked, Told
<1> QED
  BY <1>1, <1>10, <1>11, <1>12 DEF ServerActs, ServerFinds, Types

(* The running command's last output and its final answer.                 *)
LEMMA FinishActs ==
  ASSUME ServerFinds, Server!Finish
  PROVE  ServerActs
<1>1. /\ UNCHANGED <<obuf, state, sent, done, over, inev, input>>
      /\ UNCHANGED <<c2s, ncmd>> /\ phase = "running"
      /\ phase' = "idle" /\ cur' = 0 /\ eof' = FALSE
  BY DEF ServerFinds, client, Server!Finish
<1>2. PICK data \in Server!Outputs, end \in BOOLEAN :
        s2c' = s2c \o Server!FinalAnswer(cur, data, end)
  BY DEF Server!Finish
<1>3. cur \in Nat /\ s2c \in Seq(AnswerType)
  BY DEF ServerFinds, Types
<1> DEFINE t == Server!FinalAnswer(cur, data, end)
<1>4. t \in Seq(AnswerType) /\ ExpectedIn(t, "WAIT_FOR_CMD")
  BY <1>3, ServerFinalAnswer
<1> HIDE DEF t
<1>5. \A i \in DOMAIN t : t[i].cmd # "AUTH_ACK"
  BY <1>4, Expectations DEF ExpectedIn
<1>6. ~Asked(Queue, Asking) /\ state = "WAIT_FOR_CMD" /\ Unanswered(s2c)
  BY <1>1 DEF ServerFinds, Agree
<1>7. Agree(Queue, s2c, state, phase) /\ Counted(Queue, phase, cur, ncmd, sent)
  BY DEF ServerFinds
<1>8. Agree(Queue, s2c \o t, state, "idle")
  BY <1>3, <1>4, <1>6, <1>7, AgreeTells
<1>9. Queue' = Queue /\ s2c' = s2c \o t
  BY <1>1, <1>2 DEF Queue, t
<1>10. Counted(Queue, "idle", 0, ncmd, sent)
  BY <1>7, CountedIdle
<1>11. Agree(Queue, s2c, state, phase)' /\ Counted(Queue, phase, cur, ncmd, sent)'
  BY <1>1, <1>8, <1>9, <1>10
<1>12. s2c' \in Seq(AnswerType)
  BY <1>3, <1>4, <1>9
<1>13. Unasked(t)
  BY <1>1, <1>4, <1>5, <1>9 DEF Unasked, Told
<1> QED
  BY <1>1, <1>11, <1>12, <1>13 DEF ServerActs, ServerFinds, Types

(* The server goes down: nothing more is served.                           *)
LEMMA DownActs ==
  ASSUME ServerFinds, Server!Down
  PROVE  ServerActs
<1>1. /\ UNCHANGED <<obuf, state, sent, done, over, inev, input>>
      /\ UNCHANGED <<c2s, s2c, phase, cur, ncmd, eof>>
  BY DEF ServerFinds, client, Server!Down
<1>2. s2c \in Seq(AnswerType)
  BY DEF ServerFinds, Types
<1>3. s2c' = s2c \o << >> /\ << >> \in Seq(AnswerType)
  BY <1>1, <1>2
<1>4. Queue' = Queue
  BY <1>1 DEF Queue
<1>5. Unasked(<< >>)
  BY <1>1, <1>3, <1>4 DEF Unasked, Told
<1> QED
  BY <1>1, <1>4, <1>5 DEF ServerActs, ServerFinds, Types

ServerStep == ServerRequest \/ ServerOutput \/ ServerFinish \/ ServerDown

LEMMA ServerStepActs ==
  ASSUME Types, Agree(Queue, s2c, state, phase),
         Counted(Queue, phase, cur, ncmd, sent), ServerStep
  PROVE  UNCHANGED client /\ ServerActs
<1>1. UNCHANGED client
  BY DEF ServerStep, ServerRequest, ServerOutput, ServerFinish, ServerDown
<1>2. ServerFinds
  BY <1>1 DEF ServerFinds
<1>3. CASE ServerRequest
  BY <1>2, <1>3, AuthActs, AnswerHintActs, AsideActs, CommandActs
     DEF ServerRequest, Server!Request
<1>4. CASE ServerOutput
  BY <1>2, <1>4, OutputActs DEF ServerOutput
<1>5. CASE ServerFinish
  BY <1>2, <1>5, FinishActs DEF ServerFinish
<1>6. CASE ServerDown
  BY <1>2, <1>6, DownActs DEF ServerDown
<1> QED
  BY <1>1, <1>3, <1>4, <1>5, <1>6 DEF ServerStep

(***************************************************************************)
(* Types, Stopped and Rearmed                                              *)
(***************************************************************************)
LEMMA ClientTypes ==
  ASSUME Types, Buffers, ClientStep
  PROVE  Types'
<1>1. Steady /\ ClientActs
  BY ClientStepActs
<1>2. c2s' \in Seq(Wanted) /\ obuf' \in Seq(Wanted) /\ pollout' \in BOOLEAN
  BY <1>1 DEF Steady, Buffers
<1>3. s2c' \in Seq(AnswerType)
  <2>1. s2c \in Seq(AnswerType)
    BY DEF Types
  <2>2. CASE Quiet \/ Typed
    BY <2>1, <2>2 DEF Quiet, Typed
  <2>3. CASE Heard \/ Replied
    <3>1. s2c # << >> /\ s2c' = Tail(s2c)
      BY <2>3 DEF Heard, Replied
    <3>2. Tail(s2c) \in Seq(AnswerType)
      BY <2>1, <3>1, TailOf
    <3> QED
      BY <3>1, <3>2
  <2> QED
    BY <1>1, <2>2, <2>3 DEF ClientActs
<1>4. UNCHANGED <<cur, ncmd, eof, phase>>
  BY <1>1 DEF ClientActs, Quiet, Heard, Typed, Replied, server
<1>5. sent' \in Nat
  <2>1. sent' = sent \/ sent' = sent + 1
    BY <1>1 DEF ClientActs, Quiet, Heard, Typed, Replied
  <2> QED
    BY <2>1 DEF Types
<1>6. done' \in BOOLEAN /\ input' \in Nat /\ lines' \in Nat
  <2>1. done \in BOOLEAN /\ input \in Nat /\ lines \in Nat
    BY DEF Types
  <2>2. ASSUME NEW msgs, NEW end \in BOOLEAN, NEW rc, NEW f,
               SendNextCommand(msgs, end, rc, f)
        PROVE  done' \in BOOLEAN /\ input' \in Nat /\ lines' \in Nat
    <3>1. CASE NextLine(msgs, end)
      BY <2>1, <2>2, <3>1 DEF NextLine, HasLine
    <3>2. CASE NoNextLine(msgs, end, rc, f)
      BY <2>1, <2>2, <3>2 DEF NoNextLine
    <3> QED
      BY <2>2, <3>1, <3>2 DEF SendNextCommand
  <2>3. (done \/ Exit) \in BOOLEAN
    OBVIOUS
  <2>4. CASE AuthAck \/ CmdDone
    BY <2>2, <2>3, <2>4 DEF AuthAck, CmdDone
  <2>5. CASE Stdout \/ CmdRunning \/ CmdFailed \/ Shown \/ HintAck
    BY <2>1, <2>3, <2>5 DEF Stdout, CmdRunning, CmdFailed, Shown, HintAck, session
  <2>6. CASE \/ ServerOut \/ ServerEvEnd \/ HangUp \/ PagerCrash
             \/ Winch \/ CtrlC \/ StdinPaused
    BY <2>1, <2>6 DEF ServerOut, ServerEvEnd, HangUp, PagerCrash, Winch, CtrlC, Signal, StdinPaused,
       session, outside
  <2>7. ASSUME NEW hup \in BOOLEAN,
               \/ KeyEnter(hup) \/ KeyOther(hup) \/ Feed(hup)
               \/ \E cmd \in {"COMPLETION", "HELP"} : KeyHint(hup, cmd)
        PROVE  done' \in BOOLEAN /\ input' \in Nat /\ lines' \in Nat
    BY <2>1, <2>7 DEF KeyEnter, KeyOther, Feed, KeyHint, KeyDone, session
  <2> QED
    BY <2>4, <2>5, <2>6, <2>7 DEF ClientStep, Receive, StdinCb
<1> QED
  BY <1>2, <1>3, <1>4, <1>5, <1>6 DEF Types

(* After a failure only messages that mean nothing are taken, until the    *)
(* loop ends; no other step makes a failure known, or sends a command.     *)
LEMMA StoppedStep ==
  ASSUME Stopped, ClientStep
  PROVE  Stopped' /\ (failed' => sent' = sent)
<1>1. CASE failed
  <2>1. /\ state = "IDLE" /\ retcode # 0 /\ done /\ (over = "no" => inev)
        /\ over # "no" /\ ~Interactive => over = "failure"
    BY <1>1 DEF Stopped, Leaving
  <2>2. ~Event
    BY <2>1 DEF Event
  <2>3. ServerEvEnd \/ Shown
    <3>1. \A cmd \in DOMAIN Expected : Expected[cmd] # "IDLE" /\ cmd # "NOTIFICATION"
      BY DEF Expected
    <3>2. \A cmd \in DOMAIN Expected : Dispatch(cmd) => ~Expects(Message)
      BY <2>1, <3>1 DEF Dispatch, Expects
    <3>3. DOMAIN Expected = {"AUTH_ACK", "CMD_ACK", "STDOUT", "STDERR",
                             "COMPLETION_ACK", "HELP_ACK"}
      BY DEF Expected
    <3>4. ~AuthAck /\ ~CmdRunning /\ ~CmdFailed /\ ~CmdDone /\ ~Stdout /\ ~HintAck
      BY <3>2, <3>3 DEF AuthAck, CmdRunning, CmdFailed, CmdDone, CmdEnded, Stdout, HintAck
    <3>6. ~PagerCrash
      BY <2>1, <3>1, <3>3 DEF PagerCrash, Expects
    <3>5. ~ServerOut /\ ~HangUp /\ ~Winch /\ ~CtrlC /\ ~StdinCb
      BY <2>2 DEF ServerOut, HangUp, Winch, CtrlC, Signal, StdinCb, StdinPaused, StdinEv,
         KeyEnter, KeyOther, Feed, KeyHint
    <3> QED
      BY <3>4, <3>5, <3>6 DEF ClientStep, Receive
  <2>4. CASE ServerEvEnd
    <3>1. /\ over' = MainStatus /\ UNCHANGED <<state, retcode, done, opts, sent, failed>>
      BY <2>1, <2>4 DEF ServerEvEnd, session, history
    <3>2. ~Interactive => over' = "failure"
      BY <2>1, <3>1 DEF MainStatus
    <3>3. over' # "no"
      BY <3>1 DEF MainStatus
    <3> QED
      BY <2>1, <3>1, <3>2, <3>3 DEF Stopped, Leaving, Interactive
  <2>5. CASE Shown
    <3>1. /\ UNCHANGED <<state, retcode, opts, over, sent, failed>>
          /\ (done => done') /\ inev' = TRUE /\ over = "no"
      BY <2>5 DEF Shown, Dispatch, history
    <3> QED
      BY <2>1, <3>1 DEF Stopped, Leaving, Interactive
  <2> QED
    BY <2>3, <2>4, <2>5
<1>2. CASE ~failed /\ CmdFailed
  <2>1. /\ state' = "IDLE" /\ done' = TRUE /\ inev' = TRUE /\ over' = "no"
        /\ sent' = sent
    BY <1>2 DEF CmdFailed, CmdEnded, Dispatch
  <2>2. retcode' # 0
    BY <1>2 DEF CmdFailed, StopsOn
  <2> QED
    BY <2>1, <2>2 DEF Stopped, Leaving
<1>3. CASE ~failed /\ ~CmdFailed
  <2>1. failed' = failed
    BY <1>3 DEF ClientStep, Receive, StdinCb, ServerOut, ServerEvEnd, HangUp, Winch, CtrlC,
       Signal, AuthAck, CmdRunning, CmdDone, PagerCrash, Stdout, Shown, HintAck, StdinPaused,
       KeyEnter, KeyOther, Feed, KeyHint, KeyDone, history
  <2> QED
    BY <1>3, <2>1 DEF Stopped
<1> QED
  BY <1>1, <1>2, <1>3

(* Steps that give stdin no new reader.                                    *)
LEMMA NothingToRead ==
  ASSUME NeverDeaf, Steady, UNCHANGED <<state, features, opts>>,
         polled => polled', done => done', over' = "no" => over = "no"
  PROVE  NeverDeaf'
  BY DEF NeverDeaf, Steady, ReadsLine, NeedsStdin, Interactive

(* stdin is polled by whoever makes it needed, and the end of a pause.     *)
LEMMA NeverDeafStep ==
  ASSUME Types, Rearmed, Steady, ClientStep
  PROVE  NeverDeaf'
<1>1. NeverDeaf /\ (obuf # << >> => pollout)
  BY DEF Rearmed
<1>2. CASE ServerOut \/ HintAck
  <2>1. polled' = TRUE
    BY <1>2 DEF ServerOut, HintAck
  <2> QED
    BY <2>1 DEF NeverDeaf
<1>3. CASE ServerEvEnd \/ HangUp \/ PagerCrash \/ Winch \/ CtrlC \/ Stdout \/ Shown
  <2>1. UNCHANGED <<state, features, opts, polled, done>> \/ Shown
    <3>1. CASE ServerEvEnd
      BY <3>1 DEF ServerEvEnd, session
    <3>2. CASE HangUp \/ PagerCrash
      BY <3>2 DEF HangUp, PagerCrash, session
    <3>3. CASE Winch \/ CtrlC
      BY <3>3 DEF Winch, CtrlC, Signal, session
    <3>4. CASE Stdout
      BY <3>4 DEF Stdout, Dispatch, session
    <3> QED
      BY <1>3, <3>1, <3>2, <3>3, <3>4
  <2>3. Shown => UNCHANGED <<state, features, opts, polled>> /\ (done => done')
    BY DEF Shown, Dispatch
  <2>2. over = "no"
    BY <1>3 DEF ServerEvEnd, HangUp, PagerCrash, Winch, CtrlC, Signal, Stdout, Shown,
       Dispatch, Event
  <2> QED
    BY <1>1, <2>1, <2>2, <2>3, NothingToRead
<1>4. CASE AuthAck \/ CmdDone
  <2>1. /\ opts' = opts /\ (Interactive => polled')
        /\ \/ state' = "WAIT_FOR_CMD" /\ features' = NoFeatures
           \/ state' = "IDLE"
    <3>1. opts' = opts /\ (Interactive => polled')
      BY <1>4 DEF AuthAck, CmdDone, CmdEnded, Dispatch
    <3>2. ASSUME NEW msgs, NEW end, NEW rc, NEW f, SendNextCommand(msgs, end, rc, f)
          PROVE  \/ state' = "WAIT_FOR_CMD" /\ features' = NoFeatures
                 \/ state' = "IDLE"
      BY <3>2 DEF SendNextCommand, NextLine, NoNextLine, Ask
    <3> QED
      BY <1>4, <3>1, <3>2 DEF AuthAck, CmdDone
  <2>2. "NEED_STDIN" \notin NoFeatures
    BY DEF NoFeatures
  <2> QED
    BY <2>1, <2>2 DEF NeverDeaf, ReadsLine, NeedsStdin, Interactive
<1>5. CASE CmdFailed
  BY <1>5 DEF CmdFailed, NeverDeaf
<1>6. CASE CmdRunning
  <2>1. opts' = opts /\ state' = state /\ state = "WAIT_FOR_CMD"
    BY <1>6, Expectations DEF CmdRunning, Dispatch, Expects
  <2>2. opts.mode # "stdin" /\ "NEED_STDIN" \in features' => polled'
    BY <1>6 DEF CmdRunning
  <2> QED
    BY <2>1, <2>2 DEF NeverDeaf, ReadsLine, NeedsStdin
<1>7. CASE StdinPaused
  <2>1. UNCHANGED <<opts, state, features, pollout>>
    BY <1>7 DEF StdinPaused, session, net
  <2>2. CASE TooMuch
    <3>1. obuf # << >>
      <4>1. Len(<< >>) = 0
        OBVIOUS
      <4>2. ~(0 > ObufLimit)
        BY LimitsAssumption
      <4> QED
        BY <2>2, <4>1, <4>2 DEF TooMuch
    <3> QED
      BY <1>1, <2>1, <3>1 DEF NeverDeaf
  <2>3. CASE ~ReadsLine /\ ~NeedsStdin
    BY <2>1, <2>3 DEF NeverDeaf, ReadsLine, NeedsStdin, Interactive
  <2> QED
    BY <1>7, <2>2, <2>3 DEF StdinPaused
<1>8. ASSUME NEW hup \in BOOLEAN,
             \/ KeyEnter(hup) \/ KeyOther(hup)
             \/ \E cmd \in {"COMPLETION", "HELP"} : KeyHint(hup, cmd)
      PROVE  NeverDeaf'
  <2>1. KeyDone(hup)
    BY <1>8 DEF KeyEnter, KeyOther, KeyHint
  <2> QED
    BY <2>1 DEF KeyDone, NeverDeaf
<1>9. ASSUME NEW hup \in BOOLEAN, Feed(hup)
      PROVE  NeverDeaf'
  <2>1. UNCHANGED <<opts, state, features, done, over>>
    BY <1>9 DEF Feed, session
  <2>2. CASE polled' = polled
    BY <1>1, <2>1, <2>2, NothingToRead
  <2>3. CASE input = 0 /\ hup /\ input' = input
    <3>1. opts.hup
      BY <1>9, <2>3 DEF Feed, StdinEv, Readable
    <3> QED
      BY <2>1, <2>3, <3>1 DEF NeverDeaf
  <2> QED
    BY <1>9, <2>2, <2>3 DEF Feed
<1> QED
  BY <1>2, <1>3, <1>4, <1>5, <1>6, <1>7, <1>8, <1>9 DEF ClientStep, Receive, StdinCb

(***************************************************************************)
(* The invariant                                                           *)
(***************************************************************************)
LEMMA InitIInv == Init => IInv
<1> SUFFICES ASSUME Init PROVE IInv
  OBVIOUS
<1>1. /\ c2s = <<Request("AUTH", 0)>> /\ s2c = << >> /\ obuf = << >>
      /\ phase = "unauthorized" /\ cur = 0 /\ ncmd = 0 /\ eof = FALSE
      /\ state = "UNAUTHORIZED" /\ done = FALSE /\ pollout = FALSE
      /\ sent = 0 /\ failed = FALSE
  BY DEF Init
<1> DEFINE m == Request("AUTH", 0)
<1>2. m \in Wanted /\ m.cmd = "AUTH"
  BY RequestIs DEF Commands
<1> HIDE DEF m
<1>3. <<m>> \in Seq(Wanted) /\ \A i \in DOMAIN <<m>> : i = 1 /\ <<m>>[i] = m
  BY <1>2
<1>4. << >> \in Seq(Wanted) /\ << >> \in Seq(AnswerType) /\ <<m>> \o << >> = <<m>>
  BY <1>2
<1>5. Queue = <<m>>
  BY <1>1, <1>4 DEF Queue, m
<1>6. Types
  <2>1. input \in Nat /\ lines \in Nat
    BY LimitsAssumption DEF Init
  <2> QED
    BY <1>1, <1>3, <1>4, <2>1 DEF Types, m
<1>7. \A cmds : Asked(Queue, cmds) => "AUTH" \in cmds
  BY <1>2, <1>3, <1>5 DEF Asked
<1>8. Agree(Queue, s2c, state, phase)
  <2>1. DOMAIN s2c = {}
    BY <1>1
  <2> QED
    BY <1>1, <1>2, <1>3, <1>5, <2>1, Waits DEF Agree, Unanswered
<1>9. Counted(Queue, phase, cur, ncmd, sent)
  <2>1. "AUTH" \notin Server!Streaming
    BY StreamRequests
  <2> QED
    BY <1>1, <1>2, <1>3, <1>5, <1>7, <2>1 DEF Counted
<1>10. Authorized
  <2>1. DOMAIN s2c = {}
    BY <1>1
  <2> QED
    BY <1>1, <1>7, <2>1 DEF Authorized
<1>11. ClosedAtEnd /\ Stopped
  BY <1>1, <1>7 DEF ClosedAtEnd, Stopped
<1>12. Rearmed
  BY <1>1 DEF Rearmed, NeverDeaf, ReadsLine, NeedsStdin
<1> QED
  BY <1>6, <1>8, <1>9, <1>10, <1>11, <1>12 DEF IInv

LEMMA StepIInv == IInv /\ [Next]_vars => IInv'
<1> SUFFICES ASSUME IInv, [Next]_vars PROVE IInv'
  OBVIOUS
<1>1. /\ Types /\ Agree(Queue, s2c, state, phase)
      /\ Counted(Queue, phase, cur, ncmd, sent)
      /\ Authorized /\ ClosedAtEnd /\ Stopped /\ Rearmed /\ Buffers
  BY BuffersHold DEF IInv
<1>2. CASE ClientStep
  <2>1. Steady /\ ClientActs
    BY <1>1, <1>2, ClientStepActs
  <2>2. Types'
    BY <1>1, <1>2, ClientTypes
  <2>3. Agree(Queue, s2c, state, phase)' /\ Counted(Queue, phase, cur, ncmd, sent)'
    BY <1>1, <2>1, QuietOrHeardKeeps, TypedKeeps, RepliedKeeps DEF ClientActs
  <2>4. Authorized' /\ ClosedAtEnd'
    BY <1>1, <2>1, ClientAuthorized, ClientClosesAtEnd
  <2>5. Stopped'
    BY <1>1, <1>2, StoppedStep
  <2>6. Rearmed'
    BY <1>1, <1>2, <2>1, NeverDeafStep DEF Rearmed, Steady, Buffers
  <2> QED
    BY <2>2, <2>3, <2>4, <2>5, <2>6 DEF IInv
<1>3. CASE ServerStep
  <2>1. UNCHANGED client /\ ServerActs
    BY <1>1, <1>3, ServerStepActs
  <2>2. Agree(Queue, s2c, state, phase)' /\ Counted(Queue, phase, cur, ncmd, sent)'
    BY <2>1 DEF ServerActs
  <2>3. Types'
    BY <1>1, <2>1 DEF Types, ServerActs, client
  <2>4. Authorized' /\ ClosedAtEnd'
    BY <1>1, <2>1, ServerAuthorized DEF ServerActs
  <2>5. Stopped' /\ Rearmed'
    BY <1>1, <2>1 DEF Stopped, Rearmed, NeverDeaf, Leaving, ReadsLine, NeedsStdin, Interactive,
       client
  <2> QED
    BY <2>2, <2>3, <2>4, <2>5 DEF IInv
<1>4. CASE UNCHANGED vars
  BY <1>1, <1>4 DEF vars, IInv, Types, Queue, Authorized, ClosedAtEnd, Stopped, Rearmed,
     NeverDeaf, Leaving, ReadsLine, NeedsStdin, Interactive
<1> QED
  BY <1>2, <1>3, <1>4 DEF Next, ClientStep, ServerStep

(* The invariant holds in every reachable state.                           *)
THEOREM ClientInvariant == Spec => []IInv
  BY InitIInv, StepIInv, PTL DEF Spec

(* Client and server agree on the session's state, whatever is on its way. *)
THEOREM ClientServerAgrees == Spec => []ServerAgrees
<1>1. IInv => ServerAgrees
  <2> SUFFICES ASSUME IInv PROVE ServerAgrees
    OBVIOUS
  <2>1. /\ Types /\ Agree(Queue, s2c, state, phase) /\ Authorized
    BY DEF IInv
  <2>2. ASSUME s2c # << >> PROVE Expects(Message)
    <3>1. 1 \in DOMAIN s2c /\ Message = s2c[1]
      BY <2>1, <2>2 DEF Types, Message
    <3> QED
      BY <2>1, <3>1 DEF Agree, Expects
  <2>3. ASSUME c2s # << >>
        PROVE  /\ Head(c2s).cmd \in {"COMPLETION", "HELP"} => phase = "idle"
               /\ Head(c2s).cmd = "AUTH" => phase = "unauthorized"
               /\ Head(c2s).cmd = "CMD" => phase # "running"
    <3>1. /\ Queue \in Seq(Wanted) /\ Queue # << >> /\ Head(Queue) = Head(c2s)
      BY <2>1, <2>3, QueueHead DEF Types
    <3>2. \A cmds : Head(c2s).cmd \in cmds => Asked(Queue, cmds)
      BY <3>1, TailOf DEF Asked
    <3>3. Asked(Queue, Asking) => phase # "running"
      BY <2>1 DEF Agree
    <3>4. phase \in {"unauthorized", "idle", "running"}
      BY <2>1 DEF Types
    <3> QED
      BY <2>1, <3>2, <3>3, <3>4, Acks DEF Authorized
  <2> QED
    BY <2>2, <2>3 DEF ServerAgrees
<1> QED
  BY <1>1, ClientInvariant, PTL

(* Late input is never taken for the next command's, and a command's stdin *)
(* is closed only after all data.                                          *)
THEOREM ClientStreamsHit == Spec => []StreamsHitTheirCommand
<1>1. IInv => StreamsHitTheirCommand
  <2> SUFFICES ASSUME IInv PROVE StreamsHitTheirCommand
    OBVIOUS
  <2>1. /\ Types /\ Counted(Queue, phase, cur, ncmd, sent) /\ ClosedAtEnd
    BY DEF IInv
  <2>2. ASSUME phase = "running", c2s # << >>, Head(c2s).cmd \in Server!Streaming
        PROVE  Head(c2s).n = cur
    <3>1. /\ Queue \in Seq(Wanted) /\ Queue # << >> /\ Head(Queue) = Head(c2s)
      BY <2>1, <2>2, QueueHead DEF Types
    <3>2. 1 \in DOMAIN Queue /\ Queue[1] = Head(c2s)
      BY <3>1, TailOf
    <3> QED
      BY <2>1, <2>2, <3>2 DEF Counted
  <2>3. ASSUME NEW i \in DOMAIN c2s, c2s[i].cmd = "STDIN_CLOSE"
        PROVE  input = 0
    <3>1. i \in DOMAIN Queue /\ Queue[i] = c2s[i]
      BY <2>1 DEF Types, Queue
    <3>2. Asked(Queue, {"STDIN_CLOSE"})
      BY <2>3, <3>1 DEF Asked
    <3> QED
      BY <2>1, <3>2 DEF ClosedAtEnd
  <2>4. eof => input = 0
    BY <2>1 DEF ClosedAtEnd
  <2> QED
    BY <2>2, <2>3, <2>4 DEF StreamsHitTheirCommand
<1> QED
  BY <1>1, ClientInvariant, PTL

(* The client polls stdin whenever there is somebody to read it.           *)
THEOREM ClientNeverDeaf == Spec => []NeverDeaf
<1>1. IInv => NeverDeaf
  BY DEF IInv, Rearmed
<1> QED
  BY <1>1, ClientInvariant, PTL

(* A script that is stopped by a failure exits with one.                   *)
THEOREM ClientFailureReported == Spec => []FailureReported
<1>1. IInv => FailureReported
  BY DEF IInv, Stopped, FailureReported
<1> QED
  BY <1>1, ClientInvariant, PTL

(* With stop-on-error no command is sent after one that has failed.        *)
THEOREM ClientStopsOnError == Spec => StopOnError
<1>1. IInv /\ [Next]_vars => [failed' => UNCHANGED sent]_vars
  <2> SUFFICES ASSUME IInv, Next PROVE failed' => UNCHANGED sent
    OBVIOUS
  <2>1. CASE ClientStep
    BY <2>1, StoppedStep DEF IInv
  <2>2. CASE ServerStep
    <3>1. UNCHANGED client
      BY <2>2, ServerStepActs DEF IInv
    <3> QED
      BY <3>1 DEF client
  <2> QED
    BY <2>1, <2>2 DEF Next, ClientStep, ServerStep
<1>2. Spec => [][failed' => UNCHANGED sent]_vars
  BY <1>1, ClientInvariant, PTL DEF Spec
<1> QED
  BY <1>2 DEF StopOnError
=============================================================================
