--------------------------- MODULE GrabberProofs ---------------------------
(* Proofs about the output grabber, for every pair of output descriptors   *)
(* (also the same one twice), every capacity and every amount of output.   *)
EXTENDS Grabber, TLAPS

TypeOK ==
  /\ in \in [Streams -> Nat] /\ buf \in [Streams -> Nat]
  /\ written \in [Streams -> Nat] /\ delivered \in [Streams -> Nat]
  /\ writing \in [Streams -> BOOLEAN]
  /\ fd_in \in [Streams -> BOOLEAN] /\ fd_out \in [Streams -> BOOLEAN]
  /\ polled \in [Fds -> BOOLEAN] /\ pollout \in [Fds -> BOOLEAN]
  /\ out \in [Fds -> 0 .. OutCap]
  /\ readers \in SUBSET Fds
  /\ sigpipe \in BOOLEAN
  /\ over \in {"no", "eof", "problems", "signal", "stopped"}

\* What the symbol has written is in its pipe, in the buffer or delivered.
Conserved == \A i \in Streams : written[i] = in[i] + buf[i] + delivered[i]

\* A stream stops being read at its end only.
ReadToTheEnd == \A i \in Streams : ~fd_in[i] => in[i] = 0 /\ ~writing[i]

\* While the outputs are read, an output is given up only when nothing is left
\* for it or can come.
NeededIsOpen ==
  readers = Fds => \A i \in Streams : ~fd_out[i] => buf[i] = 0 /\ ~fd_in[i]

\* While the outputs are read, no event comes for an output given up.
PollsWhatItKeeps ==
  readers = Fds =>
    \A f \in Fds : pollout[f] => \E i \in Streams : Outs[i] = f /\ fd_out[i]

\* Why the grabber ends.
Reasons ==
  /\ over = "eof" => \A i \in Streams : ~fd_in[i] /\ ~fd_out[i]
  /\ over \in {"problems", "signal"} \/ sigpipe => readers # Fds

IInv ==
  /\ TypeOK /\ Conserved /\ ReadToTheEnd
  /\ NeededIsOpen /\ PollsWhatItKeeps /\ Reasons

-----------------------------------------------------------------------------
(* What the output takes of the buffer and what is left of it.             *)
LEMMA SentBounds ==
  ASSUME NEW have \in Nat, NEW room \in Nat
  PROVE  Sent(have, room) \in Nat /\ Sent(have, room) <= have
         /\ Sent(have, room) <= room /\ have - Sent(have, room) \in Nat
  BY DEF Sent

(* grabber_fd_ev() for a stream: either the whole pipe was read, or an      *)
(* output descriptor has an event.                                         *)
LEMMA HandleStep ==
  ASSUME IInv, over = "no", NEW i \in Streams, NEW got \in {0, in[i]},
         NEW hup \in {"none", "in", "out"}, Handle(i, got, hup),
         in' = [in EXCEPT ![i] = in[i] - got],
         hup = "in" => ~writing[i] /\ got = in[i],
         hup = "out" => Outs[i] \notin readers
  PROVE  IInv'
<1>. DEFINE f == Outs[i]
            have == buf[i] + got
            room == IF fd_out[i] /\ f \in readers THEN OutCap - out[f] ELSE 0
            sent == Sent(have, room)
            rest == have - sent
            inleft == fd_in[i] /\ hup # "in"
            outleft == fd_out[i] /\ hup # "out"
<1>1. /\ TypeOK /\ Conserved /\ ReadToTheEnd
      /\ NeededIsOpen /\ PollsWhatItKeeps /\ Reasons
  BY DEF IInv
<1>2. f \in Fds /\ in[i] \in Nat /\ buf[i] \in Nat /\ got \in Nat
  BY <1>1 DEF TypeOK, Fds
<1>3. have \in Nat /\ room \in Nat
  <2>1. out[f] \in 0 .. OutCap
    BY <1>1, <1>2 DEF TypeOK
  <2>2. QED
    BY <1>2, <2>1, OutCapAssumption
<1>4. sent \in Nat /\ sent <= room /\ sent <= have /\ rest \in Nat
  <2>. HIDE DEF have, room
  <2>. QED
    BY <1>3, SentBounds
<1>5. /\ buf' = [buf EXCEPT ![i] = rest]
      /\ out' = [out EXCEPT ![f] = @ + sent]
      /\ delivered' = [delivered EXCEPT ![i] = @ + sent]
      /\ sigpipe' = (sigpipe \/ (have > 0 /\ fd_out[i] /\ f \notin readers))
      /\ fd_in' = [fd_in EXCEPT ![i] = inleft]
      /\ fd_out' = [fd_out EXCEPT ![i] = outleft /\ Needed(rest, inleft)]
      /\ polled' = [polled EXCEPT ![f] = @ /\ hup # "out"]
      /\ pollout' = [pollout EXCEPT ![f] = IF outleft THEN PollOut(rest) ELSE @]
      /\ over' = IF Finished THEN "eof" ELSE over
      /\ UNCHANGED <<writing, readers, written>>
  BY DEF Handle
<1>. HIDE DEF sent
<1>6. TypeOK'
  <2>1. /\ in' \in [Streams -> Nat] /\ buf' \in [Streams -> Nat]
        /\ delivered' \in [Streams -> Nat]
    BY <1>1, <1>2, <1>4, <1>5 DEF TypeOK
  <2>2. out' \in [Fds -> 0 .. OutCap]
    <3>1. out[f] + sent \in 0 .. OutCap
      BY <1>1, <1>2, <1>4, OutCapAssumption DEF TypeOK
    <3>2. QED
      BY <1>1, <1>5, <3>1 DEF TypeOK
  <2>3. /\ fd_in' \in [Streams -> BOOLEAN] /\ fd_out' \in [Streams -> BOOLEAN]
        /\ polled' \in [Fds -> BOOLEAN] /\ pollout' \in [Fds -> BOOLEAN]
    <3>1. /\ inleft \in BOOLEAN /\ (outleft /\ Needed(rest, inleft)) \in BOOLEAN
          /\ (polled[f] /\ hup # "out") \in BOOLEAN
      BY <1>1, <1>2 DEF TypeOK
    <3>2. (IF outleft THEN PollOut(rest) ELSE pollout[f]) \in BOOLEAN
      <4>1. PollOut(rest) \in BOOLEAN
        BY DEF PollOut
      <4>2. pollout[f] \in BOOLEAN
        BY <1>1, <1>2 DEF TypeOK
      <4>3. QED
        BY <4>1, <4>2
    <3>. HIDE DEF inleft, outleft, rest, f
    <3>3. fd_in' \in [Streams -> BOOLEAN] /\ fd_out' \in [Streams -> BOOLEAN]
      BY <1>1, <1>5, <3>1 DEF TypeOK
    <3>4. polled' \in [Fds -> BOOLEAN] /\ pollout' \in [Fds -> BOOLEAN]
      BY <1>1, <1>5, <3>1, <3>2 DEF TypeOK
    <3>5. QED
      BY <3>3, <3>4
  <2>4. sigpipe' \in BOOLEAN /\ over' \in {"no", "eof", "problems", "signal", "stopped"}
    BY <1>1, <1>5 DEF TypeOK
  <2>5. QED
    BY <1>1, <1>5, <2>1, <2>2, <2>3, <2>4 DEF TypeOK
<1>7. Conserved'
  <2>1. written[i] = (in[i] - got) + rest + (delivered[i] + sent)
    BY <1>1, <1>2, <1>4 DEF Conserved, TypeOK
  <2>2. ASSUME NEW j \in Streams
        PROVE  written'[j] = in'[j] + buf'[j] + delivered'[j]
    <3>1. CASE j = i
      BY <1>1, <1>5, <2>1, <3>1 DEF TypeOK
    <3>2. CASE j # i
      BY <1>1, <1>5, <3>2 DEF TypeOK, Conserved
    <3>3. QED
      BY <3>1, <3>2
  <2>3. QED
    BY <2>2 DEF Conserved
<1>8. ReadToTheEnd'
  <2>1. ASSUME NEW j \in Streams, ~fd_in'[j]
        PROVE  in'[j] = 0 /\ ~writing'[j]
    <3>1. CASE j = i
      <4>1. ~fd_in[i] \/ hup = "in"
        BY <1>1, <1>5, <2>1, <3>1 DEF TypeOK
      <4>2. in[i] - got = 0 /\ ~writing[i]
        BY <1>1, <1>2, <4>1 DEF ReadToTheEnd
      <4>3. QED
        BY <1>1, <1>5, <3>1, <4>2 DEF TypeOK
    <3>2. CASE j # i
      BY <1>1, <1>5, <2>1, <3>2 DEF TypeOK, ReadToTheEnd
    <3>3. QED
      BY <3>1, <3>2
  <2>2. QED
    BY <2>1 DEF ReadToTheEnd
<1>9. NeededIsOpen'
  <2>1. ASSUME readers = Fds, NEW j \in Streams, ~fd_out'[j]
        PROVE  buf'[j] = 0 /\ ~fd_in'[j]
    <3>1. CASE j = i
      <4>1. hup # "out"
        BY <1>2, <2>1
      <4>2. CASE fd_out[i]
        <5>1. ~(rest > 0 \/ inleft)
          BY <1>1, <1>5, <2>1, <3>1, <4>1, <4>2 DEF TypeOK, Needed
        <5>2. rest = 0
          BY <1>4, <5>1
        <5>3. QED
          BY <1>1, <1>5, <3>1, <5>1, <5>2 DEF TypeOK
      <4>3. CASE ~fd_out[i]
        <5>1. buf[i] = 0 /\ ~fd_in[i]
          BY <1>1, <2>1, <4>3 DEF NeededIsOpen
        <5>2. in[i] = 0
          BY <1>1, <5>1 DEF ReadToTheEnd
        <5>3. rest = 0
          BY <1>2, <1>4, <5>1, <5>2
        <5>4. QED
          BY <1>1, <1>5, <3>1, <5>1, <5>3 DEF TypeOK
      <4>4. QED
        BY <4>2, <4>3
    <3>2. CASE j # i
      BY <1>1, <1>5, <2>1, <3>2 DEF TypeOK, NeededIsOpen
    <3>3. QED
      BY <3>1, <3>2
  <2>2. QED
    BY <1>5, <2>1 DEF NeededIsOpen
<1>10. PollsWhatItKeeps'
  <2>1. ASSUME readers = Fds, NEW g \in Fds, pollout'[g]
        PROVE  \E j \in Streams : Outs[j] = g /\ fd_out'[j]
    <3>1. hup # "out"
      BY <1>2, <2>1
    <3>2. CASE g = f /\ fd_out[i]
      <4>1. rest > 0
        BY <1>1, <1>2, <1>5, <2>1, <3>1, <3>2 DEF TypeOK, PollOut
      <4>2. fd_out'[i]
        BY <1>1, <1>5, <3>1, <3>2, <4>1 DEF TypeOK, Needed
      <4>3. QED
        BY <3>2, <4>2
    <3>3. CASE g # f \/ ~fd_out[i]
      <4>1. pollout[g]
        BY <1>1, <1>2, <1>5, <2>1, <3>3 DEF TypeOK
      <4>2. PICK j \in Streams : Outs[j] = g /\ fd_out[j]
        BY <1>1, <2>1, <4>1 DEF PollsWhatItKeeps
      <4>3. j # i
        BY <3>3, <4>2
      <4>4. QED
        BY <1>1, <1>5, <4>2, <4>3 DEF TypeOK
    <3>4. QED
      BY <3>2, <3>3
  <2>2. QED
    BY <1>5, <2>1 DEF PollsWhatItKeeps
<1>11. Reasons'
  <2>1. over' = "eof" => \A j \in Streams : ~fd_in'[j] /\ ~fd_out'[j]
    BY <1>5 DEF Finished
  <2>2. over' \notin {"problems", "signal"}
    BY <1>5
  <2>3. sigpipe' => readers # Fds
    BY <1>1, <1>2, <1>5 DEF Reasons
  <2>4. QED
    BY <1>5, <2>1, <2>2, <2>3 DEF Reasons
<1>12. QED
  BY <1>6, <1>7, <1>8, <1>9, <1>10, <1>11 DEF IInv

-----------------------------------------------------------------------------
LEMMA InitIInv == Init => IInv
<1>. SUFFICES ASSUME Init PROVE IInv
  OBVIOUS
<1>1. TypeOK
  <2>1. 0 \in 0 .. OutCap
    BY OutCapAssumption
  <2>2. out \in [Fds -> 0 .. OutCap] /\ readers \in SUBSET Fds
    BY <2>1 DEF Init
  <2>3. QED
    BY <2>2 DEF Init, TypeOK
<1>2. Conserved /\ ReadToTheEnd /\ NeededIsOpen /\ PollsWhatItKeeps /\ Reasons
  BY DEF Init, Conserved, ReadToTheEnd, NeededIsOpen, PollsWhatItKeeps, Reasons
<1>3. QED
  BY <1>1, <1>2 DEF IInv

LEMMA NextIInv == IInv /\ [Next]_vars => IInv'
<1>. SUFFICES ASSUME IInv, [Next]_vars PROVE IInv'
  OBVIOUS
<1>1. /\ TypeOK /\ Conserved /\ ReadToTheEnd
      /\ NeededIsOpen /\ PollsWhatItKeeps /\ Reasons
  BY DEF IInv
<1>2. ASSUME NEW i \in Streams, InEv(i)
      PROVE  IInv'
  <2>1. in[i] \in Nat
    BY <1>1 DEF TypeOK
  <2>2. CASE in[i] > 0 /\ Handle(i, in[i], IF writing[i] THEN "none" ELSE "in")
    <3>1. in' = [in EXCEPT ![i] = in[i] - in[i]] /\ over = "no"
      <4>1. in[i] - in[i] = 0
        BY <2>1
      <4>2. QED
        BY <1>2, <4>1 DEF InEv
    <3>2. CASE writing[i]
      BY <2>2, <3>1, <3>2, HandleStep
    <3>3. CASE ~writing[i]
      BY <2>2, <3>1, <3>3, HandleStep
    <3>4. QED
      BY <3>2, <3>3
  <2>3. CASE in[i] = 0 /\ ~writing[i] /\ Handle(i, 0, "in")
    <3>1. /\ in' = [in EXCEPT ![i] = in[i] - 0] /\ over = "no"
          /\ 0 \in {0, in[i]} /\ in[i] = 0 /\ ~writing[i]
      BY <1>2, <2>1, <2>3 DEF InEv
    <3>2. QED
      BY <2>3, <3>1, HandleStep
  <2>4. QED
    BY <1>2, <2>2, <2>3 DEF InEv
<1>3. ASSUME NEW f \in Fds, OutEv(f)
      PROVE  IInv'
  <2>. DEFINE Mine == {i \in Streams : fd_out[i] /\ Outs[i] = f}
              i == CHOOSE j \in Mine : \A k \in Mine : j <= k
  <2>1. CASE Mine = {}
    <3>1. \A j \in Streams : ~(Outs[j] = f /\ fd_out[j])
      BY <2>1
    <3>2. readers # Fds
      BY <1>1, <1>3, <3>1 DEF OutEv, Ready, Broken, PollsWhatItKeeps
    <3>3. /\ over' = "problems"
          /\ UNCHANGED <<in, stream, polled, pollout, out, sigpipe, writing,
                         readers, written, delivered>>
      BY <1>3, <2>1 DEF OutEv
    <3>4. QED
      BY <1>1, <3>2, <3>3
         DEF IInv, TypeOK, Conserved, ReadToTheEnd, NeededIsOpen,
             PollsWhatItKeeps, Reasons, stream
  <2>2. CASE Mine # {}
    <3>1. i \in Mine
      <4>1. \E j \in Mine : \A k \in Mine : j <= k
        BY <2>2 DEF Streams
      <4>2. QED
        BY <4>1
    <3>2. Handle(i, 0, IF Broken(f) THEN "out" ELSE "none")
      BY <1>3, <2>2 DEF OutEv
    <3>3. in[i] \in Nat /\ in' = [in EXCEPT ![i] = in[i] - 0]
      BY <1>1, <1>3, <3>1 DEF OutEv, TypeOK
    <3>4. Broken(f) => Outs[i] \notin readers
      BY <3>1 DEF Broken
    <3>5. i \in Streams /\ over = "no"
      BY <1>3, <3>1 DEF OutEv
    <3>. HIDE DEF i
    <3>6. QED
      BY <3>2, <3>3, <3>4, <3>5, HandleStep
  <2>3. QED
    BY <2>1, <2>2
<1>4. ASSUME NEW i \in Streams, SymWrite(i)
      PROVE  IInv'
  BY <1>1, <1>4
     DEF SymWrite, stream, loop, IInv, TypeOK, Conserved, ReadToTheEnd,
         NeededIsOpen, PollsWhatItKeeps, Reasons
<1>5. ASSUME NEW i \in Streams, SymReturn(i)
      PROVE  IInv'
  BY <1>1, <1>5
     DEF SymReturn, stream, loop, IInv, TypeOK, Conserved, ReadToTheEnd,
         NeededIsOpen, PollsWhatItKeeps, Reasons
<1>6. ASSUME NEW f \in Fds, Drain(f) \/ ReaderCloses(f)
      PROVE  IInv'
  <2>1. readers' \in SUBSET Fds /\ (readers' = Fds => readers = Fds)
    BY <1>1, <1>6 DEF Drain, ReaderCloses, TypeOK
  <2>2. out' \in [Fds -> 0 .. OutCap]
    BY <1>1, <1>6, OutCapAssumption DEF Drain, ReaderCloses, TypeOK
  <2>3. UNCHANGED <<in, writing, stream, loop, written, delivered>>
    BY <1>6 DEF Drain, ReaderCloses
  <2>4. QED
    BY <1>1, <2>1, <2>2, <2>3
       DEF stream, loop, IInv, TypeOK, Conserved, ReadToTheEnd, NeededIsOpen,
           PollsWhatItKeeps, Reasons
<1>7. CASE SigPipe \/ SigStop
  BY <1>1, <1>7
     DEF SigPipe, SigStop, stream, IInv, TypeOK, Conserved, ReadToTheEnd, NeededIsOpen,
         PollsWhatItKeeps, Reasons
<1>8. CASE UNCHANGED vars
  BY <1>1, <1>8
     DEF vars, IInv, TypeOK, Conserved, ReadToTheEnd, NeededIsOpen,
         PollsWhatItKeeps, Reasons
<1>9. QED
  BY <1>2, <1>3, <1>4, <1>5, <1>6, <1>7, <1>8 DEF Next

(* The inductive invariant: what the symbol has written is in its pipe, in *)
(* the buffer or delivered, and grabber_fd_ev() gives neither end of a     *)
(* stream up while it is needed.                                           *)
THEOREM GrabberInvariant == Spec => []IInv
  BY InitIInv, NextIInv, PTL DEF Spec

(* A grabber that leaves unasked while its outputs are read has delivered all that *)
(* the symbol wrote, and the symbol has returned: grabber_fd_ev() neither  *)
(* gives an output up too early nor ends with the first stream.            *)
THEOREM GrabberNothingLost == Spec => []NothingLost
<1>1. IInv => NothingLost
  <2>. SUFFICES ASSUME IInv, over \notin {"no", "stopped"}, readers = Fds
                PROVE  delivered = written /\ \A i \in Streams : ~writing[i]
    BY DEF NothingLost
  <2>1. \A i \in Streams : ~fd_in[i] /\ ~fd_out[i]
    BY DEF IInv, Reasons, TypeOK
  <2>2. \A i \in Streams : in[i] = 0 /\ ~writing[i] /\ buf[i] = 0
    BY <2>1 DEF IInv, ReadToTheEnd, NeededIsOpen
  <2>3. \A i \in Streams : written[i] = delivered[i]
    BY <2>2 DEF IInv, Conserved, TypeOK
  <2>4. QED
    BY <2>2, <2>3 DEF IInv, TypeOK
<1>2. QED
  BY <1>1, GrabberInvariant, PTL
=============================================================================
