------------------------------ MODULE Grabber ------------------------------
(***************************************************************************)
(* The output grabber (klish/ksession/grabber.c): a process forked by      *)
(* exec_action_sync() (kexec.c) that carries the output of a sync symbol   *)
(* running in the server.  The symbol writes to two pipes; the grabber     *)
(* buffers what it reads from "fd_in" of a stream and writes it to the     *)
(* stream's "fd_out", the stdout or stderr of the stage, which the server  *)
(* or the next stage drains.  Buffers hold units of data.                  *)
(***************************************************************************)
EXTENDS Integers

CONSTANTS
  Outs,         \* Outs[i]: the output descriptor of stream i
  MaxWrite,     \* bound: units the symbol writes to a stream
  OutCap        \* units an output descriptor takes until it is drained

Streams == {1, 2}       \* stdout and stderr, in the order of fds[]
Fds == {Outs[i] : i \in Streams}

ASSUME OutsAssumption == Outs \in [Streams -> Nat]
ASSUME MaxWriteAssumption == MaxWrite \in Nat
ASSUME OutCapAssumption == OutCap \in Nat \ {0}

VARIABLES
  in,           \* units in the pipe between symbol and grabber
  writing,      \* does the symbol (the server) still hold the pipe
  buf,          \* stream->buf
  fd_in,        \* stream->fd_in # -1
  fd_out,       \* stream->fd_out # -1
  polled,       \* is the output descriptor still in the event loop
  pollout,      \* POLLOUT of the output descriptor
  out,          \* units in the output descriptor, not drained yet
  readers,      \* output descriptors somebody still reads
  sigpipe,      \* SIGPIPE is pending
  over,         \* "no", or why the grabber has exited
  written, delivered    \* history: units per stream

stream == <<buf, fd_in, fd_out>>
loop == <<polled, pollout, sigpipe, over>>
vars == <<in, writing, buf, fd_in, fd_out, polled, pollout, out, readers, sigpipe,
          over, written, delivered>>

Init ==
  /\ in = [i \in Streams |-> 0] /\ buf = [i \in Streams |-> 0]
  /\ writing = [i \in Streams |-> TRUE]
  /\ fd_in = [i \in Streams |-> TRUE] /\ fd_out = [i \in Streams |-> TRUE]
  /\ polled = [f \in Fds |-> TRUE] /\ pollout = [f \in Fds |-> FALSE]
  /\ out = [f \in Fds |-> 0] /\ readers = Fds
  /\ sigpipe = FALSE /\ over = "no"
  /\ written = [i \in Streams |-> 0] /\ delivered = [i \in Streams |-> 0]

-----------------------------------------------------------------------------
Sent(have, room) == IF have < room THEN have ELSE room

(* Wrong variants of a definition stand before it; a run with the variant  *)
(* in its place violates the property the variant is for.                  *)
(*                                                                         *)
(* The output is needed until nothing can come to it any more.             *)
NeededForInput(rest, inleft) == inleft
NeededForever(rest, inleft) == TRUE
Needed(rest, inleft) == rest > 0 \/ inleft

PollOut(rest) == rest > 0

FinishedOne == \E j \in Streams : ~fd_in'[j] /\ ~fd_out'[j]
Finished == \A j \in Streams : ~fd_in'[j] /\ ~fd_out'[j]

(* The rest of grabber_fd_ev() once the stream is found.  "got" units have *)
(* been read; everything the output takes is written; "hup" says which of  *)
(* the stream's descriptors has hung up, if any.                           *)
Handle(i, got, hup) ==
  LET f == Outs[i]
      have == buf[i] + got
      room == IF fd_out[i] /\ f \in readers THEN OutCap - out[f] ELSE 0
      sent == Sent(have, room)
      rest == have - sent
      inleft == fd_in[i] /\ hup # "in"
      outleft == fd_out[i] /\ hup # "out"
  IN /\ buf' = [buf EXCEPT ![i] = rest]
     /\ out' = [out EXCEPT ![f] = @ + sent]
     /\ delivered' = [delivered EXCEPT ![i] = @ + sent]
     /\ sigpipe' = (sigpipe \/ (have > 0 /\ fd_out[i] /\ f \notin readers))
     /\ fd_in' = [fd_in EXCEPT ![i] = inleft]
     /\ fd_out' = [fd_out EXCEPT ![i] = outleft /\ Needed(rest, inleft)]
     /\ polled' = [polled EXCEPT ![f] = @ /\ hup # "out"]
     /\ pollout' = [pollout EXCEPT ![f] = IF outleft THEN PollOut(rest) ELSE @]
     /\ over' = IF Finished THEN "eof" ELSE over
     /\ UNCHANGED <<writing, readers, written>>

(* Events of the pipe from the symbol.  The symbol's stdout is closed      *)
(* before its stderr and is polled before it.                              *)
InEv(i) ==
  /\ over = "no" /\ fd_in[i]
  /\ \/ /\ in[i] > 0
        /\ Handle(i, in[i], IF writing[i] THEN "none" ELSE "in")
     \/ /\ in[i] = 0 /\ ~writing[i]
        /\ \A j \in Streams : j < i => ~(fd_in[j] /\ ~writing[j])
        /\ Handle(i, 0, "in")
  /\ in' = [in EXCEPT ![i] = 0]

(* Events of an output descriptor.  They go to the first stream that has   *)
(* this descriptor, and if there is none the loop stops.                   *)
Ready(f) == polled[f] /\ pollout[f] /\ out[f] < OutCap
Broken(f) == polled[f] /\ f \notin readers

OutEv(f) ==
  /\ over = "no"
  /\ Ready(f) \/ Broken(f)
  /\ LET Mine == {i \in Streams : fd_out[i] /\ Outs[i] = f}
     IN IF Mine = {}
        THEN /\ over' = "problems"
             /\ UNCHANGED <<stream, polled, pollout, out, sigpipe, writing,
                            readers, written, delivered>>
        ELSE LET i == CHOOSE j \in Mine : \A k \in Mine : j <= k
             IN Handle(i, 0, IF Broken(f) THEN "out" ELSE "none")
  /\ UNCHANGED in

(* grabber_stop_ev(): SIGPIPE; SIGINT, SIGTERM or SIGQUIT from outside.    *)
SigPipe ==
  /\ over = "no" /\ sigpipe
  /\ over' = "signal"
  /\ UNCHANGED <<in, writing, stream, polled, pollout, sigpipe, out, readers,
                 written, delivered>>

SigStop ==
  /\ over = "no"
  /\ over' = "stopped"
  /\ UNCHANGED <<in, writing, stream, polled, pollout, sigpipe, out, readers,
                 written, delivered>>

-----------------------------------------------------------------------------
(* The symbol writes, and on its return the server restores its own        *)
(* stdout, then its own stderr.                                            *)
SymWrite(i) ==
  /\ writing[1] /\ writing[i] /\ written[i] < MaxWrite
  /\ in' = [in EXCEPT ![i] = @ + 1]
  /\ written' = [written EXCEPT ![i] = @ + 1]
  /\ UNCHANGED <<writing, stream, loop, out, readers, delivered>>

SymReturn(i) ==
  /\ writing[i] /\ \A j \in Streams : j < i => ~writing[j]
  /\ writing' = [writing EXCEPT ![i] = FALSE]
  /\ UNCHANGED <<in, stream, loop, out, readers, written, delivered>>

(* Who gets the output: it is drained, or nobody wants it any more.        *)
Drain(f) ==
  /\ f \in readers /\ out[f] > 0
  /\ out' = [out EXCEPT ![f] = 0]
  /\ UNCHANGED <<in, writing, stream, loop, readers, written, delivered>>

ReaderCloses(f) ==
  /\ f \in readers
  /\ readers' = readers \ {f}
  /\ out' = [out EXCEPT ![f] = 0]
  /\ UNCHANGED <<in, writing, stream, loop, written, delivered>>

Next ==
  \/ \E i \in Streams : InEv(i) \/ SymWrite(i) \/ SymReturn(i)
  \/ \E f \in Fds : OutEv(f) \/ Drain(f) \/ ReaderCloses(f)
  \/ SigPipe \/ SigStop

Spec == Init /\ [][Next]_vars

(* The event loop serves what stays ready, symbols return and output that  *)
(* is read is drained.  Nobody has to write, to close or to stop it.       *)
Fairness ==
  /\ \A i \in Streams : WF_vars(InEv(i)) /\ WF_vars(SymReturn(i))
  /\ \A f \in Fds : WF_vars(OutEv(f)) /\ WF_vars(Drain(f))
  /\ WF_vars(SigPipe)

FairSpec == Spec /\ Fairness

-----------------------------------------------------------------------------
(* Properties.                                                             *)

(* When the grabber leaves by itself, the symbol has returned and all it    *)
(* has written was delivered, if the outputs were read: neither a full      *)
(* output nor one stream that ends before the other cuts anything off       *)
(* (grabber_fd_ev()).                                                       *)
NothingLost ==
  over \notin {"no", "stopped"} /\ readers = Fds =>
    delivered = written /\ \A i \in Streams : ~writing[i]

(* kexec.c:455 "After sym function return grabber will write buffered data  *)
(* back": a symbol that has returned is followed by the end of the grabber, *)
(* whose SIGCHLD the job waits for.                                         *)
GrabberExits == (\A i \in Streams : ~writing[i]) ~> over # "no"
=============================================================================
