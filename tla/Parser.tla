------------------------------- MODULE Parser -------------------------------
(***************************************************************************)
(* The command line parser (klish/ksession/ksession_parse.c, kpargv.c):    *)
(* how a line is split into piped components, how the words of a component *)
(* are matched against the ENTRYs of the session's path, for execution,    *)
(* completion and help, and how the server answers a hint request from the *)
(* result (klish/ktp/ktpd_session.c).  The operators follow the code's     *)
(* recursion; the user types a line word by word and asks for completion,  *)
(* help or execution.                                                      *)
(*                                                                         *)
(* A grammar is a scheme and a session path in it.  An ENTRY lists its     *)
(* nested ENTRYs with purpose COMMON; those with another purpose are       *)
(* attributes: "ptype", "cond", "compl".  The recursion makes this module  *)
(* one for TLC only.                                                       *)
(***************************************************************************)
EXTENDS Integers, Sequences, FiniteSets, SequencesExt

CONSTANTS
  Grammar,   \* the schemes by name, each a [path, entry, words]
  Begins,    \* the words that begin with a word, itself included
  Size,      \* the length of a word
  None,      \* no ENTRY
  MaxArgs,   \* bound: words typed on a line, pipes included
  MoreArgs   \* bound: words by which the properties extend a line

Pipe == "|"

ASSUME WordAssumption ==
  /\ DOMAIN Begins = DOMAIN Size
  /\ \A w \in DOMAIN Begins : w \in Begins[w] /\ Size[w] \in Nat
ASSUME BoundAssumption == MaxArgs \in Nat /\ MoreArgs \in Nat

VARIABLES
  scheme,    \* the name of this behaviour's scheme
  line,      \* the words typed
  open,      \* nothing follows the last word: it can be continued
  reply      \* what the last request gave, NoReply while the user types

vars == <<scheme, line, open, reply>>

NoReply == [req |-> "none"]

grammar == Grammar[scheme]

Entry(g, e) == g.entry[e]

(***************************************************************************)
(* PTYPE symbols of plugin klish: the value they give to a word, None when *)
(* they do not accept it.  COMMAND accepts the abbreviations of at least   *)
(* "len" letters and prints the whole command.                             *)
(***************************************************************************)
PtypeCommand(p, w) ==
  IF Size[w] >= p.len /\ Size[w] <= Size[p.cmd] /\ p.cmd \in Begins[w]
  THEN p.cmd ELSE None
PtypeValue(p, w) ==
  CASE p.sym = "COMMAND" -> PtypeCommand(p, w)
    [] p.sym = "INT"     -> IF w \in p.range THEN w ELSE None
    [] p.sym = "STRING"  -> w
    [] p.sym = "none"    -> None

(***************************************************************************)
(* kpargv_t under construction.  "next" is the argument argv_iter points   *)
(* at, beyond the last one for NULL.                                       *)
(***************************************************************************)
NewPargv ==
  [next |-> 1, pargs |-> <<>>, command |-> None, completions |-> <<>>]
Parg(e, v) == [entry |-> e, value |-> v]
AddParg(s, e, v) == [s EXCEPT !.pargs = Append(@, Parg(e, v))]
AddCompletion(s, e) ==
  IF e \in ToSet(s.completions) THEN s
  ELSE [s EXCEPT !.completions = Append(@, e)]
Has(s, e) == \E i \in DOMAIN s.pargs : s.pargs[i].entry = e

(* A parse "c": the grammar, the arguments, whether the last of them can   *)
(* be continued, the purpose, and whether the line follows a pipe.         *)
Parse(g, args, continuable, purpose, filter) ==
  [g |-> g, args |-> args, continuable |-> continuable,
   purpose |-> purpose, filter |-> filter]
NoArg(c, s) == s.next > Len(c.args)
LastArg(c, s) == s.next = Len(c.args)
Result(status, s) == [status |-> status, s |-> s]

(* COND: its ACTION looks at the arguments parsed so far.                  *)
CondHolds(c, e, s) == \A n \in Entry(c.g, e).cond : Has(s, n)

OfferedAnywhere(c, e, s) == c.purpose \in {"COMPLETION", "HELP"}   \* mutant
OfferedFilters(c, e, s) ==   \* mutant
  /\ c.purpose \in {"COMPLETION", "HELP"}
  /\ \/ Entry(c.g, e).filter = "dual"
     \/ c.filter = (Entry(c.g, e).filter = "true")

(* Is the entry one to offer?                                              *)
Offered(c, e, s) ==
  /\ c.purpose \in {"COMPLETION", "HELP"}
  /\ \/ Entry(c.g, e).filter = "dual"
     \/ c.filter /\ Entry(c.g, e).filter = "true"
     \/ ~c.filter /\ Entry(c.g, e).filter = "false"
     \/ c.filter /\ s.pargs # <<>>

(* An entry that is not a container takes one argument.                    *)
Itself(c, e, s) ==
  LET value == PtypeValue(Entry(c.g, e).ptype, c.args[s.next])
      took == [AddParg(s, e, value) EXCEPT
                 !.next = @ + 1,
                 !.command = IF Entry(c.g, e).actions THEN e ELSE @]
  IN CASE Entry(c.g, e).container -> Result("NONE", s)
       [] /\ ~Entry(c.g, e).container
          /\ Offered(c, e, s)
          /\ NoArg(c, s) \/ (LastArg(c, s) /\ c.continuable) ->
            Result("NOTFOUND", IF NoArg(c, s) /\ c.continuable THEN s
                               ELSE AddCompletion(s, e))
       [] OTHER -> IF NoArg(c, s) THEN Result("NOTFOUND", s)
                   ELSE IF value = None THEN Result("NOTFOUND", s)
                   ELSE Result("OK", took)

(* The status of an entry and of what is nested in it.                     *)
Combine(self, nested) ==
  CASE nested.status = "NONE" -> Result(self, nested.s)
    [] self = "OK" /\ nested.status = "NOTFOUND" -> Result("ERROR", nested.s)
    [] OTHER -> nested

(* A container gets the names of the entries chosen in it.                 *)
NoteChosen(c, e, n, s) ==
  IF Entry(c.g, e).container THEN AddParg(s, e, n) ELSE s

RECURSIVE ParseArg(_, _, _), Switch(_, _, _, _, _), Sequence(_, _, _, _),
          Repeat(_, _, _, _, _)

ParseArg(c, e, s) ==
  LET self == Itself(c, e, s)
      kids == Entry(c.g, e).kids
      mode == Entry(c.g, e).mode
      start == [at |-> 1, saved |-> 1, seen |-> {}, rc |-> "NONE"]
  IN CASE ~CondHolds(c, e, s) -> Result("NONE", s)
       [] CondHolds(c, e, s)
            /\ (self.status = "NOTFOUND" \/ kids = <<>> \/ mode = "empty") ->
            self
       [] OTHER -> Combine(self.status,
                           IF mode = "switch"
                           THEN Switch(c, e, 1, "NONE", self.s)
                           ELSE Sequence(c, e, start, self.s))

(* The first nested entry that is OK or an ERROR ends the search.          *)
Switch(c, e, at, rc, s) ==
  IF at > Len(Entry(c.g, e).kids) THEN Result(rc, s)
  ELSE LET n == Entry(c.g, e).kids[at]
           r == ParseArg(c, n, s)
       IN CASE r.status = "OK" -> Result("OK", NoteChosen(c, e, n, r.s))
            [] r.status = "ERROR" -> r
            [] OTHER -> Switch(c, e, at + 1, "NOTFOUND", r.s)

SequenceUnordered(c, e, i, s) ==   \* mutant
  IF i.at > Len(Entry(c.g, e).kids) THEN Result(i.rc, s)
  ELSE LET n == Entry(c.g, e).kids[i.at]
           r == Repeat(c, n, 0, i.rc, s)
           saved == IF Entry(c.g, n).min > 0 THEN i.at + 1 ELSE i.saved
           at == IF Entry(c.g, n).min = 0 THEN saved ELSE i.at + 1
       IN CASE n \in i.seen -> Sequence(c, e, [i EXCEPT !.at = @ + 1], s)
            [] n \notin i.seen /\ r.over -> Result(r.rc, r.s)
            [] n \notin i.seen /\ ~r.over /\ r.num = 0 ->
                 Sequence(c, e, [i EXCEPT !.at = @ + 1, !.rc = r.rc], r.s)
            [] OTHER ->
                 Sequence(c, e, [at |-> at, saved |-> saved,
                                 seen |-> i.seen \cup {n}, rc |-> r.rc],
                          NoteChosen(c, e, n, r.s))

SequenceForward(c, e, i, s) ==   \* mutant
  IF i.at > Len(Entry(c.g, e).kids) THEN Result(i.rc, s)
  ELSE LET n == Entry(c.g, e).kids[i.at]
           r == Repeat(c, n, 0, i.rc, s)
           saved == i.at + 1
           at == i.at + 1
       IN CASE n \in i.seen -> Sequence(c, e, [i EXCEPT !.at = @ + 1], s)
            [] n \notin i.seen /\ r.over -> Result(r.rc, r.s)
            [] n \notin i.seen /\ ~r.over /\ r.num = 0 ->
                 Sequence(c, e, [i EXCEPT !.at = @ + 1, !.rc = r.rc], r.s)
            [] OTHER ->
                 Sequence(c, e, [at |-> at, saved |-> saved,
                                 seen |-> i.seen \cup {n}, rc |-> r.rc],
                          NoteChosen(c, e, n, r.s))

(* The nested entries are tried in order, each from "min" to "max" times.  *)
(* After an optional one the search goes back to "saved": what follows the *)
(* last mandatory or ordered entry.                                        *)
Sequence(c, e, i, s) ==
  IF i.at > Len(Entry(c.g, e).kids) THEN Result(i.rc, s)
  ELSE LET n == Entry(c.g, e).kids[i.at]
           r == Repeat(c, n, 0, i.rc, s)
           saved == IF Entry(c.g, n).min > 0 \/ Entry(c.g, n).order
                    THEN i.at + 1 ELSE i.saved
           at == IF Entry(c.g, n).min = 0 THEN saved ELSE i.at + 1
       IN CASE n \in i.seen -> Sequence(c, e, [i EXCEPT !.at = @ + 1], s)
            [] n \notin i.seen /\ r.over -> Result(r.rc, r.s)
            [] n \notin i.seen /\ ~r.over /\ r.num = 0 ->
                 Sequence(c, e, [i EXCEPT !.at = @ + 1, !.rc = r.rc], r.s)
            [] OTHER ->
                 Sequence(c, e, [at |-> at, saved |-> saved,
                                 seen |-> i.seen \cup {n}, rc |-> r.rc],
                          NoteChosen(c, e, n, r.s))

Repeat(c, n, num, rc, s) ==
  IF num = Entry(c.g, n).max
  THEN [over |-> FALSE, num |-> num, rc |-> rc, s |-> s]
  ELSE LET r == ParseArg(c, n, s)
           enough == num >= Entry(c.g, n).min
       IN CASE r.status = "OK" -> Repeat(c, n, num + 1, "OK", r.s)
            [] r.status = "NONE" \/ (r.status = "NOTFOUND" /\ enough) ->
                 [over |-> FALSE, num |-> num, rc |-> rc, s |-> r.s]
            [] OTHER -> [over |-> TRUE, num |-> num, rc |-> r.status,
                         s |-> r.s]

(***************************************************************************)
(* ksession_parse_line(): the levels of the path, the deepest first.  The  *)
(* upper levels are not searched for hints on an empty line or for help on *)
(* its first word.                                                         *)
(***************************************************************************)
OnlyCurrentLevel(c) ==
  \/ c.args = <<>> /\ c.purpose \in {"COMPLETION", "HELP"}
  \/ Len(c.args) = 1 /\ c.continuable /\ c.purpose = "HELP"

LineStatus(c, r) ==
  CASE r.status = "OK" /\ NoArg(c, r.s) ->
         IF r.s.command = None THEN "NOACTION" ELSE "OK"
    [] OTHER -> "ERROR"

RECURSIVE ParseLevel(_, _, _)
ParseLevel(c, level, s) ==
  LET e == c.g.path[level]
      r == ParseArg(c, e, s)
  IN IF \/ r.status \notin {"NOTFOUND", "NONE"}
        \/ r.s.pargs # <<>>
        \/ OnlyCurrentLevel(c)
        \/ ~Entry(c.g, e).transparent
        \/ level = 1
     THEN [status |-> LineStatus(c, r), level |-> level, pargs |-> r.s.pargs,
           command |-> r.s.command, completions |-> r.s.completions,
           last_arg |-> IF NoArg(c, r.s) THEN None ELSE c.args[r.s.next]]
     ELSE ParseLevel(c, level - 1, r.s)

ParseLine(c) == ParseLevel(c, Len(c.g.path), NewPargv)

(***************************************************************************)
(* ksession_split_pipes() and ksession_check_line()                        *)
(***************************************************************************)
Pipes(l) == SelectInSeq(l, LAMBDA w : w = Pipe)
RECURSIVE SplitPipes(_)
SplitPipes(l) ==
  IF Pipes(l) = 0 THEN <<l>>
  ELSE <<SubSeq(l, 1, Pipes(l) - 1)>>
         \o SplitPipes(SubSeq(l, Pipes(l) + 1, Len(l)))
BadPipes(l, continuable) ==
  LET parts == SplitPipes(l)
  IN \/ \E i \in 1..(Len(parts) - 1) : parts[i] = <<>>
     \/ Last(parts) = <<>> /\ continuable

CheckLine(c, p, first) ==
  /\ c.purpose = "EXEC" => p.status = "OK"
  /\ p.command # None =>
       IF first THEN Entry(c.g, p.command).filter # "true"
       ELSE /\ Entry(c.g, p.command).filter # "false"
            /\ ~Entry(c.g, p.command).restore

(* The parses of the components of a line, the last one with "purpose".    *)
Component(g, l, continuable, purpose, i) ==
  LET parts == SplitPipes(l)
  IN IF i = Len(parts) THEN Parse(g, parts[i], continuable, purpose, i > 1)
     ELSE Parse(g, parts[i], FALSE, "EXEC", i > 1)
Checked(g, l, continuable, purpose) ==
  /\ ~BadPipes(l, continuable)
  /\ \A i \in DOMAIN SplitPipes(l) :
       LET c == Component(g, l, continuable, purpose, i)
       IN CheckLine(c, ParseLine(c), i = 1)

(***************************************************************************)
(* The requests of a session: KTP_CMD, KTP_COMPLETION and KTP_HELP         *)
(***************************************************************************)
Stage(g, l, i) ==
  LET p == ParseLine(Component(g, l, FALSE, "EXEC", i))
  IN [pargs |-> p.pargs, command |-> p.command, level |-> p.level]
ParseForExec(g, l, continuable) ==
  IF Checked(g, l, continuable, "EXEC")
  THEN [req |-> "exec", ok |-> TRUE,
        stages |-> [i \in DOMAIN SplitPipes(l) |-> Stage(g, l, i)]]
  ELSE [req |-> "exec", ok |-> FALSE, stages |-> <<>>]

(* The parse of the last component, when the whole line is sound.          *)
ParseForHint(g, l, continuable, purpose) ==
  ParseLine(Component(g, l, continuable, purpose, Len(SplitPipes(l))))

(* The words that the completion ACTION of an entry, or else of its PTYPE, *)
(* prints.                                                                 *)
Printed(g, e) ==
  IF Entry(g, e).compl # {} THEN Entry(g, e).compl
  ELSE IF Entry(g, e).ptype.sym = "COMMAND" THEN {Entry(g, e).ptype.cmd}
  ELSE {}
ProcessCompletion(g, l, continuable) ==
  LET p == ParseForHint(g, l, continuable, "COMPLETION")
      printed == UNION {Printed(g, e) : e \in ToSet(p.completions)}
  IN IF ~Checked(g, l, continuable, "COMPLETION")
     THEN [req |-> "completion", ok |-> FALSE, words |-> {}]
     ELSE [req |-> "completion", ok |-> TRUE,
           words |-> IF p.last_arg = None THEN printed
                     ELSE printed \cap Begins[p.last_arg]]
ProcessHelp(g, l, continuable) ==
  IF ~Checked(g, l, continuable, "HELP")
  THEN [req |-> "help", ok |-> FALSE, entries |-> {}]
  ELSE [req |-> "help", ok |-> TRUE,
        entries |-> ToSet(ParseForHint(g, l, continuable, "HELP").completions)]

(* A word, and the space behind it.                                        *)
Type(w) ==
  /\ reply.req # "exec"
  /\ ~open
  /\ Len(line) < MaxArgs
  /\ line' = Append(line, w)
  /\ open' = TRUE
  /\ reply' = NoReply
  /\ UNCHANGED scheme
Space ==
  /\ reply.req # "exec"
  /\ open
  /\ open' = FALSE
  /\ reply' = NoReply
  /\ UNCHANGED <<scheme, line>>

Complete ==
  /\ reply.req # "exec"
  /\ reply' = ProcessCompletion(grammar, line, open)
  /\ UNCHANGED <<scheme, line, open>>
Help ==
  /\ reply.req # "exec"
  /\ reply' = ProcessHelp(grammar, line, open)
  /\ UNCHANGED <<scheme, line, open>>
Execute ==
  /\ reply.req # "exec"
  /\ line # <<>>
  /\ reply' = ParseForExec(grammar, line, open)
  /\ UNCHANGED <<scheme, line, open>>
NewLine ==
  /\ reply.req = "exec"
  /\ line' = <<>>
  /\ open' = FALSE
  /\ reply' = NoReply
  /\ UNCHANGED scheme

Init ==
  /\ scheme \in DOMAIN Grammar
  /\ line = <<>>
  /\ open = FALSE
  /\ reply = NoReply
Next ==
  \/ \E w \in grammar.words : Type(w)
  \/ Space \/ Complete \/ Help \/ Execute \/ NewLine
Spec == Init /\ [][Next]_vars

(***************************************************************************)
(* The reference: what the documentation says of ENTRYs, SWITCH, SEQ,      *)
(* "min", "max", "order", "transparent" and filters (docs/klish3.en.md),   *)
(* as a grammar without any search order.  A reading "d" of a line has     *)
(* come to argument "at", has matched the entries "have", and its last     *)
(* ENTRY with ACTIONs is "command".                                        *)
(***************************************************************************)
Present(g, e, d) == Entry(g, e).cond \subseteq d.have
Mandatory(g, e, d) == Entry(g, e).min > 0 /\ Present(g, e, d)
Takes(g, e, args, d) ==
  IF Entry(g, e).container THEN {d}
  ELSE IF d.at <= Len(args) /\ PtypeValue(Entry(g, e).ptype, args[d.at]) # None
  THEN {[at |-> d.at + 1, have |-> d.have \cup {e},
         command |-> IF Entry(g, e).actions THEN e ELSE d.command]}
  ELSE {}
Chosen(g, e, D) ==
  IF Entry(g, e).container THEN {[d EXCEPT !.have = @ \cup {e}] : d \in D}
  ELSE D

RECURSIVE One(_, _, _, _), Times(_, _, _, _, _), Ordered(_, _, _, _, _, _)
One(g, e, args, d) ==
  LET kids == Entry(g, e).kids
      Nested(x) ==
        CASE kids = <<>> \/ Entry(g, e).mode = "empty" -> {x}
          [] kids # <<>> /\ Entry(g, e).mode = "switch" ->
               Chosen(g, e, UNION {One(g, k, args, x) : k \in ToSet(kids)})
          [] OTHER -> Ordered(g, e, args, x, {}, 0)
  IN IF Present(g, e, d) THEN UNION {Nested(x) : x \in Takes(g, e, args, d)}
     ELSE {}
Times(g, e, args, D, n) ==
  IF n = 0 THEN D
  ELSE Times(g, e, args, UNION {One(g, e, args, d) : d \in D}, n - 1)

(* The nested entries of a sequence, "past" being the last mandatory or    *)
(* ordered one of those "done": optional entries come in any order, each   *)
(* between the mandatory ones around it.                                   *)
Ordered(g, e, args, d, done, past) ==
  LET kids == Entry(g, e).kids
      Waits(i) == i \notin done /\ Mandatory(g, kids[i], d)
      next == {i \in DOMAIN kids \ done :
                 i > past /\ ~\E j \in (past + 1)..(i - 1) : Waits(j)}
      After(i) ==
        LET k == Entry(g, kids[i])
            D == UNION {Times(g, kids[i], args, {d}, n) :
                          n \in (IF k.min > 0 THEN k.min ELSE 1)..k.max}
        IN UNION {Ordered(g, e, args, x, done \cup {i},
                          IF k.min > 0 \/ k.order THEN i ELSE past) :
                    x \in Chosen(g, e, D)}
  IN (IF \E i \in DOMAIN kids : i > past /\ Waits(i) THEN {} ELSE {d})
       \cup UNION {After(i) : i \in next}

Readings(g, level, args) ==
  {d \in One(g, g.path[level], args,
             [at |-> 1, have |-> {}, command |-> None]) :
     d.at = Len(args) + 1 /\ d.command # None}
Reachable(g, level) ==
  \A i \in (level + 1)..Len(g.path) : Entry(g, g.path[i]).transparent
FitsPipe(g, e, i) ==
  IF i = 1 THEN Entry(g, e).filter # "true"
  ELSE Entry(g, e).filter # "false" /\ ~Entry(g, e).restore
Legal(g, l) ==
  \A i \in DOMAIN SplitPipes(l) :
    \E level \in DOMAIN g.path :
      /\ Reachable(g, level)
      /\ \E d \in Readings(g, level, SplitPipes(l)[i]) :
           FitsPipe(g, d.command, i)

(* A word that two entries accept: the first one in the scheme gets it.    *)
Clear(g) ==
  \A w \in g.words \ {Pipe} :
    Cardinality({e \in DOMAIN g.entry :
                   ~Entry(g, e).container
                     /\ PtypeValue(Entry(g, e).ptype, w) # None}) <= 1

(***************************************************************************)
(* Properties                                                              *)
(***************************************************************************)
(* A line is executed only if the scheme, read as the documentation says,  *)
(* allows every component of it: every word belongs to an ENTRY, mandatory *)
(* ones are there, only one of a SWITCH, "min" and "max" hold, and the     *)
(* ACTIONs run are those of the last ENTRY that has some, found at a level *)
(* that no opaque one hides; filters are behind pipes and nowhere else     *)
(* (ksession_parse_for_exec()).                                            *)
AcceptedIsDocumented ==
  reply.req = "exec" /\ reply.ok =>
    \A i \in DOMAIN reply.stages :
      LET stage == reply.stages[i]
          args == SplitPipes(line)[i]
          words == SelectSeq(stage.pargs,
                     LAMBDA p : ~Entry(grammar, p.entry).container)
      IN /\ \E d \in Readings(grammar, stage.level, args) :
               /\ d.command = stage.command
               /\ d.have = {p.entry : p \in ToSet(stage.pargs)}
         /\ Reachable(grammar, stage.level)
         /\ FitsPipe(grammar, stage.command, i)
         /\ Len(words) = Len(args)
         /\ \A j \in DOMAIN args :
              words[j].value =
                PtypeValue(Entry(grammar, words[j].entry).ptype, args[j])

(* And conversely: where no word fits two ENTRYs, the search never misses  *)
(* a legal reading of the line, whatever order optional parameters are     *)
(* typed in and whichever level the command is on.                         *)
DocumentedIsAccepted ==
  reply.req = "exec" /\ ~reply.ok /\ Clear(grammar)
    /\ ~BadPipes(line, open) =>
    ~Legal(grammar, line)

(* The line with its unfinished word replaced by others.                   *)
Base == IF open THEN Front(line) ELSE line
Accepted(l) == ParseForExec(grammar, l, FALSE).ok
Extensions == UNION {[1..n -> grammar.words] : n \in 0..MoreArgs}

(* No suggestion is a dead end: from every word offered some command can   *)
(* be completed (ktpd_session_process_completion()); except a command with *)
(* restore="true", which is offered as a filter and then refused.          *)
SuggestionsLeadToCommands ==
  reply.req = "completion" =>
    \A w \in reply.words :
      \/ \E x \in Extensions : Accepted(Append(Base, w) \o x)
      \/ \E e \in DOMAIN grammar.entry :
           Entry(grammar, e).restore /\ w \in Printed(grammar, e)

(* Nothing is hidden: a word that begins like the unfinished one and from  *)
(* which a command can be completed is offered, if its ENTRY prints it at  *)
(* all.  On an empty line only the commands of the current level are.      *)
NothingHidden ==
  reply.req = "completion" /\ reply.ok =>
    \A w \in grammar.words \ (reply.words \cup {Pipe}) :
      (open => w \in Begins[Last(line)]) =>
      \A x \in Extensions :
        LET l == Append(Base, w) \o x
            n == Len(SplitPipes(Append(Base, w)))
            stage == ParseForExec(grammar, l, FALSE).stages[n]
            at == Len(SplitPipes(Append(Base, w))[n])
            words == SelectSeq(stage.pargs,
                       LAMBDA p : ~Entry(grammar, p.entry).container)
        IN Accepted(l) =>
             \/ w \notin Printed(grammar, words[at].entry)
             \/ at = 1 /\ ~open /\ stage.level < Len(grammar.path)

=============================================================================
