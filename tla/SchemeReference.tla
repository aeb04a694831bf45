--------------------------- MODULE SchemeReference ---------------------------
(***************************************************************************)
(* What the configuration files mean, beside what Scheme makes of them: a  *)
(* reference leads through other links to the ENTRY it names, and a        *)
(* command has the PTYPE written for it.  References make this recursive,  *)
(* and so it is for TLC only.                                              *)
(***************************************************************************)
EXTENDS Scheme

(* A reference names an ENTRY as if every link on the way were a copy.     *)
RECURSIVE Copied(_), Named(_)
Copied(id) ==
  IF id = NoEntry \/ Ref(id) = None THEN id ELSE Copied(Named(Ref(id)))
Named(path) ==
  IF Len(path) = 1 THEN KidNamed(scheme.top, path[1])
  ELSE LET up == Copied(Named(Front(path)))
       IN IF up = NoEntry THEN NoEntry ELSE KidNamed(Entry(up).kids, Last(path))

LinksLead == \A id \in Live : Ref(id) # None => Copied(id) # NoEntry
Sound == WellWritten /\ PluginsLoad /\ ActionsFit /\ LinksLead

(* The daemon starts with a scheme exactly when it is sound, unless that   *)
(* is disputed: all that Verdict says of its own ENTRYs, and each          *)
(* reference names an ENTRY, as it would if every link were a copy of what *)
(* it names (docs/klish3.en.md, on links; kscheme_prepare_entry()).        *)
AcceptsWhatIsSound ==
  /\ phase = "ready" => Sound
  /\ phase = "failed" => ~Sound \/ Disputed

(* A command matches its own name only while no PTYPE is written for it,   *)
(* in whichever file: the PTYPE used is never the automatic one then, and  *)
(* always one that can check an argument (process_command()).              *)
PtypesAsWritten ==
  \A x \in EntriesAmong(Elements) :
    LET id == IdOf(x)
        ptype == Entry(id).nested["ptype"]
        written == {y \in EntriesAmong(Elements) : y.el.tag = "PTYPE" /\ y.in = id}
        syms == {a.sym : a \in ToSet(Entry(Entry(ptype).lists).actions)}
    IN x.el.tag \in {"COMMAND", "FILTER"} /\ id \in Live /\ Ref(id) = None =>
         /\ ptype # NoEntry /\ Entry(ptype).lists \notin freed
         /\ ("COMMAND" \in syms) = (written = {})

(* What a link takes over.  When the scheme is ready, a link has the       *)
(* nested ENTRYs and ACTIONs of the ENTRY it names, through whatever       *)
(* links, which were not freed and are bound to symbols, and the mode and  *)
(* the filter rule of that ENTRY; its help and its value are those written *)
(* for the link, else those of that ENTRY; in whichever order link and     *)
(* target were prepared (kentry_link()).  Of container, purpose, min, max, *)
(* restore, transparent and order, which the link keeps as its own, and of *)
(* what a link on the way gives, nothing is claimed.                       *)
WrittenFor(id, a) ==
  {x \in EntriesAmong(Elements) : IdOf(x) = id /\ a \in DOMAIN Ientry(x.el)}
Filled(id, a) ==
  LET own == WrittenFor(id, a)
      last == {x \in own : \A y \in own : ~After(y, x)}
      direct == Named(Ref(id))
  IN IF own # {} THEN \E x \in last : Entry(id).attr[a] = Ientry(x.el)[a]
     ELSE Ref(direct) = None => Entry(id).attr[a] = Entry(direct).attr[a]
LinksResolved ==
  \A id \in Live :
    LET named == Copied(id)
    IN /\ Entry(id).lists = named /\ named \in Live
       /\ Entry(id).attr.mode = Entry(named).attr.mode
       /\ Entry(id).attr.filter = Entry(named).attr.filter
       /\ Ref(id) # None => Filled(id, "help") /\ Filled(id, "value")

(* What a ready scheme offers at a place was written for it, there or at   *)
(* what a link names: links are resolved and can be run, and a command has *)
(* the PTYPE written for it, else its own.  A scheme that is sound, and    *)
(* not disputed, is refused only for a link that leads nowhere.            *)
PreparedAsWritten ==
  /\ phase = "ready" => LinksResolved /\ PtypesAsWritten
  /\ LinksRun
  /\ phase = "failed" => ~Sound \/ Disputed

=============================================================================
