------------------------------- MODULE Scheme -------------------------------
(***************************************************************************)
(* How klishd makes its scheme: the XML files of a data base are read      *)
(* element by element into ENTRYs (klish/xml-helper/load.c), or the        *)
(* compiled-in structures of the "ischeme" one are (klish/ischeme/); then  *)
(* kscheme_prepare() binds ACTIONs to the symbols of plugins, resolves     *)
(* references and finds the LOG of each ENTRY (klish/kscheme/).            *)
(*                                                                         *)
(* A file is the sequence of its tags: an opening one has a name and       *)
(* attributes, Close ends the innermost.  An ENTRY is identified by the    *)
(* names on the way to it.  A reference makes an ENTRY share the lists of  *)
(* another: "lists" is the owner of the lists that an ENTRY uses.          *)
(***************************************************************************)
EXTENDS Integers, Sequences, FiniteSets, SequencesExt

CONSTANTS
  Inputs,   \* the configurations, each a sequence of files
  Plugin,   \* the shared objects: whether they load, and their symbols
  Order,    \* the names of plugins, sorted
  None      \* an absent value

VARIABLES
  input,    \* the configuration of this behaviour
  file, at, \* the file and the tag read next
  stack,    \* the open elements: [tag, id]
  scheme,   \* the scheme: [plugins, top, entry]
  phase,    \* "load", "prepare", "ready" or "failed"
  ret,      \* no error so far
  tops,     \* the number of top level ENTRYs prepared
  todo,     \* the ENTRYs to prepare next, an agenda in tree order
  target,   \* where the reference of Head(todo) has been followed to
  freed     \* the ENTRYs freed

vars == <<input, file, at, stack, scheme, phase, ret, tops, todo, target, freed>>
loading == <<file, at, stack>>
preparing == <<tops, todo, target, freed>>

NoEntry == <<>>
Close == [tag |-> "/"]

(* f with the values of g where f has none.                                *)
Over(f, g) == [x \in DOMAIN f \cup DOMAIN g |-> IF x \in DOMAIN f THEN f[x] ELSE g[x]]

(***************************************************************************)
(* The tags: the attributes the code reads and the ones it sets itself.    *)
(***************************************************************************)
Special == [COND |-> "cond", COMPL |-> "completion", HELP |-> "help",
            PROMPT |-> "prompt", LOG |-> "log"]
SpecialName == [COND |-> "__cond", COMPL |-> "__compl", HELP |-> "__help",
                PROMPT |-> "__prompt", LOG |-> "__log"]
CommandTags == {"COMMAND", "FILTER"} \cup DOMAIN Special
ParamTags == {"PARAM", "SWITCH", "SEQ"}
Purposes == {"common", "ptype"} \cup {Special[t] : t \in DOMAIN Special}

Reads(tag) ==
  CASE tag = "ENTRY" -> {"name", "help", "container", "mode", "purpose", "min",
                         "max", "ref", "value", "restore", "transparent",
                         "order", "filter"}
    [] tag = "VIEW" -> {"name", "help", "ref", "transparent"}
    [] tag = "PTYPE" -> {"name", "help", "ref", "value"}
    [] tag \in ParamTags ->
         {"name", "help", "min", "max", "ref", "value", "order"}
           \cup (IF tag = "PARAM" THEN {"mode"} ELSE {})
    [] tag \in CommandTags ->
         {"name", "help", "mode", "min", "max", "ref", "filter"}
           \cup (IF tag \in DOMAIN Special THEN {} ELSE {"value", "restore"})

ForView == [container |-> "true", mode |-> "switch", purpose |-> "common",
            min |-> "1", max |-> "1", restore |-> "false", order |-> "false",
            filter |-> "false"]
ForPtype == [container |-> "true", mode |-> "sequence", purpose |-> "ptype",
             min |-> "1", max |-> "1", restore |-> "false",
             transparent |-> "true", order |-> "true", filter |-> "false"]
ForParam(tag) ==
  Over([purpose |-> "common", restore |-> "false", transparent |-> "true",
        filter |-> "false",
        container |-> IF tag = "PARAM" THEN "false" ELSE "true"],
       CASE tag = "PARAM" -> <<>>
         [] tag = "SWITCH" -> [mode |-> "switch"]
         [] tag = "SEQ" -> [mode |-> "sequence"])
ForCommand(tag) ==
  Over([container |-> "false", transparent |-> "true", order |-> "false",
        purpose |-> IF tag \in DOMAIN Special THEN Special[tag] ELSE "common",
        filter |-> IF tag = "FILTER" THEN "true" ELSE "false"],
       IF tag \in DOMAIN Special
       THEN [name |-> SpecialName[tag], restore |-> "false"] ELSE <<>>)
Forced(el) ==
  CASE el.tag = "ENTRY" -> <<>>
    [] el.tag = "VIEW" -> ForView
    [] el.tag = "PTYPE" ->
         Over(ForPtype, IF "ref" \in DOMAIN el.attr THEN [name |-> "__ptype"]
                        ELSE <<>>)
    [] el.tag \in ParamTags -> ForParam(el.tag)
    [] el.tag \in CommandTags -> ForCommand(el.tag)

(* ientry_t: what an element says of its ENTRY.                            *)
Ientry(el) ==
  Over([a \in DOMAIN el.attr \cap Reads(el.tag) |-> el.attr[a]], Forced(el))
Legal(info) == \A a \in DOMAIN info : info[a] # "illegal"

Defaults ==
  [container |-> "false", mode |-> "sequence", purpose |-> "common",
   min |-> "1", max |-> "1", restore |-> "false", transparent |-> "true",
   order |-> "false", filter |-> "false", help |-> None, ref |-> None,
   value |-> None]

(* ientry_parse(): the attributes given replace those of the ENTRY.        *)
MergeResets(info, attr) == Over(info, Defaults)   \* mutant
Merge(info, attr) == Over(info, attr)
Kentry(id, parent, attr) ==
  [attr |-> attr, parent |-> parent, lists |-> id,
   kids |-> <<>>, actions |-> <<>>, hotkeys |-> <<>>,
   nested |-> [p \in Purposes |-> NoEntry]]

(* An ENTRY found by its name gets the attributes, else there is a new one.*)
AddKid(s, up, id, e) ==
  LET added == [s EXCEPT !.entry =
                  [x \in DOMAIN @ \cup {id} |-> IF x = id THEN e ELSE @[x]]]
  IN IF up = NoEntry THEN [added EXCEPT !.top = Append(@, id)]
     ELSE [added EXCEPT !.entry[up].kids = Append(@, id)]
AddEntry(s, up, info) ==
  LET id == Append(up, info.name)
  IN IF id \in DOMAIN s.entry
     THEN [s EXCEPT !.entry[id].attr = Merge(info, @)]
     ELSE AddKid(s, up, id, Kentry(id, up, Merge(info, Defaults)))

(* create_ptype(): ENTRYs without a parent, dropped when the name is taken.*)
Action(sym, plugin) ==
  [sym |-> sym, plugin |-> plugin, sync |-> "undef", bound |-> None]
Hidden(s, up, name, purpose, ref, actions) ==
  LET id == Append(up, name)
  IN AddKid(s, up, id,
       [Kentry(id, NoEntry, [Defaults EXCEPT !.purpose = purpose, !.ref = ref])
          EXCEPT !.actions = actions])
CreatePtypeLink(s, id, ref) ==
  IF Append(id, "__ptype") \in DOMAIN s.entry THEN s
  ELSE Hidden(s, id, "__ptype", "ptype", ref, <<>>)
CreatePtypeCommand(s, id) ==
  IF Append(id, "__ptype") \in DOMAIN s.entry THEN s
  ELSE LET p == Append(id, "__ptype")
           s1 == Hidden(s, id, "__ptype", "ptype", None,
                        <<Action("COMMAND", "klish")>>)
           s2 == Hidden(s1, p, "__compl", "completion", None,
                        <<Action("completion_COMMAND", "klish")>>)
       IN Hidden(s2, p, "__help", "help", None,
                 <<Action("help_COMMAND", "klish")>>)
HasPtypeByName(s, id) == Append(id, "__ptype") \in DOMAIN s.entry   \* mutant
HasPtype(s, id) ==
  \E i \in DOMAIN s.entry[id].kids :
    s.entry[s.entry[id].kids[i]].attr.purpose = "ptype"

(***************************************************************************)
(* The elements that the tag i is inside of, from the root on, each with   *)
(* its tag and, for one that stands for an ENTRY, the name of that; tag j  *)
(* ends element i when one is back where one was before it.                *)
(***************************************************************************)
IsEntryTag(tag) == tag \in {"ENTRY", "VIEW", "PTYPE"} \cup ParamTags \cup CommandTags
NameOf(el) == LET info == Ientry(el)
              IN IF "name" \in DOMAIN info THEN info.name ELSE None
Opened(el) ==
  [tag |-> el.tag, name |-> IF IsEntryTag(el.tag) THEN NameOf(el) ELSE None]
Where(tags) ==
  LET W[i \in 1..(Len(tags) + 1)] ==
        IF i = 1 THEN <<[tag |-> "KLISH", name |-> None]>>
        ELSE IF tags[i - 1].tag = "/" THEN Front(W[i - 1])
        ELSE Append(W[i - 1], Opened(tags[i - 1]))
  IN W
Ends(tags, i, j) ==
  /\ Where(tags)[j + 1] = Where(tags)[i]
  /\ \A k \in i..(j - 1) : Len(Where(tags)[k + 1]) > Len(Where(tags)[i])

(* A file that can be parsed is a tree of elements: each is closed, within *)
(* the one around it, and a reference is a path, the names between "/".    *)
IsSeq(s) == s \in Seq(ToSet(s))
WellFormed(tags) ==
  /\ IsSeq(tags)
  /\ \A i \in 1..(Len(tags) + 1) : Where(tags)[i] # <<>>
  /\ \A i \in DOMAIN tags : tags[i].tag # "/" =>
       /\ \E j \in i..Len(tags) : Ends(tags, i, j)
       /\ \A a \in DOMAIN tags[i].attr \cap {"ref", "ptype"} : IsSeq(tags[i].attr[a])
ASSUME InputsAssumption ==
  \A c \in Inputs : IsSeq(c) /\ \A f \in DOMAIN c : WellFormed(c[f].tags)
ASSUME OrderAssumption ==
  IsSeq(Order) /\ ToSet(Order) = DOMAIN Plugin

(***************************************************************************)
(* Loading: each action is the handler of the tag at "at".                 *)
(***************************************************************************)
Reading ==
  phase = "load" /\ file <= Len(input) /\ stack # <<>>
    /\ at <= Len(input[file].tags)
Elem == input[file].tags[at]
Up == Last(stack)
Xml == input[file].db = "xml"

(* An error ends an XML file at once; the next files are read to report    *)
(* their errors too.  The ischeme loader skips the element.                *)
EndOf == CHOOSE j \in at..Len(input[file].tags) : Ends(input[file].tags, at, j)
Reject ==
  /\ ret' = FALSE
  /\ IF Xml THEN file' = file + 1 /\ at' = 1 /\ stack' = <<>>
     ELSE at' = EndOf + 1 /\ UNCHANGED <<file, stack>>
  /\ UNCHANGED <<input, scheme, phase, preparing>>
Accept(s, id) ==
  /\ scheme' = s
  /\ stack' = Append(stack, [tag |-> Elem.tag, id |-> id])
  /\ at' = at + 1
  /\ UNCHANGED <<input, file, phase, ret, preparing>>

ReadFile ==
  /\ phase = "load" /\ file <= Len(input) /\ stack = <<>>
  /\ IF input[file].valid
     THEN stack' = <<[tag |-> "KLISH", id |-> NoEntry]>> /\ UNCHANGED <<file, ret>>
     ELSE file' = file + 1 /\ ret' = FALSE /\ UNCHANGED stack
  /\ UNCHANGED <<input, at, scheme, phase, preparing>>
FileReadForgets ==   \* mutant
  /\ phase = "load" /\ file <= Len(input) /\ stack # <<>>
  /\ at > Len(input[file].tags)
  /\ file' = file + 1 /\ at' = 1 /\ stack' = <<>> /\ ret' = TRUE
  /\ UNCHANGED <<input, scheme, phase, preparing>>
FileRead ==
  /\ phase = "load" /\ file <= Len(input) /\ stack # <<>>
  /\ at > Len(input[file].tags)
  /\ file' = file + 1 /\ at' = 1 /\ stack' = <<>>
  /\ UNCHANGED <<input, scheme, phase, ret, preparing>>
UnknownTag ==
  /\ Reading /\ Elem.tag = "unknown"
  /\ Reject

(* add_entry_to_hierarchy()                                                *)
CanAdd(info) ==
  /\ "name" \in DOMAIN info
  /\ Up.tag \notin {"ACTION", "PLUGIN"}
  /\ Legal(info)
EntryId == Append(Up.id, Ientry(Elem).name)
EntryAdded == AddEntry(scheme, Up.id, Ientry(Elem))
Enter(tags, s) ==
  /\ Reading /\ Elem.tag \in tags
  /\ IF CanAdd(Ientry(Elem)) THEN Accept(s, EntryId) ELSE Reject
ProcessEntry == Reading /\ Xml /\ Enter({"ENTRY"}, EntryAdded)
ProcessView == Enter({"VIEW"}, EntryAdded)
ProcessPtype == Enter({"PTYPE"}, EntryAdded)
ProcessParam ==
  Enter(ParamTags,
        IF "ptype" \in DOMAIN Elem.attr
        THEN CreatePtypeLink(EntryAdded, EntryId, Elem.attr.ptype)
        ELSE EntryAdded)
ProcessCommand == Enter(CommandTags, EntryAdded)

(* An ENTRY of the ischeme data base.                                      *)
ParseIentry == Reading /\ ~Xml /\ Enter({"ENTRY"}, EntryAdded)

(* The end of an element: a command without PTYPE gets that of commands.   *)
CloseElement ==
  /\ Reading /\ Elem.tag = "/"
  /\ scheme' = IF Up.tag \in CommandTags /\ ~HasPtype(scheme, Up.id)
               THEN CreatePtypeCommand(scheme, Up.id) ELSE scheme
  /\ stack' = Front(stack) /\ at' = at + 1
  /\ UNCHANGED <<input, file, phase, ret, preparing>>

ProcessAction ==
  /\ Reading /\ Elem.tag = "ACTION"
  /\ IF /\ IsEntryTag(Up.tag) /\ Up.tag \notin {"VIEW", "SWITCH", "SEQ"}
        /\ Legal(Elem.attr)
     THEN Accept([scheme EXCEPT !.entry[Up.id].actions =
                    Append(@, Over(Elem.attr, Action(None, None)))], Up.id)
     ELSE Reject
(* What is inside of a HOTKEY is not looked at.                            *)
ProcessHotkey ==
  /\ Reading /\ Elem.tag = "HOTKEY"
  /\ IF /\ Up.tag \in {"ENTRY", "VIEW"}
        /\ {"key", "cmd"} \subseteq DOMAIN Elem.attr
        /\ Elem.attr.key \notin ToSet(scheme.entry[Up.id].hotkeys)
     THEN /\ scheme' = [scheme EXCEPT !.entry[Up.id].hotkeys =
                          Append(@, Elem.attr.key)]
          /\ at' = EndOf + 1
          /\ UNCHANGED <<input, file, stack, phase, ret, preparing>>
     ELSE Reject
ProcessPlugin ==
  /\ Reading /\ Elem.tag = "PLUGIN"
  /\ IF /\ Up.tag = "KLISH" /\ "name" \in DOMAIN Elem.attr
        /\ Elem.attr.name \notin scheme.plugins
     THEN Accept([scheme EXCEPT !.plugins = @ \cup {Elem.attr.name}], NoEntry)
     ELSE Reject

(***************************************************************************)
(* kscheme_prepare()                                                       *)
(***************************************************************************)
Entry(id) == scheme.entry[id]
Ref(id) == Entry(id).attr.ref
Kids(id) == Entry(Entry(id).lists).kids

(* load_all_dbs() goes on with a scheme loaded without errors; then the    *)
(* plugins are loaded and initialized.                                     *)
StartPrepare ==
  /\ phase = "load" /\ file > Len(input)
  /\ phase' = IF ret /\ \A p \in scheme.plugins : p \in DOMAIN Plugin /\ Plugin[p].loads
              THEN "prepare" ELSE "failed"
  /\ UNCHANGED <<input, loading, scheme, ret, preparing>>

(* Without a plugin named, the first one that exports the symbol.          *)
Exports(p, sym) == p \in scheme.plugins /\ sym \in DOMAIN Plugin[p].sym
FindSym(a) ==
  LET exporters == {i \in DOMAIN Order : Exports(Order[i], a.sym)}
  IN IF a.plugin # None
     THEN IF Exports(a.plugin, a.sym) THEN a.plugin ELSE None
     ELSE IF exporters = {} THEN None ELSE Order[Min(exporters)]
IsSync(a) ==
  LET own == Plugin[a.bound].sym[a.sym]
  IN (IF own = "undef" THEN a.sync ELSE own) = "true"
Bind(a) == [a EXCEPT !.bound = FindSym(a)]
ActionFits(e, a) ==
  a.bound # None /\ (e.attr.filter # "false" => ~IsSync(a))

LastFor(ids, purpose) ==
  LET found == {i \in DOMAIN ids : Entry(ids[i]).attr.purpose = purpose}
  IN IF found = {} THEN NoEntry ELSE ids[Max(found)]
NestedForGlobal(id, purpose) ==   \* mutant
  LET found == LastFor(Entry(id).kids, purpose)
  IN IF found = NoEntry /\ purpose = "log" THEN LastFor(scheme.top, "log")
     ELSE found
NestedFor(id, purpose) ==
  LET e == Entry(id)
      found == LastFor(e.kids, purpose)
  IN IF found # NoEntry THEN found
     ELSE IF purpose # "log" THEN e.nested[purpose]
     ELSE IF e.parent # NoEntry THEN Entry(Entry(e.parent).lists).nested["log"]
     ELSE LastFor(scheme.top, "log")

PrepareEntry ==
  /\ phase = "prepare" /\ todo # <<>> /\ Ref(Head(todo)) = None
  /\ LET id == Head(todo)
         actions == [i \in DOMAIN Entry(id).actions |-> Bind(Entry(id).actions[i])]
     IN /\ scheme' = [scheme EXCEPT !.entry[id].actions = actions,
                        !.entry[id].nested =
                           [p \in Purposes |-> NestedFor(id, p)]]
        /\ ret' = (ret /\ \A i \in DOMAIN actions : ActionFits(Entry(id), actions[i]))
        /\ todo' = Entry(id).kids \o Tail(todo)
  /\ UNCHANGED <<input, loading, phase, tops, target, freed>>

(* kscheme_find_entry_by_path(): a path goes through the lists of links.   *)
KidNamed(ids, name) ==
  LET found == {i \in DOMAIN ids : Last(ids[i]) = name}
  IN IF found = {} THEN NoEntry ELSE ids[Min(found)]
FindEntryByPath(path) ==
  LET F[i \in 1..Len(path)] ==
        IF i = 1 THEN KidNamed(scheme.top, path[1])
        ELSE IF F[i - 1] = NoEntry THEN NoEntry
        ELSE KidNamed(Kids(F[i - 1]), path[i])
  IN IF path = <<>> THEN NoEntry ELSE F[Len(path)]

(* The reference is followed to an ENTRY that is not one itself.           *)
FromStart == Head(todo)   \* mutant
From == IF target = NoEntry THEN Head(todo) ELSE target
Follow ==
  /\ phase = "prepare" /\ todo # <<>> /\ Ref(Head(todo)) # None
  /\ Ref(From) # None
  /\ LET found == FindEntryByPath(Ref(From))
     IN IF found = NoEntry
        THEN ret' = FALSE /\ todo' = Tail(todo) /\ target' = NoEntry
        ELSE target' = found /\ UNCHANGED <<ret, todo>>
  /\ UNCHANGED <<input, loading, scheme, phase, tops, freed>>

(* kentry_link(): the lists of the link are freed with what is in them.    *)
LinkKeepsFilter ==   \* mutant
  /\ phase = "prepare" /\ todo # <<>> /\ target # NoEntry
  /\ Ref(target) = None
  /\ scheme' = [scheme EXCEPT
       !.entry[Head(todo)].lists = Entry(target).lists,
       !.entry[Head(todo)].attr.mode = Entry(target).attr.mode]
  /\ freed' = freed \cup {x \in DOMAIN scheme.entry :
                            x # Head(todo) /\ IsPrefix(Head(todo), x)}
  /\ todo' = Tail(todo)
  /\ target' = NoEntry
  /\ UNCHANGED <<input, loading, phase, ret, tops>>
KentryLink(e, src) ==
  LET attr == [e.attr EXCEPT !.mode = src.attr.mode,
                 !.filter = src.attr.filter,
                 !.help = IF @ = None THEN src.attr.help ELSE @,
                 !.value = IF @ = None THEN src.attr.value ELSE @]
  IN [e EXCEPT !.lists = src.lists, !.attr = attr]
Link ==
  /\ phase = "prepare" /\ todo # <<>> /\ target # NoEntry
  /\ Ref(target) = None
  /\ LET id == Head(todo)
     IN /\ scheme' = [scheme EXCEPT !.entry[id] = KentryLink(@, Entry(target))]
        /\ freed' = freed \cup {x \in DOMAIN scheme.entry :
                                  x # id /\ IsPrefix(id, x)}
        /\ todo' = Tail(todo)
  /\ target' = NoEntry
  /\ UNCHANGED <<input, loading, phase, ret, tops>>

NextTop ==
  /\ phase = "prepare" /\ todo = <<>>
  /\ IF ret /\ tops < Len(scheme.top)
     THEN todo' = <<scheme.top[tops + 1]>> /\ tops' = tops + 1 /\ UNCHANGED phase
     ELSE phase' = (IF ret THEN "ready" ELSE "failed") /\ UNCHANGED <<todo, tops>>
  /\ UNCHANGED <<input, loading, scheme, ret, target, freed>>

Init ==
  /\ input \in Inputs
  /\ file = 1 /\ at = 1 /\ stack = <<>>
  /\ scheme = [plugins |-> {}, top |-> <<>>, entry |-> <<>>]
  /\ phase = "load" /\ ret = TRUE
  /\ tops = 0 /\ todo = <<>> /\ target = NoEntry /\ freed = {}
Next ==
  \/ ReadFile \/ FileRead \/ UnknownTag
  \/ ProcessEntry \/ ProcessView \/ ProcessPtype \/ ProcessParam
  \/ ProcessCommand \/ ParseIentry \/ CloseElement
  \/ ProcessAction \/ ProcessHotkey \/ ProcessPlugin
  \/ StartPrepare \/ PrepareEntry \/ Follow \/ Link \/ NextTop
Spec == Init /\ [][Next]_vars
FairSpec == Spec /\ WF_vars(Next)

(***************************************************************************)
(* What a sound configuration is.  Its elements are the tags that open one *)
(* and are looked at, each with the tag around it and the ENTRY it is in.  *)
(***************************************************************************)
Names(where) == [i \in 1..(Len(where) - 1) |-> where[i + 1].name]
LookedAt(tags) ==
  {i \in DOMAIN tags :
     /\ tags[i].tag # "/"
     /\ \A k \in DOMAIN Where(tags)[i] : Where(tags)[i][k].tag # "HOTKEY"}
Element(f, i) ==
  LET where == Where(input[f].tags)[i]
  IN [file |-> f, at |-> i, el |-> input[f].tags[i],
      up |-> Last(where).tag, in |-> Names(where)]
Elements ==
  UNION {{Element(f, i) : i \in LookedAt(input[f].tags)} : f \in DOMAIN input}
IdOf(x) == Append(x.in, NameOf(x.el))

(* Where the manual and the loader disagree, a configuration is sound but  *)
(* disputed, and may be taken or refused.  The manual writes containers,   *)
(* types and links without a name (docs/klish3.en.md:804, 814, 1043, 1081, *)
(* 1110), which the loader refuses, and forbids a second LOG at one level  *)
(* (docs/klish3.en.md:1270), which it takes.                               *)
HasName(el) == "name" \in DOMAIN Ientry(el)
MayBeUnnamed(el) ==
  \/ el.tag \in {"SWITCH", "SEQ", "PTYPE"}
  \/ el.tag \in {"VIEW", "COMMAND"} /\ "ref" \in DOMAIN el.attr
Unnamed == \E x \in Elements : IsEntryTag(x.el.tag) /\ ~HasName(x.el)
TwoLogs ==
  \E x, y \in Elements :
    /\ <<x.file, x.at>> # <<y.file, y.at>> /\ x.in = y.in
    /\ x.el.tag = "LOG" /\ y.el.tag = "LOG"
Disputed == Unnamed \/ TwoLogs

Fits(x) ==
  LET el == x.el
  IN /\ el.tag # "unknown"
     /\ IsEntryTag(el.tag) =>
          /\ HasName(el) \/ MayBeUnnamed(el)
          /\ Legal(Ientry(el)) /\ x.up \notin {"ACTION", "PLUGIN"}
     /\ el.tag = "ACTION" =>
          x.up \in CommandTags \cup {"ENTRY", "PARAM", "PTYPE"} /\ Legal(el.attr)
     /\ el.tag = "HOTKEY" =>
          x.up \in {"ENTRY", "VIEW"} /\ {"key", "cmd"} \subseteq DOMAIN el.attr
     /\ el.tag = "PLUGIN" => x.up = "KLISH" /\ "name" \in DOMAIN el.attr
Clash(x, y) ==
  /\ <<x.file, x.at>> # <<y.file, y.at>>
  /\ x.el.tag = y.el.tag
  /\ \/ x.el.tag = "PLUGIN" /\ x.el.attr.name = y.el.attr.name
     \/ x.el.tag = "HOTKEY" /\ x.in = y.in /\ x.el.attr.key = y.el.attr.key
WellWritten ==
  LET all == Elements
  IN /\ \A f \in DOMAIN input : input[f].valid
     /\ \A x \in all : Fits(x)
     /\ \A x, y \in all : ~Clash(x, y)

(* The ENTRYs that are not below a link.                                   *)
Live == DOMAIN scheme.entry
          \ {id \in DOMAIN scheme.entry :
               \E l \in DOMAIN scheme.entry :
                 Ref(l) # None /\ l # id /\ IsPrefix(l, id)}
PluginsLoad ==
  \A p \in scheme.plugins : p \in DOMAIN Plugin /\ Plugin[p].loads
ActionsFit ==
  \A id \in Live :
    Ref(id) = None =>
      \A a \in ToSet(Entry(id).actions) : ActionFits(Entry(id), Bind(a))

(***************************************************************************)
(* Properties                                                              *)
(***************************************************************************)

(* Loading reports an error exactly when there is one: all files are valid *)
(* and every element of every file is where the tags allow it, complete,   *)
(* and no second PLUGIN or HOTKEY of the same name or key.  An error in    *)
(* one file is not forgotten while the next ones are read, and none is     *)
(* reported for what an earlier file says (kxml_load_scheme()).  Of what   *)
(* is disputed between the manual and the loader, nothing is claimed.      *)
LoadVerdict ==
  phase = "load" /\ file > Len(input) =>
    /\ ret => WellWritten
    /\ ~ret => ~WellWritten \/ Disputed

(* The daemon starts only with a scheme that is sound: all of LoadVerdict, *)
(* all plugins load, every ACTION has a symbol and no filter a synchronous *)
(* one, at whatever depth; and a scheme without links is refused only if   *)
(* one of that is not so or is disputed (kscheme_prepare()).               *)
Verdict ==
  LET sound == WellWritten /\ PluginsLoad /\ ActionsFit
  IN /\ LoadVerdict
     /\ phase = "ready" => sound
     /\ phase = "failed" => ~sound \/ Disputed \/ \E id \in Live : Ref(id) # None

(* Files and repeated elements add up: each element has its ENTRY with the *)
(* attributes that the last element of that name gives, where one that a   *)
(* later element does not give is kept, and the ACTIONs of all of them in  *)
(* the order of the files; what else is read, and what the loader adds     *)
(* itself, disturbs none (add_entry_to_hierarchy(), ientry_parse()).       *)
EntriesAmong(xs) == {x \in xs : IsEntryTag(x.el.tag)}
ActionsAmong(xs) == {x \in xs : x.el.tag = "ACTION"}
After(x, y) == y.file < x.file \/ (y.file = x.file /\ y.at < x.at)
AttrsLoaded(xs) ==
  \A x \in EntriesAmong(xs) :
    /\ IdOf(x) \in DOMAIN scheme.entry
    /\ \A a \in DOMAIN Ientry(x.el) :
         \/ LET attr == Entry(IdOf(x)).attr
            IN a \in DOMAIN attr /\ attr[a] = Ientry(x.el)[a]
         \/ \E y \in EntriesAmong(xs) :
              After(y, x) /\ IdOf(y) = IdOf(x) /\ a \in DOMAIN Ientry(y.el)
ActionsLoaded(xs) ==
  \A x \in ActionsAmong(xs) :
    /\ x.in \in DOMAIN scheme.entry
    /\ LET actions == Entry(x.in).actions
           later == {y \in ActionsAmong(xs) : y.in = x.in /\ After(y, x)}
           i == Len(actions) - Cardinality(later)
       IN i \in DOMAIN actions /\ actions[i] = Over(x.el.attr, Action(None, None))
LoadedAsWritten ==
  phase = "prepare" /\ tops = 0 =>
    LET all == Elements IN AttrsLoaded(all) /\ ActionsLoaded(all)

(* What a link makes available can be run as well as what is written in    *)
(* place: the ACTIONs of the ENTRY whose lists it shares are bound to      *)
(* symbols of plugins, and the filter rule holds for the link too; in      *)
(* whichever order link and target were prepared (kentry_link()).          *)
LinksRun ==
  phase = "ready" =>
    \A id \in Live :
      LET owner == Entry(id).lists
      IN owner \in Live =>
           /\ owner \notin freed
           /\ \A a \in ToSet(Entry(owner).actions) :
                /\ a.bound \in scheme.plugins
                /\ a.sym \in DOMAIN Plugin[a.bound].sym
                /\ Entry(id).attr.filter # "false" => ~IsSync(a)

(* An executed command is logged by the LOG closest to its definition: its *)
(* own, else that of the ENTRY around it and so on, else the global one;   *)
(* one that is reached by a link by that of the place it is defined at     *)
(* (docs/klish3.en.md, "LOG"; kscheme_prepare_entry()).  The automatic     *)
(* PTYPE of a command has no parent and is no command.                     *)
Around(id, k) == SubSeq(id, 1, k)
HasParents(id) ==
  \A k \in DOMAIN id : Entry(Around(id, k)).parent = Around(id, k - 1)
Closest(id) ==
  LET with == {k \in DOMAIN id : LastFor(Entry(Around(id, k)).kids, "log") # NoEntry}
  IN IF with = {} THEN LastFor(scheme.top, "log")
     ELSE LastFor(Entry(Around(id, Max(with))).kids, "log")
LogIsClosest ==
  phase = "ready" =>
    \A id \in Live :
      LET owner == Entry(id).lists
      IN owner \in Live /\ HasParents(owner) =>
           Entry(owner).nested["log"] = Closest(owner)

(* Preparing comes to an end: references are followed only as long as they *)
(* lead to further links (kscheme_prepare_entry(); no cycles are written). *)
PrepareEnds == <>(phase \in {"ready", "failed"})

=============================================================================
