------------------------------ MODULE MCParser ------------------------------
(* Schemes for TLC, each after a part of the documentation.                *)
EXTENDS Parser, TLC

Cmd(w, n) == [sym |-> "COMMAND", cmd |-> w, len |-> n]
Number == [sym |-> "INT", range |-> {"1", "2"}]
NoPtype == [sym |-> "none"]

E0 == [container |-> FALSE, mode |-> "sequence", min |-> 1, max |-> 1,
       order |-> FALSE, kids |-> <<>>, actions |-> FALSE, filter |-> "false",
       restore |-> FALSE, transparent |-> TRUE, cond |-> {}, compl |-> {},
       ptype |-> NoPtype]
View(kids) == [E0 EXCEPT !.container = TRUE, !.mode = "switch", !.kids = kids]
Opaque(kids) == [View(kids) EXCEPT !.transparent = FALSE]
SwitchOf(min, kids) == [View(kids) EXCEPT !.min = min]
Seq_(kids) == [E0 EXCEPT !.container = TRUE, !.kids = kids]
Command(w, kids) ==
  [E0 EXCEPT !.ptype = Cmd(w, Size[w]), !.kids = kids, !.actions = TRUE]
Word(w) == [E0 EXCEPT !.ptype = Cmd(w, Size[w])]
Param(ptype) == [E0 EXCEPT !.ptype = ptype]
Optional(e) == [e EXCEPT !.min = 0]
OrderedOpt(e) == [e EXCEPT !.min = 0, !.order = TRUE]
Filter(e) == [e EXCEPT !.filter = "true"]

WordSet == {"show", "sh", "set", "a", "b", "c", "d", "1", "2", Pipe}
BeginsOf == [w \in WordSet |->
  CASE w = "sh" -> {"sh", "show"} [] OTHER -> {w}]
SizeOf == [w \in WordSet |->
  CASE w = "show" -> 4 [] w = "sh" -> 2 [] w = "set" -> 3 [] OTHER -> 1]

(* Three optional parameters, the second ordered, and a mandatory one.     *)
Order ==
  [path |-> <<"main">>, words |-> {"show", "sh", "a", "b", "c", "1"},
   entry |-> "main" :> View(<<"show">>)
     @@ "show" :> [Command("show", <<"pa", "pb", "pc", "pint">>)
                     EXCEPT !.ptype = Cmd("show", 2)]
     @@ "pa" :> Optional(Word("a")) @@ "pb" :> OrderedOpt(Word("b"))
     @@ "pc" :> Optional(Word("c"))
     @@ "pint" :> [Param(Number) EXCEPT !.min = 0, !.max = 2, !.compl = {"1"}]]

(* The command with three alternative optional subcommands.                *)
Branches ==
  [path |-> <<"main">>, words |-> {"set", "a", "b", "1", "c"},
   entry |-> "main" :> View(<<"set">>)
     @@ "set" :> Command("set", <<"sw", "pc">>)
     @@ "sw" :> SwitchOf(0, <<"opt1", "opt2", "opt3">>)
     @@ "opt1" :> Command("a", <<"inner">>) @@ "inner" :> Param(Number)
     @@ "opt2" :> Word("b")
     @@ "opt3" :> [Param(Number) EXCEPT !.actions = TRUE, !.cond = {}]
     @@ "pc" :> Optional([Word("c") EXCEPT !.cond = {"sw"}])]

(* Mandatory parameters with several values around an optional block.      *)
Counts ==
  [path |-> <<"main">>, words |-> {"set", "1", "a", "b", "c"},
   entry |-> "main" :> View(<<"set">>)
     @@ "set" :> Command("set", <<"p1", "seq", "p2">>)
     @@ "p1" :> [Param(Number) EXCEPT !.max = 2]
     @@ "seq" :> Seq_(<<"pa", "pb">>)
     @@ "pa" :> Optional(Word("a")) @@ "pb" :> Optional(Word("b"))
     @@ "p2" :> Word("c")]

(* Three levels, the middle one opaque in one of the schemes.              *)
Levels(middle) ==
  [path |-> <<"main", "conf", "sub">>, words |-> {"show", "set", "a", "b", "1"},
   entry |-> "main" :> View(<<"show">>) @@ "conf" :> middle
     @@ "sub" :> View(<<"group">>) @@ "group" :> SwitchOf(1, <<"ga", "gb">>)
     @@ "show" :> Command("show", <<"num">>) @@ "num" :> Optional(Param(Number))
     @@ "set" :> Command("set", <<"what">>) @@ "what" :> Word("a")
     @@ "ga" :> Command("a", <<>>) @@ "gb" :> Command("b", <<>>)]

(* A command, filters, one for both uses, and one that leaves the view.    *)
Filters ==
  [path |-> <<"main">>, words |-> {"show", "a", "b", "c", "set", Pipe},
   entry |-> "main" :> View(<<"show", "grep", "dual", "back">>)
     @@ "show" :> Command("show", <<"arg">>)
     @@ "arg" :> Optional(Word("b"))
     @@ "grep" :> Filter(Command("a", <<"pattern">>))
     @@ "pattern" :> [Param(Number) EXCEPT !.ptype = Cmd("b", 1)]
     @@ "dual" :> [Command("c", <<>>) EXCEPT !.filter = "dual"]
     @@ "back" :> [Command("set", <<>>) EXCEPT !.filter = "dual",
                                              !.restore = TRUE]]

(* Example 5 of the section on "mode": a SEQ inside a SWITCH.              *)
Example5 ==
  [path |-> <<"main">>, words |-> {"set", "1", "a", "b", "c", "d"},
   entry |-> "main" :> View(<<"set">>)
     @@ "set" :> Command("set", <<"sw", "param5">>)
     @@ "sw" :> SwitchOf(1, <<"seq", "param2">>)
     @@ "seq" :> Seq_(<<"param1", "param3", "param4">>)
     @@ "param1" :> Param(Number)
     @@ "param3" :> Word("a") @@ "param4" :> Word("b")
     @@ "param2" :> Word("c") @@ "param5" :> Word("d")]

Schemes ==
  "order" :> Order @@ "branches" :> Branches @@ "counts" :> Counts
    @@ "levels" :> Levels(View(<<"set">>))
    @@ "opaque" :> Levels(Opaque(<<"set">>)) @@ "filters" :> Filters
SeqInSwitch == "example5" :> Example5
============================================================================
