---------------------------- MODULE MCViewPath ----------------------------
(* Instances of ViewPath for TLC: a scheme with the views main, conf, sub  *)
(* and leaf, conf being opaque.                                            *)
EXTENDS ViewPath

Views == {"main", "conf", "sub", "leaf"}

Parse(ok, error) ==
  [v \in Views |-> IF v \in ok THEN "OK"
                   ELSE IF v \in error THEN "ERROR" ELSE "NOTFOUND"]
Cmd(ok, error, restore, actions) ==
  [parse |-> Parse(ok, error), restore |-> restore, actions |-> actions]

To(op, v) == [op |-> op, view |-> v]
PopBy(n) == [op |-> "pop", levels |-> n]
Word(op) == [op |-> op]

(* Commands of the inner and of the outer views, with and without restore; *)
(* scripts that fail, leave or continue in the middle.                     *)
Commands ==
  { Cmd({"main"}, {}, TRUE, <<<<To("push", "conf")>>>>),
    Cmd({"main", "sub"}, {"leaf"}, TRUE, <<<<To("push", "sub")>>>>),
    Cmd({"conf"}, {}, TRUE, <<Process, <<To("push", "sub")>>>>),
    Cmd({"sub", "conf"}, {}, FALSE, <<<<To("push", "leaf")>>, Process>>),
    Cmd({"sub"}, {}, TRUE, <<Process>>),
    Cmd(Views, {}, FALSE, <<<<PopBy(1)>>>>),
    Cmd(Views, {}, FALSE, <<<<PopBy(2), To("push", "conf")>>, Process>>),
    Cmd({"leaf"}, {}, FALSE, <<<<PopBy(1), PopBy(256), PopBy(1)>>, Process>>),
    Cmd({"conf", "sub"}, {}, FALSE, <<<<Word("top")>>>>),
    Cmd({"main", "sub"}, {}, FALSE, <<<<To("replace", "leaf")>>>>),
    Cmd({"leaf"}, {}, FALSE, <<<<To("replace", "main")>>, <<PopBy(0)>>>>),
    Cmd({"main"}, {}, FALSE, <<<<To("replace", "unknown")>>>>),
    Cmd({"main"}, {}, FALSE,
        <<<<To("push", "unknown"), To("push", "conf")>>, <<Word("top")>>>>),
    Cmd({"main"}, {}, FALSE, <<<<Word("bad"), Word("top")>>>>),
    Cmd({"main", "leaf"}, {}, FALSE, <<<<Word("exit"), Word("top")>>>>) }

Keys == {"^Z", "^D"}

(* Every view has a prompt and a hotkey of its own.                        *)
AllPrompts == [v \in Views |-> v]
AllHotkeys == [v \in Views |-> [k \in Keys |-> IF k = "^Z" THEN v ELSE
                                IF v = "conf" THEN "end" ELSE "none"]]
============================================================================
