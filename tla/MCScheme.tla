------------------------------ MODULE MCScheme ------------------------------
(* Small configurations for TLC: every text made of the parts below.       *)
EXTENDS SchemeReference

Objects ==
  [klish |-> [loads |-> TRUE,
              sym |-> [COMMAND |-> "true", completion_COMMAND |-> "true",
                       help_COMMAND |-> "true", nop |-> "true", log |-> "false"]],
   script |-> [loads |-> TRUE, sym |-> [script |-> "undef", nop |-> "false"]],
   lua |-> [loads |-> FALSE, sym |-> <<>>]]

El(tag, attr, inside) ==
  <<[tag |-> tag, attr |-> attr]>> \o FlattenSeq(inside) \o <<Close>>
Sorted == <<"klish", "lua", "script">>
Named_(n) == [name |-> n]
Plug(n) == El("PLUGIN", Named_(n), <<>>)
Act(s) == El("ACTION", [sym |-> s], <<>>)
ActOf(s, p) == El("ACTION", [sym |-> s, plugin |-> p], <<>>)
LogOf(s) == El("LOG", <<>>, <<Act(s)>>)
Ptype(n, s) == El("PTYPE", Named_(n), <<Act(s)>>)
PtypeRef(r) == El("PTYPE", [ref |-> r], <<>>)
Command(n, inside) == El("COMMAND", Named_(n), inside)
View(n, inside) == El("VIEW", Named_(n), inside)
LinkTo(tag, n, r) == El(tag, [name |-> n, ref |-> r], <<>>)
File(parts) == [db |-> "xml", valid |-> TRUE, tags |-> FlattenSeq(parts)]
Ischeme(parts) == [File(parts) EXCEPT !.db = "ischeme"]
Broken == [File(<<>>) EXCEPT !.valid = FALSE]

Perms(s) == {[i \in DOMAIN s |-> s[p[i]]] : p \in Permutations(DOMAIN s)}

(* References: views in every order, links to commands, views and to       *)
(* links, with and without a help of their own, and one into the view that *)
(* is around it.                                                           *)
RefParts ==
  <<View("v1", <<El("COMMAND", [name |-> "c", help |-> "of c", mode |-> "switch"],
                    <<Act("nop")>>), LogOf("log")>>),
    View("v2", <<LinkTo("VIEW", "l1", <<"v1">>), LinkTo("FILTER", "l2", <<"v1", "c">>)>>),
    View("v3", <<LinkTo("VIEW", "l3", <<"v2", "l1">>),
                 El("COMMAND", [name |-> "l4", ref |-> <<"f">>, help |-> "of l4"], <<>>),
                 El("COMMAND", [name |-> "up", mode |-> "switch"],
                    <<LinkTo("VIEW", "l5", <<"v3">>)>>)>>),
    El("FILTER", [name |-> "f", help |-> "of f", value |-> "f"], <<ActOf("nop", "script")>>)>>
References ==
  {<<File(<<Plug("klish"), Plug("script")>> \o p)>> : p \in Perms(RefParts)}

(* LOG at each level or not.                                               *)
Opt(b, x) == IF b THEN <<x>> ELSE <<>>
Logs ==
  {<<File(<<Plug("klish")>> \o Opt(a, LogOf("log"))
            \o <<View("v1", <<Command("c1", Opt(b, LogOf("nop"))),
                               View("v2", Opt(e, LogOf("nop"))
                                 \o <<Command("c3", <<>>), LinkTo("COMMAND", "l", <<"v1", "c1">>)>>)>>
                              \o Opt(c, LogOf("log"))
                              \o <<Command("c2", <<>>)>>)>>
            \o Opt(d, El("LOG", Named_("last"), <<Act("nop")>>)))>> :
     a, b, c, d, e \in BOOLEAN}

(* Two files that say something of the same command.                       *)
Views ==
  {View("v", <<Command("c", x)>>) :
     x \in {<<>>, <<Ptype("own", "nop")>>, <<PtypeRef(<<"t">>)>>,
            <<Act("script")>>, <<El("PARAM", [name |-> "p", ptype |-> <<"t">>], <<>>)>>}}
  \cup {El("VIEW", [name |-> "v", transparent |-> t], <<>>) : t \in {"true", "false"}}
  \cup {View("v", <<El("COMMAND", [name |-> "c", mode |-> m], <<Act("nop")>>)>>) :
          m \in {"switch", "illegal"}}
Base == <<Plug("klish"), Plug("script"), Ptype("t", "nop")>>
Merged == {<<File(Base \o <<x>>), File(<<y>>)>> : x, y \in Views}
IviewOf(x) == Ischeme(<<El("ENTRY", [name |-> "v", container |-> "true"], <<x>>)>>)
Iscms ==
  {<<File(Base), IviewOf(x), IviewOf(y)>> :
     x, y \in {El("ENTRY", [name |-> "c", mode |-> "empty"], <<Act("nop")>>),
               El("ENTRY", [name |-> "c", order |-> "illegal"], <<>>),
               El("HOTKEY", [key |-> "k", cmd |-> "c"], <<>>)}}

(* One element put into each place.                                        *)
Parts ==
  {Act("script"), Act("nop"), Act("absent"), ActOf("script", "klish"),
   El("ACTION", [sym |-> "script", sync |-> "true"], <<>>),
   El("ACTION", [sym |-> "script", sync |-> "illegal"], <<>>),
   Plug("script"), Plug("lua"), Command("x", <<>>), El("COMMAND", <<>>, <<>>),
   El("SWITCH", Named_("s"), <<Command("y", <<>>)>>), El("SEQ", <<>>, <<>>),
   El("VIEW", [ref |-> <<"v">>], <<>>),
   El("PTYPE", <<>>, <<Act("nop")>>), El("COND", <<>>, <<Act("nop")>>),
   El("PROMPT", <<>>, <<Act("nop")>>), El("HELP", <<>>, <<Act("nop")>>),
   El("COMPL", <<>>, <<Act("nop")>>), El("HOTKEY", [key |-> "k", cmd |-> "c"], <<>>),
   El("HOTKEY", [key |-> "k"], <<>>), El("unknown", <<>>, <<>>),
   LinkTo("PARAM", "z", <<"nowhere">>), LinkTo("PARAM", "z", <<"v", "c">>)}
Holders(x) ==
  {<<x>>, <<View("v", <<Command("c", <<Act("nop")>>), x>>)>>,
   <<View("v", <<Command("c", <<x, Act("nop")>>)>>)>>,
   <<El("FILTER", Named_("f"), <<x>>), View("v", <<Command("c", <<>>)>>)>>,
   <<View("v", <<Command("c", <<>>), El("SWITCH", Named_("w"), <<x>>)>>)>>,
   <<View("v", <<El("ENTRY", Named_("c"), <<x>>)>>)>>,
   <<View("v", <<El("HOTKEY", [key |-> "k", cmd |-> "c"], <<>>), x,
                 Command("c", <<El("ACTION", [sym |-> "script"], <<x>>)>>)>>)>>,
   <<View("v", <<El("HOTKEY", [key |-> "k", cmd |-> "c"], <<x>>),
                 Command("c", <<Act("nop")>>)>>)>>}
Placed ==
  {<<File(<<Plug("klish"), Plug("script")>> \o h)>> :
     h \in UNION {Holders(x) : x \in Parts}}
Pairs ==
  {<<File(<<Plug("klish"), Plug("script"),
            View("v", <<Command("c", <<x>>), y>>)>>)>> : x, y \in Parts}
Errors == {<<Broken, File(<<Plug("klish"), View("v", <<>>)>>)>>}

Configurations ==
  References \cup Logs \cup Merged \cup Iscms \cup Placed \cup Pairs \cup Errors

(* References that go through a link: the views in every order.            *)
ThroughLinks ==
  {<<File(<<Plug("klish")>> \o p)>> :
     p \in Perms(<<View("v1", <<Command("c", <<>>)>>),
                   View("v2", <<LinkTo("VIEW", "l", <<"v1">>)>>),
                   View("v3", <<LinkTo("COMMAND", "d", <<"v2", "l", "c">>)>>)>>)}
=============================================================================
