---------------------------- MODULE SchemeProofs ----------------------------
(* Theorems about Scheme, for all configurations and all plugins.          *)
EXTENDS Scheme, SequenceTheorems, FiniteSetTheorems, WellFoundedInduction, TLAPS

-----------------------------------------------------------------------------
(* Induction.  A set of numbers has a least one; a set that holds 0 and    *)
(* with each number the next one holds all of them.                        *)
LEMMA LeastElement ==
  ASSUME NEW T, T \subseteq Nat, T # {}
  PROVE  \E x \in T : \A y \in T : x <= y
<1> DEFINE R == {p \in Nat \X Nat : p[1] < p[2]}
<1>1. IsWellFoundedOn(R, Nat)
  BY NatLessThanWellFounded DEF OpToRel
<1>2. \A x, y \in Nat : <<y, x>> \notin R => x <= y
  OBVIOUS
<1> HIDE DEF R
<1>3. \E x \in T : \A y \in T : ~ (<<y, x>> \in R)
  BY <1>1, WFMin
<1>4. QED
  BY <1>2, <1>3

LEMMA InductionOnSet ==
  ASSUME NEW S, 0 \in S, \A n \in Nat : n \in S => n + 1 \in S
  PROVE  Nat \subseteq S
<1> SUFFICES ASSUME Nat \ S # {} PROVE FALSE
  BY Zenon
<1> DEFINE T == Nat \ S
<1>1. PICK x \in T : \A y \in T : x <= y
  BY LeastElement
<1>2. x # 0 /\ x \in Nat
  OBVIOUS
<1>3. x - 1 \in Nat /\ x - 1 \notin T
  BY <1>1, <1>2
<1>4. x - 1 \in S /\ (x - 1) + 1 = x
  BY <1>3, <1>2
<1>5. QED
  BY <1>4, <1>3

(* The largest and the smallest of some positions of a sequence.           *)
LEMMA MaxIsIn ==
  ASSUME NEW n \in Nat, NEW T, T \subseteq 1..n, T # {}
  PROVE  Max(T) \in T /\ \A y \in T : Max(T) >= y
<1> DEFINE U == {n - x : x \in T}
<1>1. \A x \in T : x \in Nat /\ n - x \in Nat
  OBVIOUS
<1>2. U \subseteq Nat /\ U # {}
  BY <1>1
<1>3. PICK u \in U : \A v \in U : u <= v
  <2> HIDE DEF U
  <2>1. QED
    BY <1>2, LeastElement
<1>4. PICK x \in T : u = n - x
  OBVIOUS
<1>5. ASSUME NEW y \in T PROVE x >= y
  <2>1. n - x <= n - y
    BY <1>3, <1>4
  <2>2. QED
    BY <2>1, <1>1
<1>6. \A w \in T : (\A y \in T : w >= y) => w = x
  BY <1>5, <1>1
<1>7. QED
  BY <1>5, <1>6 DEF Max

LEMMA MinIsIn ==
  ASSUME NEW n \in Nat, NEW T, T \subseteq 1..n, T # {}
  PROVE  Min(T) \in T /\ \A y \in T : Min(T) <= y
<1>1. T \subseteq Nat
  OBVIOUS
<1>2. PICK x \in T : \A y \in T : x <= y
  BY <1>1, LeastElement
<1>3. QED
  BY <1>2 DEF Min

-----------------------------------------------------------------------------
(* Sequences, of whatever they are.                                        *)
LEMMA SeqIsSeq ==
  ASSUME NEW S, NEW s \in Seq(S)
  PROVE  /\ IsSeq(s) /\ ToSet(s) \subseteq S
         /\ Len(s) \in Nat /\ DOMAIN s = 1..Len(s)
BY DEF IsSeq, ToSet

LEMMA IsSeqFacts ==
  ASSUME NEW s, IsSeq(s)
  PROVE  /\ Len(s) \in Nat /\ DOMAIN s = 1..Len(s)
         /\ s # <<>> <=> Len(s) > 0
         /\ \A x : x \in ToSet(s) <=> \E i \in 1..Len(s) : s[i] = x
<1>1. Len(s) \in Nat /\ DOMAIN s = 1..Len(s)
  BY DEF IsSeq
<1>2. s # <<>> <=> Len(s) > 0
  BY DEF IsSeq
<1>3. QED
  BY <1>1, <1>2 DEF ToSet

LEMMA AppendFacts ==
  ASSUME NEW s, IsSeq(s), NEW x
  PROVE  /\ IsSeq(Append(s, x)) /\ Len(Append(s, x)) = Len(s) + 1
         /\ \A i \in 1..Len(s) : Append(s, x)[i] = s[i]
         /\ Append(s, x)[Len(s) + 1] = x
         /\ ToSet(Append(s, x)) = ToSet(s) \cup {x}
         /\ Append(s, x) # <<>>
<1> DEFINE S == ToSet(s) \cup {x}
           t == Append(s, x)
<1>1. s \in Seq(S)
  <2>1. s \in Seq(ToSet(s)) /\ ToSet(s) \subseteq S
    BY DEF IsSeq
  <2> HIDE DEF S
  <2>2. QED
    BY <2>1, SeqMonotonic
<1>2. /\ t \in Seq(S) /\ Len(t) = Len(s) + 1 /\ t # <<>>
      /\ \A i \in 1..Len(s) : t[i] = s[i]
      /\ t[Len(s) + 1] = x
  <2>1. x \in S
    OBVIOUS
  <2> HIDE DEF S
  <2>2. QED
    BY <2>1, <1>1, AppendProperties
<1>3. Len(s) \in Nat /\ DOMAIN s = 1..Len(s) /\ DOMAIN t = 1..(Len(s) + 1)
  BY <1>1, <1>2, LenProperties
<1>4. ToSet(t) = S
  <2> HIDE DEF t
  <2>1. ToSet(t) \subseteq S
    BY <1>2, <1>3 DEF ToSet
  <2>2. \A y \in ToSet(s) : y \in ToSet(t)
    BY <1>2, <1>3 DEF ToSet
  <2>3. x \in ToSet(t)
    <3>1. Len(s) + 1 \in DOMAIN t
      BY <1>3
    <3>2. QED
      BY <1>2, <3>1 DEF ToSet
  <2>4. QED
    BY <2>1, <2>2, <2>3
<1>5. IsSeq(t)
  <2> HIDE DEF t
  <2>1. QED
    BY <1>2, <1>4 DEF IsSeq
<1>6. QED
  BY <1>2, <1>4, <1>5

LEMMA FrontFacts ==
  ASSUME NEW s, IsSeq(s), s # <<>>
  PROVE  /\ IsSeq(Front(s)) /\ Len(Front(s)) = Len(s) - 1
         /\ \A i \in 1..(Len(s) - 1) : Front(s)[i] = s[i]
         /\ ToSet(Front(s)) \subseteq ToSet(s)
         /\ Last(s) = s[Len(s)]
<1> DEFINE S == ToSet(s)
           t == Front(s)
<1>1. s \in Seq(S) /\ Len(s) \in Nat /\ Len(s) > 0 /\ DOMAIN s = 1..Len(s)
  BY IsSeqFacts DEF IsSeq
<1>2. /\ t \in Seq(S) /\ Len(t) = Len(s) - 1
      /\ \A i \in 1..(Len(s) - 1) : t[i] = s[i]
  <2> HIDE DEF S
  <2>1. \A i \in 1..(Len(s) - 1) : s[i] \in S
    BY <1>1
  <2>2. /\ SubSeq(s, 1, Len(s) - 1) \in Seq(S)
        /\ Len(SubSeq(s, 1, Len(s) - 1)) =
             IF 1 <= Len(s) - 1 THEN (Len(s) - 1) - 1 + 1 ELSE 0
        /\ \A i \in 1..((Len(s) - 1) - 1 + 1) :
             SubSeq(s, 1, Len(s) - 1)[i] = s[1 + i - 1]
    BY <1>1, <2>1, SubSeqProperties
  <2>3. QED
    BY <1>1, <2>2 DEF Front
<1>3. IsSeq(t) /\ ToSet(t) \subseteq S
  <2> HIDE DEF S, t
  <2>1. QED
    BY <1>2, SeqIsSeq
<1>4. QED
  BY <1>1, <1>2, <1>3 DEF Last
-----------------------------------------------------------------------------
(* Where() is what its recursive definition says.                          *)
WhereRoot == <<[tag |-> "KLISH", name |-> None]>>
WhereNext(tag, where) ==
  IF tag.tag = "/" THEN Front(where) ELSE Append(where, Opened(tag))
IsWhere(w, tags, n) ==
  w = [i \in 1..n |-> IF i = 1 THEN WhereRoot ELSE WhereNext(tags[i - 1], w[i - 1])]

LEMMA WhereExists ==
  ASSUME NEW tags
  PROVE  \A n \in Nat : \E w : IsWhere(w, tags, n)
<1> DEFINE S == {n \in Nat : \E w : IsWhere(w, tags, n)}
<1>1. 0 \in S
  <2> DEFINE w == [i \in 1..0 |-> WhereRoot]
  <2>1. IsWhere(w, tags, 0)
    BY DEF IsWhere
  <2> HIDE DEF w
  <2>2. QED
    BY <2>1
<1>2. ASSUME NEW n \in Nat, n \in S PROVE n + 1 \in S
  <2>1. PICK w : IsWhere(w, tags, n)
    BY <1>2
  <2> DEFINE F(v, i) == IF i = 1 THEN WhereRoot ELSE WhereNext(tags[i - 1], v[i - 1])
  <2>2. DOMAIN w = 1..n /\ \A i \in 1..n : w[i] = F(w, i)
    <3>1. w = [i \in 1..n |-> F(w, i)]
      BY <2>1 DEF IsWhere
    <3> HIDE DEF F
    <3>2. QED
      BY <3>1
  <2> DEFINE v == [i \in 1..(n + 1) |-> IF i = n + 1 THEN F(w, i) ELSE w[i]]
  <2>3. \A i \in 1..(n + 1) : F(v, i) = F(w, i)
    <3>1. ASSUME NEW i \in 1..(n + 1), i # 1 PROVE v[i - 1] = w[i - 1]
      <4>1. i - 1 \in 1..(n + 1) /\ i - 1 # n + 1
        BY <3>1
      <4>2. QED
        BY <4>1
    <3> HIDE DEF v
    <3>2. QED
      BY <3>1
  <2>4. \A i \in 1..(n + 1) : v[i] = F(v, i)
    <3>1. \A i \in 1..(n + 1) : v[i] = F(w, i)
      <4>1. \A i \in 1..(n + 1) : i # n + 1 => i \in 1..n
        OBVIOUS
      <4> HIDE DEF F
      <4>2. QED
        BY <2>2, <4>1
    <3> HIDE DEF v, F
    <3>2. QED
      BY <2>3, <3>1
  <2>5. v = [i \in 1..(n + 1) |-> F(v, i)]
    <3>1. v = [i \in 1..(n + 1) |-> v[i]]
      OBVIOUS
    <3> HIDE DEF v, F
    <3>2. QED
      BY <2>4, <3>1
  <2>6. IsWhere(v, tags, n + 1)
    <3> HIDE DEF v
    <3>1. QED
      BY <2>5 DEF IsWhere
  <2> HIDE DEF v
  <2>7. QED
    BY <2>6
<1> HIDE DEF S
<1>3. Nat \subseteq S
  BY <1>1, <1>2, InductionOnSet
<1>4. QED
  BY <1>3 DEF S

LEMMA WhereDef ==
  ASSUME NEW tags, IsSeq(tags)
  PROVE  /\ Where(tags)[1] = WhereRoot
         /\ \A i \in 1..Len(tags) :
              Where(tags)[i + 1] = WhereNext(tags[i], Where(tags)[i])
<1> DEFINE n == Len(tags) + 1
<1>1. Len(tags) \in Nat
  BY IsSeqFacts
<1>2. \E w : IsWhere(w, tags, n)
  BY <1>1, WhereExists
<1>3. Where(tags) = CHOOSE w : IsWhere(w, tags, n)
  BY DEF Where, IsWhere, WhereRoot, WhereNext
<1>4. IsWhere(Where(tags), tags, n)
  BY <1>2, <1>3
<1> DEFINE w == Where(tags)
           F(i) == IF i = 1 THEN WhereRoot ELSE WhereNext(tags[i - 1], w[i - 1])
<1>5. \A i \in 1..n : w[i] = F(i)
  <2>1. w = [i \in 1..n |-> F(i)]
    BY <1>4 DEF IsWhere
  <2> HIDE DEF F, w
  <2>2. QED
    BY <2>1
<1>6. w[1] = WhereRoot
  BY <1>1, <1>5
<1>7. ASSUME NEW i \in 1..Len(tags)
      PROVE  w[i + 1] = WhereNext(tags[i], w[i])
  <2>1. i + 1 \in 1..n /\ i + 1 # 1 /\ (i + 1) - 1 = i
    BY <1>1
  <2>2. QED
    BY <2>1, <1>5
<1>8. QED
  BY <1>6, <1>7
-----------------------------------------------------------------------------
(* Identifiers and the ones above them.                                    *)
LEMMA AroundFacts ==
  ASSUME NEW S, NEW s \in Seq(S), NEW k \in 0..Len(s)
  PROVE  /\ Around(s, k) \in Seq(S) /\ Len(Around(s, k)) = k
         /\ \A i \in 1..k : Around(s, k)[i] = s[i]
<1>1. Len(s) \in Nat /\ DOMAIN s = 1..Len(s) /\ k \in Nat
  BY LenProperties
<1>2. \A i \in 1..k : s[i] \in S
  BY <1>1, ElementOfSeq
<1>3. /\ SubSeq(s, 1, k) \in Seq(S)
      /\ Len(SubSeq(s, 1, k)) = IF 1 <= k THEN k - 1 + 1 ELSE 0
      /\ \A i \in 1..(k - 1 + 1) : SubSeq(s, 1, k)[i] = s[1 + i - 1]
  BY <1>1, <1>2, SubSeqProperties
<1>4. \A i \in 1..k : s[1 + i - 1] = s[i] /\ i \in 1..(k - 1 + 1)
  BY <1>1
<1>5. QED
  BY <1>1, <1>3, <1>4 DEF Around

LEMMA AroundAll ==
  ASSUME NEW S, NEW s \in Seq(S)
  PROVE  Around(s, Len(s)) = s /\ Around(s, 0) = <<>>
<1>1. Len(s) \in Nat
  BY LenProperties
<1>2. Around(s, Len(s)) = s
  BY SubSeqFull DEF Around
<1>3. QED
  BY <1>1, <1>2, SubSeqEmpty DEF Around

LEMMA AroundAround ==
  ASSUME NEW S, NEW s \in Seq(S), NEW k \in 0..Len(s), NEW j \in 0..k
  PROVE  Around(Around(s, k), j) = Around(s, j)
<1>1. Len(s) \in Nat /\ k \in Nat /\ j \in Nat /\ j \in 0..Len(s)
  BY LenProperties
<1>2. /\ Around(s, k) \in Seq(S) /\ Len(Around(s, k)) = k
      /\ \A i \in 1..k : Around(s, k)[i] = s[i]
  BY AroundFacts
<1>3. /\ Around(s, j) \in Seq(S) /\ Len(Around(s, j)) = j
      /\ \A i \in 1..j : Around(s, j)[i] = s[i]
  BY <1>1, AroundFacts
<1> DEFINE t == Around(s, k)
<1>4. /\ Around(t, j) \in Seq(S) /\ Len(Around(t, j)) = j
      /\ \A i \in 1..j : Around(t, j)[i] = t[i]
  <2> HIDE DEF t
  <2>1. t \in Seq(S) /\ j \in 0..Len(t)
    BY <1>2 DEF t
  <2>2. QED
    BY <2>1, AroundFacts
<1>5. \A i \in 1..j : Around(t, j)[i] = Around(s, j)[i]
  <2>1. \A i \in 1..j : i \in 1..k
    BY <1>1
  <2>2. QED
    BY <1>2, <1>3, <1>4, <2>1
<1>6. QED
  BY <1>3, <1>4, <1>5, SeqEqual

LEMMA AroundAppend ==
  ASSUME NEW S, NEW s \in Seq(S), NEW x \in S
  PROVE  /\ Append(s, x) \in Seq(S) /\ Len(Append(s, x)) = Len(s) + 1
         /\ \A k \in 0..Len(s) : Around(Append(s, x), k) = Around(s, k)
         /\ Around(Append(s, x), Len(s)) = s
         /\ Around(Append(s, x), Len(s) + 1) = Append(s, x)
         /\ Append(s, x) # <<>> /\ Append(s, x) # s
<1> DEFINE t == Append(s, x)
<1>1. /\ t \in Seq(S) /\ Len(t) = Len(s) + 1 /\ t # <<>>
      /\ \A i \in 1..Len(s) : t[i] = s[i]
  BY AppendProperties
<1>2. Len(s) \in Nat
  BY LenProperties
<1>3. ASSUME NEW k \in 0..Len(s) PROVE Around(t, k) = Around(s, k)
  <2> HIDE DEF t
  <2>1. k \in 0..Len(t)
    BY <1>1, <1>2
  <2>2. /\ Around(t, k) \in Seq(S) /\ Len(Around(t, k)) = k
        /\ \A i \in 1..k : Around(t, k)[i] = t[i]
    BY <1>1, <2>1, AroundFacts
  <2>3. /\ Around(s, k) \in Seq(S) /\ Len(Around(s, k)) = k
        /\ \A i \in 1..k : Around(s, k)[i] = s[i]
    BY AroundFacts
  <2>4. \A i \in 1..k : Around(t, k)[i] = Around(s, k)[i]
    <3>1. \A i \in 1..k : i \in 1..Len(s)
      BY <1>2
    <3>2. QED
      BY <1>1, <2>2, <2>3, <3>1
  <2>5. QED
    BY <2>2, <2>3, <2>4, SeqEqual
<1> HIDE DEF t
<1>4. Around(t, Len(s)) = s
  <2>1. Len(s) \in 0..Len(s)
    BY <1>2
  <2>2. QED
    BY <1>3, <2>1, AroundAll
<1>5. Around(t, Len(s) + 1) = t
  BY <1>1, AroundAll
<1>6. t # s
  BY <1>1, <1>2
<1>7. QED
  BY <1>1, <1>3, <1>4, <1>5, <1>6 DEF t

LEMMA PrefixIsAround ==
  ASSUME NEW S, NEW s \in Seq(S), NEW t \in Seq(S)
  PROVE  IsPrefix(s, t) <=> Len(s) <= Len(t) /\ s = Around(t, Len(s))
BY SubSeqFull DEF IsPrefix, Around
-----------------------------------------------------------------------------
(* The tree of ENTRYs: each is known by the names on the way to it, and    *)
(* found from the top by them; it has all its fields.                      *)
NamesIn(tags) == {NameOf(tags[i]) : i \in {j \in DOMAIN tags : IsEntryTag(tags[j].tag)}}
Word == (UNION {UNION {NamesIn(c[f].tags) : f \in DOMAIN c} : c \in Inputs})
          \cup {"__ptype", "__compl", "__help"}

HasFields(e) ==
  /\ {"attr", "parent", "lists", "kids", "actions", "hotkeys", "nested"}
       \subseteq DOMAIN e
  /\ DOMAIN Defaults \subseteq DOMAIN e.attr
  /\ IsSeq(e.actions) /\ IsSeq(e.hotkeys)
  /\ e.attr.ref # None => IsSeq(e.attr.ref)
  /\ \A i \in 1..Len(e.actions) :
       {"sym", "plugin", "sync", "bound"} \subseteq DOMAIN e.actions[i]
KidsBelow(s, id) ==
  /\ s.entry[id].kids \in Seq(DOMAIN s.entry)
  /\ \A i \in 1..Len(s.entry[id].kids) :
       /\ Len(s.entry[id].kids[i]) = Len(id) + 1
       /\ Around(s.entry[id].kids[i], Len(id)) = id
Rooted(s, id) ==
  /\ Around(id, 1) \in ToSet(s.top)
  /\ \A k \in 1..(Len(id) - 1) :
       /\ Around(id, k) \in DOMAIN s.entry
       /\ Around(id, k + 1) \in ToSet(s.entry[Around(id, k)].kids)
IsTree(s) ==
  /\ {"plugins", "top", "entry"} \subseteq DOMAIN s
  /\ DOMAIN s.entry \subseteq Seq(Word) \ {NoEntry}
  /\ s.top \in Seq(DOMAIN s.entry)
  /\ \A i \in 1..Len(s.top) : Len(s.top[i]) = 1
  /\ \A id \in DOMAIN s.entry :
       /\ HasFields(s.entry[id]) /\ s.entry[id].lists \in DOMAIN s.entry
       /\ KidsBelow(s, id) /\ Rooted(s, id)

(* While the files are read.                                               *)
StackType ==
  /\ IsSeq(stack)
  /\ \A k \in 1..Len(stack) :
       /\ stack[k].id \in DOMAIN scheme.entry \cup {NoEntry}
       /\ IsEntryTag(stack[k].tag) => stack[k].id \in DOMAIN scheme.entry
NothingPrepared ==
  /\ tops = 0 /\ todo = <<>> /\ target = NoEntry /\ freed = {}
  /\ \A id \in DOMAIN scheme.entry : Entry(id).lists = id
TypeInv ==
  /\ input \in Inputs
  /\ phase \in {"load", "prepare", "ready", "failed"} /\ ret \in BOOLEAN
  /\ file \in Nat \ {0} /\ at \in Nat \ {0}
  /\ IsTree(scheme)
  /\ StackType
  /\ phase = "load" => NothingPrepared

(* While it is prepared.  The ENTRYs above one are no links as soon as it  *)
(* is its turn, and it has found its LOG when theirs is known.             *)
OffLinks(id) == \A k \in 1..(Len(id) - 1) : Ref(Around(id, k)) = None
LogKnown(id) == HasParents(id) => Entry(id).nested["log"] = Closest(id)
Bound(plugins, a) ==
  LET exports(p) == p \in plugins /\ a.sym \in DOMAIN Plugin[p].sym
      exporters == {i \in DOMAIN Order : exports(Order[i])}
  IN IF a.plugin # None
     THEN IF exports(a.plugin) THEN a.plugin ELSE None
     ELSE IF exporters = {} THEN None ELSE Order[Min(exporters)]
Ready(id) ==
  /\ \A i \in 1..Len(Entry(id).actions) :
       /\ Entry(id).actions[i].bound = Bound(scheme.plugins, Entry(id).actions[i])
       /\ ret => ActionFits(Entry(id), Entry(id).actions[i])
  /\ LogKnown(id)
Linked(id) ==
  LET owner == Entry(id).lists
  IN Ref(owner) = None /\ Entry(id).attr.filter = Entry(owner).attr.filter
Done(id) == IF Ref(id) = None THEN Ready(id) ELSE ret => Linked(id)
Ahead(id) ==
  \/ \E k \in 1..Len(id) : Around(id, k) \in ToSet(todo)
  \/ \E i \in (tops + 1)..Len(scheme.top) : Around(id, 1) = scheme.top[i]
AgendaInv ==
  /\ tops \in 0..Len(scheme.top)
  /\ todo \in Seq(DOMAIN scheme.entry)
  /\ \A id \in ToSet(todo) :
       /\ OffLinks(id)
       /\ Len(id) > 1 => LogKnown(Around(id, Len(id) - 1))
LinkInv ==
  /\ target \in DOMAIN scheme.entry \cup {NoEntry}
  /\ target # NoEntry => todo # <<>> /\ Ref(Head(todo)) # None
  /\ \A id \in DOMAIN scheme.entry : Ref(id) = None => Entry(id).lists = id
  /\ \A x \in freed : \E l \in DOMAIN scheme.entry :
       Ref(l) # None /\ l # x /\ IsPrefix(l, x)
CoverInv ==
  /\ phase = "prepare" =>
       \A id \in DOMAIN scheme.entry : OffLinks(id) => Done(id) \/ Ahead(id)
  /\ phase = "ready" =>
       ret /\ \A id \in DOMAIN scheme.entry : OffLinks(id) => Done(id)
PrepareInv == phase # "load" => AgendaInv /\ LinkInv /\ CoverInv
Inv == TypeInv /\ PrepareInv

(* A new ENTRY below another one, or on top.                               *)
HasKid(s, t, up, id, e) ==
  /\ {"plugins", "top", "entry"} \subseteq DOMAIN t
  /\ t.plugins = s.plugins
  /\ t.top = IF up = NoEntry THEN Append(s.top, id) ELSE s.top
  /\ DOMAIN t.entry = DOMAIN s.entry \cup {id}
  /\ t.entry[id] = e
  /\ \A x \in DOMAIN s.entry :
       x # id => t.entry[x] =
         IF x = up /\ up # NoEntry
         THEN [s.entry[x] EXCEPT !.kids = Append(@, id)] ELSE s.entry[x]

LEMMA AddKidResult ==
  ASSUME NEW s, {"plugins", "top", "entry"} \subseteq DOMAIN s,
         NEW up, NEW id, up # id, NEW e,
         up = NoEntry \/ (up \in DOMAIN s.entry /\ "kids" \in DOMAIN s.entry[up])
  PROVE  HasKid(s, AddKid(s, up, id, e), up, id, e)
<1> DEFINE more == [x \in DOMAIN s.entry \cup {id} |-> IF x = id THEN e ELSE s.entry[x]]
           added == [s EXCEPT !.entry = more]
<1>1. /\ {"plugins", "top", "entry"} \subseteq DOMAIN added
      /\ added.plugins = s.plugins /\ added.top = s.top /\ added.entry = more
  OBVIOUS
<1>2. /\ DOMAIN more = DOMAIN s.entry \cup {id} /\ more[id] = e
      /\ \A x \in DOMAIN s.entry : x # id => more[x] = s.entry[x]
  OBVIOUS
<1> HIDE DEF more
<1>3. AddKid(s, up, id, e) =
        IF up = NoEntry THEN [added EXCEPT !.top = Append(@, id)]
        ELSE [added EXCEPT !.entry[up].kids = Append(@, id)]
  BY DEF AddKid, more
<1> HIDE DEF added
<1>4. CASE up = NoEntry
  <2>1. AddKid(s, up, id, e) = [added EXCEPT !.top = Append(@, id)]
    BY <1>3, <1>4
  <2>2. QED
    BY <2>1, <1>1, <1>2, <1>4 DEF HasKid
<1>5. CASE up # NoEntry
  <2> DEFINE t == [added EXCEPT !.entry[up].kids = Append(@, id)]
  <2>1. AddKid(s, up, id, e) = t
    BY <1>3, <1>5
  <2>2. /\ DOMAIN t = DOMAIN added /\ t.plugins = added.plugins /\ t.top = added.top
        /\ DOMAIN t.entry = DOMAIN added.entry
        /\ \A x \in DOMAIN added.entry : x # up => t.entry[x] = added.entry[x]
    BY <1>1
  <2>3. up \in DOMAIN added.entry /\ added.entry[up] = s.entry[up]
    BY <1>1, <1>2, <1>5
  <2>4. t.entry[up] = [added.entry[up] EXCEPT !.kids = Append(@, id)]
    BY <1>1, <2>3
  <2> HIDE DEF t
  <2>5. t.top = s.top /\ t.plugins = s.plugins
    BY <2>2, <1>1
  <2>6. DOMAIN t.entry = DOMAIN s.entry \cup {id} /\ t.entry[id] = e
    BY <2>2, <1>1, <1>2
  <2>7. t.entry[up] = [s.entry[up] EXCEPT !.kids = Append(@, id)]
    BY <2>3, <2>4
  <2>8. \A x \in DOMAIN s.entry : x # id /\ x # up => t.entry[x] = s.entry[x]
    BY <2>2, <1>1, <1>2
  <2>9. {"plugins", "top", "entry"} \subseteq DOMAIN t
    BY <2>2, <1>1
  <2>10. QED
    BY <2>1, <2>5, <2>6, <2>7, <2>8, <2>9, <1>5 DEF HasKid
<1>6. QED
  BY <1>4, <1>5
LEMMA AddKidTree ==
  ASSUME NEW s, IsTree(s), NEW up \in DOMAIN s.entry \cup {NoEntry},
         NEW w \in Word, Append(up, w) \notin DOMAIN s.entry,
         NEW e, HasFields(e), e.kids = <<>>, e.lists = Append(up, w)
  PROVE  IsTree(AddKid(s, up, Append(up, w), e))
<1> DEFINE id == Append(up, w)
           D == DOMAIN s.entry
           t == AddKid(s, up, id, e)
<1>1. D \subseteq Seq(Word) /\ NoEntry \notin D /\ up \in Seq(Word)
  BY EmptySeq DEF IsTree, NoEntry
<1>2. /\ id \in Seq(Word) /\ Len(id) = Len(up) + 1 /\ Len(up) \in Nat
      /\ \A k \in 0..Len(up) : Around(id, k) = Around(up, k)
      /\ Around(id, Len(up)) = up /\ Around(id, Len(up) + 1) = id
      /\ id # <<>> /\ id # up
  BY <1>1, AroundAppend, LenProperties
<1>3. up = NoEntry \/ (up \in D /\ "kids" \in DOMAIN s.entry[up])
  BY DEF IsTree, HasFields
<1>4. /\ {"plugins", "top", "entry"} \subseteq DOMAIN t
      /\ t.top = IF up = NoEntry THEN Append(s.top, id) ELSE s.top
      /\ DOMAIN t.entry = D \cup {id} /\ t.entry[id] = e
      /\ \A x \in D : x # id => t.entry[x] =
           IF x = up /\ up # NoEntry
           THEN [s.entry[x] EXCEPT !.kids = Append(@, id)] ELSE s.entry[x]
  <2>1. {"plugins", "top", "entry"} \subseteq DOMAIN s
    BY DEF IsTree
  <2>2. up # id
    BY <1>2
  <2> HIDE DEF id
  <2>3. up = NoEntry \/ (up \in DOMAIN s.entry /\ "kids" \in DOMAIN s.entry[up])
    BY <1>3
  <2> HIDE DEF D
  <2>4. HasKid(s, AddKid(s, up, id, e), up, id, e)
    BY <2>1, <2>2, <2>3, AddKidResult
  <2>5. QED
    BY <2>4 DEF D, HasKid
<1>5. id \notin D
  OBVIOUS
<1> HIDE DEF t, id
<1> DEFINE E == D \cup {id}
<1>6. DOMAIN t.entry = E /\ D \subseteq E /\ id \in E
  BY <1>4
<1> HIDE DEF E
<1>7. E \subseteq Seq(Word) \ {NoEntry}
  BY <1>1, <1>2 DEF E, NoEntry
<1>8. /\ s.top \in Seq(D) /\ Len(s.top) \in Nat /\ IsSeq(s.top)
      /\ \A i \in 1..Len(s.top) : Len(s.top[i]) = 1
  BY SeqIsSeq DEF IsTree
<1>9. /\ t.top \in Seq(E) /\ \A i \in 1..Len(t.top) : Len(t.top[i]) = 1
      /\ ToSet(s.top) \subseteq ToSet(t.top)
      /\ up = NoEntry => id \in ToSet(t.top)
  <2>1. s.top \in Seq(E)
    BY <1>6, <1>8, SeqMonotonic
  <2>2. CASE up # NoEntry
    BY <2>1, <2>2, <1>4, <1>8
  <2>3. CASE up = NoEntry
    <3>1. t.top = Append(s.top, id)
      BY <1>4, <2>3
    <3>2. /\ t.top \in Seq(E) /\ Len(t.top) = Len(s.top) + 1
          /\ \A i \in 1..Len(s.top) : t.top[i] = s.top[i]
          /\ t.top[Len(s.top) + 1] = id
      BY <2>1, <3>1, <1>6, AppendProperties
    <3>3. ToSet(t.top) = ToSet(s.top) \cup {id}
      BY <3>1, <1>8, AppendFacts
    <3>4. Len(id) = 1
      BY <1>2, <2>3, EmptySeq DEF NoEntry
    <3>5. ASSUME NEW i \in 1..(Len(s.top) + 1) PROVE Len(t.top[i]) = 1
      <4>1. CASE i = Len(s.top) + 1
        BY <4>1, <3>2, <3>4
      <4>2. CASE i # Len(s.top) + 1
        <5>1. i \in 1..Len(s.top)
          BY <4>2, <1>8
        <5>2. QED
          BY <5>1, <3>2, <1>8
      <4>3. QED
        BY <4>1, <4>2
    <3>6. QED
      BY <3>2, <3>3, <3>5
  <2>4. QED
    BY <2>2, <2>3
<1>10. ASSUME NEW x \in D
       PROVE  /\ HasFields(t.entry[x]) /\ t.entry[x].lists \in E
              /\ KidsBelow(t, x)
              /\ ToSet(s.entry[x].kids) \subseteq ToSet(t.entry[x].kids)
              /\ x = up => id \in ToSet(t.entry[x].kids)
  <2>1. HasFields(s.entry[x]) /\ s.entry[x].lists \in D /\ KidsBelow(s, x)
    BY DEF IsTree
  <2>2. /\ s.entry[x].kids \in Seq(E) /\ Len(s.entry[x].kids) \in Nat
        /\ IsSeq(s.entry[x].kids)
        /\ \A i \in 1..Len(s.entry[x].kids) :
             /\ Len(s.entry[x].kids[i]) = Len(x) + 1
             /\ Around(s.entry[x].kids[i], Len(x)) = x
    BY <2>1, <1>6, SeqMonotonic, SeqIsSeq DEF KidsBelow
  <2>3. CASE x # up
    <3>1. t.entry[x] = s.entry[x]
      BY <1>4, <1>5, <2>3
    <3>2. KidsBelow(t, x)
      BY <3>1, <2>2, <1>6 DEF KidsBelow
    <3>3. QED
      BY <3>1, <3>2, <2>1, <2>3, <1>6
  <2>4. CASE x = up
    <3>1. t.entry[x] = [s.entry[x] EXCEPT !.kids = Append(@, id)]
      BY <1>1, <1>4, <1>5, <2>4
    <3>2. "kids" \in DOMAIN s.entry[x]
      BY <2>1 DEF HasFields
    <3>3. /\ DOMAIN t.entry[x] = DOMAIN s.entry[x]
          /\ t.entry[x].kids = Append(s.entry[x].kids, id)
          /\ \A f \in DOMAIN s.entry[x] : f # "kids" => t.entry[x][f] = s.entry[x][f]
      BY <3>1, <3>2
    <3>4. HasFields(t.entry[x]) /\ t.entry[x].lists \in E
      <4>1. {"attr", "actions", "hotkeys", "lists"} \subseteq DOMAIN s.entry[x]
        BY <2>1 DEF HasFields
      <4>2. /\ t.entry[x].attr = s.entry[x].attr
            /\ t.entry[x].actions = s.entry[x].actions
            /\ t.entry[x].hotkeys = s.entry[x].hotkeys
            /\ t.entry[x].lists = s.entry[x].lists
        BY <3>3, <4>1
      <4>3. QED
        BY <2>1, <3>3, <4>2, <1>6 DEF HasFields
    <3>5. /\ t.entry[x].kids \in Seq(E)
          /\ Len(t.entry[x].kids) = Len(s.entry[x].kids) + 1
          /\ \A i \in 1..Len(s.entry[x].kids) : t.entry[x].kids[i] = s.entry[x].kids[i]
          /\ t.entry[x].kids[Len(s.entry[x].kids) + 1] = id
      BY <2>2, <3>3, <1>6, AppendProperties
    <3>6. ToSet(t.entry[x].kids) = ToSet(s.entry[x].kids) \cup {id}
      BY <2>2, <3>3, AppendFacts
    <3>7. Len(id) = Len(x) + 1 /\ Around(id, Len(x)) = x
      BY <1>2, <2>4
    <3>8. KidsBelow(t, x)
      <4>1. ASSUME NEW i \in 1..(Len(s.entry[x].kids) + 1)
            PROVE  /\ Len(t.entry[x].kids[i]) = Len(x) + 1
                   /\ Around(t.entry[x].kids[i], Len(x)) = x
        <5>1. CASE i = Len(s.entry[x].kids) + 1
          BY <5>1, <3>5, <3>7
        <5>2. CASE i # Len(s.entry[x].kids) + 1
          <6>1. i \in 1..Len(s.entry[x].kids)
            BY <5>2, <2>2
          <6>2. QED
            BY <6>1, <3>5, <2>2
        <5>3. QED
          BY <5>1, <5>2
      <4>2. QED
        BY <4>1, <3>5, <1>6 DEF KidsBelow
    <3>9. QED
      BY <3>4, <3>6, <3>8
  <2>5. QED
    BY <2>3, <2>4
<1>11. ASSUME NEW x \in D PROVE Rooted(t, x)
  <2>1. Rooted(s, x)
    BY DEF IsTree
  <2>2. Around(x, 1) \in ToSet(t.top)
    BY <2>1, <1>9 DEF Rooted
  <2>3. ASSUME NEW k \in 1..(Len(x) - 1)
        PROVE  /\ Around(x, k) \in E
               /\ Around(x, k + 1) \in ToSet(t.entry[Around(x, k)].kids)
    BY <2>1, <1>6, <1>10 DEF Rooted
  <2>4. QED
    BY <2>2, <2>3, <1>6 DEF Rooted
<1>12. /\ HasFields(t.entry[id]) /\ t.entry[id].lists \in E
       /\ KidsBelow(t, id)
  <2>1. t.entry[id].kids = <<>> /\ t.entry[id].lists = id
    BY <1>4 DEF id
  <2>2. KidsBelow(t, id)
    BY <2>1, EmptySeq, <1>6 DEF KidsBelow
  <2>3. QED
    BY <2>1, <2>2, <1>4, <1>6
<1>13. Rooted(t, id)
  <2>1. CASE up = NoEntry
    <3>1. Len(up) = 0
      BY <2>1, EmptySeq DEF NoEntry
    <3>2. Around(id, 1) \in ToSet(t.top)
      BY <3>1, <2>1, <1>2, <1>9
    <3>3. QED
      BY <3>1, <3>2, <1>2 DEF Rooted
  <2>2. CASE up \in D
    <3>1. Rooted(t, up) /\ Len(up) > 0
      BY <2>2, <1>1, <1>2, <1>11, EmptySeq DEF NoEntry
    <3>2. Around(id, 1) = Around(up, 1)
      BY <3>1, <1>2
    <3>3. ASSUME NEW k \in 1..(Len(id) - 1)
          PROVE  /\ Around(id, k) \in DOMAIN t.entry
                 /\ Around(id, k + 1) \in ToSet(t.entry[Around(id, k)].kids)
      <4>1. CASE k = Len(up)
        <5>1. Around(id, k) = up /\ Around(id, k + 1) = id
          BY <4>1, <1>2
        <5>2. up \in DOMAIN t.entry /\ id \in ToSet(t.entry[up].kids)
          BY <2>2, <1>6, <1>10
        <5>3. QED
          BY <5>1, <5>2
      <4>2. CASE k # Len(up)
        <5>1. k \in 1..(Len(up) - 1) /\ k \in 0..Len(up) /\ k + 1 \in 0..Len(up)
          BY <4>2, <1>2
        <5>2. Around(id, k) = Around(up, k) /\ Around(id, k + 1) = Around(up, k + 1)
          BY <5>1, <1>2
        <5>3. /\ Around(up, k) \in DOMAIN t.entry
              /\ Around(up, k + 1) \in ToSet(t.entry[Around(up, k)].kids)
          BY <5>1, <3>1 DEF Rooted
        <5>4. QED
          BY <5>2, <5>3
      <4>3. QED
        BY <4>1, <4>2
    <3>4. QED
      BY <3>1, <3>2, <3>3 DEF Rooted
  <2>3. QED
    BY <2>1, <2>2
<1>14. \A x \in E : /\ HasFields(t.entry[x]) /\ t.entry[x].lists \in E
                    /\ KidsBelow(t, x) /\ Rooted(t, x)
  BY <1>10, <1>11, <1>12, <1>13 DEF E
<1>15. IsTree(t)
  BY <1>4, <1>6, <1>7, <1>9, <1>14 DEF IsTree
<1>16. QED
  BY <1>15 DEF t, id

(* What does not touch the kids leaves the tree as it is.                  *)
LEMMA SameTree ==
  ASSUME NEW s, IsTree(s), NEW t,
         {"plugins", "top", "entry"} \subseteq DOMAIN t,
         t.top = s.top, DOMAIN t.entry = DOMAIN s.entry,
         \A x \in DOMAIN s.entry :
           /\ HasFields(t.entry[x]) /\ t.entry[x].kids = s.entry[x].kids
           /\ t.entry[x].lists \in DOMAIN s.entry
  PROVE  IsTree(t)
<1>1. ASSUME NEW x \in DOMAIN s.entry PROVE KidsBelow(t, x)
  <2>1. KidsBelow(s, x)
    BY DEF IsTree
  <2>2. QED
    BY <2>1 DEF KidsBelow
<1>2. ASSUME NEW x \in DOMAIN s.entry PROVE Rooted(t, x)
  <2>1. Rooted(s, x)
    BY DEF IsTree
  <2>2. QED
    BY <2>1 DEF Rooted
<1>3. QED
  BY <1>1, <1>2 DEF IsTree

(* What an element gives its ENTRY.                                        *)
LEMMA RefAsWritten ==
  ASSUME NEW el, IsEntryTag(el.tag), "ref" \in DOMAIN Ientry(el)
  PROVE  "ref" \in DOMAIN el.attr /\ Ientry(el).ref = el.attr.ref
<1>1. "ref" \notin DOMAIN Forced(el)
  <2>1. \A f, g : "ref" \notin DOMAIN f /\ "ref" \notin DOMAIN g => "ref" \notin DOMAIN Over(f, g)
    BY DEF Over
  <2>2. "ref" \notin DOMAIN <<>>
    BY EmptySeq, LenProperties
  <2>3. CASE el.tag = "ENTRY"
    <3>1. Forced(el) = <<>>
      BY <2>3 DEF Forced, ParamTags, CommandTags, Special
    <3>2. QED
      BY <2>2, <3>1
  <2>4. CASE el.tag = "VIEW"
    <3>1. Forced(el) = ForView
      BY <2>4 DEF Forced, ParamTags, CommandTags, Special
    <3>2. QED
      BY <3>1 DEF ForView
  <2>5. CASE el.tag = "PTYPE"
    <3>1. "ref" \notin DOMAIN ForPtype
      BY DEF ForPtype
    <3>2. "ref" \notin DOMAIN (IF "ref" \in DOMAIN el.attr THEN [name |-> "__ptype"] ELSE <<>>)
      BY <2>2
    <3>3. Forced(el) =
            Over(ForPtype, IF "ref" \in DOMAIN el.attr THEN [name |-> "__ptype"] ELSE <<>>)
      BY <2>5 DEF Forced, ParamTags, CommandTags, Special
    <3>4. QED
      BY <2>1, <3>1, <3>2, <3>3
  <2>6. CASE el.tag \in ParamTags
    <3>1. "ref" \notin DOMAIN [purpose |-> "common", restore |-> "false", transparent |-> "true",
             filter |-> "false", container |-> IF el.tag = "PARAM" THEN "false" ELSE "true"]
      OBVIOUS
    <3>2. "ref" \notin DOMAIN (CASE el.tag = "PARAM" -> <<>>
                                 [] el.tag = "SWITCH" -> [mode |-> "switch"]
                                 [] el.tag = "SEQ" -> [mode |-> "sequence"])
      BY <2>2, <2>6 DEF ParamTags
    <3>3. "ref" \notin DOMAIN ForParam(el.tag)
      BY <2>1, <3>1, <3>2 DEF ForParam
    <3>4. el.tag \notin {"ENTRY", "VIEW", "PTYPE"} \cup CommandTags
      BY <2>6 DEF ParamTags, CommandTags, Special
    <3>5. QED
      BY <2>6, <3>3, <3>4 DEF Forced
  <2>7. CASE el.tag \in CommandTags
    <3>1. "ref" \notin DOMAIN [container |-> "false", transparent |-> "true", order |-> "false",
             purpose |-> IF el.tag \in DOMAIN Special THEN Special[el.tag] ELSE "common",
             filter |-> IF el.tag = "FILTER" THEN "true" ELSE "false"]
      OBVIOUS
    <3>2. "ref" \notin DOMAIN (IF el.tag \in DOMAIN Special
             THEN [name |-> SpecialName[el.tag], restore |-> "false"] ELSE <<>>)
      BY <2>2
    <3>3. "ref" \notin DOMAIN ForCommand(el.tag)
      BY <2>1, <3>1, <3>2 DEF ForCommand
    <3>4. el.tag \notin {"ENTRY", "VIEW", "PTYPE"} \cup ParamTags
      BY <2>7 DEF ParamTags, CommandTags, Special
    <3>5. QED
      BY <2>7, <3>3, <3>4 DEF Forced
  <2>8. QED
    BY <2>3, <2>4, <2>5, <2>6, <2>7 DEF IsEntryTag
<1>2. QED
  BY <1>1 DEF Ientry, Over

LEMMA EmptyIsSeq == IsSeq(<<>>) /\ Len(<<>>) = 0 /\ ToSet(<<>>) = {}
<1>1. DOMAIN <<>> = {}
  BY LenProperties, EmptySeq
<1>2. ToSet(<<>>) = {}
  BY <1>1 DEF ToSet
<1>3. QED
  BY <1>2, EmptySeq DEF IsSeq

IsInfo(info) ==
  /\ "name" \in DOMAIN info /\ info.name \in Word
  /\ "ref" \in DOMAIN info /\ info.ref # None => IsSeq(info.ref)
LEMMA MergeFields ==
  ASSUME NEW info, NEW attr, DOMAIN Defaults \subseteq DOMAIN attr,
         "ref" \in DOMAIN info /\ info.ref # None => IsSeq(info.ref),
         attr.ref # None => IsSeq(attr.ref)
  PROVE  /\ DOMAIN Defaults \subseteq DOMAIN Merge(info, attr)
         /\ Merge(info, attr).ref # None => IsSeq(Merge(info, attr).ref)
<1>1. "ref" \in DOMAIN Defaults
  BY DEF Defaults
<1>2. "ref" \in DOMAIN Merge(info, attr)
  BY <1>1 DEF Merge, Over
<1>3. Merge(info, attr).ref = IF "ref" \in DOMAIN info THEN info.ref ELSE attr.ref
  BY <1>2 DEF Merge, Over
<1>4. QED
  BY <1>3 DEF Merge, Over

LEMMA KentryFields ==
  ASSUME NEW id, NEW parent, NEW attr, DOMAIN Defaults \subseteq DOMAIN attr,
         attr.ref # None => IsSeq(attr.ref)
  PROVE  /\ HasFields(Kentry(id, parent, attr)) /\ Kentry(id, parent, attr).kids = <<>>
         /\ Kentry(id, parent, attr).lists = id /\ Kentry(id, parent, attr).hotkeys = <<>>
<1> DEFINE e == Kentry(id, parent, attr)
<1>1. /\ {"attr", "parent", "lists", "kids", "actions", "hotkeys", "nested"} \subseteq DOMAIN e
      /\ e.attr = attr /\ e.kids = <<>> /\ e.lists = id /\ e.actions = <<>> /\ e.hotkeys = <<>>
  BY DEF Kentry
<1> HIDE DEF e
<1>2. HasFields(e)
  BY <1>1, EmptyIsSeq DEF HasFields
<1>3. QED
  BY <1>1, <1>2 DEF e
(* What the elements that stand for ENTRYs do to the scheme: ENTRYs and    *)
(* their HOTKEYs stay, and none is a link yet.                             *)
Unlinked(s) == \A id \in DOMAIN s.entry : s.entry[id].lists = id
Grown(s, t) ==
  /\ IsTree(t) /\ Unlinked(t)
  /\ DOMAIN s.entry \subseteq DOMAIN t.entry /\ t.plugins = s.plugins
  /\ \A x \in DOMAIN t.entry : t.entry[x].hotkeys =
       IF x \in DOMAIN s.entry THEN s.entry[x].hotkeys ELSE <<>>
SameText(s, t, x) ==
  t.entry[x].attr = s.entry[x].attr /\ t.entry[x].actions = s.entry[x].actions
Keeps(s, t) ==
  DOMAIN s.entry \subseteq DOMAIN t.entry /\ \A x \in DOMAIN s.entry : SameText(s, t, x)
GrownBy(s, t, id) ==
  /\ Grown(s, t) /\ DOMAIN t.entry = DOMAIN s.entry \cup {id}
  /\ \A x \in DOMAIN s.entry : x # id => SameText(s, t, x)

LEMMA AddKidGrown ==
  ASSUME NEW s, IsTree(s), Unlinked(s), NEW up \in DOMAIN s.entry \cup {NoEntry},
         NEW w \in Word, Append(up, w) \notin DOMAIN s.entry,
         NEW e, HasFields(e), e.kids = <<>>, e.hotkeys = <<>>, e.lists = Append(up, w)
  PROVE  GrownBy(s, AddKid(s, up, Append(up, w), e), Append(up, w))
<1> DEFINE id == Append(up, w)
           t == AddKid(s, up, id, e)
<1>1. IsTree(t)
  BY AddKidTree
<1>2. up \in Seq(Word) /\ {"plugins", "top", "entry"} \subseteq DOMAIN s
  BY EmptySeq DEF IsTree, NoEntry
<1>3. up # id
  BY <1>2, AroundAppend
<1>4. up = NoEntry \/ (up \in DOMAIN s.entry /\ "kids" \in DOMAIN s.entry[up])
  BY DEF IsTree, HasFields
<1>5. e.lists = id /\ e.hotkeys = <<>> /\ id \notin DOMAIN s.entry
  OBVIOUS
<1> HIDE DEF id, t
<1>6. HasKid(s, AddKid(s, up, id, e), up, id, e)
  BY <1>2, <1>3, <1>4, AddKidResult
<1>7. HasKid(s, t, up, id, e)
  BY <1>6 DEF t
<1>8. DOMAIN t.entry = DOMAIN s.entry \cup {id} /\ t.entry[id] = e
  BY <1>7 DEF HasKid
<1>9. ASSUME NEW x \in DOMAIN s.entry
      PROVE  /\ t.entry[x].lists = x /\ t.entry[x].hotkeys = s.entry[x].hotkeys
             /\ SameText(s, t, x)
  <2>1. s.entry[x].lists = x /\ HasFields(s.entry[x]) /\ x # id
    BY <1>5 DEF Unlinked, IsTree
  <2>2. t.entry[x] = IF x = up /\ up # NoEntry
                     THEN [s.entry[x] EXCEPT !.kids = Append(@, id)] ELSE s.entry[x]
    BY <2>1, <1>7 DEF HasKid
  <2>3. {"lists", "hotkeys", "attr", "actions"} \subseteq DOMAIN s.entry[x]
    BY <2>1 DEF HasFields
  <2>4. QED
    BY <2>1, <2>2, <2>3 DEF SameText
<1>10. Unlinked(t)
  BY <1>5, <1>8, <1>9 DEF Unlinked
<1>11. t.plugins = s.plugins
  BY <1>7 DEF HasKid
<1>12. Grown(s, t)
  BY <1>1, <1>5, <1>8, <1>9, <1>10, <1>11 DEF Grown, t
<1>13. QED
  BY <1>8, <1>9, <1>12 DEF GrownBy, t, id

LEMMA AddEntryGrown ==
  ASSUME NEW s, IsTree(s), Unlinked(s), NEW up \in DOMAIN s.entry \cup {NoEntry},
         NEW info, IsInfo(info)
  PROVE  GrownBy(s, AddEntry(s, up, info), Append(up, info.name))
<1> DEFINE id == Append(up, info.name)
           t == AddEntry(s, up, info)
<1>1. info.name \in Word /\ ("ref" \in DOMAIN info /\ info.ref # None => IsSeq(info.ref))
  BY DEF IsInfo
<1>2. CASE id \in DOMAIN s.entry
  <2>1. t = [s EXCEPT !.entry[id].attr = Merge(info, @)]
    BY <1>2 DEF AddEntry
  <2>2. \A x \in DOMAIN s.entry : HasFields(s.entry[x])
    BY DEF IsTree
  <2>3. /\ {"attr", "lists", "kids", "actions", "hotkeys", "nested", "parent"} \subseteq DOMAIN s.entry[id]
        /\ {"plugins", "top", "entry"} \subseteq DOMAIN s
    BY <2>2, <1>2 DEF HasFields, IsTree
  <2> DEFINE m == Merge(info, s.entry[id].attr)
  <2>4. /\ DOMAIN Defaults \subseteq DOMAIN m
        /\ m.ref # None => IsSeq(m.ref)
    <3>1. /\ DOMAIN Defaults \subseteq DOMAIN s.entry[id].attr
          /\ s.entry[id].attr.ref # None => IsSeq(s.entry[id].attr.ref)
      BY <2>2, <1>2 DEF HasFields
    <3> HIDE DEF id
    <3>2. QED
      BY <1>1, <3>1, MergeFields
  <2> HIDE DEF m, id, t
  <2>5. t = [s EXCEPT !.entry[id].attr = m]
    BY <2>1 DEF m
  <2>6. /\ {"plugins", "top", "entry"} \subseteq DOMAIN t /\ t.top = s.top
        /\ t.plugins = s.plugins /\ DOMAIN t.entry = DOMAIN s.entry
        /\ \A x \in DOMAIN s.entry : x # id => t.entry[x] = s.entry[x]
        /\ t.entry[id] = [s.entry[id] EXCEPT !.attr = m]
    BY <2>3, <2>5, <1>2
  <2>7. /\ DOMAIN t.entry[id] = DOMAIN s.entry[id] /\ t.entry[id].attr = m
        /\ t.entry[id].kids = s.entry[id].kids /\ t.entry[id].lists = s.entry[id].lists
        /\ t.entry[id].actions = s.entry[id].actions
        /\ t.entry[id].hotkeys = s.entry[id].hotkeys
    BY <2>6, <2>3
  <2>8. HasFields(t.entry[id])
    BY <2>2, <2>4, <2>7, <1>2 DEF HasFields
  <2>9. \A x \in DOMAIN s.entry : s.entry[x].lists = x
    BY DEF Unlinked
  <2>10. \A x \in DOMAIN s.entry :
           /\ HasFields(t.entry[x]) /\ t.entry[x].kids = s.entry[x].kids
           /\ t.entry[x].lists = x /\ t.entry[x].hotkeys = s.entry[x].hotkeys
    BY <2>2, <2>6, <2>7, <2>8, <2>9, <1>2
  <2>11. IsTree(t)
    BY <2>6, <2>10, SameTree
  <2>12. Grown(s, t)
    BY <2>6, <2>10, <2>11 DEF Grown, Unlinked
  <2>13. QED
    BY <2>6, <2>12, <1>2 DEF GrownBy, SameText, t, id
<1>3. CASE id \notin DOMAIN s.entry
  <2> DEFINE m == Merge(info, Defaults)
             e == Kentry(id, up, m)
  <2>1. t = AddKid(s, up, id, e)
    BY <1>3 DEF AddEntry
  <2>2. Defaults.ref = None
    BY DEF Defaults
  <2>3. /\ DOMAIN Defaults \subseteq DOMAIN m
        /\ m.ref # None => IsSeq(m.ref)
    BY <1>1, <2>2, MergeFields
  <2> HIDE DEF m
  <2>4. HasFields(e) /\ e.kids = <<>> /\ e.lists = id /\ e.hotkeys = <<>>
    <3> HIDE DEF id
    <3>1. QED
      BY <2>3, KentryFields
  <2> HIDE DEF e
  <2>5. QED
    BY <2>1, <2>4, <1>1, <1>3, AddKidGrown
<1>4. QED
  BY <1>2, <1>3

(* The same, for the ENTRYs that the code makes itself.                    *)
IsActions(a) ==
  /\ IsSeq(a)
  /\ \A i \in 1..Len(a) : {"sym", "plugin", "sync", "bound"} \subseteq DOMAIN a[i]
LEMMA HiddenGrown ==
  ASSUME NEW s, IsTree(s), Unlinked(s), NEW up \in DOMAIN s.entry \cup {NoEntry},
         NEW name \in Word, Append(up, name) \notin DOMAIN s.entry,
         NEW purpose, NEW ref, ref # None => IsSeq(ref),
         NEW actions, IsActions(actions)
  PROVE  GrownBy(s, Hidden(s, up, name, purpose, ref, actions), Append(up, name))
<1> DEFINE id == Append(up, name)
           attr == [Defaults EXCEPT !.purpose = purpose, !.ref = ref]
           k == Kentry(id, NoEntry, attr)
           e == [k EXCEPT !.actions = actions]
<1>1. DOMAIN Defaults \subseteq DOMAIN attr /\ attr.ref = ref
  BY DEF Defaults
<1> HIDE DEF attr
<1>2. HasFields(k) /\ k.kids = <<>> /\ k.lists = id /\ k.hotkeys = <<>>
  <2> HIDE DEF id
  <2>1. QED
    BY <1>1, KentryFields
<1>3. Hidden(s, up, name, purpose, ref, actions) = AddKid(s, up, id, e)
  BY DEF Hidden, attr
<1> HIDE DEF k
<1>4. {"attr", "lists", "kids", "actions", "hotkeys", "nested", "parent"} \subseteq DOMAIN k
  BY <1>2 DEF HasFields
<1>5. /\ DOMAIN e = DOMAIN k /\ e.attr = k.attr /\ e.kids = k.kids /\ e.lists = k.lists
      /\ e.hotkeys = k.hotkeys /\ e.actions = actions
  BY <1>4
<1> HIDE DEF e
<1>6. HasFields(e) /\ e.kids = <<>> /\ e.lists = id /\ e.hotkeys = <<>>
  BY <1>2, <1>5 DEF HasFields, IsActions
<1>7. GrownBy(s, AddKid(s, up, id, e), id)
  BY <1>6, AddKidGrown
<1>8. QED
  BY <1>3, <1>7
LEMMA GrownTwice ==
  ASSUME NEW s, NEW t, NEW u, Grown(s, t), Grown(t, u)
  PROVE  Grown(s, u)
BY DEF Grown
LEMMA KeepsTwice ==
  ASSUME NEW s, NEW t, NEW u, Keeps(s, t), Keeps(t, u)
  PROVE  Keeps(s, u)
BY DEF Keeps, SameText
LEMMA NewKeeps ==
  ASSUME NEW s, NEW t, NEW id, id \notin DOMAIN s.entry, GrownBy(s, t, id)
  PROVE  Keeps(s, t)
BY DEF Keeps, GrownBy, Grown

LEMMA PtypeLinkGrown ==
  ASSUME NEW s, IsTree(s), Unlinked(s), NEW id \in DOMAIN s.entry,
         NEW ref, ref # None => IsSeq(ref)
  PROVE  Grown(s, CreatePtypeLink(s, id, ref)) /\ Keeps(s, CreatePtypeLink(s, id, ref))
<1>1. CASE Append(id, "__ptype") \in DOMAIN s.entry
  BY <1>1 DEF CreatePtypeLink, Grown, Keeps, SameText
<1>2. CASE Append(id, "__ptype") \notin DOMAIN s.entry
  <2>1. "__ptype" \in Word
    BY DEF Word
  <2>2. IsActions(<<>>)
    BY EmptyIsSeq DEF IsActions
  <2> DEFINE none == <<>>
  <2>3. IsActions(none)
    BY <2>2
  <2> HIDE DEF none
  <2>4. /\ Grown(s, Hidden(s, id, "__ptype", "ptype", ref, none))
        /\ Keeps(s, Hidden(s, id, "__ptype", "ptype", ref, none))
    BY <1>2, <2>1, <2>3, HiddenGrown, NewKeeps DEF GrownBy
  <2>5. CreatePtypeLink(s, id, ref) = Hidden(s, id, "__ptype", "ptype", ref, none)
    BY <1>2 DEF CreatePtypeLink, none
  <2>6. QED
    BY <2>4, <2>5
<1>3. QED
  BY <1>1, <1>2

LEMMA PtypeCommandGrown ==
  ASSUME NEW s, IsTree(s), Unlinked(s), NEW id \in DOMAIN s.entry
  PROVE  Grown(s, CreatePtypeCommand(s, id)) /\ Keeps(s, CreatePtypeCommand(s, id))
<1> DEFINE p == Append(id, "__ptype")
           c == Append(p, "__compl")
           h == Append(p, "__help")
           made == CreatePtypeCommand(s, id)
<1>1. ASSUME p \in DOMAIN s.entry PROVE Grown(s, made) /\ Keeps(s, made)
  BY <1>1 DEF CreatePtypeCommand, Grown, Keeps, SameText
<1>2. ASSUME p \notin DOMAIN s.entry PROVE Grown(s, made) /\ Keeps(s, made)
  <2> DEFINE A1 == <<Action("COMMAND", "klish")>>
             A2 == <<Action("completion_COMMAND", "klish")>>
             A3 == <<Action("help_COMMAND", "klish")>>
             s1 == Hidden(s, id, "__ptype", "ptype", None, A1)
             s2 == Hidden(s1, p, "__compl", "completion", None, A2)
             s3 == Hidden(s2, p, "__help", "help", None, A3)
  <2>1. {"__ptype", "__compl", "__help"} \subseteq Word
    BY DEF Word
  <2>2. \A sym, plugin :
          /\ IsSeq(<<Action(sym, plugin)>>) /\ Len(<<Action(sym, plugin)>>) = 1
          /\ {"sym", "plugin", "sync", "bound"} \subseteq DOMAIN <<Action(sym, plugin)>>[1]
    <3>1. \A x : IsSeq(<<x>>) /\ Len(<<x>>) = 1 /\ <<x>>[1] = x
      BY DEF IsSeq, ToSet
    <3>2. \A sym, plugin :
            {"sym", "plugin", "sync", "bound"} \subseteq DOMAIN Action(sym, plugin)
      BY DEF Action
    <3>3. QED
      BY <3>1, <3>2
  <2>3. IsActions(A1) /\ IsActions(A2) /\ IsActions(A3)
    BY <2>2 DEF IsActions
  <2>4. CreatePtypeCommand(s, id) = s3
    BY <1>2 DEF CreatePtypeCommand
  <2>5. /\ id \in Seq(Word) /\ p \in Seq(Word) /\ Len(p) = Len(id) + 1
        /\ Len(c) = Len(p) + 1 /\ Len(h) = Len(p) + 1 /\ Len(id) \in Nat
        /\ c[Len(p) + 1] = "__compl" /\ h[Len(p) + 1] = "__help"
    BY <2>1, AppendProperties, LenProperties DEF IsTree
  <2>6. c # h /\ c # p /\ h # p
    BY <2>5
  <2>7. c \notin DOMAIN s.entry /\ h \notin DOMAIN s.entry
    <3>1. ASSUME NEW w \in {"__compl", "__help"}, Append(p, w) \in DOMAIN s.entry
          PROVE  FALSE
      <4> DEFINE q == Append(p, w)
      <4>1. Rooted(s, q)
        BY <3>1 DEF IsTree
      <4>2. Len(q) = Len(p) + 1 /\ Around(q, Len(p)) = p
        <5>1. w \in Word /\ p \in Seq(Word)
          BY <2>1, <2>5
        <5> HIDE DEF p
        <5>2. QED
          BY <5>1, AroundAppend
      <4>3. Len(p) \in 1..(Len(q) - 1)
        BY <4>2, <2>5
      <4> HIDE DEF q
      <4>4. p \in DOMAIN s.entry
        BY <4>1, <4>2, <4>3 DEF Rooted
      <4>5. QED
        BY <4>4, <1>2
    <3>2. QED
      BY <3>1
  <2> HIDE DEF A1, A2, A3
  <2>8. GrownBy(s, s1, p) /\ Keeps(s, s1)
    <3>1. "__ptype" \in Word
      BY <2>1
    <3>2. GrownBy(s, s1, p)
      BY <1>2, <3>1, <2>3, HiddenGrown
    <3>3. QED
      BY <1>2, <3>2, NewKeeps
  <2>9. IsTree(s1) /\ Unlinked(s1) /\ p \in DOMAIN s1.entry /\ c \notin DOMAIN s1.entry
    BY <2>6, <2>7, <2>8 DEF Grown, GrownBy
  <2> HIDE DEF p, s1
  <2>10. GrownBy(s1, s2, c) /\ Keeps(s1, s2)
    <3>1. "__compl" \in Word
      BY <2>1
    <3>2. GrownBy(s1, s2, c)
      BY <3>1, <2>3, <2>9, HiddenGrown
    <3>3. QED
      BY <2>9, <3>2, NewKeeps
  <2>11. IsTree(s2) /\ Unlinked(s2) /\ p \in DOMAIN s2.entry /\ h \notin DOMAIN s2.entry
    BY <2>6, <2>7, <2>8, <2>9, <2>10 DEF Grown, GrownBy
  <2> HIDE DEF s2
  <2>12. Grown(s2, s3) /\ Keeps(s2, s3)
    <3>1. "__help" \in Word
      BY <2>1
    <3>2. GrownBy(s2, s3, h)
      BY <3>1, <2>3, <2>11, HiddenGrown
    <3>3. QED
      BY <2>11, <3>2, NewKeeps DEF GrownBy
  <2> HIDE DEF s3
  <2>13. QED
    BY <2>4, <2>8, <2>10, <2>12, GrownTwice, KeepsTwice DEF GrownBy
<1>3. QED
  BY <1>1, <1>2
(* The other elements set one field of an ENTRY.                           *)
LEMMA FieldSet ==
  ASSUME NEW s, IsTree(s), NEW id \in DOMAIN s.entry, NEW t, NEW e,
         t = [s EXCEPT !.entry[id] = e],
         HasFields(e), e.kids = s.entry[id].kids, e.lists \in DOMAIN s.entry
  PROVE  /\ IsTree(t) /\ DOMAIN t.entry = DOMAIN s.entry
         /\ t.entry[id] = e /\ \A x \in DOMAIN s.entry : x # id => t.entry[x] = s.entry[x]
         /\ t.top = s.top /\ t.plugins = s.plugins
<1>1. /\ {"plugins", "top", "entry"} \subseteq DOMAIN s
      /\ \A x \in DOMAIN s.entry : HasFields(s.entry[x]) /\ s.entry[x].lists \in DOMAIN s.entry
  BY DEF IsTree
<1>2. /\ {"plugins", "top", "entry"} \subseteq DOMAIN t
      /\ t.top = s.top /\ t.plugins = s.plugins /\ DOMAIN t.entry = DOMAIN s.entry
      /\ \A x \in DOMAIN s.entry : x # id => t.entry[x] = s.entry[x]
      /\ t.entry[id] = e
  BY <1>1
<1>3. \A x \in DOMAIN s.entry :
        /\ HasFields(t.entry[x]) /\ t.entry[x].kids = s.entry[x].kids
        /\ t.entry[x].lists \in DOMAIN s.entry
  BY <1>1, <1>2
<1>4. QED
  BY <1>2, <1>3, SameTree

LEMMA ActionAdded ==
  ASSUME NEW s, IsTree(s), Unlinked(s), NEW id \in DOMAIN s.entry, NEW attr
  PROVE  Grown(s, [s EXCEPT !.entry[id].actions =
                     Append(@, Over(attr, Action(None, None)))])
<1> DEFINE a == Over(attr, Action(None, None))
           old == s.entry[id]
           e == [old EXCEPT !.actions = Append(@, a)]
           t == [s EXCEPT !.entry[id].actions = Append(@, a)]
<1>1. {"plugins", "top", "entry"} \subseteq DOMAIN s /\ HasFields(old) /\ old.lists = id
  BY DEF IsTree, Unlinked
<1>2. {"sym", "plugin", "sync", "bound"} \subseteq DOMAIN a
  BY DEF Over, Action
<1> HIDE DEF a, old
<1>3. {"attr", "lists", "kids", "actions", "hotkeys", "nested", "parent"} \subseteq DOMAIN old
  BY <1>1 DEF HasFields
<1>4. /\ DOMAIN e = DOMAIN old /\ e.attr = old.attr /\ e.kids = old.kids
      /\ e.lists = old.lists /\ e.hotkeys = old.hotkeys
      /\ e.actions = Append(old.actions, a)
  BY <1>3
<1>5. HasFields(e)
  <2> DEFINE n == Len(old.actions)
  <2>1. /\ IsSeq(old.actions) /\ n \in Nat
        /\ \A i \in 1..n : {"sym", "plugin", "sync", "bound"} \subseteq DOMAIN old.actions[i]
    BY <1>1, IsSeqFacts DEF HasFields
  <2>2. /\ IsSeq(e.actions) /\ Len(e.actions) = n + 1
        /\ \A i \in 1..n : e.actions[i] = old.actions[i]
        /\ e.actions[n + 1] = a
    BY <2>1, <1>4, AppendFacts
  <2> HIDE DEF n
  <2>3. ASSUME NEW i \in 1..(n + 1)
        PROVE  {"sym", "plugin", "sync", "bound"} \subseteq DOMAIN e.actions[i]
    <3>1. CASE i = n + 1
      BY <3>1, <2>2, <1>2
    <3>2. CASE i # n + 1
      <4>1. i \in 1..n
        BY <3>2, <2>1
      <4>2. QED
        BY <4>1, <2>1, <2>2
    <3>3. QED
      BY <3>1, <3>2
  <2>4. QED
    BY <1>1, <1>4, <2>2, <2>3 DEF HasFields, n
<1>6. t = [s EXCEPT !.entry[id] = e]
  BY <1>1 DEF old
<1> HIDE DEF t, e
<1>7. /\ IsTree(t) /\ DOMAIN t.entry = DOMAIN s.entry
      /\ t.entry[id] = e /\ \A x \in DOMAIN s.entry : x # id => t.entry[x] = s.entry[x]
      /\ t.top = s.top /\ t.plugins = s.plugins
  <2>1. e.kids = s.entry[id].kids /\ e.lists \in DOMAIN s.entry
    BY <1>1, <1>4 DEF old
  <2>2. QED
    BY <2>1, <1>5, <1>6, FieldSet
<1>8. \A x \in DOMAIN s.entry :
        t.entry[x].lists = x /\ t.entry[x].hotkeys = s.entry[x].hotkeys
  BY <1>1, <1>4, <1>7 DEF Unlinked, old
<1>9. Grown(s, t)
  BY <1>7, <1>8 DEF Grown, Unlinked
<1>10. QED
  BY <1>9 DEF t, a

WithHotkey(s, id, key) == [s EXCEPT !.entry[id].hotkeys = Append(@, key)]
HasHotkey(s, t, id, key) ==
  /\ IsTree(t) /\ Unlinked(t) /\ DOMAIN t.entry = DOMAIN s.entry
  /\ t.plugins = s.plugins
  /\ \A x \in DOMAIN s.entry : ToSet(t.entry[x].hotkeys) =
       IF x = id THEN ToSet(s.entry[x].hotkeys) \cup {key}
       ELSE ToSet(s.entry[x].hotkeys)
LEMMA HotkeyAdded ==
  ASSUME NEW s, IsTree(s), Unlinked(s), NEW id \in DOMAIN s.entry, NEW key
  PROVE  HasHotkey(s, WithHotkey(s, id, key), id, key)
<1> DEFINE t == WithHotkey(s, id, key)
           old == s.entry[id]
           e == [old EXCEPT !.hotkeys = Append(@, key)]
<1>1. {"plugins", "top", "entry"} \subseteq DOMAIN s /\ HasFields(old) /\ old.lists = id
  BY DEF IsTree, Unlinked
<1> HIDE DEF old
<1>2. {"attr", "lists", "kids", "actions", "hotkeys", "nested", "parent"} \subseteq DOMAIN old
  BY <1>1 DEF HasFields
<1>3. /\ DOMAIN e = DOMAIN old /\ e.attr = old.attr /\ e.kids = old.kids
      /\ e.lists = old.lists /\ e.actions = old.actions
      /\ e.hotkeys = Append(old.hotkeys, key)
  BY <1>2
<1>4. /\ IsSeq(e.hotkeys)
      /\ ToSet(e.hotkeys) = ToSet(old.hotkeys) \cup {key}
  <2>1. IsSeq(old.hotkeys)
    BY <1>1 DEF HasFields
  <2>2. QED
    BY <2>1, <1>3, AppendFacts
<1>5. HasFields(e)
  BY <1>1, <1>3, <1>4 DEF HasFields
<1>6. t = [s EXCEPT !.entry[id] = e]
  BY <1>1 DEF old, WithHotkey
<1> HIDE DEF e, t
<1> DEFINE u == [s EXCEPT !.entry[id] = e]
<1> HIDE DEF u
<1>7. /\ IsTree(u) /\ DOMAIN u.entry = DOMAIN s.entry
      /\ u.entry[id] = e /\ \A x \in DOMAIN s.entry : x # id => u.entry[x] = s.entry[x]
      /\ u.plugins = s.plugins
  <2>1. e.kids = s.entry[id].kids /\ e.lists \in DOMAIN s.entry
    BY <1>1, <1>3 DEF old
  <2>2. QED
    BY <2>1, <1>5, FieldSet DEF u
<1>8. \A x \in DOMAIN s.entry : s.entry[x].lists = x
  BY DEF Unlinked
<1>9. \A x \in DOMAIN s.entry : u.entry[x].lists = x
  BY <1>3, <1>7, <1>8, <1>1
<1>10. Unlinked(u)
  BY <1>7, <1>9 DEF Unlinked
<1>11. \A x \in DOMAIN s.entry : ToSet(u.entry[x].hotkeys) =
         IF x = id THEN ToSet(s.entry[x].hotkeys) \cup {key}
         ELSE ToSet(s.entry[x].hotkeys)
  BY <1>4, <1>7 DEF old
<1>12. t = u
  BY <1>6 DEF u
<1>13. QED
  BY <1>7, <1>10, <1>11, <1>12 DEF HasHotkey, t
-----------------------------------------------------------------------------
(* The type invariant is inductive; first, while the files are read.       *)
LEMMA InputFacts ==
  ASSUME input \in Inputs, file \in Nat \ {0}, file <= Len(input)
  PROVE  /\ Len(input) \in Nat /\ file \in DOMAIN input
         /\ WellFormed(input[file].tags) /\ IsSeq(input[file].tags)
         /\ Len(input[file].tags) \in Nat
         /\ DOMAIN input[file].tags = 1..Len(input[file].tags)
<1>1. IsSeq(input) /\ \A f \in DOMAIN input : WellFormed(input[f].tags)
  BY InputsAssumption
<1>2. Len(input) \in Nat /\ DOMAIN input = 1..Len(input)
  BY <1>1, IsSeqFacts
<1>3. file \in DOMAIN input
  BY <1>2
<1>4. WellFormed(input[file].tags) /\ IsSeq(input[file].tags)
  BY <1>1, <1>3 DEF WellFormed
<1>5. QED
  BY <1>2, <1>3, <1>4, IsSeqFacts

LEMMA ReadingFacts ==
  ASSUME TypeInv, Reading
  PROVE  /\ file \in DOMAIN input /\ WellFormed(input[file].tags)
         /\ IsSeq(input[file].tags) /\ Len(input[file].tags) \in Nat
         /\ at \in 1..Len(input[file].tags) /\ at \in DOMAIN input[file].tags
         /\ Len(stack) \in Nat \ {0} /\ Up = stack[Len(stack)]
         /\ Up.id \in DOMAIN scheme.entry \cup {NoEntry}
         /\ IsEntryTag(Up.tag) => Up.id \in DOMAIN scheme.entry
<1>1. input \in Inputs /\ file \in Nat \ {0} /\ file <= Len(input) /\ at \in Nat \ {0}
      /\ at <= Len(input[file].tags) /\ stack # <<>> /\ StackType
  BY DEF TypeInv, Reading
<1>2. /\ file \in DOMAIN input /\ WellFormed(input[file].tags) /\ IsSeq(input[file].tags)
      /\ Len(input[file].tags) \in Nat
      /\ DOMAIN input[file].tags = 1..Len(input[file].tags)
  BY <1>1, InputFacts
<1>3. at \in 1..Len(input[file].tags)
  BY <1>1, <1>2
<1>4. Len(stack) \in Nat \ {0} /\ Up = stack[Len(stack)]
  <2>1. IsSeq(stack) /\ stack # <<>>
    BY <1>1 DEF StackType
  <2>2. QED
    BY <2>1, IsSeqFacts, FrontFacts DEF Up
<1>5. Len(stack) \in 1..Len(stack)
  BY <1>4
<1>6. /\ Up.id \in DOMAIN scheme.entry \cup {NoEntry}
      /\ IsEntryTag(Up.tag) => Up.id \in DOMAIN scheme.entry
  BY <1>1, <1>4, <1>5 DEF StackType
<1>7. QED
  BY <1>2, <1>3, <1>4, <1>6

LEMMA EndOfFacts ==
  ASSUME TypeInv, Reading, Elem.tag # "/"
  PROVE  EndOf \in at..Len(input[file].tags) /\ Ends(input[file].tags, at, EndOf)
<1>1. WellFormed(input[file].tags) /\ at \in DOMAIN input[file].tags
  BY ReadingFacts
<1>2. \E j \in at..Len(input[file].tags) : Ends(input[file].tags, at, j)
  BY <1>1 DEF WellFormed, Elem
<1>3. QED
  BY <1>2 DEF EndOf

LEMMA InfoFacts ==
  ASSUME TypeInv, Reading, IsEntryTag(Elem.tag)
  PROVE  /\ "name" \in DOMAIN Ientry(Elem) => IsInfo(Ientry(Elem))
         /\ "ptype" \in DOMAIN Elem.attr => IsSeq(Elem.attr.ptype)
         /\ Elem.tag # "/"
<1>1. /\ input \in Inputs /\ file \in DOMAIN input /\ at \in DOMAIN input[file].tags
      /\ WellFormed(input[file].tags)
  BY ReadingFacts DEF TypeInv
<1>2. Elem.tag # "/"
  BY DEF IsEntryTag, ParamTags, CommandTags, Special
<1>3. \A a \in DOMAIN Elem.attr \cap {"ref", "ptype"} : IsSeq(Elem.attr[a])
  BY <1>1, <1>2 DEF WellFormed, Elem
<1>4. "ref" \in DOMAIN Ientry(Elem) => IsSeq(Ientry(Elem).ref)
  BY <1>3, RefAsWritten
<1>5. ASSUME "name" \in DOMAIN Ientry(Elem) PROVE Ientry(Elem).name \in Word
  <2>1. Ientry(Elem).name \in NamesIn(input[file].tags)
    BY <1>1, <1>5 DEF NamesIn, NameOf, Elem
  <2>2. QED
    BY <2>1, <1>1 DEF Word
<1>6. QED
  BY <1>2, <1>3, <1>4, <1>5 DEF IsInfo

LEMMA PushedStack ==
  ASSUME StackType, DOMAIN scheme.entry \subseteq DOMAIN scheme'.entry,
         NEW tag, NEW id \in DOMAIN scheme'.entry \cup {NoEntry},
         IsEntryTag(tag) => id \in DOMAIN scheme'.entry,
         stack' = Append(stack, [tag |-> tag, id |-> id])
  PROVE  StackType'
<1> DEFINE x == [tag |-> tag, id |-> id]
<1>1. IsSeq(stack) /\ Len(stack) \in Nat
  BY IsSeqFacts DEF StackType
<1>2. x.tag = tag /\ x.id = id
  OBVIOUS
<1> HIDE DEF x
<1>3. /\ IsSeq(stack') /\ Len(stack') = Len(stack) + 1
      /\ \A i \in 1..Len(stack) : stack'[i] = stack[i]
      /\ stack'[Len(stack) + 1] = x
  <2>1. stack' = Append(stack, x)
    BY DEF x
  <2>2. QED
    BY <2>1, <1>1, AppendFacts
<1>4. ASSUME NEW k \in 1..(Len(stack) + 1)
      PROVE  /\ stack'[k].id \in DOMAIN scheme'.entry \cup {NoEntry}
             /\ IsEntryTag(stack'[k].tag) => stack'[k].id \in DOMAIN scheme'.entry
  <2>1. CASE k = Len(stack) + 1
    BY <2>1, <1>2, <1>3
  <2>2. CASE k # Len(stack) + 1
    <3>1. k \in 1..Len(stack)
      BY <2>2, <1>1
    <3>2. QED
      BY <3>1, <1>3 DEF StackType
  <2>3. QED
    BY <2>1, <2>2
<1>5. QED
  BY <1>3, <1>4 DEF StackType

LEMMA KeptStack ==
  ASSUME StackType, DOMAIN scheme.entry \subseteq DOMAIN scheme'.entry,
         stack' = stack \/ stack' = <<>> \/ (stack # <<>> /\ stack' = Front(stack))
  PROVE  StackType'
<1>1. IsSeq(stack) /\ Len(stack) \in Nat
  BY IsSeqFacts DEF StackType
<1>2. CASE stack' = stack
  BY <1>2 DEF StackType
<1>3. CASE stack' = <<>>
  BY <1>3, EmptyIsSeq DEF StackType
<1>4. CASE stack # <<>> /\ stack' = Front(stack)
  <2>1. /\ IsSeq(stack') /\ Len(stack') = Len(stack) - 1
        /\ \A i \in 1..(Len(stack) - 1) : stack'[i] = stack[i]
    BY <1>1, <1>4, FrontFacts
  <2>2. \A k \in 1..(Len(stack) - 1) : k \in 1..Len(stack)
    BY <1>1
  <2>3. QED
    BY <2>1, <2>2 DEF StackType
<1>5. QED
  BY <1>2, <1>3, <1>4

(* One step of reading.                                                    *)
LoadStep ==
  /\ UNCHANGED <<input, phase, preparing>>
  /\ ret' \in BOOLEAN /\ file' \in Nat \ {0} /\ at' \in Nat \ {0}
  /\ IsTree(scheme') /\ Unlinked(scheme')
  /\ DOMAIN scheme.entry \subseteq DOMAIN scheme'.entry
  /\ StackType'
LEMMA LoadStepType ==
  ASSUME TypeInv, phase = "load", LoadStep
  PROVE  TypeInv'
<1>1. input' \in Inputs /\ phase' = "load" /\ phase' \in {"load", "prepare", "ready", "failed"}
  BY DEF TypeInv, LoadStep
<1>2. ret' \in BOOLEAN /\ file' \in Nat \ {0} /\ at' \in Nat \ {0} /\ IsTree(scheme') /\ StackType'
  BY DEF LoadStep
<1>3. NothingPrepared'
  BY DEF TypeInv, LoadStep, NothingPrepared, Unlinked, Entry, preparing
<1>4. QED
  BY <1>1, <1>2, <1>3 DEF TypeInv

LEMMA TypeUnlinked ==
  ASSUME TypeInv, phase = "load"
  PROVE  IsTree(scheme) /\ Unlinked(scheme) /\ Grown(scheme, scheme)
BY DEF TypeInv, NothingPrepared, Unlinked, Entry, Grown

LEMMA RejectStep ==
  ASSUME TypeInv, Reading, Elem.tag # "/", Reject
  PROVE  LoadStep
<1>1. UNCHANGED <<input, phase, preparing, scheme>> /\ ret' \in BOOLEAN
  BY DEF Reject
<1>2. IsTree(scheme') /\ Unlinked(scheme') /\ DOMAIN scheme.entry \subseteq DOMAIN scheme'.entry
  BY <1>1, TypeUnlinked DEF Reading
<1>3. CASE Xml
  <2>1. file' = file + 1 /\ at' = 1 /\ stack' = <<>>
    BY <1>3 DEF Reject
  <2>2. StackType'
    BY <2>1, <1>2, KeptStack DEF TypeInv
  <2>3. QED
    BY <2>1, <2>2, <1>1, <1>2 DEF LoadStep, TypeInv
<1>4. CASE ~Xml
  <2>1. file' = file /\ at' = EndOf + 1 /\ stack' = stack
    BY <1>4 DEF Reject
  <2>2. StackType'
    BY <2>1, <1>2, KeptStack DEF TypeInv
  <2>3. EndOf + 1 \in Nat \ {0}
    BY EndOfFacts, ReadingFacts
  <2>4. QED
    BY <2>1, <2>2, <2>3, <1>1, <1>2 DEF LoadStep, TypeInv
<1>5. QED
  BY <1>3, <1>4

LEMMA AcceptStep ==
  ASSUME TypeInv, Reading, NEW s, Grown(scheme, s), NEW id, Accept(s, id),
         id \in DOMAIN s.entry \cup {NoEntry},
         IsEntryTag(Elem.tag) => id \in DOMAIN s.entry
  PROVE  LoadStep
<1>1. /\ UNCHANGED <<input, phase, preparing, file, ret>> /\ scheme' = s /\ at' = at + 1
      /\ stack' = Append(stack, [tag |-> Elem.tag, id |-> id])
  BY DEF Accept
<1>2. IsTree(scheme') /\ Unlinked(scheme') /\ DOMAIN scheme.entry \subseteq DOMAIN scheme'.entry
  BY <1>1 DEF Grown
<1>3. StackType'
  <2>1. StackType
    BY DEF TypeInv
  <2>2. /\ id \in DOMAIN scheme'.entry \cup {NoEntry}
        /\ IsEntryTag(Elem.tag) => id \in DOMAIN scheme'.entry
    BY <1>1
  <2>3. QED
    BY <2>1, <2>2, <1>1, <1>2, PushedStack
<1>4. QED
  BY <1>1, <1>2, <1>3 DEF LoadStep, TypeInv
LEMMA EntryGrown ==
  ASSUME TypeInv, Reading, IsEntryTag(Elem.tag), CanAdd(Ientry(Elem))
  PROVE  GrownBy(scheme, EntryAdded, EntryId)
<1>1. IsInfo(Ientry(Elem))
  BY InfoFacts DEF CanAdd
<1>2. IsTree(scheme) /\ Unlinked(scheme)
  BY TypeUnlinked DEF Reading
<1>3. Up.id \in DOMAIN scheme.entry \cup {NoEntry}
  BY ReadingFacts
<1>4. QED
  BY <1>1, <1>2, <1>3, AddEntryGrown DEF EntryAdded, EntryId

LEMMA ParamGrown ==
  ASSUME TypeInv, Reading, IsEntryTag(Elem.tag), CanAdd(Ientry(Elem)),
         "ptype" \in DOMAIN Elem.attr
  PROVE  /\ Grown(scheme, CreatePtypeLink(EntryAdded, EntryId, Elem.attr.ptype))
         /\ EntryId \in DOMAIN CreatePtypeLink(EntryAdded, EntryId, Elem.attr.ptype).entry
<1>1. Grown(scheme, EntryAdded) /\ EntryId \in DOMAIN EntryAdded.entry
  BY EntryGrown DEF GrownBy
<1>2. IsSeq(Elem.attr.ptype)
  BY InfoFacts
<1> DEFINE s == EntryAdded
           id == EntryId
           p == Elem.attr.ptype
<1>3. IsTree(s) /\ Unlinked(s) /\ id \in DOMAIN s.entry /\ IsSeq(p)
  BY <1>1, <1>2 DEF Grown
<1> HIDE DEF s, id, p
<1>4. Grown(s, CreatePtypeLink(s, id, p))
  BY <1>3, PtypeLinkGrown
<1>5. id \in DOMAIN CreatePtypeLink(s, id, p).entry
  BY <1>3, <1>4 DEF Grown
<1>6. QED
  BY <1>1, <1>4, <1>5, GrownTwice DEF s, id, p

LEMMA EnterStep ==
  ASSUME TypeInv, NEW tags, \A t \in tags : IsEntryTag(t), NEW s, Enter(tags, s),
         CanAdd(Ientry(Elem)) => Grown(scheme, s) /\ EntryId \in DOMAIN s.entry
  PROVE  LoadStep
<1>1. Reading /\ Elem.tag \in tags /\ IsEntryTag(Elem.tag) /\ Elem.tag # "/"
  BY InfoFacts DEF Enter
<1>2. CASE CanAdd(Ientry(Elem))
  <2>1. Accept(s, EntryId)
    BY <1>1, <1>2 DEF Enter
  <2>2. QED
    BY <1>1, <1>2, <2>1, AcceptStep
<1>3. CASE ~CanAdd(Ientry(Elem))
  <2>1. Reject
    BY <1>1, <1>3 DEF Enter
  <2>2. QED
    BY <1>1, <2>1, RejectStep
<1>4. QED
  BY <1>2, <1>3

Load ==
  \/ ReadFile \/ FileRead \/ UnknownTag
  \/ ProcessEntry \/ ProcessView \/ ProcessPtype \/ ProcessParam
  \/ ProcessCommand \/ ParseIentry \/ CloseElement
  \/ ProcessAction \/ ProcessHotkey \/ ProcessPlugin
LEMMA LoadSteps ==
  ASSUME TypeInv, Load
  PROVE  phase = "load" /\ LoadStep
<1>1. phase = "load"
  BY DEF Load, ReadFile, FileRead, UnknownTag, ProcessEntry, ProcessView, ProcessPtype,
     ProcessParam, ProcessCommand, ParseIentry, CloseElement, ProcessAction,
     ProcessHotkey, ProcessPlugin, Enter, Reading
<1>2. IsTree(scheme) /\ Unlinked(scheme) /\ Grown(scheme, scheme)
  BY <1>1, TypeUnlinked
<1>3. ASSUME NEW tags, Reading, IsEntryTag(Elem.tag), Enter(tags, EntryAdded),
             \A t \in tags : IsEntryTag(t)
      PROVE  LoadStep
  <2>1. CanAdd(Ientry(Elem)) =>
          Grown(scheme, EntryAdded) /\ EntryId \in DOMAIN EntryAdded.entry
    BY <1>3, EntryGrown DEF GrownBy
  <2>2. QED
    BY <1>3, <2>1, EnterStep
<1>4. CASE ReadFile
  <2>1. /\ UNCHANGED <<input, at, scheme, phase, preparing>> /\ ret' \in BOOLEAN
        /\ file' \in Nat \ {0}
    <3>1. file \in Nat \ {0} /\ ret \in BOOLEAN
      BY DEF TypeInv
    <3>2. UNCHANGED <<input, at, scheme, phase, preparing>>
      BY <1>4 DEF ReadFile
    <3>3. (file' = file /\ ret' = ret) \/ (file' = file + 1 /\ ret' = FALSE)
      BY <1>4 DEF ReadFile
    <3>4. file' \in Nat \ {0}
      BY <3>1, <3>3
    <3>5. ret' \in BOOLEAN
      BY <3>1, <3>3
    <3>6. QED
      BY <3>2, <3>4, <3>5
  <2>2. StackType'
    <3>1. CASE stack' = stack
      BY <3>1, <2>1, KeptStack DEF TypeInv
    <3>2. CASE stack' = <<[tag |-> "KLISH", id |-> NoEntry]>>
      <4>1. \A x : IsSeq(<<x>>) /\ Len(<<x>>) = 1 /\ <<x>>[1] = x
        BY DEF IsSeq, ToSet
      <4>2. IsSeq(stack') /\ Len(stack') = 1 /\ stack'[1].tag = "KLISH" /\ stack'[1].id = NoEntry
        BY <3>2, <4>1
      <4>3. ~IsEntryTag("KLISH")
        BY DEF IsEntryTag, ParamTags, CommandTags, Special
      <4>4. QED
        BY <4>2, <4>3 DEF StackType
    <3>3. QED
      BY <3>1, <3>2, <1>4 DEF ReadFile
  <2>3. LoadStep
    BY <2>1, <2>2, <1>2 DEF LoadStep, TypeInv
  <2>4. QED
    BY <1>1, <2>3
<1>5. CASE FileRead
  <2>1. /\ UNCHANGED <<input, scheme, phase, ret, preparing>> /\ file' \in Nat \ {0}
        /\ at' = 1 /\ stack' = <<>>
    BY <1>5 DEF FileRead, TypeInv
  <2>2. StackType'
    BY <2>1, KeptStack DEF TypeInv
  <2>3. LoadStep
    BY <2>1, <2>2, <1>2 DEF LoadStep, TypeInv
  <2>4. QED
    BY <1>1, <2>3
<1>6. CASE UnknownTag
  <2>1. Reading /\ Elem.tag # "/" /\ Reject
    BY <1>6 DEF UnknownTag
  <2>2. QED
    BY <1>1, <2>1, RejectStep
<1>7. CASE ProcessEntry
  BY <1>7, <1>1, <1>3 DEF ProcessEntry, Enter, IsEntryTag
<1>8. CASE ProcessView
  BY <1>8, <1>1, <1>3 DEF ProcessView, Enter, IsEntryTag
<1>9. CASE ProcessPtype
  BY <1>9, <1>1, <1>3 DEF ProcessPtype, Enter, IsEntryTag
<1>10. CASE ProcessCommand
  BY <1>10, <1>1, <1>3 DEF ProcessCommand, Enter, IsEntryTag
<1>11. CASE ParseIentry
  BY <1>11, <1>1, <1>3 DEF ParseIentry, Enter, IsEntryTag
<1>12. CASE ProcessParam
  <2> DEFINE s == IF "ptype" \in DOMAIN Elem.attr
                  THEN CreatePtypeLink(EntryAdded, EntryId, Elem.attr.ptype)
                  ELSE EntryAdded
  <2>1. Enter(ParamTags, s) /\ Reading /\ Elem.tag \in ParamTags
    BY <1>12 DEF ProcessParam, Enter
  <2>2. \A t \in ParamTags : IsEntryTag(t)
    BY DEF IsEntryTag
  <2>3. IsEntryTag(Elem.tag)
    BY <2>1, <2>2
  <2>4. CanAdd(Ientry(Elem)) => Grown(scheme, s) /\ EntryId \in DOMAIN s.entry
    <3>1. CASE "ptype" \in DOMAIN Elem.attr
      BY <3>1, <2>1, <2>3, ParamGrown
    <3>2. CASE "ptype" \notin DOMAIN Elem.attr
      BY <3>2, <2>1, <2>3, EntryGrown DEF GrownBy
    <3>3. QED
      BY <3>1, <3>2
  <2> HIDE DEF s
  <2>5. QED
    BY <1>1, <2>1, <2>2, <2>4, EnterStep
<1>13. CASE CloseElement
  <2>1. Reading /\ UNCHANGED <<input, file, phase, ret, preparing>>
        /\ stack' = Front(stack) /\ at' = at + 1
    BY <1>13 DEF CloseElement
  <2>2. Grown(scheme, scheme')
    <3>1. CASE Up.tag \in CommandTags /\ ~HasPtype(scheme, Up.id)
      <4>1. scheme' = CreatePtypeCommand(scheme, Up.id)
        BY <3>1, <1>13 DEF CloseElement
      <4>2. Up.id \in DOMAIN scheme.entry
        BY <2>1, <3>1, ReadingFacts DEF IsEntryTag
      <4>3. QED
        BY <4>1, <4>2, <1>2, PtypeCommandGrown
    <3>2. CASE ~(Up.tag \in CommandTags /\ ~HasPtype(scheme, Up.id))
      BY <3>2, <1>13, <1>2 DEF CloseElement
    <3>3. QED
      BY <3>1, <3>2
  <2>3. IsTree(scheme') /\ Unlinked(scheme') /\ DOMAIN scheme.entry \subseteq DOMAIN scheme'.entry
    BY <2>2 DEF Grown
  <2>4. StackType'
    BY <2>1, <2>3, KeptStack DEF TypeInv, Reading
  <2>5. LoadStep
    BY <2>1, <2>3, <2>4 DEF LoadStep, TypeInv
  <2>6. QED
    BY <1>1, <2>5
<1>14. CASE ProcessAction
  <2>1. Reading /\ Elem.tag = "ACTION" /\ ~IsEntryTag(Elem.tag)
    BY <1>14 DEF ProcessAction, IsEntryTag, ParamTags, CommandTags, Special
  <2>2. CASE Reject
    BY <2>1, <2>2, <1>1, RejectStep
  <2>3. CASE ~Reject
    <3> DEFINE s == [scheme EXCEPT !.entry[Up.id].actions =
                       Append(@, Over(Elem.attr, Action(None, None)))]
    <3>1. IsEntryTag(Up.tag) /\ Accept(s, Up.id)
      BY <1>14, <2>3 DEF ProcessAction
    <3>2. Up.id \in DOMAIN scheme.entry
      BY <2>1, <3>1, ReadingFacts
    <3>3. Grown(scheme, s)
      BY <3>2, <1>2, ActionAdded
    <3> HIDE DEF s
    <3>4. Up.id \in DOMAIN s.entry
      BY <3>2, <3>3 DEF Grown
    <3>5. QED
      BY <1>1, <2>1, <3>1, <3>3, <3>4, AcceptStep
  <2>4. QED
    BY <2>2, <2>3
<1>15. CASE ProcessHotkey
  <2>1. Reading /\ Elem.tag = "HOTKEY"
    BY <1>15 DEF ProcessHotkey
  <2>2. CASE Reject
    BY <2>1, <2>2, <1>1, RejectStep
  <2>3. CASE ~Reject
    <3>1. /\ Up.tag \in {"ENTRY", "VIEW"} /\ at' = EndOf + 1
          /\ scheme' = [scheme EXCEPT !.entry[Up.id].hotkeys = Append(@, Elem.attr.key)]
          /\ UNCHANGED <<input, file, stack, phase, ret, preparing>>
      BY <1>15, <2>3 DEF ProcessHotkey
    <3>2. Up.id \in DOMAIN scheme.entry
      BY <2>1, <3>1, ReadingFacts DEF IsEntryTag
    <3>3. IsTree(scheme') /\ Unlinked(scheme') /\ DOMAIN scheme'.entry = DOMAIN scheme.entry
      <4>1. scheme' = WithHotkey(scheme, Up.id, Elem.attr.key)
        BY <3>1 DEF WithHotkey
      <4>2. HasHotkey(scheme, WithHotkey(scheme, Up.id, Elem.attr.key), Up.id, Elem.attr.key)
        BY <1>2, <3>2, HotkeyAdded
      <4>3. QED
        BY <4>1, <4>2 DEF HasHotkey
    <3>4. StackType'
      BY <3>1, <3>3, KeptStack DEF TypeInv
    <3>5. EndOf + 1 \in Nat \ {0}
      BY <2>1, EndOfFacts, ReadingFacts
    <3>6. LoadStep
      BY <3>1, <3>3, <3>4, <3>5 DEF LoadStep, TypeInv
    <3>7. QED
      BY <1>1, <3>6
  <2>4. QED
    BY <2>2, <2>3
<1>16. CASE ProcessPlugin
  <2>1. Reading /\ Elem.tag = "PLUGIN" /\ ~IsEntryTag(Elem.tag)
    BY <1>16 DEF ProcessPlugin, IsEntryTag, ParamTags, CommandTags, Special
  <2>2. CASE Reject
    BY <2>1, <2>2, <1>1, RejectStep
  <2>3. CASE ~Reject
    <3> DEFINE s == [scheme EXCEPT !.plugins = @ \cup {Elem.attr.name}]
    <3>1. Accept(s, NoEntry)
      BY <1>16, <2>3 DEF ProcessPlugin
    <3>2. /\ s.entry = scheme.entry /\ s.top = scheme.top
          /\ {"plugins", "top", "entry"} \subseteq DOMAIN s
      BY <1>2 DEF IsTree
    <3> HIDE DEF s
    <3>3. IsTree(s) /\ Unlinked(s)
      BY <3>2, <1>2 DEF IsTree, Unlinked, KidsBelow, Rooted
    <3>4. /\ UNCHANGED <<input, phase, preparing, file, ret>> /\ scheme' = s /\ at' = at + 1
          /\ stack' = Append(stack, [tag |-> Elem.tag, id |-> NoEntry])
      BY <3>1 DEF Accept
    <3>5. StackType'
      <4>1. StackType /\ NoEntry \in DOMAIN scheme'.entry \cup {NoEntry}
        BY DEF TypeInv
      <4>2. DOMAIN scheme.entry \subseteq DOMAIN scheme'.entry
        BY <3>2, <3>4
      <4>3. QED
        BY <4>1, <4>2, <2>1, <3>4, PushedStack
    <3>6. LoadStep
      BY <3>2, <3>3, <3>4, <3>5 DEF LoadStep, TypeInv
    <3>7. QED
      BY <1>1, <3>6
  <2>4. QED
    BY <2>2, <2>3
<1>17. QED
  BY <1>4, <1>5, <1>6, <1>7, <1>8, <1>9, <1>10, <1>11, <1>12, <1>13, <1>14, <1>15, <1>16 DEF Load
-----------------------------------------------------------------------------
(* Preparing the scheme keeps its shape: which ENTRYs there are, in which  *)
(* order, what they refer to and what they are for.                        *)
SameShape ==
  /\ scheme'.top = scheme.top /\ scheme'.plugins = scheme.plugins
  /\ DOMAIN scheme'.entry = DOMAIN scheme.entry
  /\ \A x \in DOMAIN scheme.entry :
       /\ scheme'.entry[x].kids = scheme.entry[x].kids
       /\ scheme'.entry[x].parent = scheme.entry[x].parent
       /\ scheme'.entry[x].attr.ref = scheme.entry[x].attr.ref
       /\ scheme'.entry[x].attr.purpose = scheme.entry[x].attr.purpose

LEMMA TreeFacts ==
  ASSUME TypeInv, NEW id \in DOMAIN scheme.entry
  PROVE  /\ id \in Seq(Word) /\ id # <<>> /\ Len(id) \in Nat \ {0} /\ DOMAIN id = 1..Len(id)
         /\ HasFields(Entry(id)) /\ Entry(id).kids \in Seq(DOMAIN scheme.entry)
         /\ \A k \in 1..Len(id) : Around(id, k) \in DOMAIN scheme.entry
         /\ Around(id, Len(id)) = id
         /\ Around(id, 1) \in ToSet(scheme.top)
         /\ \A k \in 1..(Len(id) - 1) : Around(id, k + 1) \in ToSet(Entry(Around(id, k)).kids)
<1>1. IsTree(scheme)
  BY DEF TypeInv
<1>2. id \in Seq(Word) /\ id # <<>>
  BY <1>1 DEF IsTree, NoEntry
<1>3. Len(id) \in Nat \ {0} /\ DOMAIN id = 1..Len(id) /\ Around(id, Len(id)) = id
  BY <1>2, AroundAll, LenProperties, EmptySeq
<1>4. HasFields(scheme.entry[id]) /\ KidsBelow(scheme, id) /\ Rooted(scheme, id)
  BY <1>1 DEF IsTree
<1>5. \A k \in 1..(Len(id) - 1) :
        /\ Around(id, k) \in DOMAIN scheme.entry
        /\ Around(id, k + 1) \in ToSet(Entry(Around(id, k)).kids)
  BY <1>4 DEF Rooted, Entry
<1>6. \A k \in 1..Len(id) : Around(id, k) \in DOMAIN scheme.entry
  <2>1. Len(id) \in Nat
    BY <1>3
  <2>2. \A k \in 1..Len(id) : k = Len(id) \/ k \in 1..(Len(id) - 1)
    BY <2>1
  <2>3. QED
    BY <1>3, <1>5, <2>2
<1>7. QED
  BY <1>2, <1>3, <1>4, <1>5, <1>6 DEF KidsBelow, Rooted, Entry

LEMMA SeqDomain ==
  ASSUME NEW S, NEW s \in Seq(S)
  PROVE  DOMAIN s = 1..Len(s) /\ Len(s) \in Nat /\ \A i \in DOMAIN s : s[i] \in S
BY LenProperties, ElementOfSeq

LEMMA LastForSame ==
  ASSUME SameShape, NEW ids \in Seq(DOMAIN scheme.entry), NEW purpose
  PROVE  LastFor(ids, purpose)' = LastFor(ids, purpose)
<1>1. \A i \in DOMAIN ids : ids[i] \in DOMAIN scheme.entry
  BY SeqDomain
<1>2. \A i \in DOMAIN ids : Entry(ids[i]).attr.purpose' = Entry(ids[i]).attr.purpose
  BY <1>1 DEF SameShape, Entry
<1>3. {i \in DOMAIN ids : Entry(ids[i]).attr.purpose = purpose}'
        = {i \in DOMAIN ids : Entry(ids[i]).attr.purpose = purpose}
  BY <1>2
<1>4. QED
  BY <1>3 DEF LastFor

LEMMA LastForIn ==
  ASSUME NEW ids \in Seq(DOMAIN scheme.entry), NEW purpose
  PROVE  LastFor(ids, purpose) \in DOMAIN scheme.entry \cup {NoEntry}
<1> DEFINE found == {i \in DOMAIN ids : Entry(ids[i]).attr.purpose = purpose}
<1>1. DOMAIN ids = 1..Len(ids) /\ Len(ids) \in Nat /\ \A i \in DOMAIN ids : ids[i] \in DOMAIN scheme.entry
  BY SeqDomain
<1>2. CASE found = {}
  BY <1>2 DEF LastFor
<1>3. CASE found # {}
  <2>1. found \subseteq 1..Len(ids)
    BY <1>1
  <2>2. LastFor(ids, purpose) = ids[Max(found)]
    BY <1>3 DEF LastFor
  <2> HIDE DEF found
  <2>3. Max(found) \in found
    BY <1>1, <1>3, <2>1, MaxIsIn
  <2>4. QED
    BY <1>1, <2>1, <2>2, <2>3
<1>4. QED
  BY <1>2, <1>3

LEMMA RefSame ==
  ASSUME SameShape, NEW id \in DOMAIN scheme.entry
  PROVE  Ref(id)' = Ref(id)
BY DEF SameShape, Ref, Entry

LEMMA OffLinksSame ==
  ASSUME TypeInv, SameShape, NEW id \in DOMAIN scheme.entry
  PROVE  OffLinks(id)' <=> OffLinks(id)
<1>1. \A k \in 1..(Len(id) - 1) : Around(id, k) \in DOMAIN scheme.entry
  BY TreeFacts
<1>2. \A k \in 1..(Len(id) - 1) : Ref(Around(id, k))' = Ref(Around(id, k))
  BY <1>1, RefSame
<1>3. QED
  BY <1>2 DEF OffLinks

LEMMA HasParentsSame ==
  ASSUME TypeInv, SameShape, NEW id \in DOMAIN scheme.entry
  PROVE  HasParents(id)' <=> HasParents(id)
<1>1. \A k \in DOMAIN id : Around(id, k) \in DOMAIN scheme.entry
  BY TreeFacts
<1>2. \A k \in DOMAIN id : Entry(Around(id, k)).parent' = Entry(Around(id, k)).parent
  BY <1>1 DEF SameShape, Entry
<1>3. QED
  BY <1>2 DEF HasParents

LogIn(id) == LastFor(Entry(id).kids, "log")
LEMMA LogInSame ==
  ASSUME TypeInv, SameShape, NEW id \in DOMAIN scheme.entry
  PROVE  LogIn(id)' = LogIn(id)
<1> DEFINE ids == scheme.entry[id].kids
<1>1. ids \in Seq(DOMAIN scheme.entry) /\ scheme'.entry[id].kids = ids
  BY TreeFacts DEF SameShape, Entry
<1>2. \A i \in DOMAIN ids : ids[i] \in DOMAIN scheme.entry
  BY <1>1, SeqDomain
<1> HIDE DEF ids
<1>3. {i \in DOMAIN ids : scheme'.entry[ids[i]].attr.purpose = "log"}
        = {i \in DOMAIN ids : scheme.entry[ids[i]].attr.purpose = "log"}
  BY <1>2 DEF SameShape
<1> DEFINE old == {i \in DOMAIN ids : scheme.entry[ids[i]].attr.purpose = "log"}
           new == {i \in DOMAIN ids : scheme'.entry[ids[i]].attr.purpose = "log"}
<1>4. LogIn(id) = IF old = {} THEN NoEntry ELSE ids[Max(old)]
  BY DEF LogIn, LastFor, Entry, ids
<1>5. LogIn(id)' = IF new = {} THEN NoEntry ELSE ids[Max(new)]
  BY <1>1 DEF LogIn, LastFor, Entry
<1>6. new = old
  BY <1>3
<1> HIDE DEF new, old
<1>7. QED
  BY <1>4, <1>5, <1>6

ClosestIn(id, with) ==
  IF with = {} THEN LastFor(scheme.top, "log") ELSE LogIn(Around(id, Max(with)))
WithLog(id) == {k \in DOMAIN id : LogIn(Around(id, k)) # NoEntry}
LEMMA ClosestDef ==
  ASSUME NEW id
  PROVE  Closest(id) = ClosestIn(id, WithLog(id))
BY DEF Closest, ClosestIn, WithLog, LogIn

LEMMA ClosestSame ==
  ASSUME TypeInv, SameShape, NEW id \in DOMAIN scheme.entry
  PROVE  Closest(id)' = Closest(id)
<1>1. /\ DOMAIN id = 1..Len(id) /\ Len(id) \in Nat
      /\ \A k \in DOMAIN id : Around(id, k) \in DOMAIN scheme.entry
  BY TreeFacts
<1>2. \A k \in DOMAIN id : LogIn(Around(id, k))' = LogIn(Around(id, k))
  BY <1>1, LogInSame
<1>3. LastFor(scheme.top, "log")' = LastFor(scheme.top, "log")
  <2> DEFINE ids == scheme.top
  <2>1. ids \in Seq(DOMAIN scheme.entry) /\ scheme'.top = ids
    BY DEF TypeInv, IsTree, SameShape
  <2>2. \A i \in DOMAIN ids : ids[i] \in DOMAIN scheme.entry
    BY <2>1, SeqDomain
  <2> HIDE DEF ids
  <2>3. {i \in DOMAIN ids : scheme'.entry[ids[i]].attr.purpose = "log"}
          = {i \in DOMAIN ids : scheme.entry[ids[i]].attr.purpose = "log"}
    BY <2>2 DEF SameShape
  <2>4. QED
    BY <2>1, <2>3 DEF LastFor, Entry, ids
<1> DEFINE with == WithLog(id)
<1>4. WithLog(id)' = with
  BY <1>2 DEF WithLog
<1>5. Closest(id) = ClosestIn(id, with) /\ Closest(id)' = ClosestIn(id, WithLog(id))'
  BY ClosestDef DEF Closest, ClosestIn, WithLog, LogIn
<1>6. CASE with = {}
  BY <1>3, <1>4, <1>5, <1>6 DEF ClosestIn
<1>7. CASE with # {}
  <2>1. PICK m \in DOMAIN id : m = Max(with)
    <3>1. with \subseteq 1..Len(id)
      BY <1>1 DEF WithLog
    <3> HIDE DEF with
    <3>2. QED
      BY <1>1, <1>7, <3>1, MaxIsIn
  <2>2. Closest(id) = LogIn(Around(id, m))
    BY <2>1, <1>5, <1>7 DEF ClosestIn
  <2>3. Closest(id)' = LogIn(Around(id, m))'
    BY <2>1, <1>4, <1>5, <1>7 DEF ClosestIn, Max
  <2>4. QED
    BY <1>2, <2>1, <2>2, <2>3
<1>8. QED
  BY <1>6, <1>7
(* The agenda: what is taken from its front and what is put there.         *)
LEMMA HeadTail ==
  ASSUME NEW S, NEW s \in Seq(S), s # <<>>
  PROVE  /\ Head(s) \in S /\ Tail(s) \in Seq(S) /\ Head(s) \in ToSet(s)
         /\ ToSet(s) = {Head(s)} \cup ToSet(Tail(s))
<1>1. /\ DOMAIN s = 1..Len(s) /\ Len(s) \in Nat \ {0} /\ Head(s) = s[1] /\ s[1] \in S
      /\ Tail(s) \in Seq(S) /\ Len(Tail(s)) = Len(s) - 1
      /\ \A i \in 1..Len(Tail(s)) : Tail(s)[i] = s[i + 1]
      /\ DOMAIN Tail(s) = 1..(Len(s) - 1)
  BY LenProperties, EmptySeq, HeadTailProperties
<1> DEFINE t == Tail(s)
<1> HIDE DEF t
<1>2. ASSUME NEW x \in ToSet(t) PROVE x \in ToSet(s)
  <2>1. PICK i \in 1..(Len(s) - 1) : t[i] = x
    BY <1>1, <1>2 DEF ToSet, t
  <2>2. i + 1 \in DOMAIN s /\ s[i + 1] = x
    BY <2>1, <1>1 DEF t
  <2>3. QED
    BY <2>2 DEF ToSet
<1>3. ASSUME NEW x \in ToSet(s), x # Head(s) PROVE x \in ToSet(t)
  <2>1. PICK i \in 1..Len(s) : s[i] = x
    BY <1>1, <1>3 DEF ToSet
  <2>2. i # 1 /\ i - 1 \in 1..(Len(s) - 1) /\ (i - 1) + 1 = i
    BY <2>1, <1>1, <1>3
  <2>3. t[i - 1] = x /\ i - 1 \in DOMAIN t
    BY <2>1, <2>2, <1>1 DEF t
  <2>4. QED
    BY <2>3 DEF ToSet
<1>4. Head(s) \in ToSet(s)
  <2>1. 1 \in DOMAIN s /\ s[1] = Head(s)
    BY <1>1
  <2>2. QED
    BY <2>1 DEF ToSet
<1>5. QED
  BY <1>1, <1>2, <1>3, <1>4 DEF t

LEMMA ConcatSet ==
  ASSUME NEW S, NEW s \in Seq(S), NEW t \in Seq(S)
  PROVE  s \o t \in Seq(S) /\ ToSet(s \o t) = ToSet(s) \cup ToSet(t)
<1> DEFINE u == s \o t
<1>1. /\ u \in Seq(S) /\ Len(u) = Len(s) + Len(t)
      /\ \A i \in 1..(Len(s) + Len(t)) : u[i] = IF i <= Len(s) THEN s[i] ELSE t[i - Len(s)]
  BY ConcatProperties
<1>2. /\ DOMAIN s = 1..Len(s) /\ DOMAIN t = 1..Len(t)
      /\ Len(s) \in Nat /\ Len(t) \in Nat /\ DOMAIN u = 1..(Len(s) + Len(t))
  BY <1>1, LenProperties
<1> HIDE DEF u
<1>3. ASSUME NEW x \in ToSet(u) PROVE x \in ToSet(s) \cup ToSet(t)
  <2>1. PICK i \in 1..(Len(s) + Len(t)) : u[i] = x
    BY <1>2, <1>3 DEF ToSet
  <2>2. CASE i <= Len(s)
    <3>1. i \in DOMAIN s /\ s[i] = x
      BY <2>1, <2>2, <1>1, <1>2
    <3>2. QED
      BY <3>1 DEF ToSet
  <2>3. CASE ~(i <= Len(s))
    <3>1. i - Len(s) \in DOMAIN t /\ t[i - Len(s)] = x
      BY <2>1, <2>3, <1>1, <1>2
    <3>2. QED
      BY <3>1 DEF ToSet
  <2>4. QED
    BY <2>2, <2>3
<1>4. ASSUME NEW x \in ToSet(s) PROVE x \in ToSet(u)
  <2>1. PICK i \in 1..Len(s) : s[i] = x
    BY <1>2, <1>4 DEF ToSet
  <2>2. i \in DOMAIN u /\ u[i] = x
    BY <2>1, <1>1, <1>2
  <2>3. QED
    BY <2>2 DEF ToSet
<1>5. ASSUME NEW x \in ToSet(t) PROVE x \in ToSet(u)
  <2>1. PICK i \in 1..Len(t) : t[i] = x
    BY <1>2, <1>5 DEF ToSet
  <2>2. i + Len(s) \in DOMAIN u /\ u[i + Len(s)] = x
    <3>1. i + Len(s) \in 1..(Len(s) + Len(t)) /\ ~(i + Len(s) <= Len(s)) /\ (i + Len(s)) - Len(s) = i
      BY <2>1, <1>2
    <3>2. QED
      BY <3>1, <2>1, <1>1, <1>2
  <2>3. QED
    BY <2>2 DEF ToSet
<1>6. QED
  BY <1>1, <1>3, <1>4, <1>5 DEF u

(* What a path leads to is an ENTRY, if it leads anywhere.                 *)
LEMMA KidNamedIn ==
  ASSUME NEW ids \in Seq(DOMAIN scheme.entry), NEW name
  PROVE  KidNamed(ids, name) \in DOMAIN scheme.entry \cup {NoEntry}
<1> DEFINE found == {i \in DOMAIN ids : Last(ids[i]) = name}
<1>1. DOMAIN ids = 1..Len(ids) /\ Len(ids) \in Nat /\ \A i \in DOMAIN ids : ids[i] \in DOMAIN scheme.entry
  BY SeqDomain
<1>2. KidNamed(ids, name) = IF found = {} THEN NoEntry ELSE ids[Min(found)]
  BY DEF KidNamed
<1>3. found \subseteq 1..Len(ids)
  BY <1>1
<1> HIDE DEF found
<1>4. found # {} => Min(found) \in found
  BY <1>1, <1>3, MinIsIn
<1>5. QED
  BY <1>1, <1>2, <1>3, <1>4

Step(path, f, i) ==
  IF i = 1 THEN KidNamed(scheme.top, path[1])
  ELSE IF f[i - 1] = NoEntry THEN NoEntry
  ELSE KidNamed(Kids(f[i - 1]), path[i])
IsWay(f, path, n) == f = [i \in 1..n |-> Step(path, f, i)]
LEMMA WayExists ==
  ASSUME NEW path
  PROVE  \A n \in Nat : \E f : IsWay(f, path, n)
<1> DEFINE S == {n \in Nat : \E f : IsWay(f, path, n)}
<1>1. 0 \in S
  <2> DEFINE f == [i \in 1..0 |-> NoEntry]
  <2>1. IsWay(f, path, 0)
    BY DEF IsWay
  <2> HIDE DEF f
  <2>2. QED
    BY <2>1
<1>2. ASSUME NEW n \in Nat, n \in S PROVE n + 1 \in S
  <2>1. PICK f : IsWay(f, path, n)
    BY <1>2
  <2>2. DOMAIN f = 1..n /\ \A i \in 1..n : f[i] = Step(path, f, i)
    BY <2>1 DEF IsWay
  <2> DEFINE g == [i \in 1..(n + 1) |-> IF i = n + 1 THEN Step(path, f, i) ELSE f[i]]
  <2>3. \A i \in 1..(n + 1) : Step(path, g, i) = Step(path, f, i)
    <3>1. ASSUME NEW i \in 1..(n + 1), i # 1 PROVE g[i - 1] = f[i - 1]
      <4>1. i - 1 \in 1..(n + 1) /\ i - 1 # n + 1
        BY <3>1
      <4>2. QED
        BY <4>1
    <3> HIDE DEF g
    <3>2. QED
      BY <3>1 DEF Step
  <2>4. \A i \in 1..(n + 1) : g[i] = Step(path, g, i)
    <3>1. \A i \in 1..(n + 1) : g[i] = Step(path, f, i)
      <4>1. \A i \in 1..(n + 1) : i # n + 1 => i \in 1..n
        OBVIOUS
      <4>2. QED
        BY <2>2, <4>1
    <3> HIDE DEF g
    <3>2. QED
      BY <2>3, <3>1
  <2>5. g = [i \in 1..(n + 1) |-> Step(path, g, i)]
    <3>1. g = [i \in 1..(n + 1) |-> g[i]]
      OBVIOUS
    <3> HIDE DEF g
    <3>2. QED
      BY <2>4, <3>1
  <2>6. IsWay(g, path, n + 1)
    <3> HIDE DEF g
    <3>1. QED
      BY <2>5 DEF IsWay
  <2> HIDE DEF g
  <2>7. QED
    BY <2>6
<1> HIDE DEF S
<1>3. Nat \subseteq S
  BY <1>1, <1>2, InductionOnSet
<1>4. QED
  BY <1>3 DEF S

LEMMA FindEntryIn ==
  ASSUME TypeInv, NEW path, IsSeq(path)
  PROVE  FindEntryByPath(path) \in DOMAIN scheme.entry \cup {NoEntry}
<1>1. Len(path) \in Nat /\ (path # <<>> => Len(path) > 0)
  BY IsSeqFacts
<1> DEFINE f == CHOOSE w : IsWay(w, path, Len(path))
<1>2. FindEntryByPath(path) = IF path = <<>> THEN NoEntry ELSE f[Len(path)]
  BY DEF FindEntryByPath, IsWay, Step
<1>3. IsWay(f, path, Len(path))
  BY <1>1, WayExists
<1> HIDE DEF f
<1>4. \A i \in 1..Len(path) : f[i] = Step(path, f, i)
  BY <1>3 DEF IsWay
<1>5. /\ scheme.top \in Seq(DOMAIN scheme.entry)
      /\ \A id \in DOMAIN scheme.entry : Kids(id) \in Seq(DOMAIN scheme.entry)
  BY DEF TypeInv, IsTree, KidsBelow, Kids, Entry
<1> DEFINE S == {n \in Nat : n \in 1..Len(path) => f[n] \in DOMAIN scheme.entry \cup {NoEntry}}
<1>6. 0 \in S
  OBVIOUS
<1>7. ASSUME NEW n \in Nat, n \in S PROVE n + 1 \in S
  <2>1. CASE n + 1 \notin 1..Len(path)
    BY <2>1
  <2>2. CASE n + 1 \in 1..Len(path) /\ n = 0
    <3>1. f[1] = KidNamed(scheme.top, path[1])
      BY <2>2, <1>4 DEF Step
    <3>2. QED
      BY <3>1, <2>2, <1>5, KidNamedIn
  <2>3. CASE n + 1 \in 1..Len(path) /\ n # 0
    <3>1. n \in 1..Len(path) /\ n + 1 # 1 /\ (n + 1) - 1 = n
      BY <2>3, <1>1
    <3>2. f[n] \in DOMAIN scheme.entry \cup {NoEntry}
      BY <3>1, <1>7
    <3>3. f[n + 1] = IF f[n] = NoEntry THEN NoEntry ELSE KidNamed(Kids(f[n]), path[n + 1])
      BY <3>1, <2>3, <1>4 DEF Step
    <3>4. QED
      BY <3>2, <3>3, <1>5, KidNamedIn
  <2>4. QED
    BY <2>1, <2>2, <2>3
<1> HIDE DEF S
<1>8. Nat \subseteq S
  BY <1>6, <1>7, InductionOnSet
<1>9. path # <<>> => f[Len(path)] \in DOMAIN scheme.entry \cup {NoEntry}
  BY <1>1, <1>8 DEF S
<1>10. QED
  BY <1>2, <1>9

LEMMA LiveOffLinks ==
  ASSUME TypeInv, NEW id \in DOMAIN scheme.entry
  PROVE  id \in Live <=> OffLinks(id)
<1>1. /\ id \in Seq(Word) /\ Len(id) \in Nat \ {0} /\ DOMAIN scheme.entry \subseteq Seq(Word)
      /\ \A k \in 1..Len(id) : Around(id, k) \in DOMAIN scheme.entry
  BY TreeFacts DEF TypeInv, IsTree
<1>2. ASSUME NEW l \in DOMAIN scheme.entry, Ref(l) # None, l # id, IsPrefix(l, id)
      PROVE  ~OffLinks(id)
  <2>1. Len(l) <= Len(id) /\ l = Around(id, Len(l))
    BY <1>1, <1>2, PrefixIsAround
  <2>2. Len(l) \in Nat \ {0}
    BY TreeFacts
  <2>3. Len(l) # Len(id)
    BY <1>1, <1>2, <2>1, TreeFacts
  <2>4. Len(l) \in 1..(Len(id) - 1)
    BY <2>1, <2>2, <2>3, <1>1
  <2>5. QED
    BY <2>1, <2>4, <1>2 DEF OffLinks
<1>3. ASSUME NEW k \in 1..(Len(id) - 1), Ref(Around(id, k)) # None
      PROVE  id \notin Live
  <2> DEFINE l == Around(id, k)
  <2>1. k \in 1..Len(id) /\ k \in 0..Len(id) /\ k # Len(id) /\ k <= Len(id)
    BY <1>1
  <2>2. l \in DOMAIN scheme.entry /\ Len(l) = k /\ l \in Seq(Word)
    BY <2>1, <1>1, AroundFacts
  <2>3. l # id
    BY <2>1, <2>2
  <2>4. IsPrefix(l, id)
    <3>1. Len(l) <= Len(id) /\ l = Around(id, Len(l))
      BY <2>1, <2>2
    <3> HIDE DEF l
    <3>2. QED
      BY <3>1, <2>2, <1>1, PrefixIsAround
  <2>5. QED
    BY <2>2, <2>3, <2>4, <1>3 DEF Live
<1>4. QED
  BY <1>2, <1>3 DEF Live, OffLinks
-----------------------------------------------------------------------------
(* The steps of preparing.                                                 *)
LEMMA FindSymBound ==
  ASSUME NEW a
  PROVE  FindSym(a) = Bound(scheme.plugins, a)
BY DEF FindSym, Exports, Bound

LEMMA BindFacts ==
  ASSUME NEW a, {"sym", "plugin", "sync", "bound"} \subseteq DOMAIN a
  PROVE  /\ DOMAIN Bind(a) = DOMAIN a
         /\ Bind(a).bound = Bound(scheme.plugins, Bind(a))
<1> DEFINE b == Bind(a)
<1>1. /\ DOMAIN b = DOMAIN a /\ b.sym = a.sym /\ b.plugin = a.plugin
      /\ b.bound = Bound(scheme.plugins, a)
  BY FindSymBound DEF Bind
<1> HIDE DEF b
<1>2. Bound(scheme.plugins, b) = Bound(scheme.plugins, a)
  BY <1>1 DEF Bound
<1>3. QED
  BY <1>1, <1>2 DEF b

(* The fields of an ENTRY that preparing it does not touch.                *)
Untouched(x) ==
  /\ scheme'.entry[x].attr = scheme.entry[x].attr
  /\ scheme'.entry[x].lists = scheme.entry[x].lists
  /\ scheme'.entry[x].actions = scheme.entry[x].actions
  /\ scheme'.entry[x].nested = scheme.entry[x].nested
Prepared(id) ==
  /\ id \in DOMAIN scheme.entry /\ id \in ToSet(todo) /\ Ref(id) = None
  /\ IsTree(scheme') /\ SameShape
  /\ \A x \in DOMAIN scheme.entry : x # id => Untouched(x)
  /\ scheme'.entry[id].attr = scheme.entry[id].attr
  /\ scheme'.entry[id].lists = scheme.entry[id].lists
  /\ Len(scheme'.entry[id].actions) = Len(scheme.entry[id].actions)
  /\ \A i \in 1..Len(scheme.entry[id].actions) :
       scheme'.entry[id].actions[i] = Bind(scheme.entry[id].actions[i])
  /\ scheme'.entry[id].nested["log"] = NestedFor(id, "log")
  /\ ret' \in BOOLEAN
  /\ ret' => ret /\ \A i \in 1..Len(scheme.entry[id].actions) :
               ActionFits(Entry(id), scheme'.entry[id].actions[i])

LEMMA PrepareEntryResult ==
  ASSUME Inv, PrepareEntry
  PROVE  Prepared(Head(todo))
<1> DEFINE id == Head(todo)
           old == scheme.entry[id]
           new == [i \in DOMAIN old.actions |-> Bind(old.actions[i])]
           nested == [p \in Purposes |-> NestedFor(id, p)]
           e == [[old EXCEPT !.actions = new] EXCEPT !.nested = nested]
<1>1. id \in DOMAIN scheme.entry /\ id \in ToSet(todo) /\ Ref(id) = None /\ TypeInv
  BY HeadTail DEF Inv, PrepareInv, PrepareEntry, AgendaInv
<1>2. IsTree(scheme) /\ HasFields(old) /\ {"plugins", "top", "entry"} \subseteq DOMAIN scheme
      /\ old.lists \in DOMAIN scheme.entry
  BY <1>1 DEF TypeInv, IsTree
<1>3. /\ scheme' = [scheme EXCEPT !.entry[id].actions = new, !.entry[id].nested = nested]
      /\ ret' = (ret /\ \A i \in DOMAIN new : ActionFits(old, new[i]))
  BY DEF PrepareEntry, Entry
<1>4. /\ DOMAIN old.actions = 1..Len(old.actions) /\ Len(old.actions) \in Nat
      /\ \A i \in 1..Len(old.actions) :
           {"sym", "plugin", "sync", "bound"} \subseteq DOMAIN old.actions[i]
  BY <1>2, IsSeqFacts DEF HasFields
<1> HIDE DEF old
<1>5. /\ DOMAIN new = 1..Len(old.actions)
      /\ \A i \in 1..Len(old.actions) : new[i] = Bind(old.actions[i])
  BY <1>4
<1>6. IsSeq(new) /\ Len(new) = Len(old.actions)
  <2>1. ToSet(new) = {new[i] : i \in DOMAIN new}
    BY DEF ToSet
  <2>2. new = [i \in 1..Len(old.actions) |-> new[i]]
    BY <1>4
  <2> DEFINE n == Len(old.actions)
  <2> HIDE DEF new
  <2>3. \A i \in 1..n : new[i] \in ToSet(new)
    BY <2>1, <1>5
  <2> HIDE DEF n
  <2>4. n \in Nat /\ new \in [1..n -> ToSet(new)]
    BY <2>2, <2>3, <1>4 DEF n
  <2>5. new \in Seq(ToSet(new)) /\ Len(new) = n
    BY <2>4
  <2>6. QED
    BY <2>5 DEF IsSeq, n
<1>7. nested["log"] = NestedFor(id, "log")
  BY DEF Purposes, Special
<1> HIDE DEF new, nested
<1>8. {"attr", "lists", "kids", "actions", "hotkeys", "nested", "parent"} \subseteq DOMAIN old
  BY <1>2 DEF HasFields
<1>9. /\ DOMAIN e = DOMAIN old /\ e.attr = old.attr /\ e.kids = old.kids
      /\ e.lists = old.lists /\ e.hotkeys = old.hotkeys /\ e.parent = old.parent
      /\ e.actions = new /\ e.nested = nested
  BY <1>8
<1>10. HasFields(e)
  <2>1. \A i \in 1..Len(new) : {"sym", "plugin", "sync", "bound"} \subseteq DOMAIN new[i]
    BY <1>4, <1>5, <1>6, BindFacts
  <2>2. QED
    BY <2>1, <1>2, <1>6, <1>9 DEF HasFields
<1> DEFINE t == [scheme EXCEPT !.entry[id] = e]
<1>11. scheme' = t
  <2> DEFINE u == [scheme EXCEPT !.entry[id].actions = new]
  <2>1. u.entry[id] = [old EXCEPT !.actions = new] /\ DOMAIN u = DOMAIN scheme
        /\ DOMAIN u.entry = DOMAIN scheme.entry
        /\ (\A f \in DOMAIN scheme : f # "entry" => u[f] = scheme[f])
        /\ \A x \in DOMAIN scheme.entry : x # id => u.entry[x] = scheme.entry[x]
    BY <1>1, <1>2 DEF old
  <2>2. scheme' = [u EXCEPT !.entry[id].nested = nested]
    BY <1>3
  <2>3. QED
    BY <1>1, <1>2, <1>3 DEF old
<1> HIDE DEF e
<1>12. /\ IsTree(t) /\ DOMAIN t.entry = DOMAIN scheme.entry
       /\ t.entry[id] = e /\ \A x \in DOMAIN scheme.entry : x # id => t.entry[x] = scheme.entry[x]
       /\ t.top = scheme.top /\ t.plugins = scheme.plugins
  <2>1. e.kids = scheme.entry[id].kids /\ e.lists \in DOMAIN scheme.entry
    BY <1>2, <1>9 DEF old
  <2> HIDE DEF id, t
  <2>2. QED
    BY <2>1, <1>1, <1>2, <1>10, FieldSet DEF t
<1> HIDE DEF t
<1>13. SameShape
  BY <1>9, <1>11, <1>12 DEF SameShape, old
<1>14. \A x \in DOMAIN scheme.entry : x # id => Untouched(x)
  BY <1>11, <1>12 DEF Untouched
<1>15. /\ scheme'.entry[id].attr = old.attr /\ scheme'.entry[id].lists = old.lists
       /\ scheme'.entry[id].actions = new /\ scheme'.entry[id].nested = nested
  BY <1>9, <1>11, <1>12
<1>16. ret' \in BOOLEAN
  BY <1>3, <1>1 DEF TypeInv
<1>17. ret' => ret /\ \A i \in 1..Len(old.actions) : ActionFits(Entry(id), new[i])
  BY <1>3, <1>5 DEF Entry, old
<1>18. QED
  BY <1>1, <1>5, <1>6, <1>7, <1>11, <1>12, <1>13, <1>14, <1>15, <1>16, <1>17 DEF Prepared, old
LEMMA MaxIs ==
  ASSUME NEW n \in Nat, NEW T, T \subseteq 1..n, NEW m \in T, \A y \in T : y <= m
  PROVE  Max(T) = m
<1> DEFINE x == Max(T)
<1>1. x \in T /\ x >= m
  BY MaxIsIn
<1> HIDE DEF x
<1>2. x \in Nat /\ m \in Nat /\ x <= m
  BY <1>1
<1>3. x = m
  BY <1>1, <1>2
<1>4. QED
  BY <1>3 DEF x

(* An ENTRY that has its turn finds the LOG closest to it.                 *)
LEMMA LogFound ==
  ASSUME Inv, phase = "prepare", NEW id \in ToSet(todo), HasParents(id)
  PROVE  NestedFor(id, "log") = Closest(id)
<1>1. TypeInv /\ AgendaInv /\ LinkInv
  BY DEF Inv, PrepareInv
<1>2. /\ id \in DOMAIN scheme.entry /\ OffLinks(id)
      /\ Len(id) > 1 => LogKnown(Around(id, Len(id) - 1))
  <2>1. id \in DOMAIN scheme.entry
    BY <1>1, SeqDomain DEF AgendaInv, ToSet
  <2>2. QED
    BY <2>1, <1>1 DEF AgendaInv
<1> DEFINE n == Len(id)
<1>3. /\ n \in Nat \ {0} /\ DOMAIN id = 1..n /\ id \in Seq(Word)
      /\ \A k \in 1..n : Around(id, k) \in DOMAIN scheme.entry
      /\ Around(id, n) = id /\ Around(id, 0) = <<>>
  BY <1>1, <1>2, TreeFacts, AroundAll
<1>4. \A k \in 1..n : Entry(Around(id, k)).parent = Around(id, k - 1)
  BY <1>3 DEF HasParents
<1>5. Entry(id).parent = Around(id, n - 1)
  <2>1. n \in 1..n
    BY <1>3
  <2>2. QED
    BY <2>1, <1>3, <1>4
<1> DEFINE with == WithLog(id)
<1>6. with = {k \in 1..n : LogIn(Around(id, k)) # NoEntry}
  BY <1>3 DEF WithLog
<1>7. Closest(id) = ClosestIn(id, with)
  BY ClosestDef
<1> HIDE DEF with
<1>8. CASE LogIn(id) # NoEntry
  <2>1. n \in with /\ \A y \in with : y <= n
    BY <1>3, <1>6, <1>8
  <2>2. Max(with) = n
    <3>1. with \subseteq 1..n /\ n \in Nat
      BY <1>3, <1>6
    <3> HIDE DEF n
    <3>2. QED
      BY <2>1, <3>1, MaxIs
  <2>3. Closest(id) = LogIn(id)
    BY <1>3, <1>7, <2>1, <2>2 DEF ClosestIn
  <2>4. NestedFor(id, "log") = LogIn(id)
    BY <1>8 DEF NestedFor, LogIn
  <2>5. QED
    BY <2>3, <2>4
<1>9. CASE LogIn(id) = NoEntry /\ n = 1
  <2>1. with = {}
    BY <1>3, <1>6, <1>9
  <2>2. Entry(id).parent = NoEntry
    BY <1>3, <1>5, <1>9 DEF NoEntry
  <2>3. QED
    BY <1>7, <1>9, <2>1, <2>2 DEF NestedFor, LogIn, ClosestIn
<1>10. CASE LogIn(id) = NoEntry /\ n # 1
  <2> DEFINE p == Around(id, n - 1)
  <2>1. n - 1 \in 1..n /\ n - 1 \in 1..(n - 1) /\ n - 1 \in 0..n /\ n > 1 /\ n - 1 \in Nat
    BY <1>3, <1>10
  <2>2. p \in DOMAIN scheme.entry /\ p \in Seq(Word) /\ Len(p) = n - 1
        /\ \A k \in 0..(n - 1) : Around(p, k) = Around(id, k)
    BY <1>3, <2>1, AroundFacts, AroundAround
  <2>3. Ref(p) = None /\ LogKnown(p)
    BY <1>2, <2>1 DEF OffLinks
  <2> HIDE DEF p
  <2>4. Entry(p).lists = p
    BY <1>1, <2>2, <2>3 DEF LinkInv
  <2>5. DOMAIN p = 1..(n - 1)
    BY <1>1, <2>2, TreeFacts
  <2>6. HasParents(p)
    <3>1. ASSUME NEW k \in 1..(n - 1)
          PROVE  Entry(Around(p, k)).parent = Around(p, k - 1)
      <4>1. k \in 1..n /\ k \in 0..(n - 1) /\ k - 1 \in 0..(n - 1)
        BY <2>1
      <4>2. QED
        BY <4>1, <1>4, <2>2
    <3>2. QED
      BY <3>1, <2>5 DEF HasParents
  <2>7. Entry(p).nested["log"] = Closest(p)
    BY <2>3, <2>6 DEF LogKnown
  <2>8. p # NoEntry
    BY <1>1, <2>2, TreeFacts DEF NoEntry
  <2>9. NestedFor(id, "log") = Closest(p)
    BY <1>5, <1>10, <2>4, <2>7, <2>8 DEF NestedFor, LogIn, p
  <2>10. WithLog(p) = with
    <3>1. \A k \in 1..(n - 1) : k \in 0..(n - 1) /\ k \in 1..n
      BY <2>1
    <3>2. \A k \in 1..n : k # n => k \in 1..(n - 1)
      BY <2>1
    <3>3. \A k \in 1..(n - 1) : LogIn(Around(p, k)) = LogIn(Around(id, k))
      BY <2>2, <3>1
    <3>4. n \notin with
      BY <1>3, <1>6, <1>10
    <3>5. WithLog(p) = {k \in 1..(n - 1) : LogIn(Around(id, k)) # NoEntry}
      BY <2>5, <3>3 DEF WithLog
    <3>6. QED
      BY <3>1, <3>2, <3>4, <3>5, <1>6
  <2>11. with # {} => Around(p, Max(with)) = Around(id, Max(with))
    <3>1. WithLog(p) \subseteq 1..(n - 1)
      BY <2>5 DEF WithLog
    <3>2. with # {} => Max(with) \in 1..(n - 1)
      BY <2>1, <2>10, <3>1, MaxIsIn
    <3>3. QED
      BY <3>2, <2>2, <2>1
  <2>12. Closest(p) = ClosestIn(p, with)
    BY <2>10, ClosestDef
  <2>13. QED
    BY <2>9, <2>11, <2>12, <1>7 DEF ClosestIn
<1>11. QED
  BY <1>8, <1>9, <1>10
(* What is prepared stays so.                                              *)
LEMMA LogKnownSame ==
  ASSUME TypeInv, SameShape, NEW x \in DOMAIN scheme.entry, LogKnown(x),
         scheme'.entry[x].nested = scheme.entry[x].nested
  PROVE  LogKnown(x)'
<1>1. (HasParents(x)' <=> HasParents(x)) /\ Closest(x)' = Closest(x)
  BY HasParentsSame, ClosestSame
<1>2. Entry(x).nested' = Entry(x).nested
  BY DEF Entry
<1>3. QED
  BY <1>1, <1>2 DEF LogKnown

LEMMA ReadySame ==
  ASSUME TypeInv, SameShape, ret' => ret, NEW x \in DOMAIN scheme.entry, Ready(x),
         scheme'.entry[x].actions = scheme.entry[x].actions,
         scheme'.entry[x].attr = scheme.entry[x].attr,
         scheme'.entry[x].nested = scheme.entry[x].nested
  PROVE  Ready(x)'
<1>1. LogKnown(x)'
  BY LogKnownSame DEF Ready
<1>2. /\ scheme'.plugins = scheme.plugins
      /\ \A i \in 1..Len(scheme.entry[x].actions) :
           /\ scheme.entry[x].actions[i].bound
                = Bound(scheme.plugins, scheme.entry[x].actions[i])
           /\ ret => ActionFits(scheme.entry[x], scheme.entry[x].actions[i])
  BY DEF Ready, Entry, SameShape
<1>3. \A a : ActionFits(scheme'.entry[x], a) <=> ActionFits(scheme.entry[x], a)
  BY DEF ActionFits
<1>4. \A i \in 1..Len(scheme'.entry[x].actions) :
        /\ scheme'.entry[x].actions[i].bound
             = Bound(scheme'.plugins, scheme'.entry[x].actions[i])
        /\ ret' => ActionFits(scheme'.entry[x], scheme'.entry[x].actions[i])
  BY <1>2, <1>3
<1>5. QED
  BY <1>1, <1>4 DEF Ready, Entry

LEMMA PreparedReady ==
  ASSUME Inv, phase = "prepare", NEW id, Prepared(id)
  PROVE  Ready(id)'
<1>1. TypeInv /\ SameShape /\ id \in DOMAIN scheme.entry /\ id \in ToSet(todo)
  BY DEF Inv, Prepared
<1> DEFINE A == scheme.entry[id].actions
           B == scheme'.entry[id].actions
<1>2. /\ Len(B) = Len(A)
      /\ \A i \in 1..Len(A) : B[i] = Bind(A[i])
      /\ \A i \in 1..Len(A) : {"sym", "plugin", "sync", "bound"} \subseteq DOMAIN A[i]
  BY <1>1 DEF Prepared, TypeInv, IsTree, HasFields
<1> HIDE DEF A, B
<1>3. \A i \in 1..Len(B) : B[i].bound = Bound(scheme'.plugins, B[i])
  BY <1>1, <1>2, BindFacts DEF SameShape
<1>4. scheme'.entry[id].attr = scheme.entry[id].attr /\ scheme'.entry[id].actions = B
  BY DEF Prepared, B
<1>5. ASSUME ret', NEW i \in 1..Len(B) PROVE ActionFits(scheme'.entry[id], B[i])
  <2>1. ActionFits(scheme.entry[id], B[i])
    BY <1>2, <1>5 DEF Prepared, A, B, Entry
  <2>2. QED
    BY <2>1, <1>4 DEF ActionFits
<1>6. LogKnown(id)'
  <2>1. (HasParents(id)' <=> HasParents(id)) /\ Closest(id)' = Closest(id)
    BY <1>1, HasParentsSame, ClosestSame
  <2>2. HasParents(id) => NestedFor(id, "log") = Closest(id)
    BY <1>1, LogFound
  <2>3. Entry(id)'.nested["log"] = NestedFor(id, "log")
    BY DEF Prepared, Entry
  <2>4. QED
    BY <2>1, <2>2, <2>3 DEF LogKnown
<1>7. QED
  BY <1>3, <1>4, <1>5, <1>6 DEF Ready, Entry
LEMMA DoneSame ==
  ASSUME TypeInv, SameShape, ret' => ret, NEW x \in DOMAIN scheme.entry, Done(x),
         Untouched(x),
         \A y \in DOMAIN scheme.entry :
           Ref(y) = None => scheme'.entry[y].attr = scheme.entry[y].attr
  PROVE  Done(x)'
<1>1. Ref(x)' = Ref(x)
  BY RefSame
<1>2. CASE Ref(x) = None
  <2>1. Ready(x)
    BY <1>2 DEF Done
  <2>2. Ready(x)'
    BY <2>1, ReadySame DEF Untouched
  <2>3. QED
    BY <1>1, <1>2, <2>2 DEF Done
<1>3. CASE Ref(x) # None
  <2> DEFINE owner == scheme.entry[x].lists
  <2>1. ret' => Linked(x)
    BY <1>3 DEF Done
  <2>2. owner \in DOMAIN scheme.entry
    BY DEF TypeInv, IsTree
  <2>3. Linked(x) => scheme'.entry[owner].attr = scheme.entry[owner].attr
    BY <2>2 DEF Linked, Entry
  <2>4. scheme'.entry[x].lists = owner /\ scheme'.entry[x].attr = scheme.entry[x].attr
    BY DEF Untouched
  <2>5. Linked(x) => Linked(x)'
    BY <2>3, <2>4 DEF Linked, Ref, Entry
  <2>6. QED
    BY <1>1, <1>3, <2>1, <2>5 DEF Done
<1>4. QED
  BY <1>2, <1>3

LEMMA PrepareType ==
  ASSUME TypeInv, phase # "load", UNCHANGED <<input, loading>>,
         IsTree(scheme'), DOMAIN scheme'.entry = DOMAIN scheme.entry,
         phase' \in {"prepare", "ready", "failed"}, ret' \in BOOLEAN
  PROVE  TypeInv'
<1>1. input' \in Inputs /\ file' \in Nat \ {0} /\ at' \in Nat \ {0} /\ stack' = stack
  BY DEF TypeInv, loading
<1>2. StackType'
  BY <1>1, KeptStack DEF TypeInv
<1>3. phase' # "load" /\ phase' \in {"load", "prepare", "ready", "failed"}
  OBVIOUS
<1>4. QED
  BY <1>1, <1>2, <1>3 DEF TypeInv

LEMMA AroundLen ==
  ASSUME TypeInv, NEW x \in DOMAIN scheme.entry, NEW k \in 1..Len(x)
  PROVE  /\ Around(x, k) \in DOMAIN scheme.entry /\ Len(Around(x, k)) = k
         /\ \A j \in 0..k : Around(Around(x, k), j) = Around(x, j)
<1>1. x \in Seq(Word) /\ Len(x) \in Nat \ {0} /\ k \in 0..Len(x)
      /\ Around(x, k) \in DOMAIN scheme.entry
  BY TreeFacts
<1>2. QED
  BY <1>1, AroundFacts, AroundAround

LEMMA KidFacts ==
  ASSUME TypeInv, NEW id \in DOMAIN scheme.entry, NEW y \in ToSet(Entry(id).kids)
  PROVE  /\ y \in DOMAIN scheme.entry /\ Len(y) = Len(id) + 1 /\ Around(y, Len(id)) = id
         /\ \A k \in 1..(Len(id) - 1) : Around(y, k) = Around(id, k)
<1>1. KidsBelow(scheme, id) /\ Len(id) \in Nat \ {0}
  BY TreeFacts DEF TypeInv, IsTree
<1>2. /\ Entry(id).kids \in Seq(DOMAIN scheme.entry)
      /\ \A i \in 1..Len(Entry(id).kids) :
           /\ Len(Entry(id).kids[i]) = Len(id) + 1
           /\ Around(Entry(id).kids[i], Len(id)) = id
  BY <1>1 DEF KidsBelow, Entry
<1>3. y \in DOMAIN scheme.entry /\ Len(y) = Len(id) + 1 /\ Around(y, Len(id)) = id
  BY <1>2, SeqDomain DEF ToSet
<1>4. Len(id) \in 1..Len(y)
  BY <1>1, <1>3
<1>5. \A j \in 0..Len(id) : Around(Around(y, Len(id)), j) = Around(y, j)
  BY <1>3, <1>4, AroundLen
<1>6. \A k \in 1..(Len(id) - 1) : k \in 0..Len(id)
  BY <1>1
<1>7. QED
  BY <1>3, <1>5, <1>6

LEMMA PrepareEntryInv ==
  ASSUME Inv, PrepareEntry
  PROVE  Inv'
<1> DEFINE D == DOMAIN scheme.entry
<1>0. PICK id : id = Head(todo)
  OBVIOUS
<1>1. /\ TypeInv /\ AgendaInv /\ LinkInv /\ CoverInv /\ phase = "prepare" /\ todo # <<>>
      /\ UNCHANGED <<input, loading, phase, tops, target, freed>>
      /\ todo' = Entry(id).kids \o Tail(todo) /\ Ref(id) = None
  BY <1>0 DEF Inv, PrepareInv, PrepareEntry
<1>2. Prepared(id)
  BY <1>0, PrepareEntryResult
<1>3. /\ id \in D /\ id \in ToSet(todo) /\ IsTree(scheme') /\ SameShape
      /\ ret' \in BOOLEAN /\ (ret' => ret)
      /\ \A x \in D : x # id => Untouched(x)
      /\ \A x \in D : scheme'.entry[x].attr = scheme.entry[x].attr
      /\ \A x \in D : scheme'.entry[x].lists = scheme.entry[x].lists
  BY <1>2 DEF Prepared, Untouched
<1>4. Ready(id)'
  BY <1>1, <1>2, PreparedReady
<1>5. DOMAIN scheme'.entry = D
  BY <1>3 DEF SameShape
<1>6. TypeInv'
  BY <1>1, <1>3, <1>5, PrepareType
<1>7. /\ todo \in Seq(D) /\ Tail(todo) \in Seq(D) /\ Entry(id).kids \in Seq(D)
      /\ ToSet(todo) = {id} \cup ToSet(Tail(todo))
  BY <1>0, <1>1, <1>3, HeadTail, TreeFacts DEF AgendaInv
<1>8. /\ todo' \in Seq(D)
      /\ ToSet(todo') = ToSet(Entry(id).kids) \cup ToSet(Tail(todo))
  <2> DEFINE kids == Entry(id).kids
             rest == Tail(todo)
  <2>1. kids \in Seq(D) /\ rest \in Seq(D)
    BY <1>7
  <2> HIDE DEF D, kids, rest
  <2>2. kids \o rest \in Seq(D) /\ ToSet(kids \o rest) = ToSet(kids) \cup ToSet(rest)
    BY <2>1, ConcatSet
  <2>3. QED
    BY <2>2, <1>1 DEF kids, rest
<1>9. \A x \in ToSet(todo) : x \in D /\ OffLinks(x)
                             /\ (Len(x) > 1 => LogKnown(Around(x, Len(x) - 1)))
  <2>1. ToSet(todo) \subseteq D
    BY <1>7, SeqIsSeq
  <2>2. QED
    BY <2>1, <1>1 DEF AgendaInv
<1>10. ASSUME NEW x \in D, LogKnown(x) PROVE LogKnown(x)'
  <2>1. CASE x = id
    BY <2>1, <1>4 DEF Ready
  <2>2. CASE x # id
    BY <2>2, <1>1, <1>3, <1>10, LogKnownSame DEF Untouched
  <2>3. QED
    BY <2>1, <2>2
<1>11. ASSUME NEW x \in ToSet(todo')
       PROVE  OffLinks(x)' /\ (Len(x) > 1 => LogKnown(Around(x, Len(x) - 1))')
  <2>1. CASE x \in ToSet(Tail(todo))
    <3>1. x \in D /\ OffLinks(x) /\ (Len(x) > 1 => LogKnown(Around(x, Len(x) - 1)))
      BY <2>1, <1>7, <1>9
    <3>2. OffLinks(x)'
      BY <3>1, <1>1, <1>3, OffLinksSame
    <3>3. ASSUME Len(x) > 1 PROVE LogKnown(Around(x, Len(x) - 1))'
      <4>1. Len(x) - 1 \in 1..Len(x)
        BY <3>1, <3>3, <1>1, TreeFacts
      <4>2. Around(x, Len(x) - 1) \in D
        BY <3>1, <4>1, <1>1, TreeFacts
      <4>3. QED
        BY <3>1, <3>3, <4>2, <1>10
    <3>4. QED
      BY <3>2, <3>3
  <2>2. CASE x \in ToSet(Entry(id).kids)
    <3>1. /\ x \in D /\ Len(x) = Len(id) + 1 /\ Around(x, Len(id)) = id
          /\ \A k \in 1..(Len(id) - 1) : Around(x, k) = Around(id, k)
          /\ Len(id) \in Nat \ {0}
      BY <2>2, <1>1, <1>3, KidFacts, TreeFacts
    <3>2. OffLinks(id)
      BY <1>3, <1>9
    <3>3. OffLinks(x)
      <4>1. ASSUME NEW k \in 1..(Len(x) - 1) PROVE Ref(Around(x, k)) = None
        <5>1. CASE k = Len(id)
          BY <5>1, <3>1, <1>1
        <5>2. CASE k # Len(id)
          <6>1. k \in 1..(Len(id) - 1)
            BY <5>2, <3>1
          <6>2. QED
            BY <6>1, <3>1, <3>2 DEF OffLinks
        <5>3. QED
          BY <5>1, <5>2
      <4>2. QED
        BY <4>1 DEF OffLinks
    <3>4. OffLinks(x)'
      BY <3>1, <3>3, <1>1, <1>3, OffLinksSame
    <3>5. Around(x, Len(x) - 1) = id /\ LogKnown(id)'
      BY <3>1, <1>4 DEF Ready
    <3>6. QED
      BY <3>4, <3>5
  <2>3. QED
    BY <2>1, <2>2, <1>8
<1>12. AgendaInv'
  <2>1. tops' \in 0..Len(scheme'.top) /\ todo' \in Seq(DOMAIN scheme'.entry)
    BY <1>1, <1>3, <1>5, <1>8 DEF AgendaInv, SameShape
  <2>2. QED
    BY <2>1, <1>11 DEF AgendaInv
<1>13. LinkInv'
  <2>1. target' = NoEntry
    BY <1>0, <1>1 DEF LinkInv
  <2>2. \A x \in D : Ref(x)' = Ref(x)
    BY <1>3, RefSame
  <2>3. \A x \in D : scheme'.entry[x].lists = scheme.entry[x].lists
    BY <1>3
  <2>4. freed' = freed
    BY <1>1
  <2>5. \A x \in D : Ref(x)' = None => Entry(x)'.lists = x
    BY <2>2, <2>3, <1>1 DEF LinkInv, Entry
  <2>6. \A x \in freed' : \E l \in D : Ref(l)' # None /\ l # x /\ IsPrefix(l, x)
    BY <2>2, <2>4, <1>1 DEF LinkInv
  <2>7. QED
    BY <2>1, <2>5, <2>6, <1>5 DEF LinkInv
<1>14. ASSUME NEW x \in D, OffLinks(x)' PROVE Done(x)' \/ Ahead(x)'
  <2>1. OffLinks(x)
    BY <1>1, <1>3, <1>14, OffLinksSame
  <2>2. Done(x) \/ Ahead(x)
    BY <2>1, <1>1 DEF CoverInv
  <2>3. CASE x = id
    BY <2>3, <1>1, <1>3, <1>4, RefSame DEF Done
  <2>4. CASE x # id /\ Done(x)
    BY <2>4, <1>1, <1>3, DoneSame
  <2>5. CASE x # id /\ Ahead(x)
    <3>1. CASE \E i \in (tops + 1)..Len(scheme.top) : Around(x, 1) = scheme.top[i]
      BY <3>1, <1>1, <1>3 DEF Ahead, SameShape
    <3>2. CASE \E k \in 1..Len(x) : Around(x, k) \in ToSet(todo)
      <4>1. PICK k \in 1..Len(x) : Around(x, k) \in ToSet(todo)
        BY <3>2
      <4>2. CASE Around(x, k) # id
        <5>1. Around(x, k) \in ToSet(todo')
          BY <4>1, <4>2, <1>7, <1>8
        <5>2. QED
          BY <5>1 DEF Ahead
      <4>3. CASE Around(x, k) = id
        <5>1. Len(x) \in Nat \ {0} /\ Around(x, Len(x)) = x
          BY <1>1, TreeFacts
        <5>2. k \in 1..(Len(x) - 1) /\ k + 1 \in 1..Len(x)
          BY <4>3, <5>1, <2>5
        <5>3. Around(x, k + 1) \in ToSet(Entry(id).kids)
          BY <4>3, <5>2, <1>1, TreeFacts
        <5>4. Around(x, k + 1) \in ToSet(todo')
          BY <5>3, <1>8
        <5>5. QED
          BY <5>2, <5>4 DEF Ahead
      <4>4. QED
        BY <4>2, <4>3
    <3>3. QED
      BY <2>5, <3>1, <3>2 DEF Ahead
  <2>6. QED
    BY <2>2, <2>3, <2>4, <2>5
<1>15. CoverInv'
  BY <1>1, <1>5, <1>14 DEF CoverInv
<1>16. QED
  BY <1>6, <1>12, <1>13, <1>15 DEF Inv, PrepareInv
(* What was ahead and is no longer: only the ENTRY taken from the agenda,  *)
(* when it is a link, for nothing below it counts.                         *)
LEMMA AheadWithout ==
  ASSUME TypeInv, NEW id \in DOMAIN scheme.entry, Ref(id) # None,
         NEW x \in DOMAIN scheme.entry, x # id, OffLinks(x), Ahead(x),
         SameShape, tops' = tops, ToSet(todo) \subseteq {id} \cup ToSet(todo')
  PROVE  Ahead(x)'
<1>1. CASE \E i \in (tops + 1)..Len(scheme.top) : Around(x, 1) = scheme.top[i]
  BY <1>1 DEF Ahead, SameShape
<1>2. CASE \E k \in 1..Len(x) : Around(x, k) \in ToSet(todo)
  <2>1. PICK k \in 1..Len(x) : Around(x, k) \in ToSet(todo)
    BY <1>2
  <2>2. Len(x) \in Nat \ {0} /\ Around(x, Len(x)) = x
    BY TreeFacts
  <2>3. Around(x, k) # id
    <3>1. CASE k = Len(x)
      BY <3>1, <2>2
    <3>2. CASE k # Len(x)
      <4>1. k \in 1..(Len(x) - 1)
        BY <3>2, <2>2
      <4>2. QED
        BY <4>1 DEF OffLinks
    <3>3. QED
      BY <3>1, <3>2
  <2>4. QED
    BY <2>1, <2>3 DEF Ahead
<1>3. QED
  BY <1>1, <1>2 DEF Ahead

(* What is left of the agenda stays as it was.                             *)
LEMMA AgendaKept ==
  ASSUME TypeInv, AgendaInv, SameShape, tops' = tops,
         todo' \in Seq(DOMAIN scheme.entry), ToSet(todo') \subseteq ToSet(todo),
         \A x \in DOMAIN scheme.entry :
           Ref(x) = None => scheme'.entry[x].nested = scheme.entry[x].nested
  PROVE  AgendaInv'
<1> DEFINE D == DOMAIN scheme.entry
<1>1. todo \in Seq(D) /\ ToSet(todo') \subseteq ToSet(todo)
  BY DEF AgendaInv
<1>2. ASSUME NEW x \in ToSet(todo')
      PROVE  OffLinks(x)' /\ (Len(x) > 1 => LogKnown(Around(x, Len(x) - 1))')
  <2>1. ToSet(todo) \subseteq D
    BY <1>1, SeqIsSeq
  <2>2. x \in D /\ OffLinks(x) /\ (Len(x) > 1 => LogKnown(Around(x, Len(x) - 1)))
    BY <2>1, <1>1, <1>2 DEF AgendaInv
  <2>3. OffLinks(x)'
    BY <2>2, OffLinksSame
  <2>4. ASSUME Len(x) > 1 PROVE LogKnown(Around(x, Len(x) - 1))'
    <3>1. Len(x) \in Nat
      BY <2>2, TreeFacts
    <3>2. Len(x) - 1 \in 1..Len(x) /\ Len(x) - 1 \in 1..(Len(x) - 1)
      BY <3>1, <2>4
    <3>3. PICK y : y = Around(x, Len(x) - 1)
      OBVIOUS
    <3>4. y \in D /\ Ref(y) = None /\ LogKnown(y)
      BY <2>2, <2>4, <3>2, <3>3, TreeFacts DEF OffLinks
    <3>5. LogKnown(y)'
      BY <3>4, LogKnownSame
    <3>6. QED
      BY <3>3, <3>5
  <2>5. QED
    BY <2>3, <2>4
<1>3. tops' \in 0..Len(scheme'.top) /\ todo' \in Seq(DOMAIN scheme'.entry)
  BY <1>1 DEF AgendaInv, SameShape
<1>4. QED
  BY <1>2, <1>3 DEF AgendaInv

LEMMA AgendaWithout ==
  ASSUME TypeInv, AgendaInv, SameShape, tops' = tops, todo # <<>>, todo' = Tail(todo),
         \A x \in DOMAIN scheme.entry :
           Ref(x) = None => scheme'.entry[x].nested = scheme.entry[x].nested
  PROVE  /\ AgendaInv' /\ Head(todo) \in DOMAIN scheme.entry
         /\ ToSet(todo) = {Head(todo)} \cup ToSet(todo')
<1>1. /\ Tail(todo) \in Seq(DOMAIN scheme.entry) /\ Head(todo) \in DOMAIN scheme.entry
      /\ ToSet(todo) = {Head(todo)} \cup ToSet(Tail(todo))
  BY HeadTail DEF AgendaInv
<1>2. QED
  BY <1>1, AgendaKept

LEMMA UnchangedShape ==
  ASSUME scheme' = scheme
  PROVE  SameShape /\ \A x : Untouched(x)
BY DEF SameShape, Untouched

LEMMA FollowInv ==
  ASSUME Inv, Follow
  PROVE  Inv'
<1> DEFINE D == DOMAIN scheme.entry
<1>0. PICK id : id = Head(todo)
  OBVIOUS
<1>1. /\ TypeInv /\ AgendaInv /\ LinkInv /\ CoverInv /\ phase = "prepare" /\ todo # <<>>
      /\ UNCHANGED <<input, loading, scheme, phase, tops, freed>>
      /\ Ref(id) # None /\ Ref(From) # None
  BY <1>0 DEF Inv, PrepareInv, Follow
<1>2. SameShape /\ (\A x \in D : Untouched(x)) /\ IsTree(scheme')
  BY <1>1, UnchangedShape DEF TypeInv
<1>3. id \in D /\ From \in D
  BY <1>0, <1>1, HeadTail DEF AgendaInv, LinkInv, From
<1> DEFINE found == FindEntryByPath(Ref(From))
<1>4. found \in D \cup {NoEntry}
  <2>1. HasFields(Entry(From))
    BY <1>1, <1>3, TreeFacts
  <2>2. IsSeq(Ref(From))
    BY <2>1, <1>1 DEF HasFields, Ref
  <2>3. QED
    BY <2>2, <1>1, FindEntryIn
<1>5. CASE found # NoEntry
  <2>1. target' = found /\ UNCHANGED <<ret, todo>>
    BY <1>5 DEF Follow
  <2> HIDE DEF found
  <2>2. target' \in D
    BY <1>4, <1>5, <2>1
  <2>3. TypeInv'
    <3>1. ret' \in BOOLEAN /\ phase # "load" /\ phase' \in {"prepare", "ready", "failed"}
      BY <1>1, <2>1 DEF TypeInv
    <3>2. QED
      BY <1>1, <1>2, <3>1, PrepareType
  <2>4. AgendaInv'
    <3>1. todo' \in Seq(D) /\ ToSet(todo') \subseteq ToSet(todo) /\ tops' = tops
      BY <1>1, <2>1 DEF AgendaInv
    <3>2. QED
      BY <1>1, <1>2, <3>1, AgendaKept DEF Untouched
  <2>5. LinkInv'
    <3>1. todo' # <<>> /\ scheme'.entry[Head(todo')].attr.ref # None
      BY <1>0, <1>1, <2>1 DEF Ref, Entry
    <3>2. \A x \in D : Ref(x)' = None => Entry(x)'.lists = x
      BY <1>1 DEF LinkInv, Ref, Entry
    <3>3. \A x \in freed' : \E l \in D : Ref(l)' # None /\ l # x /\ IsPrefix(l, x)
      BY <1>1 DEF LinkInv, Ref, Entry
    <3>4. DOMAIN scheme'.entry = D
      BY <1>1
    <3>5. QED
      BY <2>2, <3>1, <3>2, <3>3, <3>4 DEF LinkInv, Ref, Entry
  <2>6. ASSUME NEW x \in D PROVE /\ OffLinks(x)' => OffLinks(x)
                                 /\ Done(x) => Done(x)'
                                 /\ Ahead(x) => Ahead(x)'
    <3>1. OffLinks(x)' => OffLinks(x)
      BY <1>1, <1>2, OffLinksSame
    <3>2. Done(x) => Done(x)'
      BY <1>1, <1>2, <2>1, DoneSame DEF Untouched
    <3>3. Ahead(x) => Ahead(x)'
      BY <1>1, <2>1 DEF Ahead
    <3>4. QED
      BY <3>1, <3>2, <3>3
  <2>7. CoverInv'
    BY <1>1, <2>6 DEF CoverInv
  <2>8. QED
    BY <2>3, <2>4, <2>5, <2>7 DEF Inv, PrepareInv
<1>6. CASE found = NoEntry
  <2>1. ret' = FALSE /\ todo' = Tail(todo) /\ target' = NoEntry
    BY <1>6 DEF Follow
  <2> HIDE DEF found
  <2>2. TypeInv'
    <3>1. ret' \in BOOLEAN /\ phase # "load" /\ phase' \in {"prepare", "ready", "failed"}
      BY <1>1, <2>1
    <3>2. QED
      BY <1>1, <1>2, <3>1, PrepareType
  <2>3. AgendaInv' /\ ToSet(todo) = {id} \cup ToSet(todo')
    BY <1>0, <1>1, <1>2, <2>1, AgendaWithout DEF Untouched
  <2>4. LinkInv'
    BY <1>1, <2>1 DEF LinkInv, Ref, Entry
  <2>5. ASSUME NEW x \in D, OffLinks(x)' PROVE Done(x)' \/ Ahead(x)'
    <3>1. OffLinks(x)
      BY <1>1, <1>2, <2>5, OffLinksSame
    <3>2. Done(x) \/ Ahead(x)
      BY <3>1, <1>1 DEF CoverInv
    <3>3. CASE x = id
      <4>1. Ref(x)' # None
        BY <3>3, <1>1, <1>3, <1>2, RefSame
      <4>2. QED
        BY <4>1, <2>1 DEF Done
    <3>4. CASE x # id /\ Done(x)
      BY <3>4, <1>1, <1>2, <2>1, DoneSame DEF Untouched
    <3>5. CASE x # id /\ Ahead(x)
      BY <3>1, <3>5, <1>1, <1>2, <1>3, <2>3, AheadWithout
    <3>6. QED
      BY <3>2, <3>3, <3>4, <3>5
  <2>6. CoverInv'
    BY <1>1, <2>5 DEF CoverInv
  <2>7. QED
    BY <2>2, <2>3, <2>4, <2>6 DEF Inv, PrepareInv
<1>7. QED
  BY <1>5, <1>6
LEMMA LinkResult ==
  ASSUME Inv, Link, NEW id, id = Head(todo)
  PROVE  /\ id \in DOMAIN scheme.entry /\ Ref(id) # None
         /\ target \in DOMAIN scheme.entry /\ Ref(target) = None
         /\ IsTree(scheme') /\ SameShape
         /\ \A x \in DOMAIN scheme.entry : x # id => Untouched(x)
         /\ scheme'.entry[id].lists = target
         /\ scheme'.entry[id].attr.filter = scheme.entry[target].attr.filter
<1> DEFINE old == scheme.entry[id]
           src == scheme.entry[target]
           attr == [old.attr EXCEPT !.mode = src.attr.mode,
                      !.filter = src.attr.filter,
                      !.help = IF @ = None THEN src.attr.help ELSE @,
                      !.value = IF @ = None THEN src.attr.value ELSE @]
           e == [old EXCEPT !.lists = src.lists, !.attr = attr]
           t == [scheme EXCEPT !.entry[id] = e]
<1>1. /\ TypeInv /\ id \in DOMAIN scheme.entry /\ Ref(id) # None
      /\ target \in DOMAIN scheme.entry /\ Ref(target) = None
  BY HeadTail DEF Inv, PrepareInv, Link, AgendaInv, LinkInv
<1>2. /\ IsTree(scheme) /\ HasFields(old) /\ {"plugins", "top", "entry"} \subseteq DOMAIN scheme
      /\ src.lists = target
  BY <1>1 DEF TypeInv, IsTree, Inv, PrepareInv, Link, LinkInv, Entry
<1>3. e = KentryLink(old, src)
  BY DEF KentryLink
<1>4. {"attr", "lists", "kids", "actions", "hotkeys", "nested", "parent"} \subseteq DOMAIN old
      /\ DOMAIN Defaults \subseteq DOMAIN old.attr
  BY <1>2 DEF HasFields
<1> HIDE DEF e
<1>5. scheme' = t
  BY <1>3 DEF Link, Entry
<1> HIDE DEF src, old, t
<1>6. {"mode", "filter", "help", "value", "ref", "purpose"} \subseteq DOMAIN old.attr
  BY <1>4 DEF Defaults
<1>7. /\ DOMAIN attr = DOMAIN old.attr /\ attr.filter = src.attr.filter
      /\ attr.ref = old.attr.ref /\ attr.purpose = old.attr.purpose
  BY <1>6
<1> HIDE DEF attr
<1> USE DEF e
<1>8. /\ DOMAIN e = DOMAIN old /\ e.attr = attr /\ e.kids = old.kids
      /\ e.lists = src.lists /\ e.hotkeys = old.hotkeys /\ e.parent = old.parent
      /\ e.actions = old.actions
  BY <1>4
<1> HIDE DEF e
<1>9. HasFields(e)
  BY <1>2, <1>7, <1>8 DEF HasFields
<1>10. /\ IsTree(t) /\ DOMAIN t.entry = DOMAIN scheme.entry
       /\ t.entry[id] = e /\ \A x \in DOMAIN scheme.entry : x # id => t.entry[x] = scheme.entry[x]
       /\ t.top = scheme.top /\ t.plugins = scheme.plugins
  <2>1. e.kids = scheme.entry[id].kids /\ e.lists \in DOMAIN scheme.entry
    BY <1>1, <1>2, <1>8 DEF old
  <2>2. QED
    BY <2>1, <1>1, <1>2, <1>9, FieldSet DEF t
<1>11. scheme' = t
  BY <1>5
<1>12. SameShape
  BY <1>7, <1>8, <1>10, <1>11 DEF SameShape, old
<1>13. \A x \in DOMAIN scheme.entry : x # id => Untouched(x)
  BY <1>10, <1>11 DEF Untouched
<1>14. scheme'.entry[id].lists = target /\ scheme'.entry[id].attr.filter = src.attr.filter
  BY <1>2, <1>7, <1>8, <1>10, <1>11
<1>15. QED
  BY <1>1, <1>10, <1>11, <1>12, <1>13, <1>14 DEF src

LEMMA LinkStepInv ==
  ASSUME Inv, Link
  PROVE  Inv'
<1> DEFINE D == DOMAIN scheme.entry
<1>0. PICK id : id = Head(todo)
  OBVIOUS
<1>1. /\ TypeInv /\ AgendaInv /\ LinkInv /\ CoverInv /\ phase = "prepare" /\ todo # <<>>
      /\ UNCHANGED <<input, loading, phase, ret, tops>>
      /\ todo' = Tail(todo) /\ target' = NoEntry
      /\ freed' = freed \cup {x \in D : x # id /\ IsPrefix(id, x)}
  BY <1>0 DEF Inv, PrepareInv, Link
<1>2. /\ id \in D /\ Ref(id) # None /\ target \in D /\ Ref(target) = None
      /\ IsTree(scheme') /\ SameShape
      /\ \A x \in D : x # id => Untouched(x)
      /\ scheme'.entry[id].lists = target
      /\ scheme'.entry[id].attr.filter = scheme.entry[target].attr.filter
  BY <1>0, LinkResult
<1>3. DOMAIN scheme'.entry = D
  BY <1>2 DEF SameShape
<1>4. TypeInv'
  <2>1. ret' \in BOOLEAN /\ phase # "load" /\ phase' \in {"prepare", "ready", "failed"}
    BY <1>1 DEF TypeInv
  <2>2. QED
    BY <1>1, <1>2, <1>3, <2>1, PrepareType
<1>5. \A x \in D : Ref(x)' = Ref(x)
  BY <1>2, RefSame
<1>6. AgendaInv' /\ ToSet(todo) = {id} \cup ToSet(todo')
  <2>1. \A x \in D : Ref(x) = None => scheme'.entry[x].nested = scheme.entry[x].nested
    BY <1>2 DEF Untouched
  <2>2. QED
    BY <1>0, <1>1, <1>2, <2>1, AgendaWithout
<1>7. LinkInv'
  <2>1. \A x \in D : Ref(x)' = None => Entry(x)'.lists = x
    BY <1>1, <1>2, <1>5 DEF LinkInv, Entry, Untouched
  <2>2. \A x \in freed' : \E l \in D : Ref(l)' # None /\ l # x /\ IsPrefix(l, x)
    <3>1. \A x \in freed : \E l \in D : Ref(l)' # None /\ l # x /\ IsPrefix(l, x)
      BY <1>1, <1>5 DEF LinkInv
    <3>2. \A x \in freed' : x \in freed \/ (id # x /\ IsPrefix(id, x))
      BY <1>1
    <3>3. QED
      BY <1>2, <1>5, <3>1, <3>2
  <2>3. QED
    BY <1>1, <1>3, <2>1, <2>2 DEF LinkInv
<1>8. ASSUME NEW x \in D, OffLinks(x)' PROVE Done(x)' \/ Ahead(x)'
  <2>1. OffLinks(x)
    BY <1>1, <1>2, <1>8, OffLinksSame
  <2>2. Done(x) \/ Ahead(x)
    BY <2>1, <1>1 DEF CoverInv
  <2>3. CASE x = id
    <3>1. Ref(id)' # None /\ Ref(target) = None /\ target # id
      BY <1>2, <1>5
    <3>2. scheme'.entry[target].attr = scheme.entry[target].attr
      BY <1>2, <3>1 DEF Untouched
    <3>3. PICK owner : owner = target
      OBVIOUS
    <3>4. /\ scheme'.entry[owner].attr.ref = None
          /\ scheme'.entry[id].attr.filter = scheme'.entry[owner].attr.filter
          /\ scheme'.entry[id].lists = owner
      BY <3>1, <3>2, <3>3, <1>2 DEF Ref, Entry
    <3>5. Linked(id)'
      BY <3>4 DEF Linked, Ref, Entry
    <3>6. QED
      BY <2>3, <3>1, <3>5 DEF Done
  <2>4. CASE x # id /\ Done(x)
    <3>1. \A y \in D : Ref(y) = None => scheme'.entry[y].attr = scheme.entry[y].attr
      BY <1>2 DEF Untouched
    <3>2. QED
      BY <2>4, <3>1, <1>1, <1>2, DoneSame
  <2>5. CASE x # id /\ Ahead(x)
    BY <2>1, <2>5, <1>1, <1>2, <1>6, AheadWithout
  <2>6. QED
    BY <2>2, <2>3, <2>4, <2>5
<1>9. CoverInv'
  BY <1>1, <1>3, <1>8 DEF CoverInv
<1>10. QED
  BY <1>4, <1>6, <1>7, <1>9 DEF Inv, PrepareInv

(* The next ENTRY of the top, or the end.                                  *)
LEMMA NextTopInv ==
  ASSUME Inv, NextTop
  PROVE  Inv'
<1> DEFINE D == DOMAIN scheme.entry
<1>1. /\ TypeInv /\ AgendaInv /\ LinkInv /\ CoverInv /\ phase = "prepare" /\ todo = <<>>
      /\ UNCHANGED <<input, loading, scheme, ret, target, freed>>
  BY DEF Inv, PrepareInv, NextTop
<1>2. IsTree(scheme') /\ SameShape /\ DOMAIN scheme'.entry = D /\ (\A x \in D : Untouched(x))
  BY <1>1, UnchangedShape DEF TypeInv
<1>3. /\ scheme.top \in Seq(D) /\ Len(scheme.top) \in Nat /\ tops \in 0..Len(scheme.top)
      /\ \A i \in 1..Len(scheme.top) : scheme.top[i] \in D /\ Len(scheme.top[i]) = 1
  <2>1. scheme.top \in Seq(D) /\ \A i \in 1..Len(scheme.top) : Len(scheme.top[i]) = 1
    BY <1>1 DEF TypeInv, IsTree
  <2>2. tops \in 0..Len(scheme.top)
    BY <1>1 DEF AgendaInv
  <2> HIDE DEF D
  <2>3. /\ Len(scheme.top) \in Nat /\ DOMAIN scheme.top = 1..Len(scheme.top)
        /\ \A i \in DOMAIN scheme.top : scheme.top[i] \in D
    BY <2>1, SeqDomain
  <2>4. QED
    BY <2>1, <2>2, <2>3
<1>4. target' = NoEntry
  BY <1>1 DEF LinkInv
<1>5. LinkInv'
  BY <1>1, <1>4 DEF LinkInv, Ref, Entry
<1>6. CASE ret /\ tops < Len(scheme.top)
  <2>1. todo' = <<scheme.top[tops + 1]>> /\ tops' = tops + 1 /\ phase' = phase
    BY <1>6 DEF NextTop
  <2>2. PICK y : y = scheme.top[tops + 1]
    OBVIOUS
  <2>3. y \in D /\ Len(y) = 1 /\ tops + 1 \in 1..Len(scheme.top)
    BY <1>3, <1>6, <2>2
  <2>4. TypeInv'
    <3>1. ret' \in BOOLEAN /\ phase # "load" /\ phase' \in {"prepare", "ready", "failed"}
      BY <1>1, <2>1 DEF TypeInv
    <3>2. QED
      BY <1>1, <1>2, <3>1, PrepareType
  <2>5. todo' \in Seq(D) /\ ToSet(todo') = {y}
    <3>1. todo' = <<y>> /\ y \in D
      BY <2>1, <2>2, <2>3
    <3> HIDE DEF D
    <3>2. QED
      BY <3>1 DEF ToSet
  <2>6. AgendaInv'
    <3>1. \A x \in ToSet(todo') : OffLinks(x)' /\ ~(Len(x) > 1)
      <4>1. \A x : Len(x) = 1 => OffLinks(x)' /\ ~(Len(x) > 1)
        BY DEF OffLinks
      <4>2. \A x \in ToSet(todo') : Len(x) = 1
        BY <2>3, <2>5
      <4>3. QED
        BY <4>1, <4>2
    <3>2. tops' \in 0..Len(scheme'.top)
      BY <1>1, <1>3, <2>1, <2>3
    <3>3. todo' \in Seq(DOMAIN scheme'.entry)
      BY <1>2, <2>5
    <3>4. QED
      BY <3>1, <3>2, <3>3 DEF AgendaInv
  <2>7. ASSUME NEW x \in D, OffLinks(x)' PROVE Done(x)' \/ Ahead(x)'
    <3>1. OffLinks(x)
      BY <1>1, <1>2, <2>7, OffLinksSame
    <3>2. Done(x) \/ Ahead(x)
      BY <3>1, <1>1 DEF CoverInv
    <3>3. CASE Done(x)
      BY <3>3, <1>1, <1>2, DoneSame DEF Untouched
    <3>4. CASE Ahead(x)
      <4>1. ToSet(todo) = {}
        BY <1>1, EmptyIsSeq
      <4>2. PICK i \in (tops + 1)..Len(scheme.top) : Around(x, 1) = scheme.top[i]
        BY <3>4, <4>1 DEF Ahead
      <4>3. CASE i = tops + 1
        <5>1. Around(x, 1) = y
          BY <4>2, <4>3, <2>2
        <5>2. Around(x, 1) \in ToSet(todo') /\ 1 \in 1..Len(x)
          BY <5>1, <2>5, <1>1, TreeFacts
        <5>3. QED
          BY <5>2 DEF Ahead
      <4>4. CASE i # tops + 1
        <5>1. i \in (tops' + 1)..Len(scheme'.top) /\ Around(x, 1) = scheme'.top[i]
          BY <4>2, <4>4, <1>1, <1>3, <2>1
        <5>2. QED
          BY <5>1 DEF Ahead
      <4>5. QED
        BY <4>3, <4>4
    <3>5. QED
      BY <3>2, <3>3, <3>4
  <2>8. CoverInv'
    BY <1>1, <1>2, <2>1, <2>7 DEF CoverInv
  <2>9. QED
    BY <1>5, <2>4, <2>6, <2>8 DEF Inv, PrepareInv
<1>7. CASE ~(ret /\ tops < Len(scheme.top))
  <2>1. phase' = (IF ret THEN "ready" ELSE "failed") /\ UNCHANGED <<todo, tops>>
    BY <1>7 DEF NextTop
  <2>2. TypeInv'
    <3>1. ret' \in BOOLEAN /\ phase # "load" /\ phase' \in {"prepare", "ready", "failed"}
      BY <1>1, <2>1 DEF TypeInv
    <3>2. QED
      BY <1>1, <1>2, <3>1, PrepareType
  <2>3. AgendaInv'
    <3>1. todo' \in Seq(D) /\ ToSet(todo') \subseteq ToSet(todo) /\ tops' = tops
      BY <1>1, <2>1 DEF AgendaInv
    <3>2. QED
      BY <1>1, <1>2, <3>1, AgendaKept DEF Untouched
  <2>4. ASSUME ret, NEW x \in D, OffLinks(x)' PROVE Done(x)'
    <3>1. OffLinks(x)
      BY <1>1, <1>2, <2>4, OffLinksSame
    <3>2. Done(x) \/ Ahead(x)
      BY <3>1, <1>1 DEF CoverInv
    <3>3. ToSet(todo) = {}
      BY <1>1, EmptyIsSeq
    <3>4. (tops + 1)..Len(scheme.top) = {}
      BY <1>3, <1>7, <2>4
    <3>5. Done(x)
      BY <3>2, <3>3, <3>4 DEF Ahead
    <3>6. QED
      BY <3>5, <1>1, <1>2, DoneSame DEF Untouched
  <2>5. CoverInv'
    BY <1>1, <1>2, <2>1, <2>4 DEF CoverInv
  <2>6. QED
    BY <1>5, <2>2, <2>3, <2>5 DEF Inv, PrepareInv
<1>8. QED
  BY <1>6, <1>7

LEMMA StartPrepareInv ==
  ASSUME Inv, StartPrepare
  PROVE  Inv'
<1> DEFINE D == DOMAIN scheme.entry
<1>1. /\ TypeInv /\ NothingPrepared /\ phase = "load" /\ phase' \in {"prepare", "failed"}
      /\ UNCHANGED <<input, loading, scheme, ret, preparing>>
  BY DEF Inv, TypeInv, StartPrepare
<1>2. TypeInv'
  <2>1. IsTree(scheme') /\ StackType' /\ input' \in Inputs /\ ret' \in BOOLEAN
    BY <1>1, KeptStack DEF TypeInv, loading
  <2>2. QED
    BY <2>1, <1>1 DEF TypeInv, loading
<1>3. tops' = 0 /\ todo' = <<>> /\ target' = NoEntry /\ freed' = {} /\ scheme' = scheme
      /\ \A x \in D : scheme.entry[x].lists = x
  BY <1>1 DEF NothingPrepared, preparing, Entry
<1>4. IsSeq(scheme.top) /\ Len(scheme.top) \in Nat
  BY <1>1, SeqIsSeq DEF TypeInv, IsTree
<1>5. AgendaInv'
  <2>1. todo' \in Seq(D) /\ ToSet(todo') = {}
    BY <1>3, EmptySeq, EmptyIsSeq
  <2>2. tops' \in 0..Len(scheme'.top)
    BY <1>3, <1>4
  <2>3. QED
    BY <2>1, <2>2, <1>3 DEF AgendaInv
<1>6. LinkInv'
  BY <1>3 DEF LinkInv, Entry
<1>7. ASSUME NEW x \in D PROVE Ahead(x)'
  <2>1. Around(x, 1) \in ToSet(scheme.top)
    BY <1>1, TreeFacts
  <2>2. PICK i \in 1..Len(scheme.top) : scheme.top[i] = Around(x, 1)
    BY <2>1, <1>4, IsSeqFacts
  <2>3. i \in (tops' + 1)..Len(scheme'.top) /\ Around(x, 1) = scheme'.top[i]
    BY <2>2, <1>3
  <2>4. QED
    BY <2>3 DEF Ahead
<1>8. CoverInv'
  BY <1>1, <1>3, <1>7 DEF CoverInv
<1>9. QED
  BY <1>2, <1>5, <1>6, <1>8 DEF Inv, PrepareInv
-----------------------------------------------------------------------------
LEMMA InitInv == Init => Inv
<1> SUFFICES ASSUME Init PROVE Inv
  OBVIOUS
<1>1. DOMAIN scheme.entry = {} /\ scheme.top = <<>>
      /\ {"plugins", "top", "entry"} \subseteq DOMAIN scheme
  BY EmptySeq, LenProperties DEF Init
<1>2. IsTree(scheme)
  BY <1>1, EmptySeq DEF IsTree
<1>3. StackType
  BY EmptyIsSeq DEF Init, StackType
<1>4. NothingPrepared
  BY <1>1 DEF Init, NothingPrepared
<1>5. TypeInv
  BY <1>2, <1>3, <1>4 DEF Init, TypeInv
<1>6. QED
  BY <1>5 DEF Init, Inv, PrepareInv

LEMMA NextInv == Inv /\ [Next]_vars => Inv'
<1> SUFFICES ASSUME Inv, [Next]_vars PROVE Inv'
  OBVIOUS
<1>1. CASE Load
  <2>1. TypeInv' /\ phase' = "load"
    BY <1>1, LoadSteps, LoadStepType DEF Inv, LoadStep
  <2>2. QED
    BY <2>1 DEF Inv, PrepareInv
<1>2. CASE UNCHANGED vars
  <2>1. /\ UNCHANGED <<input, file, at, stack, scheme, phase, ret>>
        /\ UNCHANGED <<tops, todo, target, freed>>
    BY <1>2 DEF vars
  <2>2. TypeInv'
    BY <2>1 DEF Inv, TypeInv, StackType, NothingPrepared, Entry
  <2>3. ASSUME phase # "load" PROVE AgendaInv' /\ LinkInv' /\ CoverInv'
    <3>1. TypeInv /\ AgendaInv /\ LinkInv /\ CoverInv
      BY <2>3 DEF Inv, PrepareInv
    <3>2. SameShape /\ \A x : Untouched(x)
      BY <2>1, UnchangedShape
    <3>3. AgendaInv'
      BY <2>1, <3>1, <3>2, AgendaKept DEF AgendaInv, Untouched
    <3>4. LinkInv'
      BY <2>1, <3>1 DEF LinkInv, Ref, Entry
    <3>5. ASSUME NEW x \in DOMAIN scheme.entry
          PROVE  /\ OffLinks(x)' => OffLinks(x)
                 /\ Done(x) => Done(x)'
                 /\ Ahead(x) => Ahead(x)'
      <4>1. OffLinks(x)' => OffLinks(x)
        BY <3>1, <3>2, OffLinksSame
      <4>2. Done(x) => Done(x)'
        BY <2>1, <3>1, <3>2, DoneSame DEF Untouched
      <4>3. Ahead(x) => Ahead(x)'
        BY <2>1 DEF Ahead
      <4>4. QED
        BY <4>1, <4>2, <4>3
    <3>6. CoverInv'
      BY <2>1, <3>1, <3>5 DEF CoverInv
    <3>7. QED
      BY <3>3, <3>4, <3>6
  <2>4. QED
    BY <2>1, <2>2, <2>3 DEF Inv, PrepareInv
<1>3. QED
  BY <1>1, <1>2, StartPrepareInv, PrepareEntryInv, FollowInv, LinkStepInv, NextTopInv
     DEF Next, Load

(* The scheme is at all times a tree of complete ENTRYs, the agenda holds  *)
(* ENTRYs whose turn it is, and what is prepared has its symbols and LOG.  *)
THEOREM SchemeInvariant == Spec => []Inv
<1>1. QED
  BY InitInv, NextInv, PTL DEF Spec

(* An executed command is logged by the LOG closest to its definition, for *)
(* every configuration, however deep and whatever refers to what.          *)
THEOREM SchemeLogIsClosest == Spec => []LogIsClosest
<1>1. Inv => LogIsClosest
  <2> SUFFICES ASSUME Inv, phase = "ready", NEW id \in Live,
                      Entry(id).lists \in Live, HasParents(Entry(id).lists)
               PROVE  Entry(Entry(id).lists).nested["log"] = Closest(Entry(id).lists)
    BY DEF LogIsClosest
  <2> DEFINE owner == Entry(id).lists
  <2>1. /\ TypeInv /\ LinkInv /\ ret
        /\ \A x \in DOMAIN scheme.entry : OffLinks(x) => Done(x)
    BY DEF Inv, PrepareInv, CoverInv
  <2>2. id \in DOMAIN scheme.entry /\ owner \in DOMAIN scheme.entry
    BY DEF Live
  <2>3. Done(id) /\ Done(owner)
    BY <2>1, <2>2, LiveOffLinks
  <2>4. Ref(owner) = None
    <3>1. CASE Ref(id) = None
      BY <3>1, <2>1, <2>2 DEF LinkInv
    <3>2. CASE Ref(id) # None
      BY <3>2, <2>1, <2>3 DEF Done, Linked
    <3>3. QED
      BY <3>1, <3>2
  <2>5. QED
    BY <2>3, <2>4 DEF Done, Ready, LogKnown
<1>2. QED
  BY <1>1, SchemeInvariant, PTL

(* What a link makes available can be run: the ACTIONs of the ENTRY whose  *)
(* lists it shares are bound to symbols of plugins of the scheme, and its  *)
(* filter rule holds; nothing that is shared has been freed.               *)
THEOREM SchemeLinksRun == Spec => []LinksRun
<1>1. Inv => LinksRun
  <2> SUFFICES ASSUME Inv, phase = "ready", NEW id \in Live, Entry(id).lists \in Live
               PROVE  /\ Entry(id).lists \notin freed
                      /\ \A a \in ToSet(Entry(Entry(id).lists).actions) :
                           /\ a.bound \in scheme.plugins
                           /\ a.sym \in DOMAIN Plugin[a.bound].sym
                           /\ Entry(id).attr.filter # "false" => ~IsSync(a)
    BY DEF LinksRun
  <2> DEFINE owner == Entry(id).lists
  <2>1. /\ TypeInv /\ LinkInv /\ ret
        /\ \A x \in DOMAIN scheme.entry : OffLinks(x) => Done(x)
    BY DEF Inv, PrepareInv, CoverInv
  <2>2. id \in DOMAIN scheme.entry /\ owner \in DOMAIN scheme.entry
    BY DEF Live
  <2>3. Done(id) /\ Done(owner)
    BY <2>1, <2>2, LiveOffLinks
  <2>4. Ref(owner) = None /\ Entry(id).attr.filter = Entry(owner).attr.filter
    <3>1. CASE Ref(id) = None
      BY <3>1, <2>1, <2>2 DEF LinkInv
    <3>2. CASE Ref(id) # None
      BY <3>2, <2>1, <2>3 DEF Done, Linked
    <3>3. QED
      BY <3>1, <3>2
  <2>5. owner \notin freed
    BY <2>1, <2>2 DEF LinkInv, Live
  <2>6. ASSUME NEW a \in ToSet(Entry(owner).actions)
        PROVE  /\ a.bound \in scheme.plugins
               /\ a.sym \in DOMAIN Plugin[a.bound].sym
               /\ Entry(id).attr.filter # "false" => ~IsSync(a)
    <3>1. IsSeq(Entry(owner).actions)
      BY <2>1, <2>2, TreeFacts DEF HasFields
    <3>2. PICK i \in 1..Len(Entry(owner).actions) : Entry(owner).actions[i] = a
      BY <2>6, <3>1, IsSeqFacts
    <3>3. a.bound = Bound(scheme.plugins, a) /\ ActionFits(Entry(owner), a)
      BY <2>1, <2>3, <2>4, <3>2 DEF Done, Ready
    <3>4. a.bound # None
      BY <3>3 DEF ActionFits
    <3>5. a.bound \in scheme.plugins /\ a.sym \in DOMAIN Plugin[a.bound].sym
      <4>1. CASE a.plugin # None
        BY <4>1, <3>3, <3>4 DEF Bound
      <4>2. CASE a.plugin = None
        <5> DEFINE T == {j \in DOMAIN Order : Order[j] \in scheme.plugins
                                             /\ a.sym \in DOMAIN Plugin[Order[j]].sym}
        <5>1. Bound(scheme.plugins, a) = IF T = {} THEN None ELSE Order[Min(T)]
          BY <4>2 DEF Bound
        <5>2. Len(Order) \in Nat /\ T \subseteq 1..Len(Order)
          BY OrderAssumption, IsSeqFacts
        <5> HIDE DEF T
        <5>3. T # {} /\ a.bound = Order[Min(T)]
          BY <5>1, <3>3, <3>4
        <5>4. Min(T) \in T
          BY <5>2, <5>3, MinIsIn
        <5>5. QED
          BY <5>3, <5>4 DEF T
      <4>3. QED
        BY <4>1, <4>2
    <3>6. QED
      BY <2>4, <3>3, <3>5 DEF ActionFits
  <2>7. QED
    BY <2>5, <2>6
<1>2. QED
  BY <1>1, SchemeInvariant, PTL
-----------------------------------------------------------------------------
(* The verdict on what is read.  As long as there is no error, the open    *)
(* elements are those around the tag read next, what has been read is in   *)
(* order, and PLUGINs and HOTKEYs are registered; else there is an error.  *)
(* What the loader itself takes: it asks for a name of every ENTRY.        *)
Loadable(x) == Fits(x) /\ (IsEntryTag(x.el.tag) => HasName(x.el))
AllLoadable ==
  LET all == Elements
  IN /\ \A f \in DOMAIN input : input[f].valid
     /\ \A x \in all : Loadable(x)
     /\ \A x, y \in all : ~Clash(x, y)
LEMMA LoadableIs == AllLoadable <=> WellWritten /\ ~Unnamed
BY DEF AllLoadable, WellWritten, Loadable, Unnamed

Before(x) == x.file < file \/ (x.file = file /\ x.at < at)
ReadSoFar == {x \in Elements : Before(x)}
Path(where, n) == [i \in 1..(n - 1) |-> where[i + 1].name]
Holds(tag) == IsEntryTag(tag) \/ tag = "KLISH"
Matches(where) ==
  /\ Len(stack) = Len(where)
  /\ \A k \in 1..Len(stack) :
       /\ stack[k].tag = where[k].tag
       /\ Holds(stack[k].tag) \/ stack[k].tag \in {"ACTION", "PLUGIN"}
       /\ Holds(stack[k].tag) => stack[k].id = Path(where, k)
       /\ k < Len(stack) => Holds(stack[k].tag)
InPlace ==
  IF stack = <<>> THEN at = 1
  ELSE /\ file <= Len(input) /\ at <= Len(input[file].tags) + 1
       /\ input[file].valid
       /\ Matches(Where(input[file].tags)[at])
PluginsRegistered ==
  scheme.plugins = {x.el.attr.name : x \in {y \in ReadSoFar : y.el.tag = "PLUGIN"}}
HotkeysRegistered ==
  /\ \A x \in ReadSoFar : x.el.tag = "HOTKEY" => x.in \in DOMAIN scheme.entry
  /\ \A id \in DOMAIN scheme.entry : ToSet(Entry(id).hotkeys) =
       {x.el.attr.key : x \in {y \in ReadSoFar : y.el.tag = "HOTKEY" /\ y.in = id}}
Registered == PluginsRegistered /\ HotkeysRegistered
InOrder ==
  /\ \A f \in DOMAIN input : f < file => input[f].valid
  /\ \A x \in ReadSoFar : Loadable(x)
  /\ \A x, y \in ReadSoFar : ~Clash(x, y)
LoadInv ==
  phase = "load" =>
    IF ret THEN InPlace /\ InOrder /\ Registered
    ELSE ~AllLoadable
Blamed == ~ActionsFit \/ \E id \in Live : Ref(id) # None
VerdictInv ==
  /\ phase \in {"prepare", "ready"} => AllLoadable /\ PluginsLoad
  /\ phase = "prepare" /\ ~ret => Blamed
  /\ phase = "failed" => ~AllLoadable \/ ~PluginsLoad \/ Blamed
(* The elements depend on the files alone.                                 *)
ElementOf(in, f, i) ==
  LET where == Where(in[f].tags)[i]
  IN [file |-> f, at |-> i, el |-> in[f].tags[i],
      up |-> Last(where).tag, in |-> Names(where)]
ElementsOf(in) ==
  UNION {{ElementOf(in, f, i) : i \in LookedAt(in[f].tags)} : f \in DOMAIN in}
AllLoadableIs(in) ==
  /\ \A f \in DOMAIN in : in[f].valid
  /\ \A x \in ElementsOf(in) : Loadable(x)
  /\ \A x, y \in ElementsOf(in) : ~Clash(x, y)
LEMMA SameInput ==
  ASSUME input' = input
  PROVE  /\ Elements' = Elements /\ (AllLoadable' <=> AllLoadable)
         /\ \A f, i : Element(f, i)' = Element(f, i)
<1>1. Elements = ElementsOf(input) /\ Elements' = ElementsOf(input')
  BY DEF Elements, Element, ElementsOf, ElementOf
<1>2. \A f, i : /\ Element(f, i) = ElementOf(input, f, i)
                /\ Element(f, i)' = ElementOf(input', f, i)
  BY DEF Element, ElementOf
<1>3. (AllLoadable <=> AllLoadableIs(input)) /\ (AllLoadable' <=> AllLoadableIs(input'))
  BY <1>1 DEF AllLoadable, AllLoadableIs
<1>4. QED
  BY <1>1, <1>2, <1>3

LEMMA ElementFacts ==
  ASSUME NEW x
  PROVE  x \in Elements <=>
           /\ x.file \in DOMAIN input /\ x.at \in LookedAt(input[x.file].tags)
           /\ x = Element(x.file, x.at)
<1>1. \A f, i : Element(f, i).file = f /\ Element(f, i).at = i
  BY DEF Element
<1>2. QED
  BY <1>1 DEF Elements

(* Where() is never lost outside of the file.                              *)
LEMMA WhereSeq ==
  ASSUME NEW tags, WellFormed(tags)
  PROVE  \A i \in 1..(Len(tags) + 1) :
           IsSeq(Where(tags)[i]) /\ Len(Where(tags)[i]) \in Nat \ {0}
<1> DEFINE W(i) == Where(tags)[i]
           n == Len(tags)
           S == {i \in Nat : i \in 1..(n + 1) => IsSeq(W(i))}
<1>1. /\ IsSeq(tags) /\ n \in Nat
      /\ \A i \in 1..(n + 1) : W(i) # <<>>
      /\ W(1) = WhereRoot
      /\ \A i \in 1..n : W(i + 1) = WhereNext(tags[i], W(i))
  BY WhereDef, IsSeqFacts DEF WellFormed
<1> HIDE DEF W, n
<1>2. IsSeq(W(1))
  <2>1. \A r : IsSeq(<<r>>)
    BY DEF IsSeq, ToSet
  <2>2. QED
    BY <2>1, <1>1 DEF WhereRoot
<1>3. 0 \in S
  OBVIOUS
<1>4. ASSUME NEW i \in Nat, i \in S PROVE i + 1 \in S
  <2>1. CASE i = 0
    BY <2>1, <1>2
  <2>2. CASE i \in 1..n
    <3>1. IsSeq(W(i)) /\ W(i) # <<>> /\ W(i + 1) = WhereNext(tags[i], W(i))
      BY <2>2, <1>1, <1>4
    <3>2. IsSeq(W(i + 1))
      BY <3>1, FrontFacts, AppendFacts DEF WhereNext
    <3>3. QED
      BY <3>2
  <2>3. CASE i # 0 /\ i \notin 1..n
    BY <2>3, <1>1
  <2>4. QED
    BY <2>1, <2>2, <2>3
<1> HIDE DEF S
<1>5. Nat \subseteq S
  BY <1>3, <1>4, InductionOnSet
<1>6. \A i \in 1..(n + 1) : IsSeq(W(i)) /\ W(i) # <<>>
  BY <1>1, <1>5 DEF S
<1>7. \A i \in 1..(n + 1) : Len(W(i)) \in Nat \ {0}
  BY <1>6, IsSeqFacts
<1>8. QED
  BY <1>6, <1>7 DEF W, n

(* What is inside of a HOTKEY is not looked at.                            *)
LEMMA InsideOfHotkey ==
  ASSUME NEW tags, WellFormed(tags), NEW a \in 1..Len(tags),
         tags[a].tag = "HOTKEY", NEW e \in a..Len(tags), Ends(tags, a, e)
  PROVE  \A k \in (a + 1)..e : k \notin LookedAt(tags)
<1> DEFINE W(i) == Where(tags)[i]
           n == Len(tags)
           m == Len(W(a))
           S == {k \in Nat : k \in (a + 1)..e =>
                   Len(W(k)) > m /\ W(k)[m + 1].tag = "HOTKEY"}
<1>1. /\ n \in Nat /\ a \in Nat /\ e \in Nat /\ a >= 1 /\ e <= n
      /\ \A i \in 1..(n + 1) : IsSeq(W(i)) /\ Len(W(i)) \in Nat \ {0}
      /\ \A i \in 1..n : W(i + 1) = WhereNext(tags[i], W(i))
  <2>1. IsSeq(tags)
    BY DEF WellFormed
  <2>2. n \in Nat
    BY <2>1, IsSeqFacts
  <2>3. /\ \A i \in 1..(n + 1) : IsSeq(W(i)) /\ Len(W(i)) \in Nat \ {0}
        /\ \A i \in 1..n : W(i + 1) = WhereNext(tags[i], W(i))
    BY <2>1, WhereSeq, WhereDef
  <2>4. QED
    BY <2>2, <2>3
<1>2. \A k \in a..(e - 1) : Len(W(k + 1)) > m
  BY DEF Ends
<1>3. \A t : Opened(t).tag = t.tag
  BY DEF Opened
<1> HIDE DEF W, n
<1>4. W(a + 1) = Append(W(a), Opened(tags[a])) /\ IsSeq(W(a)) /\ m \in Nat
  <2>1. a \in 1..n /\ a \in 1..(n + 1)
    BY <1>1
  <2>2. W(a + 1) = WhereNext(tags[a], W(a)) /\ IsSeq(W(a)) /\ m \in Nat
    BY <1>1, <2>1
  <2>3. QED
    BY <2>2 DEF WhereNext
<1>5. Len(W(a + 1)) = m + 1 /\ W(a + 1)[m + 1].tag = "HOTKEY"
  BY <1>3, <1>4, AppendFacts
<1>6. ASSUME NEW k \in Nat, k \in S PROVE k + 1 \in S
  <2>1. CASE k = a
    BY <2>1, <1>5, <1>4
  <2>2. CASE k \in (a + 1)..(e - 1)
    <3>1. k \in 1..n /\ k \in (a + 1)..e /\ k \in a..(e - 1) /\ k \in 1..(n + 1)
      BY <2>2, <1>1
    <3>2. /\ IsSeq(W(k)) /\ Len(W(k)) \in Nat \ {0} /\ Len(W(k)) > m
          /\ W(k)[m + 1].tag = "HOTKEY"
          /\ W(k + 1) = WhereNext(tags[k], W(k)) /\ Len(W(k + 1)) > m
      BY <3>1, <1>1, <1>2, <1>6
    <3>3. m + 1 \in 1..Len(W(k)) /\ W(k) # <<>>
      BY <3>2, <1>4, IsSeqFacts
    <3>4. CASE tags[k].tag = "/"
      <4>1. W(k + 1) = Front(W(k))
        BY <3>2, <3>4 DEF WhereNext
      <4>2. /\ Len(W(k + 1)) = Len(W(k)) - 1
            /\ \A i \in 1..(Len(W(k)) - 1) : W(k + 1)[i] = W(k)[i]
        BY <4>1, <3>2, <3>3, FrontFacts
      <4>3. m + 1 \in 1..(Len(W(k)) - 1)
        BY <4>2, <3>2, <1>4
      <4>4. QED
        BY <4>2, <4>3, <3>2
    <3>5. CASE tags[k].tag # "/"
      <4>1. W(k + 1) = Append(W(k), Opened(tags[k]))
        BY <3>2, <3>5 DEF WhereNext
      <4>2. \A i \in 1..Len(W(k)) : Append(W(k), Opened(tags[k]))[i] = W(k)[i]
        BY <3>2, AppendFacts
      <4>3. W(k + 1)[m + 1] = W(k)[m + 1]
        BY <4>1, <4>2, <3>3
      <4>4. QED
        BY <4>3, <3>2
    <3>6. QED
      BY <3>4, <3>5
  <2>3. CASE k # a /\ k \notin (a + 1)..(e - 1)
    BY <2>3, <1>1
  <2>4. QED
    BY <2>1, <2>2, <2>3
<1>7. 0 \in S
  BY <1>1
<1> HIDE DEF S
<1>8. Nat \subseteq S
  BY <1>6, <1>7, InductionOnSet
<1>9. ASSUME NEW k \in (a + 1)..e PROVE k \notin LookedAt(tags)
  <2>1. k \in Nat /\ k \in 1..(n + 1)
    BY <1>1
  <2>2. Len(W(k)) > m /\ W(k)[m + 1].tag = "HOTKEY"
    BY <2>1, <1>8 DEF S
  <2>3. DOMAIN W(k) = 1..Len(W(k)) /\ Len(W(k)) \in Nat
    BY <2>1, <1>1, IsSeqFacts
  <2>4. m + 1 \in DOMAIN W(k)
    BY <2>2, <2>3, <1>4
  <2>5. QED
    BY <2>2, <2>4 DEF LookedAt, W
<1>10. QED
  BY <1>9
(* The element read next, and what has been read after a step.             *)
Current == Element(file, at)
LEMMA ElementType ==
  ASSUME TypeInv, NEW x \in Elements
  PROVE  /\ x.file \in 1..Len(input) /\ Len(input) \in Nat
         /\ x.at \in 1..Len(input[x.file].tags) /\ Len(input[x.file].tags) \in Nat
         /\ x = Element(x.file, x.at) /\ x.el.tag # "/"
         /\ input[x.file].tags[x.at] = x.el
         /\ x.at \in LookedAt(input[x.file].tags)
<1>1. /\ x.file \in DOMAIN input /\ x.at \in LookedAt(input[x.file].tags)
      /\ x = Element(x.file, x.at)
  BY ElementFacts
<1>2. IsSeq(input) /\ IsSeq(input[x.file].tags)
  BY <1>1, InputsAssumption DEF TypeInv, WellFormed
<1>3. x.el = input[x.file].tags[x.at]
  <2>1. \A f, i : Element(f, i).el = input[f].tags[i]
    BY DEF Element
  <2>2. QED
    BY <1>1, <2>1
<1>4. x.at \in DOMAIN input[x.file].tags /\ x.el.tag # "/"
  BY <1>1, <1>3 DEF LookedAt
<1>5. QED
  BY <1>1, <1>2, <1>3, <1>4, IsSeqFacts

LEMMA WhereNow ==
  ASSUME TypeInv, Reading
  PROVE  LET W == Where(input[file].tags)
         IN /\ IsSeq(W[at]) /\ Len(W[at]) \in Nat \ {0}
            /\ IsSeq(W[at + 1]) /\ Len(W[at + 1]) \in Nat \ {0}
            /\ W[at + 1] = WhereNext(Elem, W[at])
<1> DEFINE tags == input[file].tags
           n == Len(tags)
<1>1. WellFormed(tags) /\ IsSeq(tags) /\ n \in Nat /\ at \in 1..n
  BY ReadingFacts
<1>2. at \in 1..(n + 1) /\ at + 1 \in 1..(n + 1)
  BY <1>1
<1>3. Where(tags)[at + 1] = WhereNext(tags[at], Where(tags)[at])
  BY <1>1, WhereDef
<1>4. \A i \in 1..(n + 1) : IsSeq(Where(tags)[i]) /\ Len(Where(tags)[i]) \in Nat \ {0}
  BY <1>1, WhereSeq
<1>5. QED
  BY <1>2, <1>3, <1>4 DEF Elem

LEMMA CurrentFacts ==
  ASSUME TypeInv, Reading, InPlace, Elem.tag # "/"
  PROVE  /\ Current \in Elements /\ ~Before(Current)
         /\ Current.file = file /\ Current.at = at
         /\ Current.el = Elem /\ Current.up = Up.tag
         /\ Holds(Up.tag) \/ Up.tag \in {"ACTION", "PLUGIN"}
         /\ Holds(Up.tag) => Up.id = Current.in
<1> DEFINE tags == input[file].tags
           w == Where(tags)[at]
           n == Len(w)
<1>1. /\ file \in DOMAIN input /\ at \in DOMAIN tags
      /\ Len(stack) \in Nat \ {0} /\ Up = stack[Len(stack)]
      /\ file \in Nat /\ at \in Nat
  BY ReadingFacts DEF TypeInv
<1>2. IsSeq(w) /\ w # <<>>
  BY WhereNow, IsSeqFacts
<1>3. DOMAIN w = 1..n /\ n \in Nat /\ Last(w) = w[n]
  BY <1>2, IsSeqFacts, FrontFacts
<1>4. Matches(w)
  BY DEF InPlace, Reading
<1>5. /\ Len(stack) = n
      /\ \A k \in 1..n : /\ stack[k].tag = w[k].tag
                         /\ Holds(stack[k].tag) \/ stack[k].tag \in {"ACTION", "PLUGIN"}
                         /\ Holds(stack[k].tag) => stack[k].id = Path(w, k)
  BY <1>4 DEF Matches
<1>6. /\ Current.file = file /\ Current.at = at /\ Current.el = Elem
      /\ Current.up = Last(w).tag /\ Current.in = Names(w)
  BY DEF Current, Element, Elem
<1>7. at \in LookedAt(tags)
  <2>1. \A k \in DOMAIN w : w[k].tag # "HOTKEY"
    <3>1. ~Holds("HOTKEY")
      BY DEF Holds, IsEntryTag, ParamTags, CommandTags, Special
    <3> HIDE DEF w
    <3>2. QED
      BY <1>3, <1>5, <3>1
  <2>2. QED
    BY <2>1, <1>1 DEF LookedAt, Elem
<1>8. Names(w) = Path(w, n)
  BY DEF Names, Path
<1> HIDE DEF w
<1>9. n \in 1..n
  BY <1>1, <1>5
<1>10. /\ Current.up = Up.tag /\ (Holds(Up.tag) => Up.id = Current.in)
       /\ Holds(Up.tag) \/ Up.tag \in {"ACTION", "PLUGIN"}
  BY <1>1, <1>3, <1>5, <1>6, <1>8, <1>9
<1>11. ~Before(Current)
  BY <1>1, <1>6 DEF Before
<1>12. Current \in Elements
  BY <1>1, <1>6, <1>7, ElementFacts DEF Current
<1>13. QED
  BY <1>6, <1>10, <1>11, <1>12

LEMMA OneRead ==
  ASSUME TypeInv, Reading, Current \in Elements, Current.file = file, Current.at = at,
         input' = input, file' = file,
         at' \in Nat, at' > at,
         \A k \in (at + 1)..(at' - 1) : k \notin LookedAt(input[file].tags)
  PROVE  ReadSoFar' = ReadSoFar \cup {Current}
<1>1. file \in Nat /\ at \in Nat
  BY DEF TypeInv
<1>2. \A x \in Elements : /\ x.file \in Nat /\ x.at \in Nat /\ x = Element(x.file, x.at)
                          /\ x.at \in LookedAt(input[x.file].tags)
  BY ElementType
<1>3. Elements' = Elements
  BY SameInput
<1>4. ASSUME NEW x \in Elements PROVE Before(x)' <=> Before(x) \/ x = Current
  <2>1. CASE x.file = file /\ x.at = at
    <3>1. x = Current
      BY <2>1, <1>2 DEF Current
    <3>2. QED
      BY <2>1, <3>1, <1>1 DEF Before
  <2>2. CASE x.file = file /\ x.at # at
    <3>1. x.at \notin (at + 1)..(at' - 1)
      BY <2>2, <1>2
    <3>2. x.at < at' <=> x.at < at
      BY <3>1, <2>2, <1>1, <1>2
    <3>3. QED
      BY <2>2, <3>2, <1>1 DEF Before
  <2>3. CASE x.file # file
    BY <2>3 DEF Before
  <2>4. QED
    BY <2>1, <2>2, <2>3
<1>5. QED
  BY <1>3, <1>4 DEF ReadSoFar

LEMMA NoneRead ==
  ASSUME input' = input, \A x \in Elements : Before(x)' <=> Before(x)
  PROVE  ReadSoFar' = ReadSoFar
<1>1. Elements' = Elements
  BY SameInput
<1>2. QED
  BY <1>1 DEF ReadSoFar
(* The open elements are the ones around the tag read next.                *)
LEMMA SeqsEqual ==
  ASSUME NEW s, IsSeq(s), NEW t, IsSeq(t), Len(s) = Len(t),
         \A i \in 1..Len(s) : s[i] = t[i]
  PROVE  s = t
<1> DEFINE S == ToSet(s) \cup ToSet(t)
<1>1. s \in Seq(ToSet(s)) /\ t \in Seq(ToSet(t))
      /\ ToSet(s) \subseteq S /\ ToSet(t) \subseteq S
  BY DEF IsSeq
<1> HIDE DEF S
<1>2. s \in Seq(S) /\ t \in Seq(S)
  BY <1>1, SeqMonotonic
<1>3. QED
  BY <1>2, SeqEqual

LEMMA PathIsSeq ==
  ASSUME NEW w, NEW n \in Nat \ {0}
  PROVE  /\ IsSeq(Path(w, n)) /\ Len(Path(w, n)) = n - 1
         /\ \A i \in 1..(n - 1) : Path(w, n)[i] = w[i + 1].name
<1> DEFINE p == Path(w, n)
           m == n - 1
<1>1. /\ m \in Nat /\ p = [i \in 1..m |-> w[i + 1].name]
  BY DEF Path
<1>2. ToSet(p) = {p[i] : i \in DOMAIN p}
  BY DEF ToSet
<1> HIDE DEF p, m
<1>3. p \in [1..m -> ToSet(p)]
  BY <1>1, <1>2
<1>4. p \in Seq(ToSet(p)) /\ Len(p) = m
  BY <1>1, <1>3
<1>5. IsSeq(p) /\ \A i \in 1..m : p[i] = w[i + 1].name
  BY <1>1, <1>4 DEF IsSeq
<1>6. QED
  BY <1>4, <1>5 DEF p, m

LEMMA PathKept ==
  ASSUME NEW w, NEW v, NEW n \in Nat \ {0}, \A i \in 1..n : v[i] = w[i]
  PROVE  Path(v, n) = Path(w, n)
<1>1. \A i \in 1..(n - 1) : v[i + 1] = w[i + 1]
  <2>1. \A i \in 1..(n - 1) : i + 1 \in 1..n
    OBVIOUS
  <2>2. QED
    BY <2>1
<1>2. QED
  BY <1>1 DEF Path

LEMMA PathPushed ==
  ASSUME NEW w, IsSeq(w), Len(w) \in Nat \ {0}, NEW x
  PROVE  /\ Path(Append(w, x), Len(w) + 1) = Append(Path(w, Len(w)), x.name)
         /\ \A k \in 1..Len(w) : Path(Append(w, x), k) = Path(w, k)
<1> DEFINE v == Append(w, x)
           n == Len(w)
           p == Path(v, n + 1)
           q == Path(w, n)
           r == Append(q, x.name)
<1>1. n \in Nat \ {0} /\ (\A i \in 1..n : v[i] = w[i]) /\ v[n + 1] = x
  BY AppendFacts
<1> HIDE DEF v, n
<1>2. /\ IsSeq(p) /\ Len(p) = n /\ \A i \in 1..n : p[i] = v[i + 1].name
  <2>1. n + 1 \in Nat \ {0} /\ (n + 1) - 1 = n
    BY <1>1
  <2>2. QED
    BY <2>1, PathIsSeq
<1>3. /\ IsSeq(q) /\ Len(q) = n - 1 /\ \A i \in 1..(n - 1) : q[i] = w[i + 1].name
  BY <1>1, PathIsSeq
<1> HIDE DEF p, q
<1>4. /\ IsSeq(r) /\ Len(r) = n /\ r[n] = x.name
      /\ \A i \in 1..(n - 1) : r[i] = q[i]
  <2>1. /\ IsSeq(r) /\ Len(r) = Len(q) + 1 /\ r[Len(q) + 1] = x.name
        /\ \A i \in 1..Len(q) : r[i] = q[i]
    BY <1>3, AppendFacts
  <2>2. Len(q) + 1 = n
    BY <1>1, <1>3
  <2>3. QED
    BY <2>1, <2>2, <1>3
<1> HIDE DEF r
<1>5. ASSUME NEW i \in 1..n PROVE p[i] = r[i]
  <2>1. CASE i = n
    BY <2>1, <1>1, <1>2, <1>4
  <2>2. CASE i # n
    <3>1. i \in 1..(n - 1) /\ i + 1 \in 1..n
      BY <2>2, <1>1
    <3>2. p[i] = v[i + 1].name /\ v[i + 1] = w[i + 1]
      BY <3>1, <1>1, <1>2
    <3>3. r[i] = q[i] /\ q[i] = w[i + 1].name
      BY <3>1, <1>3, <1>4
    <3>4. QED
      BY <3>2, <3>3
  <2>3. QED
    BY <2>1, <2>2
<1>6. p = r
  BY <1>2, <1>4, <1>5, SeqsEqual
<1>7. ASSUME NEW k \in 1..n PROVE Path(v, k) = Path(w, k)
  <2>1. k \in Nat \ {0} /\ \A i \in 1..k : v[i] = w[i]
    BY <1>1
  <2>2. QED
    BY <2>1, PathKept
<1>8. QED
  BY <1>6, <1>7 DEF v, n, p, q, r

LEMMA MatchesPushed ==
  ASSUME StackType, NEW w, IsSeq(w), Len(w) \in Nat \ {0}, Matches(w),
         Holds(Last(stack).tag), NEW x, NEW el, x.tag = el.tag,
         stack' = Append(stack, x),
         Holds(x.tag) \/ x.tag \in {"ACTION", "PLUGIN"},
         Holds(x.tag) => x.id = Append(Path(w, Len(w)), Opened(el).name)
  PROVE  Matches(Append(w, Opened(el)))'
<1> DEFINE o == Opened(el)
           n == Len(w)
           v == Append(w, o)
           s == stack
           t == stack'
<1>1. /\ IsSeq(s) /\ Len(s) = n /\ s # <<>>
      /\ \A k \in 1..n : /\ s[k].tag = w[k].tag
                         /\ Holds(s[k].tag) \/ s[k].tag \in {"ACTION", "PLUGIN"}
                         /\ Holds(s[k].tag) => s[k].id = Path(w, k)
                         /\ k < n => Holds(s[k].tag)
  BY EmptyIsSeq DEF StackType, Matches
<1>2. Holds(s[n].tag)
  BY <1>1, FrontFacts
<1>3. /\ Len(t) = n + 1 /\ t[n + 1] = x /\ \A k \in 1..n : t[k] = s[k]
  BY <1>1, AppendFacts
<1>4. /\ Len(v) = n + 1 /\ v[n + 1] = o /\ \A k \in 1..n : v[k] = w[k]
  BY AppendFacts
<1>5. o.tag = el.tag
  BY DEF Opened
<1>6. /\ Path(v, n + 1) = Append(Path(w, n), o.name)
      /\ \A k \in 1..n : Path(v, k) = Path(w, k)
  BY PathPushed
<1> HIDE DEF o, v
<1>7. ASSUME NEW k \in 1..(n + 1)
      PROVE  /\ t[k].tag = v[k].tag
             /\ Holds(t[k].tag) \/ t[k].tag \in {"ACTION", "PLUGIN"}
             /\ Holds(t[k].tag) => t[k].id = Path(v, k)
             /\ k < n + 1 => Holds(t[k].tag)
  <2>1. CASE k = n + 1
    <3>1. Holds(x.tag) => x.id = Path(v, n + 1)
      BY <1>6 DEF o
    <3>2. x.tag = o.tag /\ ~(k < n + 1)
      BY <1>5, <2>1
    <3>3. t[k] = x /\ v[k] = o
      BY <2>1, <1>3, <1>4
    <3>4. QED
      BY <2>1, <3>1, <3>2, <3>3
  <2>2. CASE k # n + 1
    <3>1. k \in 1..n /\ (k < n \/ k = n)
      BY <2>2
    <3>2. QED
      BY <3>1, <1>1, <1>2, <1>3, <1>4, <1>6
  <2>3. QED
    BY <2>1, <2>2
<1>8. QED
  BY <1>3, <1>4, <1>7 DEF Matches, v, o

LEMMA MatchesPopped ==
  ASSUME StackType, NEW w, IsSeq(w), Len(w) \in Nat \ {0}, Matches(w),
         stack' = Front(stack)
  PROVE  Matches(Front(w))'
<1> DEFINE n == Len(w)
           v == Front(w)
           s == stack
           t == stack'
<1>1. /\ IsSeq(s) /\ Len(s) = n /\ s # <<>> /\ w # <<>>
      /\ \A k \in 1..n : /\ s[k].tag = w[k].tag
                         /\ Holds(s[k].tag) \/ s[k].tag \in {"ACTION", "PLUGIN"}
                         /\ Holds(s[k].tag) => s[k].id = Path(w, k)
                         /\ k < n => Holds(s[k].tag)
  BY EmptyIsSeq DEF StackType, Matches
<1>2. /\ Len(t) = n - 1 /\ \A k \in 1..(n - 1) : t[k] = s[k]
  BY <1>1, FrontFacts
<1>3. /\ Len(v) = n - 1 /\ \A k \in 1..(n - 1) : v[k] = w[k]
  BY <1>1, FrontFacts
<1> HIDE DEF v
<1>4. ASSUME NEW k \in 1..(n - 1)
      PROVE  /\ t[k].tag = v[k].tag
             /\ Holds(t[k].tag) \/ t[k].tag \in {"ACTION", "PLUGIN"}
             /\ Holds(t[k].tag) => t[k].id = Path(v, k)
             /\ k < n - 1 => Holds(t[k].tag)
  <2>1. k \in 1..n /\ k < n /\ k \in Nat \ {0} /\ \A i \in 1..k : v[i] = w[i]
    BY <1>3
  <2>2. Path(v, k) = Path(w, k)
    BY <2>1, PathKept
  <2>3. QED
    BY <2>1, <2>2, <1>1, <1>2, <1>3
<1>5. QED
  BY <1>2, <1>3, <1>4 DEF Matches, v
(* One more element in order, and what is registered of it.                *)
LEMMA OrderGrown ==
  ASSUME InOrder, UNCHANGED <<input, file>>,
         NEW x, ReadSoFar' = ReadSoFar \cup {x},
         Loadable(x), \A y \in ReadSoFar : ~Clash(x, y)
  PROVE  InOrder'
<1>1. ~Clash(x, x) /\ \A y : Clash(y, x) => Clash(x, y)
  BY DEF Clash
<1>2. \A y \in ReadSoFar' : Loadable(y)
  BY DEF InOrder
<1>3. \A y, z \in ReadSoFar' : ~Clash(y, z)
  <2>1. \A y, z \in ReadSoFar : ~Clash(y, z)
    BY DEF InOrder
  <2>2. QED
    BY <2>1, <1>1
<1>4. \A f \in DOMAIN input' : f < file' => input'[f].valid
  BY DEF InOrder
<1>5. QED
  BY <1>2, <1>3, <1>4 DEF InOrder

LEMMA OrderKept ==
  ASSUME InOrder, UNCHANGED <<input, file>>, ReadSoFar' = ReadSoFar
  PROVE  InOrder'
BY DEF InOrder

NamesOf(xs) == {x.el.attr.name : x \in {y \in xs : y.el.tag = "PLUGIN"}}
KeysOf(xs, id) ==
  {x.el.attr.key : x \in {y \in xs : y.el.tag = "HOTKEY" /\ y.in = id}}
HotkeysIn(xs) == {y \in xs : y.el.tag = "HOTKEY"}
LEMMA RegisteredIs ==
  Registered <=>
    /\ scheme.plugins = NamesOf(ReadSoFar)
    /\ \A x \in HotkeysIn(ReadSoFar) : x.in \in DOMAIN scheme.entry
    /\ \A id \in DOMAIN scheme.entry :
         ToSet(scheme.entry[id].hotkeys) = KeysOf(ReadSoFar, id)
BY DEF Registered, PluginsRegistered, HotkeysRegistered, NamesOf, KeysOf, HotkeysIn, Entry
LEMMA RegisteredNext ==
  Registered' <=>
    /\ scheme'.plugins = NamesOf(ReadSoFar')
    /\ \A x \in HotkeysIn(ReadSoFar') : x.in \in DOMAIN scheme'.entry
    /\ \A id \in DOMAIN scheme'.entry :
         ToSet(scheme'.entry[id].hotkeys) = KeysOf(ReadSoFar', id)
BY DEF Registered, PluginsRegistered, HotkeysRegistered, NamesOf, KeysOf, HotkeysIn, Entry

LEMMA OneMore ==
  ASSUME NEW xs, NEW x
  PROVE  /\ NamesOf(xs \cup {x}) =
              IF x.el.tag = "PLUGIN" THEN NamesOf(xs) \cup {x.el.attr.name}
              ELSE NamesOf(xs)
         /\ HotkeysIn(xs \cup {x}) =
              IF x.el.tag = "HOTKEY" THEN HotkeysIn(xs) \cup {x} ELSE HotkeysIn(xs)
         /\ \A id : KeysOf(xs \cup {x}, id) =
              IF x.el.tag = "HOTKEY" /\ x.in = id THEN KeysOf(xs, id) \cup {x.el.attr.key}
              ELSE KeysOf(xs, id)
<1>1. NamesOf(xs \cup {x}) =
        IF x.el.tag = "PLUGIN" THEN NamesOf(xs) \cup {x.el.attr.name} ELSE NamesOf(xs)
  BY DEF NamesOf
<1>2. HotkeysIn(xs \cup {x}) =
        IF x.el.tag = "HOTKEY" THEN HotkeysIn(xs) \cup {x} ELSE HotkeysIn(xs)
  BY DEF HotkeysIn
<1>3. ASSUME NEW id
      PROVE  KeysOf(xs \cup {x}, id) =
              IF x.el.tag = "HOTKEY" /\ x.in = id THEN KeysOf(xs, id) \cup {x.el.attr.key}
              ELSE KeysOf(xs, id)
  BY DEF KeysOf
<1>4. QED
  BY <1>1, <1>2, <1>3

LEMMA PlainRegistered ==
  ASSUME Registered, Grown(scheme, scheme'), NEW x, x.el.tag \notin {"PLUGIN", "HOTKEY"},
         ReadSoFar' = ReadSoFar \/ ReadSoFar' = ReadSoFar \cup {x}
  PROVE  Registered'
<1>0. /\ NamesOf(ReadSoFar \cup {x}) =
           IF x.el.tag = "PLUGIN" THEN NamesOf(ReadSoFar) \cup {x.el.attr.name}
           ELSE NamesOf(ReadSoFar)
      /\ HotkeysIn(ReadSoFar \cup {x}) =
           IF x.el.tag = "HOTKEY" THEN HotkeysIn(ReadSoFar) \cup {x}
           ELSE HotkeysIn(ReadSoFar)
      /\ \A id : KeysOf(ReadSoFar \cup {x}, id) =
           IF x.el.tag = "HOTKEY" /\ x.in = id
           THEN KeysOf(ReadSoFar, id) \cup {x.el.attr.key} ELSE KeysOf(ReadSoFar, id)
  BY OneMore
<1>1. /\ NamesOf(ReadSoFar') = NamesOf(ReadSoFar)
      /\ HotkeysIn(ReadSoFar') = HotkeysIn(ReadSoFar)
      /\ \A id : KeysOf(ReadSoFar', id) = KeysOf(ReadSoFar, id)
  BY <1>0
<1>2. /\ scheme.plugins = NamesOf(ReadSoFar)
      /\ \A y \in HotkeysIn(ReadSoFar) : y.in \in DOMAIN scheme.entry
      /\ \A id \in DOMAIN scheme.entry :
           ToSet(scheme.entry[id].hotkeys) = KeysOf(ReadSoFar, id)
  BY RegisteredIs
<1>3. ASSUME NEW id \in DOMAIN scheme'.entry
      PROVE  ToSet(scheme'.entry[id].hotkeys) = KeysOf(ReadSoFar, id)
  <2>1. CASE id \in DOMAIN scheme.entry
    BY <2>1, <1>2 DEF Grown
  <2>2. CASE id \notin DOMAIN scheme.entry
    <3>1. scheme'.entry[id].hotkeys = <<>>
      BY <2>2 DEF Grown
    <3>2. KeysOf(ReadSoFar, id) = {}
      BY <2>2, <1>2 DEF KeysOf, HotkeysIn
    <3>3. QED
      BY <3>1, <3>2, EmptyIsSeq
  <2>3. QED
    BY <2>1, <2>2
<1>4. scheme'.plugins = scheme.plugins /\ DOMAIN scheme.entry \subseteq DOMAIN scheme'.entry
  BY DEF Grown
<1>5. QED
  BY <1>1, <1>2, <1>3, <1>4, RegisteredNext

LEMMA PluginRegistered ==
  ASSUME Registered, NEW x, x.el.tag = "PLUGIN", ReadSoFar' = ReadSoFar \cup {x},
         scheme'.plugins = scheme.plugins \cup {x.el.attr.name},
         scheme'.entry = scheme.entry
  PROVE  Registered'
<1>1. /\ NamesOf(ReadSoFar') = NamesOf(ReadSoFar) \cup {x.el.attr.name}
      /\ HotkeysIn(ReadSoFar') = HotkeysIn(ReadSoFar)
      /\ \A id : KeysOf(ReadSoFar', id) = KeysOf(ReadSoFar, id)
  BY OneMore
<1>2. QED
  BY <1>1, RegisteredIs, RegisteredNext

LEMMA HotkeyRegistered ==
  ASSUME Registered, NEW x, x.el.tag = "HOTKEY", ReadSoFar' = ReadSoFar \cup {x},
         x.in \in DOMAIN scheme.entry, HasHotkey(scheme, scheme', x.in, x.el.attr.key)
  PROVE  Registered'
<1>0. /\ NamesOf(ReadSoFar \cup {x}) =
           IF x.el.tag = "PLUGIN" THEN NamesOf(ReadSoFar) \cup {x.el.attr.name}
           ELSE NamesOf(ReadSoFar)
      /\ HotkeysIn(ReadSoFar \cup {x}) =
           IF x.el.tag = "HOTKEY" THEN HotkeysIn(ReadSoFar) \cup {x}
           ELSE HotkeysIn(ReadSoFar)
      /\ \A id : KeysOf(ReadSoFar \cup {x}, id) =
           IF x.el.tag = "HOTKEY" /\ x.in = id
           THEN KeysOf(ReadSoFar, id) \cup {x.el.attr.key} ELSE KeysOf(ReadSoFar, id)
  BY OneMore
<1>1. /\ NamesOf(ReadSoFar') = NamesOf(ReadSoFar)
      /\ HotkeysIn(ReadSoFar') = HotkeysIn(ReadSoFar) \cup {x}
      /\ \A id : KeysOf(ReadSoFar', id) =
           IF x.in = id THEN KeysOf(ReadSoFar, id) \cup {x.el.attr.key}
           ELSE KeysOf(ReadSoFar, id)
  BY <1>0
<1>2. /\ scheme.plugins = NamesOf(ReadSoFar)
      /\ \A y \in HotkeysIn(ReadSoFar) : y.in \in DOMAIN scheme.entry
      /\ \A id \in DOMAIN scheme.entry :
           ToSet(scheme.entry[id].hotkeys) = KeysOf(ReadSoFar, id)
  BY RegisteredIs
<1>3. /\ DOMAIN scheme'.entry = DOMAIN scheme.entry /\ scheme'.plugins = scheme.plugins
      /\ \A id \in DOMAIN scheme.entry : ToSet(scheme'.entry[id].hotkeys) =
           IF id = x.in THEN ToSet(scheme.entry[id].hotkeys) \cup {x.el.attr.key}
           ELSE ToSet(scheme.entry[id].hotkeys)
  BY DEF HasHotkey
<1>4. \A id \in DOMAIN scheme'.entry :
        ToSet(scheme'.entry[id].hotkeys) = KeysOf(ReadSoFar', id)
  BY <1>1, <1>2, <1>3
<1>5. \A y \in HotkeysIn(ReadSoFar') : y.in \in DOMAIN scheme'.entry
  BY <1>1, <1>2, <1>3
<1>6. QED
  BY <1>1, <1>2, <1>3, <1>4, <1>5, RegisteredNext

(* A second PLUGIN or HOTKEY is one that is registered already.            *)
LEMMA NoClash ==
  ASSUME Registered, NEW x, ~Before(x), x \in Elements,
         x.el.tag = "PLUGIN" => x.el.attr.name \notin scheme.plugins,
         x.el.tag = "HOTKEY" =>
           x.in \in DOMAIN scheme.entry
             /\ x.el.attr.key \notin ToSet(scheme.entry[x.in].hotkeys)
  PROVE  \A y \in ReadSoFar : ~Clash(x, y)
<1> SUFFICES ASSUME NEW y \in ReadSoFar, Clash(x, y) PROVE FALSE
  OBVIOUS
<1>1. scheme.plugins = NamesOf(ReadSoFar)
      /\ \A id \in DOMAIN scheme.entry :
           ToSet(scheme.entry[id].hotkeys) = KeysOf(ReadSoFar, id)
  BY RegisteredIs
<1>2. CASE x.el.tag = "PLUGIN"
  <2>1. y.el.tag = "PLUGIN" /\ x.el.attr.name = y.el.attr.name
    BY <1>2 DEF Clash
  <2>2. y.el.attr.name \in NamesOf(ReadSoFar)
    BY <2>1 DEF NamesOf
  <2>3. QED
    BY <1>1, <1>2, <2>1, <2>2
<1>3. CASE x.el.tag = "HOTKEY"
  <2>1. y.el.tag = "HOTKEY" /\ x.in = y.in /\ x.el.attr.key = y.el.attr.key
    BY <1>3 DEF Clash
  <2>2. y.el.attr.key \in KeysOf(ReadSoFar, y.in)
    BY <2>1 DEF KeysOf
  <2>3. QED
    BY <1>1, <1>3, <2>1, <2>2
<1>4. QED
  BY <1>2, <1>3 DEF Clash

LEMMA ClashKnown ==
  ASSUME Registered, NEW x, ~Before(x), x \in Elements,
         \/ x.el.tag = "PLUGIN" /\ x.el.attr.name \in scheme.plugins
         \/ /\ x.el.tag = "HOTKEY" /\ x.in \in DOMAIN scheme.entry
            /\ x.el.attr.key \in ToSet(scheme.entry[x.in].hotkeys)
  PROVE  ~AllLoadable
<1>1. scheme.plugins = NamesOf(ReadSoFar)
      /\ \A id \in DOMAIN scheme.entry :
           ToSet(scheme.entry[id].hotkeys) = KeysOf(ReadSoFar, id)
  BY RegisteredIs
<1>2. \A y \in ReadSoFar : y \in Elements /\ Before(y) /\ <<x.file, x.at>> # <<y.file, y.at>>
  BY DEF ReadSoFar, Before
<1>3. CASE x.el.tag = "PLUGIN" /\ x.el.attr.name \in scheme.plugins
  <2>1. PICK y \in ReadSoFar : y.el.tag = "PLUGIN" /\ x.el.attr.name = y.el.attr.name
    BY <1>1, <1>3 DEF NamesOf
  <2>2. Clash(x, y)
    BY <2>1, <1>2, <1>3 DEF Clash
  <2>3. QED
    BY <2>2, <1>2 DEF AllLoadable
<1>4. CASE /\ x.el.tag = "HOTKEY" /\ x.in \in DOMAIN scheme.entry
           /\ x.el.attr.key \in ToSet(scheme.entry[x.in].hotkeys)
  <2>1. x.el.attr.key \in KeysOf(ReadSoFar, x.in)
    BY <1>1, <1>4
  <2>2. PICK y \in ReadSoFar : y.el.tag = "HOTKEY" /\ y.in = x.in /\ x.el.attr.key = y.el.attr.key
    BY <2>1 DEF KeysOf
  <2>3. Clash(x, y)
    BY <2>2, <1>2, <1>4 DEF Clash
  <2>4. QED
    BY <2>3, <1>2 DEF AllLoadable
<1>5. QED
  BY <1>3, <1>4
(* An element that is accepted is in place and has been read.              *)
LEMMA PlaceNext ==
  ASSUME NEW v, Matches(v)', Where(input'[file'].tags)[at'] = v,
         file' <= Len(input'), at' <= Len(input'[file'].tags) + 1, input'[file'].valid
  PROVE  stack' # <<>> => InPlace'
BY DEF InPlace, Matches

LEMMA AcceptedInPlace ==
  ASSUME TypeInv, Reading, InPlace, Holds(Up.tag), NEW s, NEW id, Accept(s, id),
         IsEntryTag(Elem.tag) \/ Elem.tag \in {"ACTION", "PLUGIN"},
         IsEntryTag(Elem.tag) => id = Append(Up.id, NameOf(Elem))
  PROVE  InPlace' /\ ReadSoFar' = ReadSoFar \cup {Current}
<1>1. /\ UNCHANGED <<input, file>> /\ at' = at + 1
      /\ stack' = Append(stack, [tag |-> Elem.tag, id |-> id])
  BY DEF Accept
<1>2. Elem.tag # "/" /\ (Holds(Elem.tag) => IsEntryTag(Elem.tag))
  BY DEF Holds, IsEntryTag, ParamTags, CommandTags, Special
<1>3. PICK w : w = Where(input[file].tags)[at]
  OBVIOUS
<1>4. PICK el : el = Elem
  OBVIOUS
<1>5. PICK x : x = [tag |-> el.tag, id |-> id]
  OBVIOUS
<1>6. /\ IsSeq(w) /\ Len(w) \in Nat \ {0} /\ Matches(w)
      /\ Where(input[file].tags)[at + 1] = Append(w, Opened(el))
  <2>1. Matches(w)
    BY <1>3 DEF InPlace, Reading
  <2>2. QED
    BY <1>2, <1>3, <1>4, <2>1, WhereNow DEF WhereNext
<1>7. x.tag = el.tag /\ x.id = id
  BY <1>5
<1>8. Holds(x.tag) => x.id = Append(Path(w, Len(w)), Opened(el).name)
  <2>1. Holds(x.tag) => x.id = Append(Up.id, NameOf(el)) /\ IsEntryTag(el.tag)
    BY <1>2, <1>4, <1>7
  <2>2. Up.id = Current.in
    BY <1>2, CurrentFacts
  <2>3. Current.in = Path(w, Len(w))
    BY <1>3 DEF Current, Element, Names, Path
  <2>4. IsEntryTag(el.tag) => Opened(el).name = NameOf(el)
    BY DEF Opened
  <2>5. QED
    BY <2>1, <2>2, <2>3, <2>4
<1>9. Holds(x.tag) \/ x.tag \in {"ACTION", "PLUGIN"}
  BY <1>4, <1>7 DEF Holds
<1>10. stack' = Append(stack, x) /\ StackType /\ Holds(Last(stack).tag)
  BY <1>1, <1>4, <1>5 DEF TypeInv, Up
<1>11. Matches(Append(w, Opened(el)))'
  BY <1>6, <1>7, <1>8, <1>9, <1>10, MatchesPushed
<1>12. /\ file \in Nat \ {0} /\ at \in Nat \ {0} /\ file <= Len(input) /\ at <= Len(input[file].tags)
       /\ Len(input[file].tags) \in Nat /\ input[file].valid /\ IsSeq(stack)
  BY ReadingFacts DEF TypeInv, Reading, InPlace, StackType
<1>13. stack' # <<>>
  BY <1>10, <1>12, AppendFacts
<1>14. InPlace'
  <2>1. PICK v : v = Append(w, Opened(el))
    OBVIOUS
  <2>2. Matches(v)'
    BY <1>11, <2>1
  <2>3. /\ Where(input'[file'].tags)[at'] = v /\ file' <= Len(input')
        /\ at' <= Len(input'[file'].tags) + 1 /\ input'[file'].valid
    BY <1>1, <1>6, <1>12, <2>1
  <2>4. QED
    BY <1>13, <2>2, <2>3, PlaceNext
<1>15. ReadSoFar' = ReadSoFar \cup {Current}
  <2>1. Current \in Elements /\ Current.file = file /\ Current.at = at
    BY <1>2, CurrentFacts
  <2>2. at' \in Nat /\ at' > at /\ \A k \in (at + 1)..(at' - 1) : FALSE
    BY <1>1, <1>12
  <2>3. QED
    BY <1>1, <2>1, <2>2, OneRead
<1>16. QED
  BY <1>14, <1>15

LEMMA HotkeyInPlace ==
  ASSUME TypeInv, Reading, InPlace, Elem.tag = "HOTKEY",
         UNCHANGED <<input, file, stack>>, at' = EndOf + 1
  PROVE  InPlace' /\ ReadSoFar' = ReadSoFar \cup {Current}
<1> DEFINE tags == input[file].tags
           n == Len(tags)
<1>1. PICK e : e = EndOf
  OBVIOUS
<1>2. e \in at..n /\ Ends(tags, at, e) /\ at \in 1..n /\ n \in Nat /\ WellFormed(tags)
      /\ file \in Nat \ {0} /\ file <= Len(input)
  BY <1>1, EndOfFacts, ReadingFacts DEF TypeInv, Reading
<1>3. PICK w : w = Where(tags)[at]
  OBVIOUS
<1>4. Matches(w) /\ input[file].valid /\ stack # <<>>
  BY <1>3 DEF InPlace, Reading
<1>5. Matches(w)'
  BY <1>4 DEF Matches
<1>6. Where(tags)[e + 1] = w
  BY <1>2, <1>3 DEF Ends
<1>7. InPlace'
  <2>1. e + 1 <= n + 1
    BY <1>2
  <2>2. /\ Where(input'[file'].tags)[at'] = w /\ file' <= Len(input')
        /\ at' <= Len(input'[file'].tags) + 1 /\ input'[file'].valid
    BY <1>1, <1>2, <1>4, <1>6, <2>1
  <2>3. QED
    BY <1>4, <1>5, <2>2, PlaceNext
<1>8. ReadSoFar' = ReadSoFar \cup {Current}
  <2>1. Current \in Elements /\ Current.file = file /\ Current.at = at
    BY CurrentFacts
  <2>2. tags[at].tag = "HOTKEY"
    BY DEF Elem
  <2>3. \A k \in (at + 1)..e : k \notin LookedAt(tags)
    <3>1. PICK a : a = at
      OBVIOUS
    <3>2. PICK t : t = tags
      OBVIOUS
    <3>3. \A k \in (a + 1)..e : k \notin LookedAt(t)
      BY <1>2, <2>2, <3>1, <3>2, InsideOfHotkey
    <3>4. QED
      BY <3>1, <3>2, <3>3
  <2>4. at' \in Nat /\ at' > at /\ at' - 1 = e
    BY <1>1, <1>2
  <2>5. QED
    BY <2>1, <2>3, <2>4, OneRead
<1>9. QED
  BY <1>7, <1>8

LEMMA CloseInPlace ==
  ASSUME TypeInv, Reading, InPlace, Elem.tag = "/",
         UNCHANGED <<input, file>>, stack' = Front(stack), at' = at + 1
  PROVE  InPlace' /\ ReadSoFar' = ReadSoFar
<1> DEFINE tags == input[file].tags
           n == Len(tags)
<1>1. /\ file \in Nat \ {0} /\ at \in 1..n /\ n \in Nat /\ file <= Len(input)
      /\ file \in DOMAIN input
  BY ReadingFacts DEF TypeInv, Reading
<1>2. PICK w : w = Where(tags)[at]
  OBVIOUS
<1>3. PICK v : v = Front(w)
  OBVIOUS
<1>4. /\ IsSeq(w) /\ Len(w) \in Nat \ {0} /\ Where(tags)[at + 1] = v
      /\ Len(v) \in Nat \ {0}
  BY <1>2, <1>3, WhereNow DEF WhereNext
<1>5. Matches(w) /\ input[file].valid
  BY <1>2 DEF InPlace, Reading
<1>6. Matches(Front(w))'
  BY <1>4, <1>5, MatchesPopped DEF TypeInv
<1>7. Matches(v)'
  BY <1>3, <1>6
<1>8. stack' # <<>>
  <2>1. Len(stack') = Len(v)
    BY <1>7 DEF Matches
  <2>2. QED
    BY <1>4, <2>1, EmptyIsSeq
<1>9. InPlace'
  <2>1. at + 1 <= n + 1
    BY <1>1
  <2>2. /\ Where(input'[file'].tags)[at'] = v /\ file' <= Len(input')
        /\ at' <= Len(input'[file'].tags) + 1 /\ input'[file'].valid
    BY <1>1, <1>4, <1>5, <2>1
  <2>3. QED
    BY <1>7, <1>8, <2>2, PlaceNext
<1>10. ASSUME NEW x \in Elements PROVE Before(x)' <=> Before(x)
  <2>1. x.file \in Nat /\ x.at \in Nat /\ x.el.tag # "/" /\ input[x.file].tags[x.at] = x.el
    BY ElementType
  <2>2. ~(x.file = file /\ x.at = at)
    BY <2>1 DEF Elem
  <2>3. QED
    BY <1>1, <2>1, <2>2 DEF Before
<1>11. QED
  BY <1>9, <1>10, NoneRead
(* Reading keeps the verdict: an element is accepted just when it fits and *)
(* clashes with none read before, and an error is not forgotten.           *)
LEMMA Unfit ==
  ASSUME TypeInv, Reading, ret, LoadInv, Elem.tag # "/", ~Loadable(Current)
  PROVE  ~AllLoadable
<1>1. Current \in Elements
  BY CurrentFacts DEF LoadInv, Reading
<1>2. QED
  BY <1>1 DEF AllLoadable

LEMMA Accepted ==
  ASSUME TypeInv, Reading, ret, LoadInv, NEW s, NEW id, Accept(s, id),
         Holds(Up.tag), Loadable(Current), Registered',
         IsEntryTag(Elem.tag) \/ Elem.tag \in {"ACTION", "PLUGIN"},
         IsEntryTag(Elem.tag) => id = Append(Up.id, NameOf(Elem)),
         Elem.tag = "PLUGIN" => Elem.attr.name \notin scheme.plugins
  PROVE  LoadInv'
<1>1. InPlace /\ InOrder /\ Registered /\ phase = "load"
  BY DEF LoadInv, Reading
<1>2. InPlace' /\ ReadSoFar' = ReadSoFar \cup {Current}
  BY <1>1, AcceptedInPlace
<1>3. Elem.tag # "/" /\ Elem.tag # "HOTKEY"
  BY DEF IsEntryTag, ParamTags, CommandTags, Special
<1>4. Current \in Elements /\ ~Before(Current) /\ Current.el = Elem
  BY <1>1, <1>3, CurrentFacts
<1>5. \A y \in ReadSoFar : ~Clash(Current, y)
  BY <1>1, <1>3, <1>4, NoClash
<1>6. UNCHANGED <<input, file, phase, ret>>
  BY DEF Accept
<1>7. PICK x : x = Current
  OBVIOUS
<1>8. InOrder'
  <2>1. /\ UNCHANGED <<input, file>> /\ ReadSoFar' = ReadSoFar \cup {x} /\ Loadable(x)
        /\ \A y \in ReadSoFar : ~Clash(x, y)
    BY <1>2, <1>5, <1>6, <1>7
  <2>2. QED
    BY <1>1, <2>1, OrderGrown
<1>9. QED
  BY <1>1, <1>2, <1>6, <1>8 DEF LoadInv

VerdictKept == (ret' = ret /\ LoadInv') \/ (ret' = FALSE /\ ~AllLoadable)
LEMMA EnterLoad ==
  ASSUME TypeInv, ret, LoadInv, NEW tags, \A t \in tags : IsEntryTag(t),
         NEW s, Enter(tags, s),
         CanAdd(Ientry(Elem)) => Grown(scheme, s)
  PROVE  VerdictKept
<1>1. Reading /\ IsEntryTag(Elem.tag)
  BY DEF Enter
<1>2. Elem.tag \notin {"/", "unknown", "ACTION", "HOTKEY", "PLUGIN"}
  BY <1>1 DEF IsEntryTag, ParamTags, CommandTags, Special
<1>3. InPlace /\ InOrder /\ Registered
  BY <1>1 DEF LoadInv, Reading
<1>4. /\ Current.el = Elem /\ Current.up = Up.tag
      /\ Holds(Up.tag) \/ Up.tag \in {"ACTION", "PLUGIN"}
  BY <1>1, <1>2, <1>3, CurrentFacts
<1>5. Loadable(Current) <=> CanAdd(Ientry(Elem))
  BY <1>1, <1>2, <1>4 DEF Loadable, HasName, Fits, CanAdd
<1>6. CASE CanAdd(Ientry(Elem))
  <2>1. Accept(s, EntryId) /\ Grown(scheme, s)
    BY <1>6 DEF Enter
  <2>2. scheme' = s /\ ret' = ret
    BY <2>1 DEF Accept
  <2>3. Holds(Up.tag) /\ EntryId = Append(Up.id, NameOf(Elem))
    BY <1>4, <1>6 DEF CanAdd, EntryId, NameOf
  <2>4. ReadSoFar' = ReadSoFar \cup {Current}
    BY <1>1, <1>3, <2>1, <2>3, AcceptedInPlace
  <2>5. Registered'
    <3>1. PICK x : x = Current
      OBVIOUS
    <3>2. x.el.tag \notin {"PLUGIN", "HOTKEY"} /\ ReadSoFar' = ReadSoFar \cup {x}
      BY <3>1, <1>2, <1>4, <2>4
    <3>3. Grown(scheme, scheme')
      BY <2>1, <2>2
    <3>4. QED
      BY <1>3, <3>2, <3>3, PlainRegistered
  <2>6. LoadInv'
    BY <1>1, <1>2, <1>5, <1>6, <2>1, <2>3, <2>5, Accepted
  <2>7. QED
    BY <2>2, <2>6 DEF VerdictKept
<1>7. CASE ~CanAdd(Ientry(Elem))
  <2>1. ret' = FALSE
    BY <1>7 DEF Enter, Reject
  <2>2. ~AllLoadable
    BY <1>1, <1>2, <1>5, <1>7, Unfit
  <2>3. QED
    BY <2>1, <2>2 DEF VerdictKept
<1>8. QED
  BY <1>6, <1>7

LEMMA ActionLoad ==
  ASSUME TypeInv, ret, LoadInv, ProcessAction
  PROVE  VerdictKept
<1>1. Reading /\ Elem.tag = "ACTION"
  BY DEF ProcessAction
<1>2. InPlace /\ InOrder /\ Registered
  BY <1>1 DEF LoadInv, Reading
<1>3. /\ Current.el = Elem /\ Current.up = Up.tag
      /\ Holds(Up.tag) => Up.id = Current.in
  BY <1>1, <1>2, CurrentFacts
<1> DEFINE fits == /\ IsEntryTag(Up.tag) /\ Up.tag \notin {"VIEW", "SWITCH", "SEQ"}
                   /\ Legal(Elem.attr)
<1>4. Loadable(Current) <=> fits
  <2>1. ~IsEntryTag("ACTION")
    BY DEF IsEntryTag, ParamTags, CommandTags, Special
  <2>2. \A t : (IsEntryTag(t) /\ t \notin {"VIEW", "SWITCH", "SEQ"})
                 <=> t \in CommandTags \cup {"ENTRY", "PARAM", "PTYPE"}
    BY DEF IsEntryTag, ParamTags, CommandTags, Special
  <2>3. QED
    BY <1>1, <1>3, <2>1, <2>2 DEF Loadable, HasName, Fits, VerdictKept
<1>5. CASE fits
  <2> DEFINE s == [scheme EXCEPT !.entry[Up.id].actions =
                     Append(@, Over(Elem.attr, Action(None, None)))]
  <2>1. Accept(s, Up.id) /\ Holds(Up.tag)
    BY <1>1, <1>5 DEF ProcessAction, Holds
  <2>2. Grown(scheme, s)
    <3>1. Up.id \in DOMAIN scheme.entry
      BY <1>1, <1>5, ReadingFacts
    <3>2. QED
      BY <3>1, <1>1, TypeUnlinked, ActionAdded DEF Reading
  <2> HIDE DEF s
  <2>3. scheme' = s /\ ret' = ret
    BY <2>1 DEF Accept
  <2>4. ~IsEntryTag(Elem.tag)
    BY <1>1 DEF IsEntryTag, ParamTags, CommandTags, Special
  <2>5. ReadSoFar' = ReadSoFar \cup {Current}
    BY <1>1, <1>2, <2>1, <2>4, AcceptedInPlace
  <2>6. Registered'
    <3>1. PICK x : x = Current
      OBVIOUS
    <3>2. x.el.tag \notin {"PLUGIN", "HOTKEY"} /\ ReadSoFar' = ReadSoFar \cup {x}
      BY <3>1, <1>1, <1>3, <2>5
    <3>3. Grown(scheme, scheme')
      BY <2>2, <2>3
    <3>4. QED
      BY <1>2, <3>2, <3>3, PlainRegistered
  <2>7. LoadInv'
    BY <1>1, <1>4, <1>5, <2>1, <2>4, <2>6, Accepted
  <2>8. QED
    BY <2>3, <2>7 DEF VerdictKept
<1>6. CASE ~fits
  <2>1. ret' = FALSE
    BY <1>6 DEF ProcessAction, Reject
  <2>2. ~AllLoadable
    BY <1>1, <1>4, <1>6, Unfit
  <2>3. QED
    BY <2>1, <2>2 DEF VerdictKept
<1>7. QED
  BY <1>5, <1>6

LEMMA PluginLoad ==
  ASSUME TypeInv, ret, LoadInv, ProcessPlugin
  PROVE  VerdictKept
<1>1. Reading /\ Elem.tag = "PLUGIN" /\ ~IsEntryTag(Elem.tag)
  BY DEF ProcessPlugin, IsEntryTag, ParamTags, CommandTags, Special
<1>2. InPlace /\ InOrder /\ Registered
  BY <1>1 DEF LoadInv, Reading
<1>3. /\ Current.el = Elem /\ Current.up = Up.tag
      /\ Current \in Elements /\ ~Before(Current)
  BY <1>1, <1>2, CurrentFacts
<1>4. Loadable(Current) <=> Up.tag = "KLISH" /\ "name" \in DOMAIN Elem.attr
  BY <1>1, <1>3 DEF Loadable, HasName, Fits
<1>5. CASE Loadable(Current) /\ Elem.attr.name \notin scheme.plugins
  <2> DEFINE s == [scheme EXCEPT !.plugins = @ \cup {Elem.attr.name}]
  <2>1. Accept(s, NoEntry) /\ Holds(Up.tag)
    BY <1>4, <1>5 DEF ProcessPlugin, Holds
  <2>2. s.entry = scheme.entry /\ s.plugins = scheme.plugins \cup {Elem.attr.name}
    BY DEF TypeInv, IsTree
  <2> HIDE DEF s
  <2>3. scheme' = s /\ ret' = ret
    BY <2>1 DEF Accept
  <2>4. ReadSoFar' = ReadSoFar \cup {Current}
    BY <1>1, <1>2, <2>1, AcceptedInPlace
  <2>5. Registered'
    <3>1. PICK x : x = Current
      OBVIOUS
    <3>2. /\ x.el.tag = "PLUGIN" /\ ReadSoFar' = ReadSoFar \cup {x}
          /\ scheme'.plugins = scheme.plugins \cup {x.el.attr.name}
          /\ scheme'.entry = scheme.entry
      BY <3>1, <1>1, <1>3, <2>2, <2>3, <2>4
    <3>3. QED
      BY <1>2, <3>2, PluginRegistered
  <2>6. LoadInv'
    BY <1>1, <1>5, <2>1, <2>5, Accepted
  <2>7. QED
    BY <2>3, <2>6 DEF VerdictKept
<1>6. CASE ~Loadable(Current)
  <2>1. ret' = FALSE
    BY <1>4, <1>6 DEF ProcessPlugin, Reject
  <2>2. ~AllLoadable
    BY <1>1, <1>6, Unfit
  <2>3. QED
    BY <2>1, <2>2 DEF VerdictKept
<1>7. CASE Loadable(Current) /\ Elem.attr.name \in scheme.plugins
  <2>1. ret' = FALSE
    BY <1>7 DEF ProcessPlugin, Reject
  <2>2. PICK x : x = Current
    OBVIOUS
  <2>3. x \in Elements /\ ~Before(x) /\ x.el.tag = "PLUGIN" /\ x.el.attr.name \in scheme.plugins
    BY <1>1, <1>3, <1>7, <2>2
  <2>4. ~AllLoadable
    BY <1>2, <2>3, ClashKnown
  <2>5. QED
    BY <2>1, <2>4 DEF VerdictKept
<1>8. QED
  BY <1>5, <1>6, <1>7

LEMMA HotkeyLoad ==
  ASSUME TypeInv, ret, LoadInv, ProcessHotkey
  PROVE  VerdictKept
<1>1. Reading /\ Elem.tag = "HOTKEY" /\ ~IsEntryTag(Elem.tag)
  BY DEF ProcessHotkey, IsEntryTag, ParamTags, CommandTags, Special
<1>2. InPlace /\ InOrder /\ Registered /\ phase = "load"
  BY <1>1 DEF LoadInv, Reading
<1>3. /\ Current.el = Elem /\ Current.up = Up.tag
      /\ Current \in Elements /\ ~Before(Current)
      /\ Holds(Up.tag) => Up.id = Current.in
  BY <1>1, <1>2, CurrentFacts
<1>4. Loadable(Current) <=>
        Up.tag \in {"ENTRY", "VIEW"} /\ {"key", "cmd"} \subseteq DOMAIN Elem.attr
  BY <1>1, <1>3 DEF Loadable, HasName, Fits
<1>5. PICK x : x = Current
  OBVIOUS
<1>6. ASSUME Loadable(Current)
      PROVE  x.in = Up.id /\ x.in \in DOMAIN scheme.entry
  <2>1. IsEntryTag(Up.tag)
    BY <1>4, <1>6 DEF IsEntryTag
  <2>2. QED
    BY <2>1, <1>1, <1>3, <1>5, ReadingFacts DEF Holds, VerdictKept
<1>7. CASE Loadable(Current) /\ Elem.attr.key \notin ToSet(scheme.entry[Up.id].hotkeys)
  <2>1. /\ scheme' = [scheme EXCEPT !.entry[Up.id].hotkeys = Append(@, Elem.attr.key)]
        /\ at' = EndOf + 1 /\ UNCHANGED <<input, file, stack, phase, ret>>
    BY <1>4, <1>7 DEF ProcessHotkey
  <2>2. InPlace' /\ ReadSoFar' = ReadSoFar \cup {x}
    BY <1>1, <1>2, <1>5, <2>1, HotkeyInPlace
  <2>3. PICK key : key = Elem.attr.key
    OBVIOUS
  <2>4. scheme' = WithHotkey(scheme, x.in, key)
    BY <1>6, <1>7, <2>1, <2>3 DEF WithHotkey
  <2>5. HasHotkey(scheme, scheme', x.in, x.el.attr.key)
    <3>1. IsTree(scheme) /\ Unlinked(scheme) /\ x.in \in DOMAIN scheme.entry
      BY <1>2, <1>6, <1>7, TypeUnlinked
    <3>2. HasHotkey(scheme, WithHotkey(scheme, x.in, key), x.in, key)
      BY <3>1, HotkeyAdded
    <3>3. key = x.el.attr.key
      BY <1>3, <1>5, <2>3
    <3>4. QED
      BY <2>4, <3>2, <3>3
  <2>6. /\ x.el.tag = "HOTKEY" /\ x \in Elements /\ ~Before(x) /\ Loadable(x)
        /\ x.in \in DOMAIN scheme.entry
        /\ x.el.attr.key \notin ToSet(scheme.entry[x.in].hotkeys)
    BY <1>1, <1>3, <1>5, <1>6, <1>7
  <2>7. Registered'
    BY <1>2, <2>2, <2>5, <2>6, HotkeyRegistered
  <2>8. \A y \in ReadSoFar : ~Clash(x, y)
    BY <1>2, <2>6, NoClash
  <2>9. InOrder'
    BY <1>2, <2>1, <2>2, <2>6, <2>8, OrderGrown
  <2>10. QED
    BY <1>2, <2>1, <2>2, <2>7, <2>9 DEF LoadInv, VerdictKept
<1>8. CASE ~Loadable(Current)
  <2>1. ret' = FALSE
    BY <1>4, <1>8 DEF ProcessHotkey, Reject
  <2>2. ~AllLoadable
    BY <1>1, <1>8, Unfit
  <2>3. QED
    BY <2>1, <2>2 DEF VerdictKept
<1>9. CASE Loadable(Current) /\ Elem.attr.key \in ToSet(scheme.entry[Up.id].hotkeys)
  <2>1. ret' = FALSE
    BY <1>9 DEF ProcessHotkey, Reject
  <2>2. /\ x \in Elements /\ ~Before(x) /\ x.el.tag = "HOTKEY" /\ x.in \in DOMAIN scheme.entry
        /\ x.el.attr.key \in ToSet(scheme.entry[x.in].hotkeys)
    BY <1>1, <1>3, <1>5, <1>6, <1>9
  <2>3. ~AllLoadable
    BY <1>2, <2>2, ClashKnown
  <2>4. QED
    BY <2>1, <2>3 DEF VerdictKept
<1>10. QED
  BY <1>7, <1>8, <1>9

LEMMA CloseLoad ==
  ASSUME TypeInv, ret, LoadInv, CloseElement
  PROVE  ret' = ret /\ LoadInv'
<1>1. /\ Reading /\ Elem.tag = "/" /\ phase = "load"
      /\ UNCHANGED <<input, file, phase, ret>> /\ stack' = Front(stack) /\ at' = at + 1
  BY DEF CloseElement, Reading
<1>2. InPlace /\ InOrder /\ Registered
  BY <1>1 DEF LoadInv
<1>3. InPlace' /\ ReadSoFar' = ReadSoFar
  BY <1>1, <1>2, CloseInPlace
<1>4. Grown(scheme, scheme')
  <2>1. IsTree(scheme) /\ Unlinked(scheme) /\ Grown(scheme, scheme)
    BY <1>1, TypeUnlinked
  <2>2. CASE Up.tag \in CommandTags /\ ~HasPtype(scheme, Up.id)
    <3>1. scheme' = CreatePtypeCommand(scheme, Up.id)
      BY <2>2 DEF CloseElement
    <3>2. Up.id \in DOMAIN scheme.entry
      BY <1>1, <2>2, ReadingFacts DEF IsEntryTag
    <3>3. QED
      BY <2>1, <3>1, <3>2, PtypeCommandGrown
  <2>3. CASE ~(Up.tag \in CommandTags /\ ~HasPtype(scheme, Up.id))
    BY <2>1, <2>3 DEF CloseElement
  <2>4. QED
    BY <2>2, <2>3
<1>5. Registered'
  <2>1. PICK x : x = [el |-> [tag |-> "/"]]
    OBVIOUS
  <2>2. x.el.tag \notin {"PLUGIN", "HOTKEY"}
    BY <2>1
  <2>3. QED
    BY <1>2, <1>3, <1>4, <2>2, PlainRegistered
<1>6. InOrder'
  BY <1>1, <1>2, <1>3, OrderKept
<1>7. QED
  BY <1>1, <1>3, <1>5, <1>6 DEF LoadInv

LEMMA FileReadReads ==
  ASSUME TypeInv, FileRead
  PROVE  ReadSoFar' = ReadSoFar
<1>1. /\ input' = input /\ at > Len(input[file].tags)
      /\ file' = file + 1 /\ at' = 1
      /\ file \in Nat /\ at \in Nat
  BY DEF FileRead, TypeInv
<1>2. ASSUME NEW x \in Elements PROVE Before(x)' <=> Before(x)
  <2>1. /\ x.file \in Nat /\ x.at \in Nat /\ Len(input[x.file].tags) \in Nat
        /\ x.at <= Len(input[x.file].tags) /\ x.at >= 1
    BY ElementType
  <2>2. x.file = file => x.at < at
    BY <1>1, <2>1
  <2>3. QED
    BY <1>1, <2>1, <2>2 DEF Before
<1>3. QED
  BY <1>1, <1>2, NoneRead

LEMMA FileReadLoad ==
  ASSUME TypeInv, ret, LoadInv, FileRead
  PROVE  ret' = ret /\ LoadInv'
<1>1. /\ UNCHANGED <<input, scheme, phase, ret>> /\ phase = "load" /\ file <= Len(input)
      /\ stack # <<>> /\ at > Len(input[file].tags)
      /\ file' = file + 1 /\ at' = 1 /\ stack' = <<>>
      /\ file \in Nat /\ at \in Nat
  BY DEF FileRead, TypeInv
<1>2. InPlace /\ InOrder /\ Registered
  BY <1>1 DEF LoadInv
<1>3. InPlace'
  BY <1>1 DEF InPlace
<1>5. ReadSoFar' = ReadSoFar
  BY FileReadReads
<1>6. InOrder'
  <2>1. input[file].valid
    BY <1>1, <1>2 DEF InPlace
  <2>2. /\ \A f \in DOMAIN input : f < file => input[f].valid
        /\ \A x \in ReadSoFar : Loadable(x)
        /\ \A x, y \in ReadSoFar : ~Clash(x, y)
    BY <1>2 DEF InOrder
  <2>3. \A f \in DOMAIN input : f \in Nat
    BY InputsAssumption, IsSeqFacts DEF TypeInv
  <2>4. \A f \in DOMAIN input : f < file' => f < file \/ f = file
    BY <1>1, <2>3
  <2>5. \A f \in DOMAIN input' : f < file' => input'[f].valid
    BY <1>1, <2>1, <2>2, <2>4
  <2>6. QED
    BY <1>5, <2>2, <2>5 DEF InOrder
<1>7. Registered'
  BY <1>1, <1>2, <1>5, RegisteredIs, RegisteredNext
<1>8. QED
  BY <1>1, <1>3, <1>6, <1>7 DEF LoadInv

LEMMA ReadFileLoad ==
  ASSUME TypeInv, ret, LoadInv, ReadFile
  PROVE  VerdictKept
<1>1. /\ UNCHANGED <<input, at, scheme, phase>> /\ phase = "load" /\ file <= Len(input)
      /\ stack = <<>> /\ file \in Nat \ {0} /\ input \in Inputs
  BY DEF ReadFile, TypeInv
<1>2. InPlace /\ InOrder /\ Registered
  BY <1>1 DEF LoadInv
<1>3. at = 1
  BY <1>1, <1>2 DEF InPlace
<1>4. file \in DOMAIN input /\ IsSeq(input[file].tags) /\ Len(input[file].tags) \in Nat
  BY <1>1, InputFacts
<1>5. CASE input[file].valid
  <2>1. stack' = <<[tag |-> "KLISH", id |-> NoEntry]>> /\ UNCHANGED <<file, ret>>
    BY <1>5 DEF ReadFile
  <2>2. PICK v : v = WhereRoot
    OBVIOUS
  <2>3. Where(input[file].tags)[1] = v
    BY <1>4, <2>2, WhereDef
  <2>4. Matches(v)'
    <3>1. \A x : Len(<<x>>) = 1 /\ <<x>>[1] = x
      OBVIOUS
    <3>2. Len(stack') = 1 /\ stack'[1].tag = "KLISH" /\ stack'[1].id = <<>>
      BY <2>1, <3>1 DEF NoEntry
    <3>3. Len(v) = 1 /\ v[1].tag = "KLISH"
      BY <2>2, <3>1 DEF WhereRoot
    <3>4. Path(v, 1) = <<>>
      <4>1. IsSeq(Path(v, 1)) /\ Len(Path(v, 1)) = 0
        BY PathIsSeq
      <4>2. QED
        BY <4>1, IsSeqFacts
    <3>5. \A k \in 1..1 : k = 1
      OBVIOUS
    <3>6. QED
      BY <3>2, <3>3, <3>4, <3>5 DEF Matches, Holds
  <2>5. stack' # <<>>
    BY <2>1
  <2>6. InPlace'
    <3>1. /\ Where(input'[file'].tags)[at'] = v /\ file' <= Len(input')
          /\ at' <= Len(input'[file'].tags) + 1 /\ input'[file'].valid
      BY <1>1, <1>3, <1>4, <1>5, <2>1, <2>3
    <3>2. QED
      BY <2>4, <2>5, <3>1, PlaceNext
  <2>7. ReadSoFar' = ReadSoFar
    <3>1. \A x : Before(x)' <=> Before(x)
      BY <1>1, <2>1 DEF Before
    <3>2. QED
      BY <1>1, <3>1, NoneRead
  <2>8. InOrder'
    BY <1>1, <1>2, <2>1, <2>7, OrderKept
  <2>9. Registered'
    BY <1>1, <1>2, <2>7, RegisteredIs, RegisteredNext
  <2>10. QED
    BY <1>1, <2>1, <2>6, <2>8, <2>9 DEF LoadInv, VerdictKept
<1>6. CASE ~input[file].valid
  <2>1. ret' = FALSE
    BY <1>6 DEF ReadFile
  <2>2. ~AllLoadable
    BY <1>4, <1>6 DEF AllLoadable
  <2>3. QED
    BY <2>1, <2>2 DEF VerdictKept
<1>7. QED
  BY <1>5, <1>6

LEMMA LoadKeepsErrors ==
  ASSUME Load
  PROVE  ret' = ret \/ ret' = FALSE
BY DEF Load, ReadFile, FileRead, UnknownTag, ProcessEntry, ProcessView, ProcessPtype,
   ProcessParam, ProcessCommand, ParseIentry, CloseElement, ProcessAction,
   ProcessHotkey, ProcessPlugin, Enter, Accept, Reject

LEMMA LoadNext ==
  ASSUME TypeInv, LoadInv, Load
  PROVE  LoadInv'
<1>1. phase = "load" /\ UNCHANGED <<input, phase>> /\ ret' \in BOOLEAN /\ ret \in BOOLEAN
  BY LoadSteps DEF LoadStep, TypeInv
<1>2. AllLoadable' <=> AllLoadable
  BY <1>1, SameInput
<1>3. CASE ~ret
  <2>1. ~ret' /\ ~AllLoadable'
    BY <1>1, <1>2, <1>3, LoadKeepsErrors DEF LoadInv
  <2>2. QED
    BY <2>1 DEF LoadInv
<1>4. CASE ret
  <2> SUFFICES VerdictKept
    BY <1>2 DEF LoadInv, VerdictKept
  <2>1. ASSUME NEW tags, \A t \in tags : IsEntryTag(t), Enter(tags, EntryAdded)
        PROVE  VerdictKept
    <3>1. Reading /\ IsEntryTag(Elem.tag)
      BY <2>1 DEF Enter
    <3>2. CanAdd(Ientry(Elem)) => Grown(scheme, EntryAdded)
      BY <3>1, EntryGrown DEF GrownBy
    <3>3. QED
      BY <1>4, <2>1, <3>2, EnterLoad
  <2>2. /\ \A t \in {"ENTRY"} : IsEntryTag(t)
        /\ \A t \in {"VIEW"} : IsEntryTag(t)
        /\ \A t \in {"PTYPE"} : IsEntryTag(t)
        /\ \A t \in ParamTags : IsEntryTag(t)
        /\ \A t \in CommandTags : IsEntryTag(t)
    BY DEF IsEntryTag
  <2>3. CASE ReadFile
    BY <1>4, <2>3, ReadFileLoad
  <2>4. CASE FileRead
    BY <1>4, <2>4, FileReadLoad DEF VerdictKept
  <2>5. CASE UnknownTag
    <3>1. Reading /\ Elem.tag = "unknown" /\ ret' = FALSE
      BY <2>5 DEF UnknownTag, Reject
    <3>2. InPlace /\ Elem.tag # "/"
      BY <1>1, <1>4, <3>1 DEF LoadInv
    <3>3. Current.el = Elem
      BY <3>1, <3>2, CurrentFacts
    <3>4. ~Loadable(Current)
      BY <3>1, <3>3 DEF Loadable, HasName, Fits
    <3>5. ~AllLoadable
      BY <1>4, <3>1, <3>2, <3>4, Unfit
    <3>6. QED
      BY <3>1, <3>5 DEF VerdictKept
  <2>6. CASE ProcessEntry
    BY <2>1, <2>2, <2>6 DEF ProcessEntry
  <2>7. CASE ProcessView
    BY <2>1, <2>2, <2>7 DEF ProcessView
  <2>8. CASE ProcessPtype
    BY <2>1, <2>2, <2>8 DEF ProcessPtype
  <2>9. CASE ProcessCommand
    BY <2>1, <2>2, <2>9 DEF ProcessCommand
  <2>10. CASE ParseIentry
    BY <2>1, <2>2, <2>10 DEF ParseIentry
  <2>11. CASE ProcessParam
    <3> DEFINE s == IF "ptype" \in DOMAIN Elem.attr
                    THEN CreatePtypeLink(EntryAdded, EntryId, Elem.attr.ptype)
                    ELSE EntryAdded
    <3>1. Enter(ParamTags, s) /\ Reading /\ IsEntryTag(Elem.tag)
      BY <2>11, <2>2 DEF ProcessParam, Enter
    <3>2. CanAdd(Ientry(Elem)) => Grown(scheme, s)
      <4>1. CASE "ptype" \in DOMAIN Elem.attr
        BY <4>1, <3>1, ParamGrown
      <4>2. CASE "ptype" \notin DOMAIN Elem.attr
        BY <4>2, <3>1, EntryGrown DEF GrownBy
      <4>3. QED
        BY <4>1, <4>2
    <3> HIDE DEF s
    <3>3. QED
      BY <1>4, <2>2, <3>1, <3>2, EnterLoad
  <2>12. CASE CloseElement
    BY <1>4, <2>12, CloseLoad DEF VerdictKept
  <2>13. CASE ProcessAction
    BY <1>4, <2>13, ActionLoad
  <2>14. CASE ProcessHotkey
    BY <1>4, <2>14, HotkeyLoad
  <2>15. CASE ProcessPlugin
    BY <1>4, <2>15, PluginLoad
  <2>16. QED
    BY <2>3, <2>4, <2>5, <2>6, <2>7, <2>8, <2>9, <2>10, <2>11, <2>12, <2>13, <2>14, <2>15
       DEF Load
<1>5. QED
  BY <1>1, <1>3, <1>4

LEMMA ReadAll ==
  ASSUME TypeInv, file > Len(input)
  PROVE  ReadSoFar = Elements /\ \A f \in DOMAIN input : f < file
<1>1. file \in Nat /\ IsSeq(input)
  BY InputsAssumption DEF TypeInv
<1>2. \A f \in DOMAIN input : f < file
  BY <1>1, IsSeqFacts
<1>3. \A x \in Elements : x.file \in DOMAIN input
  BY ElementFacts
<1>4. QED
  BY <1>2, <1>3 DEF ReadSoFar, Before

LEMMA AllRead ==
  ASSUME TypeInv, LoadInv
  PROVE  phase = "load" /\ file > Len(input) => (ret <=> AllLoadable)
<1> SUFFICES ASSUME phase = "load", file > Len(input) PROVE ret <=> AllLoadable
  OBVIOUS
<1>1. CASE ~ret
  BY <1>1 DEF LoadInv
<1>2. CASE ret
  BY <1>2, ReadAll DEF LoadInv, InOrder, AllLoadable
<1>3. QED
  BY <1>1, <1>2
-----------------------------------------------------------------------------
(* Preparing keeps the verdict: what is to blame for an error stays.       *)
BoundTo(plugins, a) == [a EXCEPT !.bound = Bound(plugins, a)]
LEMMA BindIs ==
  /\ \A a : Bind(a) = BoundTo(scheme.plugins, a)
  /\ \A a : Bind(a)' = BoundTo(scheme'.plugins, a)
<1>1. \A a : Bind(a) = BoundTo(scheme.plugins, a)
  BY FindSymBound DEF Bind, BoundTo
<1>2. \A a : Bind(a)' = BoundTo(scheme'.plugins, a)
  BY DEF Bind, BoundTo, FindSym, Exports, Bound
<1>3. QED
  BY <1>1, <1>2

LEMMA BoundTwice ==
  ASSUME NEW plugins, NEW a, {"sym", "plugin", "sync", "bound"} \subseteq DOMAIN a
  PROVE  BoundTo(plugins, BoundTo(plugins, a)) = BoundTo(plugins, a)
<1> DEFINE c == Bound(plugins, a)
           b == [a EXCEPT !.bound = c]
<1>1. b = BoundTo(plugins, a)
  BY DEF BoundTo
<1>2. b.sym = a.sym /\ b.plugin = a.plugin /\ b.bound = c
  OBVIOUS
<1>3. [b EXCEPT !.bound = c] = b
  OBVIOUS
<1>4. Bound(plugins, b) = c
  <2> HIDE DEF b
  <2>1. Bound(plugins, b) = Bound(plugins, a)
    BY <1>2 DEF Bound
  <2>2. QED
    BY <2>1
<1> HIDE DEF b, c
<1>5. BoundTo(plugins, b) = [b EXCEPT !.bound = c]
  BY <1>4 DEF BoundTo
<1>6. QED
  BY <1>1, <1>3, <1>5

LEMMA FitsByFilter ==
  ASSUME NEW e, NEW d, e.attr.filter = d.attr.filter, NEW a
  PROVE  ActionFits(e, a) <=> ActionFits(d, a)
BY DEF ActionFits

Misfit(e, plugins, i) == ~ActionFits(e, BoundTo(plugins, e.actions[i]))
LinkIn(live, entry) == \E id \in live : entry[id].attr.ref # None
MisfitIn(live, entry, plugins) ==
  \E id \in live :
    /\ entry[id].attr.ref = None
    /\ \E i \in 1..Len(entry[id].actions) : Misfit(entry[id], plugins, i)
LEMMA BlamedIs ==
  ASSUME \A id \in Live : IsSeq(scheme.entry[id].actions)
  PROVE  Blamed <=> LinkIn(Live, scheme.entry)
                      \/ MisfitIn(Live, scheme.entry, scheme.plugins)
<1>1. ActionsFit <=>
        \A id \in Live : Ref(id) = None =>
          \A a \in ToSet(Entry(id).actions) :
            ActionFits(Entry(id), BoundTo(scheme.plugins, a))
  BY BindIs DEF ActionsFit
<1>2. \A id \in Live : \A a :
        a \in ToSet(scheme.entry[id].actions) <=>
          \E i \in 1..Len(scheme.entry[id].actions) : scheme.entry[id].actions[i] = a
  BY IsSeqFacts
<1>3. ~ActionsFit <=> MisfitIn(Live, scheme.entry, scheme.plugins)
  BY <1>1, <1>2 DEF MisfitIn, Misfit, Ref, Entry
<1>4. QED
  BY <1>3 DEF Blamed, LinkIn, Ref, Entry

LEMMA BlamedNext ==
  ASSUME \A id \in Live' : IsSeq(scheme'.entry[id].actions)
  PROVE  Blamed' <=> LinkIn(Live', scheme'.entry)
                       \/ MisfitIn(Live', scheme'.entry, scheme'.plugins)
<1>1. ActionsFit' <=>
        \A id \in Live' : Ref(id)' = None =>
          \A a \in ToSet(Entry(id)'.actions) :
            ActionFits(Entry(id)', BoundTo(scheme'.plugins, a))
  BY BindIs DEF ActionsFit
<1>2. \A id \in Live' : \A a :
        a \in ToSet(scheme'.entry[id].actions) <=>
          \E i \in 1..Len(scheme'.entry[id].actions) : scheme'.entry[id].actions[i] = a
  BY IsSeqFacts
<1>3. ~ActionsFit' <=> MisfitIn(Live', scheme'.entry, scheme'.plugins)
  BY <1>1, <1>2 DEF MisfitIn, Misfit, Ref, Entry
<1>4. QED
  BY <1>3 DEF Blamed, LinkIn, Ref, Entry

LEMMA LiveSame ==
  ASSUME SameShape
  PROVE  Live' = Live
<1>1. DOMAIN scheme'.entry = DOMAIN scheme.entry
      /\ \A x \in DOMAIN scheme.entry : Ref(x)' = Ref(x)
  BY RefSame DEF SameShape
<1>2. QED
  BY <1>1 DEF Live

(* What was bound before is bound to the same symbol again.                *)
ActionsKept(x) ==
  /\ scheme'.entry[x].attr.filter = scheme.entry[x].attr.filter
  /\ Len(scheme'.entry[x].actions) = Len(scheme.entry[x].actions)
  /\ \A i \in 1..Len(scheme.entry[x].actions) :
       \/ scheme'.entry[x].actions[i] = scheme.entry[x].actions[i]
       \/ scheme'.entry[x].actions[i] = Bind(scheme.entry[x].actions[i])
LEMMA BlamedKept ==
  ASSUME TypeInv, IsTree(scheme'), SameShape, Blamed,
         \A x \in DOMAIN scheme.entry : Ref(x) = None => ActionsKept(x)
  PROVE  Blamed'
<1>1. Live' = Live /\ Live \subseteq DOMAIN scheme.entry
      /\ DOMAIN scheme'.entry = DOMAIN scheme.entry /\ scheme'.plugins = scheme.plugins
  BY LiveSame DEF Live, SameShape
<1>2. /\ \A id \in Live : HasFields(scheme.entry[id])
      /\ \A id \in Live' : HasFields(scheme'.entry[id])
  BY <1>1 DEF TypeInv, IsTree
<1>3. /\ \A id \in Live : IsSeq(scheme.entry[id].actions)
      /\ \A id \in Live' : IsSeq(scheme'.entry[id].actions)
  BY <1>2 DEF HasFields
<1>4. \A x \in Live : scheme'.entry[x].attr.ref = scheme.entry[x].attr.ref
  BY <1>1 DEF SameShape
<1>5. LinkIn(Live, scheme.entry) \/ MisfitIn(Live, scheme.entry, scheme.plugins)
  BY <1>3, BlamedIs
<1>6. CASE LinkIn(Live, scheme.entry)
  <2>1. LinkIn(Live', scheme'.entry)
    BY <1>1, <1>4, <1>6 DEF LinkIn
  <2>2. QED
    BY <1>3, <2>1, BlamedNext
<1>7. CASE MisfitIn(Live, scheme.entry, scheme.plugins)
  <2>0. PICK x \in Live :
          /\ scheme.entry[x].attr.ref = None
          /\ \E i \in 1..Len(scheme.entry[x].actions) :
               Misfit(scheme.entry[x], scheme.plugins, i)
    BY <1>7 DEF MisfitIn
  <2>1. PICK i \in 1..Len(scheme.entry[x].actions) :
          scheme.entry[x].attr.ref = None /\ Misfit(scheme.entry[x], scheme.plugins, i)
    BY <2>0
  <2>2. ActionsKept(x)
    BY <1>1, <2>1 DEF Ref, Entry
  <2>3. PICK a : a = scheme.entry[x].actions[i]
    OBVIOUS
  <2>4. PICK b : b = scheme'.entry[x].actions[i]
    OBVIOUS
  <2>5. {"sym", "plugin", "sync", "bound"} \subseteq DOMAIN a
    BY <1>2, <2>1, <2>3 DEF HasFields
  <2>6. BoundTo(scheme.plugins, b) = BoundTo(scheme.plugins, a)
    <3>1. b = a \/ b = BoundTo(scheme.plugins, a)
      BY <2>2, <2>3, <2>4, BindIs DEF ActionsKept
    <3>2. QED
      BY <2>5, <3>1, BoundTwice
  <2>7. scheme'.entry[x].attr.filter = scheme.entry[x].attr.filter
        /\ Len(scheme'.entry[x].actions) = Len(scheme.entry[x].actions)
    BY <2>2 DEF ActionsKept
  <2>8. ~ActionFits(scheme.entry[x], BoundTo(scheme.plugins, a))
    BY <2>1, <2>3 DEF Misfit
  <2>9. ~ActionFits(scheme'.entry[x], BoundTo(scheme'.plugins, b))
    BY <1>1, <2>6, <2>7, <2>8, FitsByFilter
  <2>10. Misfit(scheme'.entry[x], scheme'.plugins, i)
    BY <2>4, <2>9 DEF Misfit
  <2>11. MisfitIn(Live', scheme'.entry, scheme'.plugins)
    BY <1>1, <1>4, <2>1, <2>7, <2>10 DEF MisfitIn
  <2>12. QED
    BY <1>3, <2>11, BlamedNext
<1>8. QED
  BY <1>5, <1>6, <1>7

LEMMA SameBlame ==
  ASSUME TypeInv, IsTree(scheme'), SameShape, phase = "prepare",
         VerdictInv, input' = input, phase' = "prepare",
         \A x \in DOMAIN scheme.entry : Ref(x) = None => ActionsKept(x),
         ~ret' => ~ret \/ Blamed
  PROVE  VerdictInv'
<1>1. AllLoadable' /\ PluginsLoad'
  <2>1. AllLoadable /\ PluginsLoad /\ scheme'.plugins = scheme.plugins
    BY DEF VerdictInv, SameShape
  <2>2. QED
    BY <2>1, SameInput DEF PluginsLoad
<1>2. ~ret' => Blamed'
  BY BlamedKept DEF VerdictInv
<1>3. QED
  BY <1>1, <1>2 DEF VerdictInv

LEMMA UntouchedActions ==
  ASSUME NEW x, Untouched(x)
  PROVE  ActionsKept(x)
BY DEF Untouched, ActionsKept

LEMMA PrepareEntryVerdict ==
  ASSUME Inv, VerdictInv, PrepareEntry
  PROVE  VerdictInv'
<1>1. PICK id : id = Head(todo)
  OBVIOUS
<1>2. Prepared(id)
  BY <1>1, PrepareEntryResult
<1>3. TypeInv /\ AgendaInv /\ phase = "prepare" /\ todo # <<>> /\ UNCHANGED <<input, phase>>
  BY DEF Inv, PrepareInv, PrepareEntry
<1>4. /\ id \in DOMAIN scheme.entry /\ id \in ToSet(todo) /\ Ref(id) = None
      /\ IsTree(scheme') /\ SameShape
      /\ \A x \in DOMAIN scheme.entry : x # id => Untouched(x)
  BY <1>2 DEF Prepared
<1>5. ActionsKept(id)
  BY <1>2 DEF Prepared, ActionsKept
<1>6. \A x \in DOMAIN scheme.entry : Ref(x) = None => ActionsKept(x)
  BY <1>4, <1>5, UntouchedActions
<1>7. ASSUME ret, ~ret' PROVE Blamed
  <2>1. id \in Live
    BY <1>3, <1>4, LiveOffLinks DEF AgendaInv
  <2> DEFINE actions == Entry(id).actions
             new == [i \in DOMAIN actions |-> Bind(actions[i])]
  <2>2. ret' = (ret /\ \A i \in DOMAIN new : ActionFits(Entry(id), new[i]))
    BY <1>1 DEF PrepareEntry
  <2>3. PICK i \in DOMAIN actions : ~ActionFits(Entry(id), Bind(actions[i]))
    BY <1>7, <2>2
  <2>4. actions[i] \in ToSet(actions)
    BY DEF ToSet
  <2> HIDE DEF actions
  <2>5. ~ActionsFit
    BY <1>4, <2>1, <2>3, <2>4 DEF ActionsFit, actions
  <2>6. QED
    BY <2>5 DEF Blamed
<1>8. QED
  BY <1>3, <1>4, <1>6, <1>7, SameBlame

LEMMA FollowVerdict ==
  ASSUME Inv, VerdictInv, Follow
  PROVE  VerdictInv'
<1>1. /\ TypeInv /\ AgendaInv /\ phase = "prepare" /\ todo # <<>>
      /\ UNCHANGED <<input, scheme, phase>> /\ Ref(Head(todo)) # None
  BY DEF Inv, PrepareInv, Follow
<1>2. /\ IsTree(scheme') /\ SameShape
      /\ \A x \in DOMAIN scheme.entry : Ref(x) = None => ActionsKept(x)
  BY <1>1, UnchangedShape, UntouchedActions DEF TypeInv
<1>3. PICK id : id = Head(todo)
  OBVIOUS
<1>4. id \in ToSet(todo) /\ id \in DOMAIN scheme.entry
  BY <1>1, <1>3, HeadTail DEF AgendaInv
<1>5. Blamed
  <2>1. id \in Live
    BY <1>1, <1>4, LiveOffLinks DEF AgendaInv
  <2>2. QED
    BY <1>1, <1>3, <2>1 DEF Blamed
<1>6. QED
  BY <1>1, <1>2, <1>5, SameBlame

LEMMA LinkVerdict ==
  ASSUME Inv, VerdictInv, Link
  PROVE  VerdictInv'
<1>1. PICK id : id = Head(todo)
  OBVIOUS
<1>2. TypeInv /\ phase = "prepare" /\ UNCHANGED <<input, phase, ret>>
  BY DEF Inv, Link
<1>3. /\ IsTree(scheme') /\ SameShape /\ Ref(id) # None
      /\ \A x \in DOMAIN scheme.entry : x # id => Untouched(x)
  BY <1>1, LinkResult
<1>4. \A x \in DOMAIN scheme.entry : Ref(x) = None => ActionsKept(x)
  BY <1>3, UntouchedActions
<1>5. QED
  BY <1>2, <1>3, <1>4, SameBlame

(* The steps that leave input and scheme alone.                            *)
LEMMA VerdictSame ==
  ASSUME UNCHANGED <<input, scheme>>
  PROVE  /\ AllLoadable' <=> AllLoadable
         /\ PluginsLoad' <=> PluginsLoad
         /\ Blamed' <=> Blamed
<1>1. AllLoadable' <=> AllLoadable
  BY SameInput
<1>2. PluginsLoad' <=> PluginsLoad
  BY DEF PluginsLoad
<1>3. Live' = Live
  BY DEF Live, Ref, Entry
<1>4. ActionsFit' <=> ActionsFit
  <2>1. \A a : Bind(a)' = Bind(a)
    BY BindIs
  <2>2. QED
    BY <1>3, <2>1 DEF ActionsFit, Ref, Entry
<1>5. QED
  BY <1>1, <1>2, <1>3, <1>4 DEF Blamed, Ref, Entry

LEMMA NextTopVerdict ==
  ASSUME Inv, VerdictInv, NextTop
  PROVE  VerdictInv'
<1>1. /\ phase = "prepare" /\ UNCHANGED <<input, scheme, ret>>
      /\ \/ phase' = "prepare"
         \/ phase' = "ready"
         \/ phase' = "failed" /\ ~ret
  BY DEF NextTop
<1>2. QED
  BY <1>1, VerdictSame DEF VerdictInv

LEMMA StartPrepareVerdict ==
  ASSUME Inv, LoadInv, StartPrepare
  PROVE  VerdictInv'
<1>1. /\ phase = "load" /\ file > Len(input) /\ UNCHANGED <<input, scheme, ret>>
      /\ phase' = IF ret /\ PluginsLoad THEN "prepare" ELSE "failed"
  BY DEF StartPrepare, PluginsLoad
<1>2. ret <=> AllLoadable
  BY <1>1, AllRead DEF Inv
<1>3. QED
  BY <1>1, <1>2, VerdictSame DEF VerdictInv

VerdictKnown == Inv /\ LoadInv /\ VerdictInv
LEMMA InitVerdict == Init => VerdictKnown
<1> SUFFICES ASSUME Init PROVE VerdictKnown
  OBVIOUS
<1>1. Inv /\ VerdictInv
  BY InitInv DEF Init, VerdictInv
<1>2. ReadSoFar = {}
  <2>1. TypeInv
    BY <1>1 DEF Inv
  <2>2. \A x \in Elements : x.file \in Nat \ {0} /\ x.at \in Nat \ {0}
    BY <2>1, ElementType
  <2>3. \A x \in Elements : ~Before(x)
    BY <2>2 DEF Init, Before
  <2>4. QED
    BY <2>3 DEF ReadSoFar
<1>3. InPlace
  BY DEF Init, InPlace
<1>4. InOrder
  <2>1. \A f \in DOMAIN input : ~(f < 1)
    BY InputsAssumption, IsSeqFacts DEF Init
  <2>2. QED
    BY <1>2, <2>1 DEF InOrder, Init
<1>5. Registered
  <2>1. scheme.plugins = {} /\ DOMAIN scheme.entry = {}
    BY EmptySeq, LenProperties DEF Init
  <2>2. QED
    BY <1>2, <2>1 DEF Registered, PluginsRegistered, HotkeysRegistered
<1>6. LoadInv
  BY <1>3, <1>4, <1>5 DEF Init, LoadInv
<1>7. QED
  BY <1>1, <1>6 DEF VerdictKnown

LEMMA SameLoad ==
  ASSUME LoadInv, UNCHANGED <<input, file, at, stack, scheme, phase, ret>>
  PROVE  LoadInv'
<1>1. ReadSoFar' = ReadSoFar
  <2>1. \A x : Before(x)' <=> Before(x)
    BY DEF Before
  <2>2. QED
    BY <2>1, NoneRead
<1>2. InPlace => InPlace'
  BY DEF InPlace, Matches
<1>3. InOrder => InOrder'
  BY <1>1, OrderKept
<1>4. Registered => Registered'
  BY <1>1, RegisteredIs, RegisteredNext
<1>5. AllLoadable' <=> AllLoadable
  BY SameInput
<1>6. QED
  BY <1>2, <1>3, <1>4, <1>5 DEF LoadInv

LEMMA NextVerdict == VerdictKnown /\ [Next]_vars => VerdictKnown'
<1> SUFFICES ASSUME Inv, LoadInv, VerdictInv, [Next]_vars PROVE LoadInv' /\ VerdictInv'
  BY NextInv DEF VerdictKnown
<1>1. CASE Load
  <2>1. phase' = "load"
    BY <1>1, LoadSteps DEF LoadStep, Inv
  <2>2. QED
    BY <1>1, <2>1, LoadNext DEF VerdictInv, Inv
<1>2. CASE UNCHANGED vars
  <2>1. UNCHANGED <<input, file, at, stack, scheme, phase, ret>>
    BY <1>2 DEF vars
  <2>2. VerdictInv'
    BY <2>1, VerdictSame DEF VerdictInv
  <2>3. LoadInv'
    BY <2>1, SameLoad
  <2>4. QED
    BY <2>2, <2>3
<1>3. CASE StartPrepare
  <2>1. phase' # "load"
    BY <1>3 DEF StartPrepare
  <2>2. QED
    BY <1>3, <2>1, StartPrepareVerdict DEF LoadInv
<1>4. CASE PrepareEntry \/ Follow \/ Link \/ NextTop
  <2>1. phase' # "load"
    BY <1>4 DEF PrepareEntry, Follow, Link, NextTop
  <2>2. QED
    BY <1>4, <2>1, PrepareEntryVerdict, FollowVerdict, LinkVerdict, NextTopVerdict DEF LoadInv
<1>5. QED
  BY <1>1, <1>2, <1>3, <1>4 DEF Next, Load

(* The verdict is right for every configuration: loading reports an error  *)
(* just when there is one, a scheme is ready only if it is sound, and one  *)
(* without links is refused only if it is not; where the manual and the    *)
(* loader disagree, either verdict is.                                     *)
THEOREM SchemeVerdict == Spec => []Verdict
<1>1. Spec => []VerdictKnown
  BY InitVerdict, NextVerdict, PTL DEF Spec
<1>2. VerdictKnown => Verdict
  <2> SUFFICES ASSUME Inv, LoadInv, VerdictInv PROVE Verdict
    BY DEF VerdictKnown
  <2>1. LoadVerdict
    BY AllRead, LoadableIs DEF Inv, LoadVerdict, Disputed
  <2>2. ASSUME phase = "ready" PROVE ActionsFit
    <3>1. /\ TypeInv /\ ret
          /\ \A x \in DOMAIN scheme.entry : OffLinks(x) => Done(x)
      BY <2>2 DEF Inv, PrepareInv, CoverInv
    <3>2. ASSUME NEW id \in Live, Ref(id) = None, NEW a \in ToSet(Entry(id).actions)
          PROVE  ActionFits(Entry(id), Bind(a))
      <4>1. id \in DOMAIN scheme.entry /\ Ready(id)
        BY <3>1, <3>2, LiveOffLinks DEF Live, Done
      <4>2. IsSeq(Entry(id).actions) /\ HasFields(Entry(id))
        BY <3>1, <4>1, TreeFacts DEF HasFields
      <4>3. PICK i \in 1..Len(Entry(id).actions) : Entry(id).actions[i] = a
        BY <3>2, <4>2, IsSeqFacts
      <4>4. a.bound = Bound(scheme.plugins, a) /\ ActionFits(Entry(id), a)
        BY <3>1, <4>1, <4>3 DEF Ready
      <4>5. /\ Bind(a).bound = a.bound /\ Bind(a).sym = a.sym /\ Bind(a).sync = a.sync
        <5>1. {"sym", "plugin", "sync", "bound"} \subseteq DOMAIN a
          BY <4>2, <4>3 DEF HasFields
        <5>2. QED
          BY <4>4, <5>1, BindIs DEF BoundTo
      <4>6. ActionFits(Entry(id), Bind(a)) <=> ActionFits(Entry(id), a)
        BY <4>5 DEF ActionFits, IsSync
      <4>7. QED
        BY <4>4, <4>6
    <3>3. QED
      BY <3>2 DEF ActionsFit
  <2>3. QED
    BY <2>1, <2>2, LoadableIs DEF Verdict, VerdictInv, Blamed, Disputed
<1>3. QED
  BY <1>1, <1>2, PTL
-----------------------------------------------------------------------------
(* What is loaded is what is written.  The claim for the elements read so  *)
(* far is kept by each handler: an element adds its own part, and keeps    *)
(* that of the others.                                                     *)
AttrsIn(xs, entry) ==
  \A x \in EntriesAmong(xs) :
    /\ IdOf(x) \in DOMAIN entry
    /\ \A a \in DOMAIN Ientry(x.el) :
         \/ /\ a \in DOMAIN entry[IdOf(x)].attr
            /\ entry[IdOf(x)].attr[a] = Ientry(x.el)[a]
         \/ \E y \in EntriesAmong(xs) :
              After(y, x) /\ IdOf(y) = IdOf(x) /\ a \in DOMAIN Ientry(y.el)
LaterActions(xs, x) == {y \in ActionsAmong(xs) : y.in = x.in /\ After(y, x)}
ActionOf(x) == Over(x.el.attr, Action(None, None))
IsAt(entry, x, n) ==
  LET i == Len(entry[x.in].actions) - n
  IN i \in DOMAIN entry[x.in].actions /\ entry[x.in].actions[i] = ActionOf(x)
ActionsIn(xs, entry) ==
  \A x \in ActionsAmong(xs) :
    x.in \in DOMAIN entry /\ IsAt(entry, x, Cardinality(LaterActions(xs, x)))
AsWritten(xs, entry) ==
  IsFiniteSet(xs) /\ AttrsIn(xs, entry) /\ ActionsIn(xs, entry)
LEMMA AsWrittenIs ==
  ASSUME NEW xs
  PROVE  AttrsLoaded(xs) /\ ActionsLoaded(xs)
           <=> AttrsIn(xs, scheme.entry) /\ ActionsIn(xs, scheme.entry)
<1>1. AttrsLoaded(xs) <=> AttrsIn(xs, scheme.entry)
  BY DEF AttrsLoaded, AttrsIn, Entry
<1>2. ActionsLoaded(xs) <=> ActionsIn(xs, scheme.entry)
  BY DEF ActionsLoaded, ActionsIn, IsAt, LaterActions, ActionOf, Entry
<1>3. QED
  BY <1>1, <1>2

(* An element is put behind all that were read before it.                  *)
Newest(xs, c) == \A y \in xs : After(c, y) /\ ~After(y, c)
LEMMA CurrentNewest ==
  ASSUME TypeInv, NEW c, c.file = file, c.at = at
  PROVE  Newest(ReadSoFar, c) /\ ~After(c, c)
<1>1. file \in Nat /\ at \in Nat
  BY DEF TypeInv
<1>2. \A y \in ReadSoFar : y.file \in Nat /\ y.at \in Nat /\ Before(y)
  BY ElementType DEF ReadSoFar
<1>3. QED
  BY <1>1, <1>2 DEF Newest, After, Before

LEMMA OtherAsWritten ==
  ASSUME NEW s, NEW t, Keeps(s, t), NEW xs, AsWritten(xs, s.entry), NEW ys,
         ys = xs \/ \E c : ys = xs \cup {c} /\ c.el.tag # "ACTION" /\ ~IsEntryTag(c.el.tag)
  PROVE  AsWritten(ys, t.entry)
<1>1. /\ EntriesAmong(ys) = EntriesAmong(xs) /\ ActionsAmong(ys) = ActionsAmong(xs)
  BY DEF EntriesAmong, ActionsAmong
<1>2. IsFiniteSet(ys)
  BY FS_AddElement DEF AsWritten
<1>3. AttrsIn(ys, t.entry)
  BY <1>1 DEF AsWritten, AttrsIn, Keeps, SameText
<1>4. ActionsIn(ys, t.entry)
  <2>1. \A x : LaterActions(ys, x) = LaterActions(xs, x)
    BY <1>1 DEF LaterActions
  <2>2. QED
    BY <1>1, <2>1 DEF AsWritten, ActionsIn, IsAt, Keeps, SameText
<1>5. QED
  BY <1>2, <1>3, <1>4 DEF AsWritten

(* An element that stands for an ENTRY.                                    *)
Described(s, t, id, info) ==
  /\ id \in DOMAIN t.entry
  /\ \A a \in DOMAIN info : a \in DOMAIN t.entry[id].attr /\ t.entry[id].attr[a] = info[a]
  /\ id \in DOMAIN s.entry =>
       /\ t.entry[id].actions = s.entry[id].actions
       /\ \A a \in DOMAIN s.entry[id].attr \ DOMAIN info :
            a \in DOMAIN t.entry[id].attr /\ t.entry[id].attr[a] = s.entry[id].attr[a]
  /\ DOMAIN s.entry \subseteq DOMAIN t.entry
  /\ \A x \in DOMAIN s.entry : x # id => SameText(s, t, x)
LEMMA EntryAsWritten ==
  ASSUME NEW s, NEW t, NEW xs, AsWritten(xs, s.entry), NEW c, Newest(xs, c),
         IsEntryTag(c.el.tag), Described(s, t, IdOf(c), Ientry(c.el))
  PROVE  AsWritten(xs \cup {c}, t.entry)
<1> DEFINE ys == xs \cup {c}
           id == IdOf(c)
<1>1. /\ EntriesAmong(ys) = EntriesAmong(xs) \cup {c} /\ ActionsAmong(ys) = ActionsAmong(xs)
      /\ EntriesAmong(xs) \subseteq xs
  <2>1. ~IsEntryTag("ACTION")
    BY DEF IsEntryTag, ParamTags, CommandTags, Special
  <2>2. QED
    BY <2>1 DEF EntriesAmong, ActionsAmong
<1>2. IsFiniteSet(ys)
  BY FS_AddElement DEF AsWritten
<1>3. ASSUME NEW x \in EntriesAmong(ys)
      PROVE  /\ IdOf(x) \in DOMAIN t.entry
             /\ \A a \in DOMAIN Ientry(x.el) :
                  \/ /\ a \in DOMAIN t.entry[IdOf(x)].attr
                     /\ t.entry[IdOf(x)].attr[a] = Ientry(x.el)[a]
                  \/ \E y \in EntriesAmong(ys) :
                       After(y, x) /\ IdOf(y) = IdOf(x) /\ a \in DOMAIN Ientry(y.el)
  <2>1. CASE x = c
    BY <2>1 DEF Described
  <2>2. CASE x \in EntriesAmong(xs)
    <3>1. /\ IdOf(x) \in DOMAIN s.entry /\ IdOf(x) \in DOMAIN t.entry
          /\ \A a \in DOMAIN Ientry(x.el) :
               \/ /\ a \in DOMAIN s.entry[IdOf(x)].attr
                  /\ s.entry[IdOf(x)].attr[a] = Ientry(x.el)[a]
               \/ \E y \in EntriesAmong(xs) :
                    After(y, x) /\ IdOf(y) = IdOf(x) /\ a \in DOMAIN Ientry(y.el)
      BY <2>2 DEF AsWritten, AttrsIn, Described
    <3>2. CASE IdOf(x) # id
      BY <1>1, <3>1, <3>2 DEF Described, SameText
    <3>3. CASE IdOf(x) = id
      <4>1. After(c, x) /\ c \in EntriesAmong(ys)
        BY <1>1, <2>2 DEF Newest
      <4>2. \A a \in DOMAIN s.entry[id].attr \ DOMAIN Ientry(c.el) :
              a \in DOMAIN t.entry[id].attr /\ t.entry[id].attr[a] = s.entry[id].attr[a]
        BY <3>1, <3>3 DEF Described
      <4>3. QED
        BY <1>1, <3>1, <3>3, <4>1, <4>2
    <3>4. QED
      BY <3>2, <3>3
  <2>3. QED
    BY <1>1, <2>1, <2>2
<1>4. AttrsIn(ys, t.entry)
  BY <1>3 DEF AttrsIn
<1>5. ActionsIn(ys, t.entry)
  <2>1. \A x : LaterActions(ys, x) = LaterActions(xs, x)
    BY <1>1 DEF LaterActions
  <2>2. \A x \in DOMAIN s.entry :
          x \in DOMAIN t.entry /\ t.entry[x].actions = s.entry[x].actions
    BY DEF Described, SameText
  <2>3. QED
    BY <1>1, <2>1, <2>2 DEF AsWritten, ActionsIn, IsAt
<1>6. QED
  BY <1>2, <1>4, <1>5 DEF AsWritten

(* An ACTION.                                                              *)
GetsAction(s, t, id, action) ==
  /\ DOMAIN t.entry = DOMAIN s.entry /\ id \in DOMAIN s.entry
  /\ IsSeq(s.entry[id].actions)
  /\ \A x \in DOMAIN s.entry : t.entry[x].attr = s.entry[x].attr
  /\ \A x \in DOMAIN s.entry : t.entry[x].actions =
       IF x = id THEN Append(s.entry[x].actions, action) ELSE s.entry[x].actions
LEMMA ActionAsWritten ==
  ASSUME NEW s, NEW t, NEW xs, AsWritten(xs, s.entry), NEW c, Newest(xs, c), ~After(c, c),
         c.el.tag = "ACTION", GetsAction(s, t, c.in, ActionOf(c))
  PROVE  AsWritten(xs \cup {c}, t.entry)
<1> DEFINE ys == xs \cup {c}
<1>1. /\ EntriesAmong(ys) = EntriesAmong(xs) /\ ActionsAmong(ys) = ActionsAmong(xs) \cup {c}
      /\ ActionsAmong(xs) \subseteq xs
  <2>1. ~IsEntryTag("ACTION")
    BY DEF IsEntryTag, ParamTags, CommandTags, Special
  <2>2. QED
    BY <2>1 DEF EntriesAmong, ActionsAmong
<1>2. IsFiniteSet(ys) /\ IsFiniteSet(xs)
  BY FS_AddElement DEF AsWritten
<1>3. AttrsIn(ys, t.entry)
  BY <1>1 DEF AsWritten, AttrsIn, GetsAction
<1> DEFINE old == s.entry[c.in].actions
           new == t.entry[c.in].actions
<1>4. /\ IsSeq(old) /\ c.in \in DOMAIN s.entry /\ DOMAIN t.entry = DOMAIN s.entry
      /\ new = Append(old, ActionOf(c))
  BY DEF GetsAction
<1> HIDE DEF old, new
<1>5. /\ Len(old) \in Nat /\ DOMAIN old = 1..Len(old)
      /\ Len(new) = Len(old) + 1 /\ DOMAIN new = 1..(Len(old) + 1)
      /\ \A i \in 1..Len(old) : new[i] = old[i]
      /\ new[Len(old) + 1] = ActionOf(c)
  BY <1>4, AppendFacts, IsSeqFacts
<1>6. ASSUME NEW x \in ActionsAmong(ys)
      PROVE  x.in \in DOMAIN t.entry /\ IsAt(t.entry, x, Cardinality(LaterActions(ys, x)))
  <2>1. CASE x = c
    <3>1. LaterActions(ys, c) = {}
      BY <1>1 DEF LaterActions, Newest
    <3>2. Cardinality(LaterActions(ys, c)) = 0
      BY <3>1, FS_EmptySet
    <3>3. Len(new) - 0 = Len(old) + 1 /\ Len(old) + 1 \in DOMAIN new
      BY <1>5
    <3>4. IsAt(t.entry, c, 0)
      BY <1>5, <3>3 DEF IsAt, new
    <3>5. QED
      BY <1>4, <2>1, <3>2, <3>4
  <2>2. CASE x # c
    <3>1. x \in ActionsAmong(xs) /\ x \in xs
      BY <1>1, <2>2
    <3>2. x.in \in DOMAIN s.entry /\ IsAt(s.entry, x, Cardinality(LaterActions(xs, x)))
      BY <3>1 DEF AsWritten, ActionsIn
    <3>3. CASE x.in # c.in
      <4>1. LaterActions(ys, x) = LaterActions(xs, x)
        BY <1>1, <3>3 DEF LaterActions
      <4>2. t.entry[x.in].actions = s.entry[x.in].actions
        BY <3>2, <3>3 DEF GetsAction
      <4>3. QED
        BY <1>4, <3>2, <4>1, <4>2 DEF IsAt
    <3>4. CASE x.in = c.in
      <4> DEFINE later == LaterActions(xs, x)
                 n == Cardinality(later)
      <4>1. LaterActions(ys, x) = later \cup {c}
        BY <1>1, <3>1, <3>4 DEF LaterActions, Newest
      <4>2. c \notin later
        <5>1. c \notin xs
          BY DEF Newest
        <5>2. QED
          BY <1>1, <5>1 DEF LaterActions
      <4>3. IsFiniteSet(later)
        <5>1. later \subseteq xs
          BY <1>1 DEF LaterActions
        <5>2. QED
          BY <1>2, <5>1, FS_Subset
      <4>4. n \in Nat /\ Cardinality(LaterActions(ys, x)) = n + 1
        BY <4>1, <4>2, <4>3, FS_AddElement, FS_CardinalityType
      <4>5. Len(old) - n \in DOMAIN old /\ old[Len(old) - n] = ActionOf(x)
        BY <3>2, <3>4 DEF IsAt, old
      <4> HIDE DEF n, later
      <4>6. /\ Len(new) - (n + 1) = Len(old) - n
            /\ Len(old) - n \in DOMAIN new /\ new[Len(old) - n] = ActionOf(x)
        BY <1>5, <4>4, <4>5
      <4>7. QED
        BY <1>4, <3>2, <3>4, <4>4, <4>6 DEF IsAt, new
    <3>5. QED
      BY <3>3, <3>4
  <2>3. QED
    BY <2>1, <2>2
<1>7. ActionsIn(ys, t.entry)
  BY <1>6 DEF ActionsIn
<1>8. QED
  BY <1>2, <1>3, <1>7 DEF AsWritten

(* What the handlers do to the text of ENTRYs.                             *)
LEMMA AddEntryDescribes ==
  ASSUME NEW s, IsTree(s), Unlinked(s), NEW up \in DOMAIN s.entry \cup {NoEntry},
         NEW info, IsInfo(info)
  PROVE  Described(s, AddEntry(s, up, info), Append(up, info.name), info)
<1> DEFINE id == Append(up, info.name)
           t == AddEntry(s, up, info)
<1>1. GrownBy(s, t, id)
  BY AddEntryGrown
<1>2. /\ id \in DOMAIN t.entry /\ DOMAIN s.entry \subseteq DOMAIN t.entry
      /\ \A x \in DOMAIN s.entry : x # id => SameText(s, t, x)
  BY <1>1 DEF GrownBy
<1>3. \A attr : /\ \A a \in DOMAIN info :
                     a \in DOMAIN Merge(info, attr) /\ Merge(info, attr)[a] = info[a]
                /\ \A a \in DOMAIN attr \ DOMAIN info :
                     a \in DOMAIN Merge(info, attr) /\ Merge(info, attr)[a] = attr[a]
  BY DEF Merge, Over
<1>4. CASE id \in DOMAIN s.entry
  <2>1. t = [s EXCEPT !.entry[id].attr = Merge(info, @)]
    BY <1>4 DEF AddEntry
  <2>2. /\ {"attr", "actions"} \subseteq DOMAIN s.entry[id]
        /\ {"plugins", "top", "entry"} \subseteq DOMAIN s
    BY <1>4 DEF IsTree, HasFields
  <2> DEFINE m == Merge(info, s.entry[id].attr)
  <2> HIDE DEF id, t, m
  <2>3. t = [s EXCEPT !.entry[id].attr = m]
    BY <2>1 DEF m
  <2>4. t.entry[id].attr = m /\ t.entry[id].actions = s.entry[id].actions
    BY <1>4, <2>2, <2>3
  <2>5. Described(s, t, id, info)
    BY <1>2, <1>3, <2>4 DEF Described, m
  <2>6. QED
    BY <2>5 DEF t, id
<1>5. CASE id \notin DOMAIN s.entry
  <2> DEFINE m == Merge(info, Defaults)
             e == Kentry(id, up, m)
  <2>1. t = AddKid(s, up, id, e)
    BY <1>5 DEF AddEntry
  <2>2. e.attr = m
    BY DEF Kentry
  <2> HIDE DEF e, m
  <2>3. {"plugins", "top", "entry"} \subseteq DOMAIN s /\ up # id
    <3>1. info.name \in Word /\ up \in Seq(Word)
      BY EmptySeq DEF IsInfo, IsTree, NoEntry
    <3>2. QED
      BY <3>1, AroundAppend DEF IsTree
  <2>4. up = NoEntry \/ (up \in DOMAIN s.entry /\ "kids" \in DOMAIN s.entry[up])
    BY DEF IsTree, HasFields
  <2> HIDE DEF id, t
  <2>5. HasKid(s, AddKid(s, up, id, e), up, id, e)
    BY <2>3, <2>4, AddKidResult
  <2>6. t.entry[id].attr = m
    BY <2>1, <2>2, <2>5 DEF HasKid
  <2>7. Described(s, t, id, info)
    BY <1>2, <1>3, <1>5, <2>6 DEF Described, m
  <2>8. QED
    BY <2>7 DEF t, id
<1>6. QED
  BY <1>4, <1>5

LEMMA DescribedThenKept ==
  ASSUME NEW s, NEW t, NEW u, NEW id, NEW info, Described(s, t, id, info), Keeps(t, u)
  PROVE  Described(s, u, id, info)
BY DEF Described, Keeps, SameText

LEMMA ActionGot ==
  ASSUME NEW s, IsTree(s), NEW id \in DOMAIN s.entry, NEW action
  PROVE  GetsAction(s, [s EXCEPT !.entry[id].actions = Append(@, action)], id, action)
<1>1. /\ {"plugins", "top", "entry"} \subseteq DOMAIN s
      /\ {"attr", "actions"} \subseteq DOMAIN s.entry[id] /\ IsSeq(s.entry[id].actions)
  BY DEF IsTree, HasFields
<1>2. QED
  BY <1>1 DEF GetsAction

LEMMA HotkeyKeeps ==
  ASSUME NEW s, IsTree(s), NEW id \in DOMAIN s.entry, NEW key
  PROVE  Keeps(s, WithHotkey(s, id, key))
<1>1. /\ {"plugins", "top", "entry"} \subseteq DOMAIN s
      /\ {"attr", "actions", "hotkeys"} \subseteq DOMAIN s.entry[id]
  BY DEF IsTree, HasFields
<1>2. QED
  BY <1>1 DEF Keeps, SameText, WithHotkey

LEMMA EntryDescribed ==
  ASSUME TypeInv, Reading, IsEntryTag(Elem.tag), CanAdd(Ientry(Elem))
  PROVE  Described(scheme, EntryAdded, EntryId, Ientry(Elem))
<1>1. IsInfo(Ientry(Elem))
  BY InfoFacts DEF CanAdd
<1>2. IsTree(scheme) /\ Unlinked(scheme)
  BY TypeUnlinked DEF Reading
<1>3. Up.id \in DOMAIN scheme.entry \cup {NoEntry}
  BY ReadingFacts
<1>4. QED
  BY <1>1, <1>2, <1>3, AddEntryDescribes DEF EntryAdded, EntryId

LEMMA ParamDescribed ==
  ASSUME TypeInv, Reading, IsEntryTag(Elem.tag), CanAdd(Ientry(Elem)),
         "ptype" \in DOMAIN Elem.attr
  PROVE  Described(scheme, CreatePtypeLink(EntryAdded, EntryId, Elem.attr.ptype),
                   EntryId, Ientry(Elem))
<1> DEFINE s == EntryAdded
           id == EntryId
           p == Elem.attr.ptype
<1>1. IsTree(s) /\ Unlinked(s) /\ id \in DOMAIN s.entry /\ IsSeq(p)
  BY EntryGrown, InfoFacts DEF GrownBy, Grown
<1>2. Described(scheme, s, id, Ientry(Elem))
  BY EntryDescribed
<1> HIDE DEF s, id, p
<1>3. Keeps(s, CreatePtypeLink(s, id, p))
  BY <1>1, PtypeLinkGrown
<1>4. Described(scheme, CreatePtypeLink(s, id, p), id, Ientry(Elem))
  BY <1>2, <1>3, DescribedThenKept
<1>5. QED
  BY <1>4 DEF s, id, p

(* Each handler keeps what is loaded as written, unless it reports an      *)
(* error.                                                                  *)
Written == AsWritten(ReadSoFar, scheme.entry)
LEMMA WrittenNext == Written' <=> AsWritten(ReadSoFar', scheme'.entry)
BY DEF Written, AsWritten, AttrsIn, ActionsIn, IsAt, ActionOf, LaterActions, After,
   EntriesAmong, ActionsAmong, IdOf, NameOf, Over, Action

LEMMA WrittenKept ==
  ASSUME Written, Keeps(scheme, scheme'), NEW c,
         ReadSoFar' = ReadSoFar
           \/ (ReadSoFar' = ReadSoFar \cup {c} /\ c.el.tag # "ACTION" /\ ~IsEntryTag(c.el.tag))
  PROVE  Written'
<1> DEFINE s == scheme
           t == scheme'
           xs == ReadSoFar
           ys == ReadSoFar'
<1>1. /\ AsWritten(xs, s.entry) /\ Keeps(s, t)
      /\ ys = xs \/ \E x : ys = xs \cup {x} /\ x.el.tag # "ACTION" /\ ~IsEntryTag(x.el.tag)
  BY DEF Written
<1> HIDE DEF s, t, xs, ys
<1>2. AsWritten(ys, t.entry)
  BY <1>1, OtherAsWritten
<1>3. QED
  BY <1>2, WrittenNext DEF ys, t

LEMMA EnterWritten ==
  ASSUME TypeInv, ret, LoadInv, Written, NEW tags, \A t \in tags : IsEntryTag(t),
         NEW s, Enter(tags, s),
         CanAdd(Ientry(Elem)) => Described(scheme, s, EntryId, Ientry(Elem))
  PROVE  ret' => Written'
<1>1. Reading /\ IsEntryTag(Elem.tag)
  BY DEF Enter
<1>2. Elem.tag \notin {"/", "unknown", "ACTION", "HOTKEY", "PLUGIN"}
  BY <1>1 DEF IsEntryTag, ParamTags, CommandTags, Special
<1>3. InPlace
  BY <1>1 DEF LoadInv, Reading
<1>4. PICK c : c = Current
  OBVIOUS
<1>5. /\ c.el = Elem /\ c.file = file /\ c.at = at
      /\ Holds(Up.tag) \/ Up.tag \in {"ACTION", "PLUGIN"}
      /\ Holds(Up.tag) => Up.id = c.in
  BY <1>1, <1>2, <1>3, <1>4, CurrentFacts
<1>6. CASE CanAdd(Ientry(Elem))
  <2>1. Accept(s, EntryId) /\ Described(scheme, s, EntryId, Ientry(Elem))
    BY <1>6 DEF Enter
  <2>2. scheme' = s
    BY <2>1 DEF Accept
  <2>3. /\ Holds(Up.tag) /\ EntryId = Append(Up.id, NameOf(Elem))
        /\ EntryId = IdOf(c)
    BY <1>5, <1>6 DEF CanAdd, EntryId, NameOf, IdOf
  <2>4. ReadSoFar' = ReadSoFar \cup {c}
    BY <1>1, <1>3, <1>4, <2>1, <2>3, AcceptedInPlace
  <2>5. Newest(ReadSoFar, c)
    BY <1>5, CurrentNewest
  <2>6. IsEntryTag(c.el.tag) /\ Described(scheme, s, IdOf(c), Ientry(c.el))
    BY <1>1, <1>5, <2>1, <2>3
  <2>7. AsWritten(ReadSoFar, scheme.entry)
    BY DEF Written
  <2>8. AsWritten(ReadSoFar \cup {c}, s.entry)
    BY <2>5, <2>6, <2>7, EntryAsWritten
  <2>9. QED
    BY <2>2, <2>4, <2>8, WrittenNext
<1>7. CASE ~CanAdd(Ientry(Elem))
  BY <1>7 DEF Enter, Reject
<1>8. QED
  BY <1>6, <1>7

LEMMA ActionWritten ==
  ASSUME TypeInv, ret, LoadInv, Written, ProcessAction
  PROVE  ret' => Written'
<1>1. Reading /\ Elem.tag = "ACTION" /\ ~IsEntryTag(Elem.tag)
  BY DEF ProcessAction, IsEntryTag, ParamTags, CommandTags, Special
<1>2. InPlace
  BY <1>1 DEF LoadInv, Reading
<1>3. PICK c : c = Current
  OBVIOUS
<1>4. /\ c.el = Elem /\ c.file = file /\ c.at = at
      /\ Holds(Up.tag) => Up.id = c.in
  BY <1>1, <1>2, <1>3, CurrentFacts
<1> DEFINE fits == /\ IsEntryTag(Up.tag) /\ Up.tag \notin {"VIEW", "SWITCH", "SEQ"}
                   /\ Legal(Elem.attr)
           a == ActionOf(c)
           s == [scheme EXCEPT !.entry[c.in].actions = Append(@, a)]
<1>5. CASE fits
  <2>1. Up.id = c.in /\ Holds(Up.tag)
    BY <1>4, <1>5 DEF Holds
  <2>2. Accept(s, Up.id)
    BY <1>1, <1>4, <1>5, <2>1 DEF ProcessAction, ActionOf
  <2>3. scheme' = s
    BY <2>2 DEF Accept
  <2>4. c.in \in DOMAIN scheme.entry /\ IsTree(scheme)
    BY <1>1, <1>5, <2>1, ReadingFacts DEF TypeInv
  <2> HIDE DEF s
  <2>5. GetsAction(scheme, s, c.in, a)
    <3> HIDE DEF a
    <3>1. QED
      BY <2>4, ActionGot DEF s
  <2>6. ReadSoFar' = ReadSoFar \cup {c}
    BY <1>1, <1>2, <1>3, <2>1, <2>2, AcceptedInPlace
  <2>7. Newest(ReadSoFar, c) /\ ~After(c, c)
    BY <1>4, CurrentNewest
  <2>8. AsWritten(ReadSoFar, scheme.entry) /\ c.el.tag = "ACTION"
    BY <1>1, <1>4 DEF Written
  <2>9. AsWritten(ReadSoFar \cup {c}, s.entry)
    BY <2>5, <2>7, <2>8, ActionAsWritten
  <2>10. QED
    BY <2>3, <2>6, <2>9, WrittenNext
<1>6. CASE ~fits
  BY <1>6 DEF ProcessAction, Reject
<1>7. QED
  BY <1>5, <1>6

LEMMA PluginWritten ==
  ASSUME TypeInv, ret, LoadInv, Written, ProcessPlugin
  PROVE  ret' => Written'
<1>1. Reading /\ Elem.tag = "PLUGIN" /\ ~IsEntryTag(Elem.tag)
  BY DEF ProcessPlugin, IsEntryTag, ParamTags, CommandTags, Special
<1>2. InPlace
  BY <1>1 DEF LoadInv, Reading
<1>3. PICK c : c = Current
  OBVIOUS
<1>4. c.el = Elem
  BY <1>1, <1>2, <1>3, CurrentFacts
<1> DEFINE s == [scheme EXCEPT !.plugins = @ \cup {Elem.attr.name}]
<1>5. CASE Accept(s, NoEntry) /\ Up.tag = "KLISH"
  <2>1. s.entry = scheme.entry
    BY DEF TypeInv, IsTree
  <2> HIDE DEF s
  <2>2. scheme' = s
    BY <1>5 DEF Accept
  <2>3. ReadSoFar' = ReadSoFar \cup {c}
    BY <1>1, <1>2, <1>3, <1>5, AcceptedInPlace DEF Holds
  <2>4. Keeps(scheme, scheme')
    BY <2>1, <2>2 DEF Keeps, SameText
  <2>5. c.el.tag # "ACTION" /\ ~IsEntryTag(c.el.tag)
    BY <1>1, <1>4
  <2>6. QED
    BY <2>3, <2>4, <2>5, WrittenKept
<1>6. CASE Reject
  BY <1>6 DEF Reject
<1>7. QED
  BY <1>5, <1>6 DEF ProcessPlugin

LEMMA HotkeyWritten ==
  ASSUME TypeInv, ret, LoadInv, Written, ProcessHotkey
  PROVE  ret' => Written'
<1>1. Reading /\ Elem.tag = "HOTKEY" /\ ~IsEntryTag(Elem.tag)
  BY DEF ProcessHotkey, IsEntryTag, ParamTags, CommandTags, Special
<1>2. InPlace
  BY <1>1 DEF LoadInv, Reading
<1>3. PICK c : c = Current
  OBVIOUS
<1>4. c.el = Elem
  BY <1>1, <1>2, <1>3, CurrentFacts
<1>5. PICK key : key = Elem.attr.key
  OBVIOUS
<1>6. CASE Reject
  BY <1>6 DEF Reject
<1>7. CASE ~Reject
  <2>1. /\ Up.tag \in {"ENTRY", "VIEW"}
        /\ scheme' = [scheme EXCEPT !.entry[Up.id].hotkeys = Append(@, Elem.attr.key)]
        /\ at' = EndOf + 1 /\ UNCHANGED <<input, file, stack, phase, ret>>
    BY <1>7 DEF ProcessHotkey
  <2>2. ReadSoFar' = ReadSoFar \cup {c}
    BY <1>1, <1>2, <1>3, <2>1, HotkeyInPlace
  <2>3. scheme' = WithHotkey(scheme, Up.id, key)
    BY <1>5, <2>1 DEF WithHotkey
  <2>4. Up.id \in DOMAIN scheme.entry /\ IsTree(scheme)
    BY <1>1, <2>1, ReadingFacts DEF TypeInv, IsEntryTag
  <2>5. Keeps(scheme, scheme')
    <3>1. Keeps(scheme, WithHotkey(scheme, Up.id, key))
      BY <2>4, HotkeyKeeps
    <3>2. QED
      BY <2>3, <3>1
  <2>6. c.el.tag # "ACTION" /\ ~IsEntryTag(c.el.tag)
    BY <1>1, <1>4
  <2>7. QED
    BY <2>2, <2>5, <2>6, WrittenKept
<1>8. QED
  BY <1>6, <1>7

LEMMA CloseWritten ==
  ASSUME TypeInv, ret, LoadInv, Written, CloseElement
  PROVE  Written'
<1>1. /\ Reading /\ Elem.tag = "/" /\ phase = "load"
      /\ UNCHANGED <<input, file>> /\ stack' = Front(stack) /\ at' = at + 1
  BY DEF CloseElement, Reading
<1>2. InPlace
  BY <1>1 DEF LoadInv
<1>3. ReadSoFar' = ReadSoFar
  BY <1>1, <1>2, CloseInPlace
<1>4. Keeps(scheme, scheme')
  <2>1. IsTree(scheme) /\ Unlinked(scheme)
    BY <1>1, TypeUnlinked
  <2>2. CASE Up.tag \in CommandTags /\ ~HasPtype(scheme, Up.id)
    <3>1. scheme' = CreatePtypeCommand(scheme, Up.id)
      BY <2>2 DEF CloseElement
    <3>2. Up.id \in DOMAIN scheme.entry
      BY <1>1, <2>2, ReadingFacts DEF IsEntryTag
    <3>3. QED
      BY <2>1, <3>1, <3>2, PtypeCommandGrown
  <2>3. CASE ~(Up.tag \in CommandTags /\ ~HasPtype(scheme, Up.id))
    <3>1. scheme' = scheme
      BY <2>3 DEF CloseElement
    <3>2. QED
      BY <3>1 DEF Keeps, SameText
  <2>4. QED
    BY <2>2, <2>3
<1>5. QED
  BY <1>3, <1>4, WrittenKept

LEMMA LoadWritten ==
  ASSUME TypeInv, ret, LoadInv, Written, Load
  PROVE  ret' => Written'
<1>1. phase = "load"
  BY LoadSteps
<1>2. ASSUME NEW tags, \A t \in tags : IsEntryTag(t), Enter(tags, EntryAdded)
      PROVE  ret' => Written'
  <2>1. Reading /\ IsEntryTag(Elem.tag)
    BY <1>2 DEF Enter
  <2>2. CanAdd(Ientry(Elem)) => Described(scheme, EntryAdded, EntryId, Ientry(Elem))
    BY <2>1, EntryDescribed
  <2>3. QED
    BY <1>2, <2>2, EnterWritten
<1>3. /\ \A t \in {"ENTRY"} : IsEntryTag(t)
      /\ \A t \in {"VIEW"} : IsEntryTag(t)
      /\ \A t \in {"PTYPE"} : IsEntryTag(t)
      /\ \A t \in ParamTags : IsEntryTag(t)
      /\ \A t \in CommandTags : IsEntryTag(t)
  BY DEF IsEntryTag
<1>4. ASSUME ReadSoFar' = ReadSoFar, scheme' = scheme PROVE Written'
  BY <1>4, WrittenNext DEF Written
<1>5. CASE ReadFile
  <2>1. scheme' = scheme /\ input' = input /\ at' = at
    BY <1>5 DEF ReadFile
  <2>2. CASE input[file].valid
    <3>1. file' = file
      BY <1>5, <2>2 DEF ReadFile
    <3>2. \A x : Before(x)' <=> Before(x)
      BY <2>1, <3>1 DEF Before
    <3>3. QED
      BY <1>4, <2>1, <3>2, NoneRead
  <2>3. CASE ~input[file].valid
    BY <1>5, <2>3 DEF ReadFile
  <2>4. QED
    BY <2>2, <2>3
<1>6. CASE FileRead
  <2>1. scheme' = scheme
    BY <1>6 DEF FileRead
  <2>2. QED
    BY <1>4, <1>6, <2>1, FileReadReads
<1>7. CASE UnknownTag
  BY <1>7 DEF UnknownTag, Reject
<1>8. CASE ProcessEntry \/ ParseIentry
  BY <1>2, <1>3, <1>8 DEF ProcessEntry, ParseIentry
<1>9. CASE ProcessView
  BY <1>2, <1>3, <1>9 DEF ProcessView
<1>10. CASE ProcessPtype
  BY <1>2, <1>3, <1>10 DEF ProcessPtype
<1>11. CASE ProcessCommand
  BY <1>2, <1>3, <1>11 DEF ProcessCommand
<1>12. CASE ProcessParam
  <2> DEFINE s == IF "ptype" \in DOMAIN Elem.attr
                  THEN CreatePtypeLink(EntryAdded, EntryId, Elem.attr.ptype)
                  ELSE EntryAdded
  <2>1. Enter(ParamTags, s) /\ Reading /\ IsEntryTag(Elem.tag)
    BY <1>12, <1>3 DEF ProcessParam, Enter
  <2>2. CanAdd(Ientry(Elem)) => Described(scheme, s, EntryId, Ientry(Elem))
    <3>1. CASE "ptype" \in DOMAIN Elem.attr
      BY <3>1, <2>1, ParamDescribed
    <3>2. CASE "ptype" \notin DOMAIN Elem.attr
      BY <3>2, <2>1, EntryDescribed
    <3>3. QED
      BY <3>1, <3>2
  <2> HIDE DEF s
  <2>3. QED
    BY <1>3, <2>1, <2>2, EnterWritten
<1>13. QED
  BY <1>5, <1>6, <1>7, <1>8, <1>9, <1>10, <1>11, <1>12, ActionWritten, PluginWritten,
     HotkeyWritten, CloseWritten
     DEF Load

LEMMA WrittenAll ==
  AsWritten(Elements, scheme.entry)' <=> AsWritten(Elements', scheme'.entry)
BY DEF AsWritten, AttrsIn, ActionsIn, IsAt, ActionOf, LaterActions, After,
   EntriesAmong, ActionsAmong, IdOf, NameOf, Over, Action

(* Until the first ENTRY is prepared nothing else is changed.              *)
WrittenInv ==
  /\ phase = "load" /\ ret => Written
  /\ phase = "prepare" /\ tops = 0 => todo = <<>> /\ AsWritten(Elements, scheme.entry)
WrittenKnown == Inv /\ LoadInv /\ WrittenInv
LEMMA InitWritten == Init => WrittenKnown
<1> SUFFICES ASSUME Init PROVE WrittenKnown
  OBVIOUS
<1>1. Inv /\ LoadInv
  BY InitVerdict DEF VerdictKnown
<1>2. ReadSoFar = {}
  <2>1. \A x \in Elements : x.file \in Nat \ {0} /\ x.at \in Nat \ {0}
    BY <1>1, ElementType DEF Inv
  <2>2. \A x \in Elements : ~Before(x)
    BY <2>1 DEF Init, Before
  <2>3. QED
    BY <2>2 DEF ReadSoFar
<1>3. Written
  BY <1>2, FS_EmptySet DEF Written, AsWritten, AttrsIn, ActionsIn, EntriesAmong, ActionsAmong
<1>4. QED
  BY <1>1, <1>3 DEF WrittenKnown, WrittenInv, Init

LEMMA NextWritten == WrittenKnown /\ [Next]_vars => WrittenKnown'
<1> SUFFICES ASSUME Inv, LoadInv, WrittenInv, [Next]_vars PROVE WrittenKnown'
  BY DEF WrittenKnown
<1>1. TypeInv /\ ret \in BOOLEAN /\ ret' \in BOOLEAN
  BY NextInv DEF Inv, TypeInv
<1>2. Inv' /\ LoadInv'
  <2>1. Inv'
    BY NextInv
  <2>2. CASE Load
    BY <1>1, <2>1, <2>2, LoadNext
  <2>3. CASE UNCHANGED vars
    BY <2>1, <2>3, SameLoad DEF vars
  <2>4. CASE ~Load /\ ~UNCHANGED vars
    <3>1. StartPrepare \/ PrepareEntry \/ Follow \/ Link \/ NextTop
      BY <2>4 DEF Next, Load
    <3>2. phase' # "load"
      BY <3>1 DEF StartPrepare, PrepareEntry, Follow, Link, NextTop
    <3>3. QED
      BY <2>1, <3>2 DEF LoadInv
  <2>5. QED
    BY <2>1, <2>2, <2>3, <2>4
<1>3. WrittenInv'
  <2>1. CASE Load
    <3>1. phase = "load" /\ phase' = "load"
      BY <1>1, <2>1, LoadSteps DEF LoadStep
    <3>2. ret' => ret
      BY <1>1, <2>1, LoadKeepsErrors
    <3>3. QED
      BY <1>1, <2>1, <3>1, <3>2, LoadWritten DEF WrittenInv
  <2>2. CASE UNCHANGED vars
    <3>1. UNCHANGED <<input, file, at, scheme, phase, ret, tops, todo>>
      BY <2>2 DEF vars
    <3>2. \A x : Before(x)' <=> Before(x)
      BY <3>1 DEF Before
    <3>3. ReadSoFar' = ReadSoFar /\ Elements' = Elements
      BY <3>1, <3>2, NoneRead, SameInput
    <3>4. Written' <=> Written
      BY <3>1, <3>3, WrittenNext DEF Written
    <3>5. AsWritten(Elements, scheme.entry)' <=> AsWritten(Elements, scheme.entry)
      BY <3>1, <3>3, WrittenAll
    <3>6. QED
      BY <3>1, <3>4, <3>5 DEF WrittenInv
  <2>3. CASE StartPrepare
    <3>1. /\ phase = "load" /\ file > Len(input) /\ UNCHANGED <<input, scheme, todo>>
          /\ phase' = "prepare" => ret
          /\ phase' \in {"prepare", "failed"}
      BY <2>3 DEF StartPrepare, preparing
    <3>2. todo = <<>>
      BY <1>1, <3>1 DEF TypeInv, NothingPrepared
    <3>3. ReadSoFar = Elements /\ Elements' = Elements
      BY <1>1, <3>1, ReadAll, SameInput
    <3>4. ret => AsWritten(Elements, scheme.entry)
      BY <3>1, <3>3 DEF WrittenInv, Written
    <3>5. AsWritten(Elements, scheme.entry)' <=> AsWritten(Elements, scheme.entry)
      BY <3>1, <3>3, WrittenAll
    <3>6. QED
      BY <3>1, <3>2, <3>4, <3>5 DEF WrittenInv
  <2>4. CASE PrepareEntry \/ Follow \/ Link \/ NextTop
    <3>1. phase = "prepare"
      BY <2>4 DEF PrepareEntry, Follow, Link, NextTop
    <3>2. phase' # "load" /\ tops \in Nat
      <4>1. phase' # "load"
        BY <2>4 DEF PrepareEntry, Follow, Link, NextTop
      <4>2. tops \in 0..Len(scheme.top) /\ Len(scheme.top) \in Nat
        BY <1>1, <3>1, LenProperties DEF Inv, PrepareInv, AgendaInv, TypeInv, IsTree
      <4>3. QED
        BY <4>1, <4>2
    <3>3. CASE NextTop
      <4>1. phase' = "prepare" => tops' = tops + 1
        BY <3>1, <3>3 DEF NextTop
      <4>2. QED
        BY <3>2, <4>1 DEF WrittenInv
    <3>4. CASE PrepareEntry \/ Follow \/ Link
      <4>1. todo # <<>> /\ tops' = tops
        BY <3>4 DEF PrepareEntry, Follow, Link
      <4>2. QED
        BY <3>1, <3>2, <4>1 DEF WrittenInv
    <3>5. QED
      BY <2>4, <3>3, <3>4
  <2>5. QED
    BY <2>1, <2>2, <2>3, <2>4 DEF Next, Load
<1>4. QED
  BY <1>2, <1>3 DEF WrittenKnown

(* Nothing that is written is lost: when all files are read, each element  *)
(* has its ENTRY with the attributes of the last one that gives them, and  *)
(* its ACTIONs in the order of the files.                                  *)
THEOREM SchemeLoadedAsWritten == Spec => []LoadedAsWritten
<1>1. Spec => []WrittenKnown
  BY InitWritten, NextWritten, PTL DEF Spec
<1>2. WrittenKnown => LoadedAsWritten
  BY AsWrittenIs DEF WrittenKnown, WrittenInv, AsWritten, LoadedAsWritten
<1>3. QED
  BY <1>1, <1>2, PTL
=============================================================================
