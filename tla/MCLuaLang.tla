----------------------------- MODULE MCLuaLang -----------------------------
(* Programs for LuaLang.  Every program starts by setting the locals x and  *)
(* y from its arguments.                                                    *)
EXTENDS LuaLang

(* ---------------------------- shorthands -------------------------------- *)
N(n) == [tk |-> "NAME", n |-> n]
K(r) == [tk |-> "NUMBER", r |-> r]
S(n) == [tk |-> "STRING", ts |-> Str(n)]
W(tt) == <<Tk(tt)>>
x == <<N("x")>>
y == <<N("y")>>
tt == <<N("t")>>
one == <<K(1)>>
two == <<K(2)>>
dots == W("...")
AtKey(of, key) == [tk |-> "index", of |-> of[1], key |-> key]
Dot(of, n) == AtKey(of, <<S(n)>>)
CallOf(of, args) == [tk |-> "call", of |-> of[1], args |-> args]
Method(of, n, args) == [tk |-> "method", of |-> of[1], n |-> n, args |-> args]
Fun(pars, d, b) == [pars |-> pars, dots |-> d, body |-> b]
FunExp(f) == <<[tk |-> "function", f |-> f]>>
ListItem(v) == [key |-> <<>>, val |-> v]
RecItem(n, v) == [key |-> <<S(n)>>, val |-> v]
Tab(items) == <<[tk |-> "{", items |-> items]>>
Paren(e) == <<[tk |-> "(", e |-> e]>>
Minus(a, b) == a \o W("-") \o b
Plus(a, b) == a \o W("+") \o b

Ret(es) == [st |-> "return", es |-> es]
Loc(ns, es) == [st |-> "local", ns |-> ns, es |-> es]
LocFun(n, f) == [st |-> "localfunction", n |-> n, f |-> f]
DefFun(v, f, self) == [st |-> "function", v |-> v, f |-> f, self |-> self]
Asg(vs, es) == [st |-> "assign", vs |-> vs, es |-> es]
Do(b) == [st |-> "do", b |-> b]
Cond(c, b, els) == [st |-> "if", cs |-> <<[c |-> c, b |-> b]>>, els |-> els]
WhileS(c, b) == [st |-> "while", c |-> c, b |-> b]
RepeatS(b, c) == [st |-> "repeat", b |-> b, c |-> c]
For(n, lo, hi, step, b) == [st |-> "fornum", n |-> n, lo |-> lo, hi |-> hi, step |-> step, b |-> b]
ForIn3(ns, es, b) == [st |-> "forin", ns |-> ns, es |-> es, b |-> b]
BreakS == [st |-> "break"]
CallS(e) == [st |-> "call", e |-> e]

Header == Loc(<<"x", "y">>, <<dots>>)
Runs(bodies, args) == {[ss |-> <<Header>> \o b, args |-> a] : b \in bodies, a \in args}

(* ---------------------------- expressions ------------------------------- *)
Truths == {x, W("not") \o x, one, W("nil")}
LogicOps == {W("and"), W("or"), W("==")}
Triples(terms, ops) == {a \o o \o b \o p \o c : a \in terms, b \in terms, c \in terms, o \in ops, p \in ops}
Pairs(terms, ops) == {a \o o \o b : a \in terms, b \in terms, o \in ops}

\* A condition as a value, in a branch, in a loop, stored, negated, as a
\* table, an argument, an operand of another operator.
Uses(e) ==
  { <<Cond(e, <<Ret(<<one>>)>>, <<Ret(<<two>>)>>)>>,
    <<WhileS(e, <<Ret(<<one>>)>>)>>,
    <<RepeatS(<<Cond(<<N("g")>>, <<BreakS>>, <<>>), Asg(<<N("x"), N("g")>>, <<one, one>>)>>, e), Ret(<<x>>)>>,
    <<Asg(<<N("x")>>, <<e>>), Ret(<<x, y>>)>>,
    <<Asg(<<N("g")>>, <<e>>), Ret(<<<<N("g")>>>>)>>,
    <<Loc(<<"a", "b">>, <<e, x>>), Ret(<<<<N("a")>>, <<N("b")>>>>)>>,
    <<Ret(<<W("not") \o Paren(e) \o W("or") \o x>>)>>,
    <<Ret(<<y \o W("==") \o Paren(e)>>)>>,
    <<Ret(<<<<AtKey(Paren(Tab(<<ListItem(e), RecItem("a", e)>>)), one)>>>>)>>,
    <<Loc(<<"t">>, <<Tab(<<>>)>>), Asg(<<Dot(tt, "a")>>, <<e>>), Ret(<<<<Dot(tt, "a")>>>>)>> }

Logic == {<<Ret(<<e>>)>> : e \in Triples(Truths, LogicOps)}
Used == UNION {Uses(e) : e \in Pairs(Truths \cup {y}, LogicOps \cup {W("<"), W(">=")})}

Numbers == {x, W("-") \o x, two}
Sums == {<<Ret(<<e>>)>> : e \in Triples(Numbers, {W("+"), W("-"), W("*"), W(".."), W("<=")})}
Powers == {<<Ret(<<a \o W("^") \o two \o o \o b>>)>> : a \in Numbers, b \in {x, two}, o \in {W("^"), W("-"), W("..")}}

\* Quotients that are integers, or by zero; the operators around them.
zero == <<K(0)>>
Divisors == {x, two, zero, W("-") \o two}
Divisions ==
  {<<Ret(<<a \o o \o b>>)>> : a \in Numbers \cup {zero, one}, b \in Divisors, o \in {W("/"), W("%")}}
    \cup {<<Ret(<<a \o o \o b \o p \o c>>)>> : a \in Numbers, b \in {x, two}, c \in {two, W("-") \o x},
                                            o \in {W("/"), W("%"), W("^")}, p \in {W("*"), W("-"), W("%")}}
    \cup {<<Ret(<<a \o p \o b \o o \o c>>)>> : a \in Numbers, b \in {x, two}, c \in {x, two},
                                            o \in {W("/"), W("%")}, p \in {W("+"), W("*"), W("..")}}

\* Strings in comparisons and, where they look like numbers, in arithmetic.
Words == {<<S("a")>>, <<S("b")>>, <<S("10")>>, <<S("9")>>, Paren(<<S("a")>> \o W("..") \o <<S("b")>>), x}
Texts ==
  {<<Ret(<<a \o o \o b>>)>> : a \in Words, b \in Words, o \in {W("<"), W("<="), W(">"), W(">=")}}
    \cup {<<Ret(<<a \o o \o b>>)>> : a \in Words, b \in {<<S("9")>>, two, Paren(one \o W("..") \o two)}, o \in {W("+"), W("-")}}
    \cup {<<Ret(<<W("-") \o a>>)>> : a \in Words}
    \cup {<<For("i", <<S("1")>>, a, <<>>, <<Asg(<<N("x")>>, <<Plus(x, <<N("i")>>)>>)>>), Ret(<<x>>)>>
           : a \in {<<S("2")>>, <<S("a")>>}}

(* ---------------------------- assignments ------------------------------- *)
Vars == {N("x"), N("y"), N("g"), N("t"), AtKey(tt, x), Dot(tt, "a"), AtKey(tt, y)}
Lists == {<<y, x>>, <<one>>, <<x, one, two>>, <<W("nil"), dots>>, <<dots>>, <<<<CallOf(<<N("f")>>, <<y>>)>>>>}
Assignments ==
  {<<LocFun("f", Fun(<<"a">>, FALSE, <<Ret(<<<<N("a")>>, two>>)>>)),
     Loc(<<"t">>, <<Tab(<<>>)>>), Loc(<<"s">>, <<tt>>), Asg(<<v, w>>, es),
     Ret(<<x, y, <<N("g")>>, tt, <<AtKey(<<N("s")>>, one)>>, <<AtKey(<<N("s")>>, two)>>, <<Dot(<<N("s")>>, "a")>>>>)>>
   : v \in Vars, w \in Vars, es \in Lists}

(* ---------------------------- constructors ------------------------------ *)
Items == {ListItem(x), RecItem("a", y), ListItem(one \o W("and") \o x)}
Tails == {<<>>, <<ListItem(dots)>>, <<ListItem(<<CallOf(<<N("f")>>, <<dots>>)>>)>>}
Constructors ==
  {<<LocFun("f", Fun(<<>>, TRUE, <<Ret(<<two, dots>>)>>)), Loc(<<"t">>, <<Tab(i \o j \o k)>>),
     Ret(<<W("#") \o tt, <<AtKey(tt, one)>>, <<AtKey(tt, <<K(3)>>)>>, <<AtKey(tt, <<K(4)>>)>>, <<Dot(tt, "a")>>>>)>>
   : i \in {<<a, b>> : a \in Items, b \in Items}, j \in {<<>>, <<ListItem(y), ListItem(x), ListItem(y)>>}, k \in Tails}

(* ---------------------------- loops and closures ------------------------ *)
Bump(n) == FunExp(Fun(<<>>, FALSE, <<Asg(<<N(n)>>, <<Plus(<<N(n)>>, one)>>), Ret(<<<<N(n)>>>>)>>))
Keep(n) == Asg(<<N("f"), N("g")>>, <<Bump(n), <<N("f")>>>>)        \* f, g = closure, f
Leave(c) == Cond(c, <<BreakS>>, <<>>)
Down == Asg(<<N("x")>>, <<Minus(x, one)>>)
Body(n, c) == {<<Loc(<<"a">>, <<Plus(x, one)>>), Keep(n), Down, Leave(c)>>,
               <<Loc(<<"a">>, <<Plus(x, one)>>), Down, Leave(c), Keep(n)>>,
               <<Do(<<Loc(<<"a">>, <<x>>), Keep(n), Leave(c)>>), Down>>}
Gen == FunExp(Fun(<<"s", "c">>, FALSE, <<Cond(<<N("c")>> \o W("<") \o <<N("s")>>,
                                             <<Ret(<<Plus(<<N("c")>>, one), <<N("s")>>>>)>>, <<>>)>>))
Conds == {x \o W("<") \o one, W("nil"), y \o W("and") \o W("not") \o x, y}
InLoop(b) ==
  { <<WhileS(x \o W(">") \o <<K(0)>>, b)>>,
    <<RepeatS(b, x \o W("<=") \o <<K(0)>>)>>,
    <<For("i", one, two, <<>>, b)>>,
    <<For("i", two, one, W("-") \o one, b)>>,
    <<ForIn3(<<"i", "j">>, <<Gen, two, <<K(0)>>>>, b)>> }
\* f and g: the closures of the last two rounds; each counts on its own cell.
CallBoth == <<<<CallOf(<<N("f")>>, <<>>)>>, <<CallOf(<<N("f")>>, <<>>)>>,
              Paren(<<N("g")>> \o W("and") \o <<CallOf(<<N("g")>>, <<>>)>>), x>>
Loops == {<<Loc(<<"f", "g">>, <<>>)>> \o l \o <<Ret(CallBoth)>>
          : l \in UNION {InLoop(b) : b \in UNION {Body(n, c) : n \in {"a", "x"}, c \in Conds}}}
IndexLoops == {<<Loc(<<"f", "g">>, <<>>)>> \o l \o <<Ret(CallBoth)>>
          : l \in {<<For("i", one, <<K(3)>>, <<>>, <<Keep("i"), Leave(c)>>)>> : c \in Conds}
              \cup {<<ForIn3(<<"i">>, <<Gen, two, <<K(0)>>>>, <<Keep("i")>>)>>,
                    <<RepeatS(<<Loc(<<"a">>, <<x>>), Keep("a"), Down>>, <<N("a")>> \o W("<=") \o one)>>}}

(* ---------------------------- functions --------------------------------- *)
Callees == {Fun(<<"a", "b">>, FALSE, <<Ret(<<<<N("b")>>, <<N("a")>>>>)>>),
            Fun(<<"a">>, TRUE, <<Loc(<<"b", "c">>, <<dots>>), Ret(<<<<N("b")>>, dots>>)>>),
            Fun(<<"a">>, TRUE, <<Ret(<<<<Dot(<<N("arg")>>, "n")>>, <<AtKey(<<N("arg")>>, one)>>, <<N("a")>>>>)>>),
            Fun(<<>>, FALSE, <<Loc(<<"a">>, <<>>), Loc(<<"b">>, <<>>), Cond(x, <<Loc(<<"c">>, <<>>), Asg(<<N("b")>>, <<<<N("c")>>>>)>>, <<>>), Ret(<<<<N("a")>>, <<N("b")>>>>)>>),
            Fun(<<"a">>, FALSE, <<>>),
            \* a tail call that leaves behind a variable a closure has captured
            Fun(<<"a">>, FALSE, <<Asg(<<N("g")>>, <<Bump("a")>>), Ret(<<<<CallOf(<<N("id")>>, <<<<N("a")>>, x>>)>>>>)>>)}
Args == {<<>>, <<x>>, <<y, dots>>, <<<<CallOf(<<N("id")>>, <<x, y>>)>>>>}
CallUses(c) ==
  { <<Ret(<<<<c>>>>)>>, <<Ret(<<<<c>>, <<c>>>>)>>, <<CallS(c), Ret(<<<<N("g")>> \o W("and") \o <<CallOf(<<N("g")>>, <<>>)>>>>)>>,
    <<Loc(<<"a", "b", "c">>, <<<<c>>>>), Ret(<<<<N("c")>>, <<N("b")>>>>)>>,
    <<Ret(<<Paren(<<c>>)>>)>>, <<Ret(<<W("not") \o <<c>> \o W("==") \o x>>)>> }
Calls == {<<LocFun("id", Fun(<<>>, TRUE, <<Ret(<<dots>>)>>)), LocFun("f", f)>> \o u
          : f \in Callees, u \in UNION {CallUses(CallOf(<<N("f")>>, as)) : as \in Args}}
Methods == {<<Loc(<<"t">>, <<Tab(<<RecItem("v", x)>>)>>),
              DefFun(Dot(tt, "m"), Fun(<<"a">>, FALSE, <<Asg(<<Dot(<<N("self")>>, "v")>>, <<<<N("a")>>>>), Ret(<<<<N("self")>>>>)>>), TRUE),
              Ret(<<<<Dot(<<Method(tt, "m", as)>>, "v")>>>>)>> : as \in Args}
           \cup {<<LocFun("f", Fun(<<"n">>, FALSE,          \* recursion, elseif
                     <<[st |-> "if", els |-> e,
                        cs |-> <<[c |-> <<N("n")>> \o W("<=") \o <<K(0)>>, b |-> <<Ret(<<y>>)>>],
                                 [c |-> x \o W("==") \o <<N("n")>>, b |-> <<Ret(<<<<CallOf(<<N("f")>>, <<Minus(<<N("n")>>, one)>>)>>>>)>>]>>],
                       Ret(<<<<K(3)>>>>)>>)),
                   Ret(<<<<CallOf(<<N("f")>>, <<x>>)>>, <<CallOf(<<N("f")>>, <<two>>)>>>>)>>
                 : e \in {<<>>, <<Ret(<<<<N("n")>>>>)>>}}

\* A declaration without a value after another one, across a jump target.
Blank == {<<Loc(<<"b">>, <<>>)>>, <<Loc(<<"b", "d">>, <<W("nil")>>)>>, <<>>}
Nils == {<<Do(<<Loc(<<"a", "b">>, <<one, two>>)>>)>> \o l \o <<Loc(<<"c", "d">>, <<>>), Ret(<<<<N("c")>>, <<N("d")>>>>)>>
         : l \in {<<Cond(y, b, e)>> : b \in Blank, e \in Blank} \cup {<<WhileS(y, b \o <<BreakS>>)>> : b \in Blank}}

MCPrograms ==
  Runs(Logic, {<<NIL>>, <<Num(1)>>})
  \cup Runs(Used, {<<NIL, Num(1)>>, <<Num(1), Bool(FALSE)>>})
  \cup Runs(Sums \cup Powers \cup Divisions \cup Texts, {<<Num(2)>>})
  \cup Runs(Assignments \cup Constructors, {<<Num(1), Num(2)>>})
  \cup Runs(Loops \cup IndexLoops \cup Nils, {<<Num(2), Bool(TRUE)>>, <<Num(1), NIL>>})
  \cup Runs(Calls \cup Methods, {<<Num(1), Num(2), Num(3)>>})
=============================================================================
