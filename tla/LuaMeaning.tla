----------------------------- MODULE LuaMeaning -----------------------------
(* What a program of the language of LuaParser means, from the reference    *)
(* manual: environments of variables that are cells of a store, closures    *)
(* that keep their environment, lists of values.  Nothing here knows of     *)
(* registers, jumps or upvalues; the compiler and the machine are checked   *)
(* against it.  m is [cells, tabs, funs, globals, err].                     *)
EXTENDS LuaCode

IsFalse(v) == v \in {NIL, Bool(FALSE)}
Level == [o \in {"or"} |-> 1] @@ [o \in {"and"} |-> 2]
         @@ [o \in {"<", ">", "<=", ">=", "~=", "=="} |-> 3]
         @@ [o \in {".."} |-> 4] @@ [o \in {"+", "-"} |-> 5] @@ [o \in {"*", "/", "%"} |-> 6]
         @@ [o \in {"^"} |-> 8]
UnaryLevel == 7
IsOp(t) == t.tk \in DOMAIN Level \cup {"not", "#"}

\* Positions of the binary operators of an expression, and the one applied last.
Binary(ts) == {i \in 2 .. Len(ts) : IsOp(ts[i]) /\ ~IsOp(ts[i - 1])}
LastOperator(ts) ==
  LET low == {i \in Binary(ts) : \A j \in Binary(ts) : Level[ts[i].tk] <= Level[ts[j].tk]}
      right == \A i \in low : ts[i].tk \in {"..", "^"}
  IN IF right THEN CHOOSE i \in low : \A j \in low : i <= j
     ELSE CHOOSE i \in low : \A j \in low : i >= j

Fails(m) == [m |-> [m EXCEPT !.err = TRUE], vs |-> <<NIL>>]
Just(m, v) == [m |-> m, vs |-> <<v>>]
First(vs) == IF vs = <<>> THEN NIL ELSE Head(vs)
Nth(vs, i) == IF i <= Len(vs) THEN vs[i] ELSE NIL
TextOf(v) == IF v[1] = "num" THEN <<ToString(v[2])>> ELSE v[2]

\* A new cell for a name.
Bind(m, env, n, v) ==
  [m |-> [m EXCEPT !.cells = Append(@, v)], env |-> [env EXCEPT !.vars = (n :> Len(m.cells) + 1) @@ @]]

RECURSIVE BindAll(_, _, _, _)
BindAll(m, env, ns, vs) ==
  IF ns = <<>> THEN [m |-> m, env |-> env]
  ELSE LET b == Bind(m, env, Head(ns), First(vs))
       IN BindAll(b.m, b.env, Tail(ns), IF vs = <<>> THEN vs ELSE Tail(vs))

Get(m, t, k) == IF k \in DOMAIN m.tabs[t[2]] THEN m.tabs[t[2]][k] ELSE NIL
NewTab(m, f) == Just([m EXCEPT !.tabs = Append(@, f)], <<"tab", Len(m.tabs) + 1>>)
TableBorder(f) == CHOOSE n \in 0 .. 20 : /\ \A i \in 1 .. n : Num(i) \in DOMAIN f /\ f[Num(i)] # NIL
                                    /\ Num(n + 1) \in DOMAIN f => f[Num(n + 1)] = NIL
Listed(vs) == [k \in {Num(i) : i \in DOMAIN vs} |-> vs[k[2]]]

\* Strings that look like numbers are numbers in arithmetic.
Numeric(v) == v[1] = "num" \/ (v[1] = "str" /\ str2d(v[2]).ok)
NumberOf(v) == IF v[1] = "num" THEN v[2] ELSE str2d(v[2]).n

\* Alphabetic order: at the first difference, or the end of the shorter one.
Before(s, t) ==
  \E k \in 0 .. Len(s) :
    /\ k < Len(t) /\ SubSeq(s, 1, k) = SubSeq(t, 1, k)
    /\ k = Len(s) \/ Weight(SubSeq(s, k + 1, k + 1)) < Weight(SubSeq(t, k + 1, k + 1))

Less(a, b) == IF a[1] = "num" THEN a[2] < b[2] ELSE Before(Joined(a[2]), Joined(b[2]))

Ratio(a, b) ==
  LET qs == {q \in Numerals : q * b = a}
  IN IF b = 0 THEN Infinite(a) ELSE IF qs = {} THEN <<a, b>> ELSE CHOOSE q \in qs : TRUE

\* The remainder that has the sign of the divisor.
Remainder(a, b) ==
  IF b = 0 THEN "nan"
  ELSE CHOOSE r \in Numerals : /\ \E q \in Numerals : q * b + r = a
                               /\ IF b > 0 THEN 0 <= r /\ r < b ELSE b < r /\ r <= 0

Binop(m, op, a, b) ==
  LET comparable == a[1] = b[1] /\ a[1] \in {"num", "str"}
      x == NumberOf(a)
      y == NumberOf(b)
  IN CASE op = "==" -> Just(m, Bool(a = b))
    [] op = "~=" -> Just(m, Bool(a # b))
    [] op = ".." -> IF {a[1], b[1]} \subseteq {"num", "str"}
                    THEN Just(m, <<"str", TextOf(a) \o TextOf(b)>>) ELSE Fails(m)
    [] op \in {"<", ">", "<=", ">="} /\ ~comparable -> Fails(m)
    [] op = "<" -> Just(m, Bool(Less(a, b)))
    [] op = ">" -> Just(m, Bool(Less(b, a)))
    [] op = "<=" -> Just(m, Bool(~Less(b, a)))
    [] op = ">=" -> Just(m, Bool(~Less(a, b)))
    [] ~(Numeric(a) /\ Numeric(b)) -> Fails(m)
    [] op = "+" -> Just(m, Num(x + y))
    [] op = "-" -> Just(m, Num(x - y))
    [] op = "*" -> Just(m, Num(x * y))
    [] op = "/" -> Just(m, Num(Ratio(x, y)))
    [] op = "%" -> Just(m, Num(Remainder(x, y)))
    [] op = "^" -> Just(m, Num(x ^ y))

Unop(m, op, v) ==
  CASE op = "not" -> Just(m, Bool(IsFalse(v)))
    [] op = "-" -> IF Numeric(v) THEN Just(m, Num(-NumberOf(v))) ELSE Fails(m)
    [] op = "#" -> CASE v[1] = "tab" -> Just(m, Num(TableBorder(m.tabs[v[2]])))
                     [] v[1] = "str" -> Just(m, Num(Len(v[2])))
                     [] OTHER -> Fails(m)

RECURSIVE Eval(_, _, _), Exec(_, _, _), EvalList(_, _, _), BuildTable(_, _, _, _, _)

Eval1(m, env, ts) == LET r == Eval(m, env, ts) IN [m |-> r.m, v |-> First(r.vs)]

CallFun(m, fv, args) ==
  LET fun == m.funs[fv[2]]
      f == fun.f
      n == Len(f.pars)
      extra == SubSeq(args, n + 1, Len(args))
      arg == NewTab(m, (Str("n") :> Num(Len(extra))) @@ Listed(extra))
      b == BindAll(IF f.dots THEN arg.m ELSE m, [fun.env EXCEPT !.dots = extra],
                   f.pars \o (IF f.dots THEN <<"arg">> ELSE <<>>),
                   IF f.dots THEN SubSeq([i \in 1 .. n |-> Nth(args, i)], 1, n) \o arg.vs ELSE args)
      r == Exec(b.m, b.env, f.body)
  IN IF fv[1] # "fun" THEN Fails(m)
     ELSE [m |-> r.m, vs |-> IF r.out = <<>> THEN <<>> ELSE r.out[2]]

Operand(m, env, t) ==
  LET of == Eval1(m, env, <<t.of>>)
      key == Eval1(of.m, env, t.key)
      args == EvalList(of.m, env, t.args)
      method == Get(of.m, of.v, Str(t.n))
  IN CASE t.tk = "NUMBER" -> Just(m, Num(t.r))
       [] t.tk = "STRING" -> Just(m, t.ts)
       [] t.tk = "nil" -> Just(m, NIL)
       [] t.tk = "true" -> Just(m, Bool(TRUE))
       [] t.tk = "false" -> Just(m, Bool(FALSE))
       [] t.tk = "..." -> [m |-> m, vs |-> env.dots]
       [] t.tk = "{" -> BuildTable(m, env, t.items, 1, [k \in {} |-> NIL])
       [] t.tk = "function" -> Just([m EXCEPT !.funs = Append(@, [f |-> t.f, env |-> env])],
                                    <<"fun", Len(m.funs) + 1>>)
       [] t.tk = "NAME" -> Just(m, IF t.n \in DOMAIN env.vars THEN m.cells[env.vars[t.n]]
                                   ELSE IF t.n \in DOMAIN m.globals THEN m.globals[t.n] ELSE NIL)
       [] t.tk = "(" -> LET r == Eval1(m, env, t.e) IN Just(r.m, r.v)
       [] t.tk = "index" -> IF of.v[1] # "tab" THEN Fails(key.m) ELSE Just(key.m, Get(key.m, of.v, key.v))
       [] t.tk = "call" -> IF args.m.err THEN Fails(args.m) ELSE CallFun(args.m, of.v, args.vs)
       [] t.tk = "method" -> IF of.v[1] # "tab" \/ args.m.err THEN Fails(args.m)
                             ELSE CallFun(args.m, method, <<of.v>> \o args.vs)

\* All the values of an expression (several for a call or `...' alone).
Eval(m, env, ts) ==
  LET i == LastOperator(ts)
      op == ts[i].tk
      l == Eval1(m, env, SubSeq(ts, 1, i - 1))
      r == Eval1(l.m, env, SubSeq(ts, i + 1, Len(ts)))
      u == Eval1(m, env, Tail(ts))
      split == Binary(ts) # {} /\ (Level[op] < UnaryLevel \/ ~IsOp(Head(ts)))
  IN IF m.err THEN Fails(m)
     ELSE IF Len(ts) = 1 THEN Operand(m, env, Head(ts))
     ELSE IF ~split THEN IF u.m.err THEN Fails(u.m) ELSE Unop(u.m, Head(ts).tk, u.v)
     ELSE IF l.m.err THEN Fails(l.m)
     ELSE IF op \in {"and", "or"}
     THEN IF (op = "and") = IsFalse(l.v) THEN Just(l.m, l.v) ELSE Just(r.m, r.v)
     ELSE IF r.m.err THEN Fails(r.m) ELSE Binop(r.m, op, l.v, r.v)

EvalList(m, env, es) ==
  IF es = <<>> THEN [m |-> m, vs |-> <<>>]
  ELSE LET r == Eval(m, env, Head(es))
           rest == EvalList(r.m, env, Tail(es))
       IN IF Len(es) = 1 THEN r ELSE [m |-> rest.m, vs |-> <<First(r.vs)>> \o rest.vs]

BuildTable(m, env, items, n, f) ==
  IF items = <<>> THEN NewTab(m, f)
  ELSE LET i == Head(items)
           k == Eval1(m, env, i.key)
           v == Eval(IF i.key = <<>> THEN m ELSE k.m, env, i.val)
           last == Len(items) = 1
           more == [x \in {Num(n + j - 1) : j \in DOMAIN v.vs} |-> v.vs[x[2] - n + 1]]
       IN IF v.m.err THEN Fails(v.m)
          ELSE IF i.key # <<>> THEN BuildTable(v.m, env, Tail(items), n, (k.v :> First(v.vs)) @@ f)
          ELSE IF last THEN BuildTable(v.m, env, <<>>, n, more @@ f)
          ELSE BuildTable(v.m, env, Tail(items), n + 1, (Num(n) :> First(v.vs)) @@ f)

(* ---------------------------- statements -------------------------------- *)
\* Where a variable of an assignment is: a cell, a global or a table field.
Place(m, env, t) ==
  LET of == Eval1(m, env, <<t.of>>)
      key == Eval1(of.m, env, t.key)
  IN CASE t.tk = "NAME" /\ t.n \in DOMAIN env.vars -> [m |-> m, p |-> <<"cell", env.vars[t.n]>>]
       [] t.tk = "NAME" -> [m |-> m, p |-> <<"global", t.n>>]
       [] OTHER -> [m |-> key.m, p |-> <<"field", of.v, key.v>>]

RECURSIVE Assigned(_, _, _, _)
Assigned(m, env, vs, ps) ==
  IF vs = <<>> THEN [m |-> m, ps |-> ps]
  ELSE LET p == Place(m, env, Head(vs)) IN Assigned(p.m, env, Tail(vs), Append(ps, p.p))

Store(m, p, v) ==
  CASE p[1] = "cell" -> [m EXCEPT !.cells[p[2]] = v]
    [] p[1] = "global" -> [m EXCEPT !.globals = (p[2] :> v) @@ @]
    [] p[1] = "field" -> IF p[2][1] # "tab" \/ p[3] = NIL THEN [m EXCEPT !.err = TRUE]
                         ELSE [m EXCEPT !.tabs[p[2][2]] = (p[3] :> v) @@ @]

RECURSIVE StorePlaces(_, _, _, _)
StorePlaces(m, ps, vs, i) ==
  IF i = 0 \/ m.err THEN m ELSE StorePlaces(Store(m, ps[i], Nth(vs, i)), ps, vs, i - 1)

Done(m, env) == [m |-> m, env |-> env, out |-> <<>>]
Block(m, env, b) == LET r == Exec(m, env, b) IN [r EXCEPT !.env = env]

RECURSIVE If(_, _, _, _), While(_, _, _), Repeat(_, _, _), ForNum(_, _, _, _, _, _), ForIn(_, _, _, _)
If(m, env, cs, els) ==
  IF cs = <<>> THEN Block(m, env, els)
  ELSE LET c == Eval1(m, env, Head(cs).c)
       IN IF IsFalse(c.v) THEN If(c.m, env, Tail(cs), els) ELSE Block(c.m, env, Head(cs).b)

\* After a loop's body: go on, or leave with what the body left with.
Leaves(r) == r.m.err \/ r.out # <<>>
LoopEnd(r, env) == [m |-> r.m, env |-> env, out |-> IF r.out = <<"break">> THEN <<>> ELSE r.out]

While(m, env, s) ==
  LET c == Eval1(m, env, s.c)
      r == Block(c.m, env, s.b)
  IN IF IsFalse(c.v) \/ c.m.err THEN Done(c.m, env)
     ELSE IF Leaves(r) THEN LoopEnd(r, env) ELSE While(r.m, env, s)

Repeat(m, env, s) ==
  LET r == Exec(m, env, s.b)
      c == Eval1(r.m, r.env, s.c)
  IN IF Leaves(r) THEN LoopEnd(r, env)
     ELSE IF c.m.err \/ ~IsFalse(c.v) THEN Done(c.m, env) ELSE Repeat(c.m, env, s)

ForNum(m, env, s, i, limit, step) ==
  LET b == Bind(m, env, s.n, Num(i))
      r == Block(b.m, b.env, s.b)
  IN IF (step > 0 /\ i > limit) \/ (step <= 0 /\ i < limit) THEN Done(m, env)
     ELSE IF Leaves(r) THEN LoopEnd(r, env) ELSE ForNum(r.m, env, s, i + step, limit, step)

ForIn(m, env, s, g) ==
  LET n == CallFun(m, Nth(g, 1), <<Nth(g, 2), Nth(g, 3)>>)
      b == BindAll(n.m, env, s.ns, n.vs)
      r == Block(b.m, b.env, s.b)
  IN IF n.m.err \/ First(n.vs) = NIL THEN Done(n.m, env)
     ELSE IF Leaves(r) THEN LoopEnd(r, env)
     ELSE ForIn(r.m, env, s, <<Nth(g, 1), Nth(g, 2), First(n.vs)>>)

Stat(m, env, s) ==
  LET l == EvalList(m, env, s.es)
      ps == Assigned(m, env, s.vs, <<>>)
      lp == EvalList(ps.m, env, s.es)
      b == BindAll(l.m, env, s.ns, l.vs)
      f == Bind(m, env, s.n, <<"fun", Len(m.funs) + 1>>)
      lims == EvalList(m, env, <<s.lo, s.hi, IF s.step = <<>> THEN <<[tk |-> "NUMBER", r |-> 1]>> ELSE s.step>>)
      g == Place(m, env, s.v)
      pars == IF s.self THEN [s.f EXCEPT !.pars = <<"self">> \o @] ELSE s.f
  IN CASE s.st = "local" -> [m |-> b.m, env |-> b.env, out |-> <<>>]
       [] s.st = "localfunction" ->
            Done([f.m EXCEPT !.funs = Append(@, [f |-> s.f, env |-> f.env])], f.env)
       [] s.st = "assign" -> Done(IF lp.m.err THEN lp.m ELSE StorePlaces(lp.m, ps.ps, lp.vs, Len(ps.ps)), env)
       [] s.st = "function" ->
            Done(Store([g.m EXCEPT !.funs = Append(@, [f |-> pars, env |-> env])], g.p,
                       <<"fun", Len(g.m.funs) + 1>>), env)
       [] s.st = "call" -> Done(Eval(m, env, <<s.e>>).m, env)
       [] s.st = "return" -> [m |-> l.m, env |-> env, out |-> <<"return", l.vs>>]
       [] s.st = "break" -> [m |-> m, env |-> env, out |-> <<"break">>]
       [] s.st = "do" -> Block(m, env, s.b)
       [] s.st = "if" -> If(m, env, s.cs, s.els)
       [] s.st = "while" -> While(m, env, s)
       [] s.st = "repeat" -> Repeat(m, env, s)
       [] s.st = "fornum" ->
            IF lims.m.err \/ \E i \in 1 .. 3 : ~Numeric(Nth(lims.vs, i)) THEN Done([lims.m EXCEPT !.err = TRUE], env)
            ELSE ForNum(lims.m, env, s, NumberOf(lims.vs[1]), NumberOf(lims.vs[2]), NumberOf(lims.vs[3]))
       [] s.st = "forin" -> IF l.m.err THEN Done(l.m, env) ELSE ForIn(l.m, env, s, l.vs)

Exec(m, env, ss) ==
  IF ss = <<>> \/ m.err THEN Done(m, env)
  ELSE LET r == Stat(m, env, Head(ss))
       IN IF Leaves(r) THEN r ELSE Exec(r.m, r.env, Tail(ss))

\* Functions and tables have no other identity in a result.
Shown(v) == IF v[1] \in {"fun", "tab"} THEN <<v[1]>> ELSE v
Shows(vs) == SubSeq([i \in DOMAIN vs |-> Shown(vs[i])], 1, Len(vs))

\* The result of a main program that is called with args as its `...'.
Meaning(ss, args) ==
  LET m == [cells |-> <<>>, tabs |-> <<>>, funs |-> <<>>, globals |-> [n \in {} |-> NIL], err |-> FALSE]
      r == Exec(m, [vars |-> [n \in {} |-> 0], dots |-> args], ss)
  IN IF r.m.err THEN ERR ELSE <<"ok", IF r.out = <<>> THEN <<>> ELSE Shows(r.out[2])>>
=============================================================================
