----------------------------- MODULE LuaParser -----------------------------
(* The parser of the Lua compiler (src/depends/lua/src/lparser.c): scopes,  *)
(* blocks, upvalues, and one operator per grammar rule, each generating the *)
(* code of its rule with LuaCode.  The tokens of a statement, and of a      *)
(* parenthesised or suffixed expression, are already grouped in a record    *)
(* (the grammar leaves no choice there); an expression is still the flat    *)
(* sequence of operators and operands that subexpr orders by priority.      *)
(* A rule whose first part fails an assertion (~fs.ok) ends there.          *)
EXTENDS LuaCode

Tk(t) == [tk |-> t]
hasmultret(k) == k \in {"VCALL", "VVARARG"}

(* ---------------------------- scopes ------------------------------------ *)
\* The n-th variable being declared, not yet visible: actvar holds its index
\* in locvars, the debug information that outlives its scope.
new_localvar(fs, name, n) ==
  [fs EXCEPT !.actvar = SubSeq(@, 1, fs.nactvar + n) \o <<Len(fs.locvars) + 1>>,
             !.locvars = Append(@, [varname |-> <<name>>, startpc |-> 0, endpc |-> 0])]

\* The variables that occupy the registers from..to-1.
Actvars(fs, from, to) == {fs.actvar[i] : i \in from + 1 .. to}

adjustlocalvars(fs, nvars) ==
  [fs EXCEPT !.nactvar = @ + nvars,
             !.locvars = [i \in DOMAIN @ |-> IF i \in Actvars(fs, fs.nactvar, fs.nactvar + nvars)
                                            THEN [@[i] EXCEPT !.startpc = PC(fs)] ELSE @[i]]]

removevars(fs, tolevel) ==
  [fs EXCEPT !.nactvar = tolevel,
             !.locvars = [i \in DOMAIN @ |-> IF i \in Actvars(fs, tolevel, fs.nactvar)
                                            THEN [@[i] EXCEPT !.endpc = PC(fs)] ELSE @[i]]]

RECURSIVE new_localvars(_, _, _)
new_localvars(fs, names, n) ==
  IF names = <<>> THEN fs
  ELSE new_localvars(new_localvar(fs, Head(names), n), Tail(names), n + 1)

\* The register of the innermost active variable of that name, or -1.
searchvar(fs, n) ==
  LET at == {i \in 1 .. fs.nactvar : fs.locvars[fs.actvar[i]].varname = <<n>>}
  IN IF at = {} THEN -1 ELSE (CHOOSE i \in at : \A j \in at : j <= i) - 1

\* The innermost block that was entered at or below that level has an upvalue.
markupval(fs, level) ==
  LET at == {i \in DOMAIN fs.bl : fs.bl[i].nactvar <= level}
      b == CHOOSE i \in at : \A j \in at : j <= i
  IN IF at = {} THEN fs ELSE [fs EXCEPT !.bl[b].upval = TRUE]

indexupvalue(fs, name, v) ==
  LET at == {i \in DOMAIN fs.upvalues : fs.upvalues[i].k = v.k /\ fs.upvalues[i].info = v.info}
      i == CHOOSE i \in at : TRUE
  IN IF at # {} THEN [fs |-> lua_assert(fs, fs.upvalues[i].name = name), i |-> i - 1]
     ELSE [fs |-> [fs EXCEPT !.upvalues = Append(@, [k |-> v.k, info |-> v.info, name |-> name])],
           i |-> Len(fs.upvalues)]

RECURSIVE singlevaraux(_, _, _)
singlevaraux(fs, n, base) ==
  LET v == searchvar(fs, n)
      up == singlevaraux(fs.prev, n, FALSE)            \* try the enclosing function
      here == indexupvalue([fs EXCEPT !.prev = up.fs], n, up.e)
  IN IF fs.level = 0 THEN Both(fs, init_exp("VGLOBAL", NO_REG))
     ELSE IF v >= 0 THEN Both(IF base THEN fs ELSE markupval(fs, v), init_exp("VLOCAL", v))
     ELSE IF up.e.k = "VGLOBAL" THEN Both(fs, up.e)
     ELSE Both(here.fs, [up.e EXCEPT !.k = "VUPVAL", !.info = here.i])

singlevar(fs, n) ==
  LET x == singlevaraux(fs, n, TRUE)
      k == addk(x.fs, Str(n))
  IN IF x.e.k = "VGLOBAL" THEN Both(k.fs, [x.e EXCEPT !.info = k.i]) ELSE x

codestring(fs, s) == LET k == addk(fs, s) IN Both(k.fs, init_exp("VK", k.i))

(* ---------------------------- blocks ------------------------------------ *)
enterblock(fs, isbreakable) ==
  lua_assert([fs EXCEPT !.bl = Append(@, [breaklist |-> NO_JUMP, isbreakable |-> isbreakable,
                                          nactvar |-> fs.nactvar, upval |-> FALSE])],
             fs.freereg = fs.nactvar)

TopBlock(fs) == fs.bl[Len(fs.bl)]

leaveblock(fs) ==
  LET bl == TopBlock(fs)
      out == removevars([fs EXCEPT !.bl = SubSeq(@, 1, Len(@) - 1)], bl.nactvar)
      closed == IF bl.upval THEN luaK_codeABC(out, "CLOSE", bl.nactvar, 0, 0) ELSE out
      a == lua_assert(closed, ~bl.isbreakable \/ ~bl.upval)   \* scope or breaks, never both
  IN luaK_patchtohere([a EXCEPT !.freereg = a.nactvar], bl.breaklist)

(* ---------------------------- functions --------------------------------- *)
open_func(fs) == NewFuncState(fs, fs.level + 1)

\* Instruction i stands on line i of the source.
Proto(fs) ==
  [code |-> fs.code, k |-> fs.k, p |-> fs.p, nups |-> Len(fs.upvalues),
   maxstacksize |-> fs.maxstacksize, numparams |-> fs.numparams, is_vararg |-> fs.is_vararg,
   source |-> <<"@", "src">>, linedefined |-> fs.level, lastlinedefined |-> fs.level + PC(fs),
   lineinfo |-> SubSeq([i \in 1 .. PC(fs) |-> i], 1, PC(fs)), locvars |-> fs.locvars,
   upvalues |-> SubSeq([i \in DOMAIN fs.upvalues |-> <<fs.upvalues[i].name>>], 1, Len(fs.upvalues))]

close_func(fs) == lua_assert(luaK_ret(removevars(fs, 0), 0, 0), fs.bl = <<>>)

\* Back in the enclosing function: an OP_CLOSURE and one pseudo instruction
\* per upvalue.
RECURSIVE CaptureUpvalues(_, _)
CaptureUpvalues(fs, ups) ==
  IF ups = <<>> \/ ~fs.ok THEN fs
  ELSE LET o == IF Head(ups).k = "VLOCAL" THEN "MOVE" ELSE "GETUPVAL"
       IN CaptureUpvalues(luaK_codeABC(fs, o, 0, Head(ups).info, 0), Tail(ups))

pushclosure(func) ==
  LET fs == [func.prev EXCEPT !.p = Append(@, Proto(func)), !.ok = @ /\ func.ok]
      c == luaK_codeABx(fs, "CLOSURE", 0, Len(fs.p) - 1)
  IN Both(CaptureUpvalues(c, func.upvalues), init_exp("VRELOCABLE", PC(c) - 1))

\* `...' also declares the old-style parameter "arg" (LUA_COMPAT_VARARG).
parlist(fs, pars, dots) ==
  LET names == pars \o (IF dots THEN <<"arg">> ELSE <<>>)
      v == IF dots THEN {"HASARG", "NEEDSARG", "ISVARARG"} ELSE {}
      in == adjustlocalvars(new_localvars(fs, names, 0), Len(names))
  IN luaK_reserveregs([in EXCEPT !.is_vararg = v,
                                 !.numparams = in.nactvar - (IF dots THEN 1 ELSE 0)],
                      in.nactvar)

RECURSIVE subexpr(_, _, _), chunk(_, _)

expr(fs, ts) == LET r == subexpr(fs, ts, 0) IN Both(r.fs, r.e)

body(fs, f, needself) ==
  LET new == open_func(fs)
      self == IF needself THEN adjustlocalvars(new_localvar(new, "self", 0), 1) ELSE new
      in == chunk(parlist(self, f.pars, f.dots), f.body)
  IN IF in.ok THEN pushclosure(close_func(in)) ELSE Both(in, init_exp("VVOID", 0))

(* ---------------------------- expressions ------------------------------- *)
\* explist1: all but the last expression are in consecutive registers.
RECURSIVE explist1(_, _)
explist1(fs, es) ==
  LET x == expr(fs, Head(es))
      next == luaK_exp2nextreg(x).fs
  IN IF Len(es) = 1 \/ ~x.fs.ok \/ ~next.ok THEN x ELSE explist1(next, Tail(es))

closelistfield(fs, cc, t) ==
  IF cc.v.k = "VVOID" THEN [fs |-> fs, cc |-> cc]
  ELSE LET n == luaK_exp2nextreg(Both(fs, cc.v)).fs
           full == cc.tostore = LFIELDS_PER_FLUSH
       IN [fs |-> IF full THEN luaK_setlist(n, t, cc.na, cc.tostore) ELSE n,
           cc |-> [cc EXCEPT !.v = init_exp("VVOID", 0), !.tostore = IF full THEN 0 ELSE @]]

lastlistfield(fs, cc, t) ==
  IF cc.tostore = 0 THEN [fs |-> fs, cc |-> cc]
  ELSE IF hasmultret(cc.v.k)
  THEN [fs |-> luaK_setlist(luaK_setreturns(fs, cc.v, LUA_MULTRET), t, cc.na, LUA_MULTRET),
        cc |-> [cc EXCEPT !.na = @ - 1]]
  ELSE LET n == IF cc.v.k = "VVOID" THEN fs ELSE luaK_exp2nextreg(Both(fs, cc.v)).fs
       IN [fs |-> luaK_setlist(n, t, cc.na, cc.tostore), cc |-> cc]

recfield(fs, key, val, t) ==
  LET k == luaK_exp2val(expr(fs, key))                 \* yindex
      rk == luaK_exp2RK(k)
      v == luaK_exp2RK(expr(rk.fs, val))
  IN [luaK_codeABC(v.fs, "SETTABLE", t, rk.rk, v.rk) EXCEPT !.freereg = fs.freereg]

\* The items of a constructor; one with an empty key is a list item.
RECURSIVE Fields(_, _, _, _)
Fields(fs, items, cc, t) ==
  IF items = <<>> \/ ~fs.ok THEN lastlistfield(fs, cc, t)
  ELSE LET c == closelistfield(lua_assert(fs, cc.v.k = "VVOID" \/ cc.tostore > 0), cc, t)
           i == Head(items)
           x == expr(c.fs, i.val)
       IN IF i.key = <<>>
          THEN Fields(x.fs, Tail(items),
                      [c.cc EXCEPT !.v = x.e, !.na = @ + 1, !.tostore = @ + 1], t)
          ELSE Fields(recfield(c.fs, i.key, i.val, t), Tail(items), [c.cc EXCEPT !.nh = @ + 1], t)

constructor(fs, items) ==
  LET pc == PC(fs)
      t == luaK_exp2nextreg(Both(luaK_codeABC(fs, "NEWTABLE", 0, 0, 0),
                                 init_exp("VRELOCABLE", pc)))
      r == Fields(t.fs, items, [v |-> init_exp("VVOID", 0), na |-> 0, nh |-> 0, tostore |-> 0],
                  t.e.info)
  IN Both([r.fs EXCEPT !.code[pc + 1].b = r.cc.na, !.code[pc + 1].c = r.cc.nh], t.e)

funcargs(x, args) ==
  LET base == x.e.info
      a == explist1(x.fs, args)
      open == hasmultret(a.e.k)
      fs == IF args = <<>> THEN x.fs
            ELSE IF open THEN luaK_setreturns(a.fs, a.e, LUA_MULTRET)
            ELSE luaK_exp2nextreg(a).fs
      nparams == IF args # <<>> /\ open THEN LUA_MULTRET ELSE fs.freereg - (base + 1)
      call == luaK_codeABC(lua_assert(fs, x.e.k = "VNONRELOC"), "CALL", base, nparams + 1, 2)
  IN IF ~x.fs.ok \/ ~fs.ok THEN x
     ELSE Both([call EXCEPT !.freereg = base + 1], init_exp("VCALL", PC(call) - 1))

\* prefixexp followed by its suffixes, outermost suffix first.
RECURSIVE primaryexp(_, _)
primaryexp(fs, t) ==
  LET of == primaryexp(fs, t.of)
      reg == luaK_exp2anyreg(of)
      key == luaK_exp2val(expr(reg.fs, t.key))         \* yindex
      name == codestring(of.fs, Str(t.n))
  IN CASE t.tk = "NAME" -> singlevar(fs, t.n)
       [] t.tk = "(" -> luaK_dischargevars(expr(fs, t.e))
       [] t.tk = "index" -> IF of.fs.ok THEN luaK_indexed(key.fs, reg.e, key.e) ELSE of
       [] t.tk = "call" -> funcargs(luaK_exp2nextreg(of), t.args)
       [] t.tk = "method" -> funcargs(luaK_self(Both(name.fs, of.e), name.e), t.args)

simpleexp(fs, t) ==
  CASE t.tk = "NUMBER" -> Both(fs, [init_exp("VKNUM", 0) EXCEPT !.nval = t.r])
    [] t.tk = "STRING" -> codestring(fs, t.ts)
    [] t.tk = "nil" -> Both(fs, init_exp("VNIL", 0))
    [] t.tk = "true" -> Both(fs, init_exp("VTRUE", 0))
    [] t.tk = "false" -> Both(fs, init_exp("VFALSE", 0))
    [] t.tk = "..." -> Both(luaK_codeABC([fs EXCEPT !.is_vararg = @ \ {"NEEDSARG"}], "VARARG", 0, 1, 0),
                            init_exp("VVARARG", PC(fs)))
    [] t.tk = "{" -> constructor(fs, t.items)
    [] t.tk = "function" -> body(fs, t.f, FALSE)
    [] OTHER -> primaryexp(fs, t)

UnOpr == {"not", "-", "#"}
UNARY_PRIORITY == 8

priority == [o \in {"+", "-"} |-> <<6, 6>>] @@ [o \in {"*", "/", "%"} |-> <<7, 7>>] @@ ("^" :> <<10, 9>>)
            @@ (".." :> <<5, 4>>) @@ [o \in {"==", "~=", "<", "<=", ">", ">="} |-> <<3, 3>>]
            @@ ("and" :> <<2, 2>>) @@ ("or" :> <<1, 1>>)

\* Expand while operators have priorities higher than limit.
RECURSIVE Operators(_, _)
Operators(s, limit) ==
  IF s.ts = <<>> \/ priority[Head(s.ts).tk][1] <= limit THEN s
  ELSE LET op == Head(s.ts).tk
           x == luaK_infix(op, Both(s.fs, s.e))
           r == subexpr(x.fs, Tail(s.ts), priority[op][2])
           y == luaK_posfix(r.fs, op, x.e, r.e)
       IN IF ~r.fs.ok THEN r ELSE Operators([fs |-> y.fs, e |-> y.e, ts |-> r.ts], limit)

\* Returns [fs, e, ts]: ts is what is left, an operator first.
subexpr(fs, ts, limit) ==
  LET t == Head(ts)
      r == subexpr(fs, Tail(ts), UNARY_PRIORITY)
      u == luaK_prefix(t.tk, Both(r.fs, r.e))
      s == simpleexp(fs, t)
  IN IF t.tk \in UnOpr THEN Operators([fs |-> u.fs, e |-> u.e, ts |-> r.ts], limit)
     ELSE Operators([fs |-> s.fs, e |-> s.e, ts |-> Tail(ts)], limit)

(* ---------------------------- statements -------------------------------- *)
adjust_assign(x, nvars, nexps) ==
  LET extra == nvars - nexps
      wanted == IF extra + 1 < 0 THEN 0 ELSE extra + 1 \* includes the call itself
      m == luaK_setreturns(x.fs, x.e, wanted)
      fs == IF x.e.k = "VVOID" THEN x.fs ELSE luaK_exp2nextreg(x).fs
  IN IF hasmultret(x.e.k) THEN IF wanted > 1 THEN luaK_reserveregs(m, wanted - 1) ELSE m
     ELSE IF extra > 0 THEN luaK_nil(luaK_reserveregs(fs, extra), fs.freereg, extra)
     ELSE fs

block(fs, b) ==
  LET in == chunk(enterblock(fs, FALSE), b)
  IN IF in.ok THEN leaveblock(lua_assert(in, TopBlock(in).breaklist = NO_JUMP)) ELSE in

\* A local assigned to here and used, as table or key, by an earlier
\* assignment of the same statement is copied to a safe register first.
check_conflict(fs, lhs, v) ==
  LET Uses(l) == l.k = "VINDEXED" /\ (l.info = v.info \/ l.aux = v.info)
      Swap(r) == IF r = v.info THEN fs.freereg ELSE r
      safe == [i \in DOMAIN lhs |->
                 IF lhs[i].k = "VINDEXED"
                 THEN [lhs[i] EXCEPT !.info = Swap(@), !.aux = Swap(@)] ELSE lhs[i]]
  IN [fs |-> IF \E i \in DOMAIN lhs : Uses(lhs[i])
             THEN luaK_reserveregs(luaK_codeABC(fs, "MOVE", fs.freereg, v.info, 0), 1) ELSE fs,
      lhs |-> safe]

\* The variables on the left, in order: [fs, lhs].
RECURSIVE Targets(_, _, _)
Targets(fs, vs, lhs) ==
  IF vs = <<>> \/ ~fs.ok THEN [fs |-> fs, lhs |-> lhs]
  ELSE LET x == primaryexp(fs, Head(vs))
           c == IF x.e.k = "VLOCAL" /\ lhs # <<>> THEN check_conflict(x.fs, lhs, x.e)
                ELSE [fs |-> x.fs, lhs |-> lhs]
       IN Targets(c.fs, Tail(vs), SubSeq(c.lhs, 1, Len(c.lhs)) \o <<x.e>>)

\* The values in registers are stored from the last variable to the first.
RECURSIVE StoreAll(_, _)
StoreAll(fs, lhs) ==
  IF lhs = <<>> \/ ~fs.ok THEN fs
  ELSE StoreAll(luaK_storevar(fs, lhs[Len(lhs)], init_exp("VNONRELOC", fs.freereg - 1)),
                SubSeq(lhs, 1, Len(lhs) - 1))

assignment(fs, vs, es) ==
  LET l == Targets(fs, vs, <<>>)
      x == explist1(l.fs, es)
      nvars == Len(vs)  nexps == Len(es)
      adj == adjust_assign(x, nvars, nexps)
      one == luaK_setoneret(x)
      stored == luaK_storevar(one.fs, l.lhs[nvars], one.e)
  IN IF ~x.fs.ok THEN x.fs
     ELSE IF nexps = nvars THEN StoreAll(stored, SubSeq(l.lhs, 1, nvars - 1))
     ELSE StoreAll(IF nexps > nvars THEN [adj EXCEPT !.freereg = @ - (nexps - nvars)] ELSE adj,
                   l.lhs)

\* Returns [fs, l]: the jumps taken when the condition is false.
cond(fs, ts) ==
  LET x == expr(fs, ts)
      y == luaK_goiftrue(IF x.e.k = "VNIL" THEN [x EXCEPT !.e.k = "VFALSE"] ELSE x)
  IN IF ~x.fs.ok THEN [fs |-> x.fs, l |-> NO_JUMP] ELSE [fs |-> y.fs, l |-> y.e.f]

breakstat(fs) ==
  LET at == {i \in DOMAIN fs.bl : fs.bl[i].isbreakable}
      b == CHOOSE i \in at : \A j \in at : j <= i
      upval == \E i \in b + 1 .. Len(fs.bl) : fs.bl[i].upval
      j == luaK_jump(IF upval THEN luaK_codeABC(fs, "CLOSE", fs.bl[b].nactvar, 0, 0) ELSE fs)
      l == luaK_concat(j.fs, fs.bl[b].breaklist, j.l)
  IN [l.fs EXCEPT !.bl[b].breaklist = l.l]

whilestat(fs, s) ==
  LET c == cond(luaK_getlabel(fs), s.c)
      b == IF c.fs.ok THEN block(enterblock(c.fs, TRUE), s.b) ELSE c.fs
      j == luaK_jump(b)
  IN IF ~b.ok THEN b ELSE luaK_patchtohere(leaveblock(luaK_patchlist(j.fs, j.l, PC(fs))), c.l)

\* Mutant of repeatstat: an upvalue of the body does not change the loop.
Bugrepeatstat(fs, s) ==
  LET in == chunk(enterblock(enterblock(luaK_getlabel(fs), TRUE), FALSE), s.b)
      c == cond(in, s.c)
  IN leaveblock(luaK_patchlist(leaveblock(c.fs), c.l, PC(fs)))

\* The condition is inside the scope of the body; a body with upvalues must
\* close them both when it repeats and when it leaves.
repeatstat(fs, s) ==
  LET in == chunk(enterblock(enterblock(luaK_getlabel(fs), TRUE), FALSE), s.b)
      c == cond(in, s.c)
      j == luaK_jump(leaveblock(luaK_patchtohere(breakstat(c.fs), c.l)))
  IN IF ~in.ok \/ ~c.fs.ok THEN c.fs
     ELSE IF ~TopBlock(c.fs).upval THEN leaveblock(luaK_patchlist(leaveblock(c.fs), c.l, PC(fs)))
     ELSE leaveblock(luaK_patchlist(j.fs, j.l, PC(fs)))

forbody(fs, base, nvars, isnum, b) ==
  LET ctl == adjustlocalvars(fs, 3)
      prep == IF isnum THEN [fs |-> luaK_codeABx(ctl, "FORPREP", base, NO_JUMP), l |-> PC(ctl)]
              ELSE luaK_jump(ctl)
      in == luaK_reserveregs(adjustlocalvars(enterblock(prep.fs, FALSE), nvars), nvars)
      out == luaK_patchtohere(leaveblock(block(in, b)), prep.l)
      num == luaK_codeABx(out, "FORLOOP", base, NO_JUMP)
      j == luaK_jump(luaK_codeABC(out, "TFORLOOP", base, 0, nvars))
  IN IF isnum THEN luaK_patchlist(num, PC(out), prep.l + 1)
     ELSE luaK_patchlist(j.fs, j.l, prep.l + 1)

exp1(fs, ts) == luaK_exp2nextreg(expr(fs, ts)).fs

fornum(fs, s) ==
  LET new == new_localvars(fs, <<"(for index)", "(for limit)", "(for step)", s.n>>, 0)
      lim == exp1(exp1(new, s.lo), s.hi)
      k == addk(lim, Num(1))
      step == IF s.step # <<>> THEN exp1(lim, s.step)
              ELSE luaK_reserveregs(luaK_codeABx(k.fs, "LOADK", lim.freereg, k.i), 1)
  IN forbody(step, fs.freereg, 1, TRUE, s.b)

forlist(fs, s) ==
  LET new == new_localvars(fs, <<"(for generator)", "(for state)", "(for control)">> \o s.ns, 0)
      three == adjust_assign(explist1(new, s.es), 3, Len(s.es))
  IN forbody(luaK_checkstack(three, 3), fs.freereg, Len(s.ns), FALSE, s.b)

forstat(fs, s) ==
  LET in == enterblock(fs, TRUE)
  IN leaveblock(IF s.st = "fornum" THEN fornum(in, s) ELSE forlist(in, s))

\* cs: the tests and their blocks; els: the block of `else', <<>> when absent.
RECURSIVE Branches(_, _, _, _)
Branches(fs, cs, els, escape) ==
  LET c == cond(fs, Head(cs).c)
      then == IF c.fs.ok THEN block(c.fs, Head(cs).b) ELSE c.fs
      j == luaK_jump(then)
      esc == luaK_concat(j.fs, escape, j.l)
      next == luaK_patchtohere(esc.fs, c.l)
      last == luaK_concat(then, escape, c.l)
  IN IF ~then.ok THEN then
     ELSE IF Len(cs) > 1 THEN Branches(next, Tail(cs), els, esc.l)
     ELSE IF els # <<>> THEN luaK_patchtohere(block(next, els), esc.l)
     ELSE luaK_patchtohere(last.fs, last.l)

ifstat(fs, s) == Branches(fs, s.cs, s.els, NO_JUMP)

localfunc(fs, s) ==
  LET v == init_exp("VLOCAL", fs.freereg)
      in == adjustlocalvars(luaK_reserveregs(new_localvar(fs, s.n, 0), 1), 1)
      b == body(in, s.f, FALSE)
      st == luaK_storevar(b.fs, v, b.e)                \* debug information sees it from here
  IN [st EXCEPT !.locvars[st.actvar[st.nactvar]].startpc = PC(st)]

localstat(fs, s) ==
  LET new == new_localvars(fs, s.ns, 0)
      x == IF s.es = <<>> THEN Both(new, init_exp("VVOID", 0)) ELSE explist1(new, s.es)
  IN adjustlocalvars(adjust_assign(x, Len(s.ns), Len(s.es)), Len(s.ns))

funcstat(fs, s) ==
  LET v == primaryexp(fs, s.v)
      b == body(v.fs, s.f, s.self)
  IN luaK_storevar(b.fs, v.e, b.e)

exprstat(fs, s) ==
  LET x == primaryexp(fs, s.e) IN [x.fs EXCEPT !.code[x.e.info + 1].c = 1]

retstat(fs, s) ==
  LET x == IF s.es = <<>> THEN Both(fs, init_exp("VVOID", 0)) ELSE explist1(fs, s.es)
      nret == Len(s.es)
      m == luaK_setreturns(x.fs, x.e, LUA_MULTRET)
      tail == x.e.k = "VCALL" /\ nret = 1
      t == lua_assert([m EXCEPT !.code[x.e.info + 1].o = "TAILCALL"],
                      CodeAt(m, x.e.info).a = fs.nactvar)
      one == luaK_exp2anyreg(x)
      all == luaK_exp2nextreg(x).fs
  IN IF ~x.fs.ok THEN x.fs
     ELSE IF nret = 0 THEN luaK_ret(fs, 0, 0)
     ELSE IF hasmultret(x.e.k) THEN luaK_ret(IF tail THEN t ELSE m, fs.nactvar, LUA_MULTRET)
     ELSE IF nret = 1 THEN luaK_ret(one.fs, one.e.info, 1)
     ELSE luaK_ret(lua_assert(all, nret = all.freereg - all.nactvar), all.nactvar, nret)

statement(fs, s) ==
  CASE s.st = "if" -> ifstat(fs, s)
    [] s.st = "while" -> whilestat(fs, s)
    [] s.st = "do" -> block(fs, s.b)
    [] s.st \in {"fornum", "forin"} -> forstat(fs, s)
    [] s.st = "repeat" -> repeatstat(fs, s)
    [] s.st = "function" -> funcstat(fs, s)
    [] s.st = "localfunction" -> localfunc(fs, s)
    [] s.st = "local" -> localstat(fs, s)
    [] s.st = "return" -> retstat(fs, s)
    [] s.st = "break" -> breakstat(fs)
    [] s.st = "call" -> exprstat(fs, s)
    [] s.st = "assign" -> assignment(fs, s.vs, s.es)

chunk(fs, ss) ==
  IF ss = <<>> THEN fs
  ELSE LET f == statement(fs, Head(ss))
           a == lua_assert(f, f.maxstacksize >= f.freereg /\ f.freereg >= f.nactvar)
       IN IF ~f.ok THEN f ELSE chunk([a EXCEPT !.freereg = a.nactvar], Tail(ss))

\* The main function is always vararg; [proto, ok].
luaY_parser(ss) ==
  LET main == [NewFuncState([level |-> 0], 1) EXCEPT !.is_vararg = {"ISVARARG"}]
      f == close_func(chunk(main, ss))
  IN [proto |-> Proto(f), ok |-> f.ok /\ f.upvalues = <<>>]
=============================================================================
