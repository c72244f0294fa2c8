------------------------------ MODULE LuaCode ------------------------------
(* The code generator of the Lua compiler (src/depends/lua/src/lcode.c).    *)
(* A FuncState `fs' is a record that every operation takes and returns, an  *)
(* expdesc `e' a record [k, info, aux, nval, t, f], and an operation on     *)
(* both maps a pair [fs, e] to a pair.  An instruction is a record          *)
(* [o, a, b, c] whose b also holds Bx and sBx.  Every lua_assert of the     *)
(* generator is conjoined to fs.ok, so that "no assertion fails" can be     *)
(* asked of a build that has them compiled out.                             *)
EXTENDS Integers, Sequences, TLC

CONSTANTS LFIELDS_PER_FLUSH,    \* list items stored by one OP_SETLIST (50)
          MAXARG_C,             \* largest OP_SETLIST batch number (511)
          MAXINDEXRK            \* largest constant index an RK operand holds (255)

NO_JUMP == -1
NO_REG == 255
BITRK == 256
LUA_MULTRET == -1

ISK(x) == x >= BITRK
INDEXK(x) == x - BITRK
RKASK(x) == x + BITRK

\* Instructions that test a condition and are followed by a jump.
testTMode(o) == o \in {"EQ", "LT", "LE", "TEST", "TESTSET", "TFORLOOP"}

Instr(o, a, b, c) == [o |-> o, a |-> a, b |-> b, c |-> c]

NewFuncState(prev, level) ==
  [code |-> <<>>, k |-> <<>>, p |-> <<>>, jpc |-> NO_JUMP, lasttarget |-> -1,
   freereg |-> 0, nactvar |-> 0, actvar |-> <<>>, locvars |-> <<>>, bl |-> <<>>,
   upvalues |-> <<>>,
   maxstacksize |-> 2, numparams |-> 0, is_vararg |-> {}, prev |-> prev,
   level |-> level, ok |-> TRUE]

init_exp(k, i) == [k |-> k, info |-> i, aux |-> 0, nval |-> 0, t |-> NO_JUMP, f |-> NO_JUMP]

(* Values. *)
NIL == <<"nil">>
Num(n) == <<"num", n>>
Bool(b) == <<"bool", b>>
Str(n) == <<"str", <<n>>>>
ERR == <<"error">>

\* The characters of a string, which is kept as the pieces it was made of.
RECURSIVE Joined(_)
Joined(pieces) == IF pieces = <<>> THEN "" ELSE Head(pieces) \o Joined(Tail(pieces))

\* The order of characters in the C locale.
Collating == "-0123456789abcdefghijklmnopqrstuvwxyz"
Weight(c) == CHOOSE i \in 1 .. Len(Collating) : SubSeq(Collating, i, i) = c

\* luaO_str2d on the numerals a program here can hold; [ok, n].
Numerals == -20 .. 99
str2d(pieces) ==
  LET ns == {n \in Numerals : ToString(n) = Joined(pieces)}
  IN [ok |-> ns # {}, n |-> IF ns = {} THEN 0 ELSE CHOOSE n \in ns : TRUE]

Both(fs, e) == [fs |-> fs, e |-> e]
lua_assert(fs, p) == [fs EXCEPT !.ok = @ /\ p]
PC(fs) == Len(fs.code)
CodeAt(fs, pc) == fs.code[pc + 1]

hasjumps(e) == e.t # e.f
isnumeral(e) == e.k = "VKNUM" /\ e.t = NO_JUMP /\ e.f = NO_JUMP

(* ---------------------------- jump lists -------------------------------- *)
fixjump(fs, pc, dest) == [fs EXCEPT !.code[pc + 1].b = dest - (pc + 1)]

\* The list of jumps is threaded through the offsets of the jumps themselves.
getjump(fs, pc) ==
  IF CodeAt(fs, pc).b = NO_JUMP THEN NO_JUMP ELSE pc + 1 + CodeAt(fs, pc).b

getjumpcontrol(fs, pc) ==
  IF pc >= 1 /\ testTMode(CodeAt(fs, pc - 1).o) THEN pc - 1 ELSE pc

RECURSIVE Jumps(_, _)
Jumps(fs, list) ==
  IF list = NO_JUMP THEN <<>> ELSE <<list>> \o Jumps(fs, getjump(fs, list))

ProducesValue(fs, j) == CodeAt(fs, getjumpcontrol(fs, j)).o = "TESTSET"

need_value(fs, list) ==
  LET js == Jumps(fs, list) IN \E i \in DOMAIN js : ~ProducesValue(fs, js[i])

patchtestreg(fs, node, reg) ==
  LET at == getjumpcontrol(fs, node) + 1
      i == fs.code[at]
  IN IF ~ProducesValue(fs, node) THEN fs
     ELSE IF reg # NO_REG /\ reg # i.b THEN [fs EXCEPT !.code[at].a = reg]
     ELSE [fs EXCEPT !.code[at] = Instr("TEST", i.b, 0, i.c)]

RECURSIVE removevalues(_, _)
removevalues(fs, list) ==
  IF list = NO_JUMP THEN fs
  ELSE removevalues(patchtestreg(fs, list, NO_REG), getjump(fs, list))

RECURSIVE patchlistaux(_, _, _, _, _)
patchlistaux(fs, list, vtarget, reg, dtarget) ==
  IF list = NO_JUMP THEN fs
  ELSE LET dest == IF ProducesValue(fs, list) THEN vtarget ELSE dtarget
           done == fixjump(patchtestreg(fs, list, reg), list, dest)
       IN patchlistaux(lua_assert(done, dest # NO_JUMP), getjump(fs, list),
                       vtarget, reg, dtarget)

dischargejpc(fs) ==
  [patchlistaux(fs, fs.jpc, PC(fs), NO_REG, PC(fs)) EXCEPT !.jpc = NO_JUMP]

luaK_concat(fs, l1, l2) ==
  IF l2 = NO_JUMP THEN [fs |-> fs, l |-> l1]
  ELSE IF l1 = NO_JUMP THEN [fs |-> fs, l |-> l2]
  ELSE LET js == Jumps(fs, l1) IN [fs |-> fixjump(fs, js[Len(js)], l2), l |-> l1]

luaK_getlabel(fs) == [fs EXCEPT !.lasttarget = PC(fs)]

luaK_patchtohere(fs, list) ==
  LET c == luaK_concat(luaK_getlabel(fs), fs.jpc, list) IN [c.fs EXCEPT !.jpc = c.l]

luaK_patchlist(fs, list, target) ==
  IF target = PC(fs) THEN luaK_patchtohere(fs, list)
  ELSE patchlistaux(lua_assert(fs, target < PC(fs)), list, target, NO_REG, target)

(* ---------------------------- instructions ------------------------------ *)
luaK_code(fs, i) == [dischargejpc(fs) EXCEPT !.code = Append(@, i)]

luaK_codeABC(fs, o, a, b, c) == luaK_code(fs, Instr(o, a, b, c))

luaK_codeABx(fs, o, a, bx) == luaK_code(fs, Instr(o, a, bx, 0))

luaK_jump(fs) ==
  luaK_concat(luaK_codeABx([fs EXCEPT !.jpc = NO_JUMP], "JMP", 0, NO_JUMP), PC(fs), fs.jpc)

condjump(fs, op, a, b, c) == luaK_jump(luaK_codeABC(fs, op, a, b, c))

luaK_ret(fs, first, nret) == luaK_codeABC(fs, "RETURN", first, nret + 1, 0)

luaK_nil(fs, from, n) ==
  LET pc == PC(fs)
      free == pc > fs.lasttarget                       \* no jump to here
      prev == CodeAt(fs, pc - 1)
  IN IF free /\ pc = 0 /\ from >= fs.nactvar THEN fs
     ELSE IF free /\ pc > 0 /\ prev.o = "LOADNIL" /\ prev.a <= from /\ from <= prev.b + 1
     THEN [fs EXCEPT !.code[pc].b = IF from + n - 1 > @ THEN from + n - 1 ELSE @]
     ELSE luaK_codeABC(fs, "LOADNIL", from, from + n - 1, 0)

luaK_setlist(fs, base, nelems, tostore) ==
  LET c == (nelems - 1) \div LFIELDS_PER_FLUSH + 1
      b == IF tostore = LUA_MULTRET THEN 0 ELSE tostore
      a == lua_assert(fs, tostore # 0)
      done == IF c <= MAXARG_C THEN luaK_codeABC(a, "SETLIST", base, b, c)
              ELSE luaK_code(luaK_codeABC(a, "SETLIST", base, b, 0), Instr("COUNT", 0, c, 0))
  IN [done EXCEPT !.freereg = base + 1]

(* ---------------------------- registers --------------------------------- *)
luaK_checkstack(fs, n) ==
  [fs EXCEPT !.maxstacksize = IF fs.freereg + n > @ THEN fs.freereg + n ELSE @]

luaK_reserveregs(fs, n) == [luaK_checkstack(fs, n) EXCEPT !.freereg = @ + n]

freereg(fs, reg) ==
  IF ISK(reg) \/ reg < fs.nactvar THEN fs
  ELSE lua_assert([fs EXCEPT !.freereg = @ - 1], reg = fs.freereg - 1)

freeexp(fs, e) == IF e.k = "VNONRELOC" THEN freereg(fs, e.info) ELSE fs

\* Adds a constant once; the index of value v in f->k.
addk(fs, v) ==
  IF \E i \in DOMAIN fs.k : fs.k[i] = v
  THEN [fs |-> fs, i |-> (CHOOSE i \in DOMAIN fs.k : fs.k[i] = v) - 1]
  ELSE [fs |-> [fs EXCEPT !.k = Append(@, v)], i |-> Len(fs.k)]

(* ---------------------------- expressions ------------------------------- *)
luaK_setreturns(fs, e, nresults) ==
  CASE e.k = "VCALL" -> [fs EXCEPT !.code[e.info + 1].c = nresults + 1]
    [] e.k = "VVARARG" ->
         luaK_reserveregs([fs EXCEPT !.code[e.info + 1].b = nresults + 1,
                                     !.code[e.info + 1].a = fs.freereg], 1)
    [] OTHER -> fs

luaK_setoneret(x) ==
  CASE x.e.k = "VCALL" ->
         [x EXCEPT !.e.k = "VNONRELOC", !.e.info = CodeAt(x.fs, x.e.info).a]
    [] x.e.k = "VVARARG" ->
         [x EXCEPT !.fs.code[x.e.info + 1].b = 2, !.e.k = "VRELOCABLE"]
    [] OTHER -> x

Relocatable(fs, e) == Both(fs, [e EXCEPT !.k = "VRELOCABLE", !.info = PC(fs) - 1])

luaK_dischargevars(x) ==
  LET fs == x.fs  e == x.e IN
  CASE e.k = "VLOCAL" -> [x EXCEPT !.e.k = "VNONRELOC"]
    [] e.k = "VUPVAL" -> Relocatable(luaK_codeABC(fs, "GETUPVAL", 0, e.info, 0), e)
    [] e.k = "VGLOBAL" -> Relocatable(luaK_codeABx(fs, "GETGLOBAL", 0, e.info), e)
    [] e.k = "VINDEXED" ->
         Relocatable(luaK_codeABC(freereg(freereg(fs, e.aux), e.info),
                                  "GETTABLE", 0, e.info, e.aux), e)
    [] OTHER -> luaK_setoneret(x)

\* The value of e, without its jumps, goes to register reg.
discharge2reg(x, reg) ==
  LET y == luaK_dischargevars(x)  fs == y.fs  e == y.e
      k == addk(fs, Num(e.nval))
      done == CASE e.k = "VNIL" -> luaK_nil(fs, reg, 1)
                [] e.k \in {"VTRUE", "VFALSE"} ->
                     luaK_codeABC(fs, "LOADBOOL", reg, IF e.k = "VTRUE" THEN 1 ELSE 0, 0)
                [] e.k = "VK" -> luaK_codeABx(fs, "LOADK", reg, e.info)
                [] e.k = "VKNUM" -> luaK_codeABx(k.fs, "LOADK", reg, k.i)
                [] e.k = "VRELOCABLE" -> [fs EXCEPT !.code[e.info + 1].a = reg]
                [] e.k = "VNONRELOC" /\ reg # e.info -> luaK_codeABC(fs, "MOVE", reg, e.info, 0)
                [] OTHER -> fs
  IN IF e.k \in {"VVOID", "VJMP"} THEN y
     ELSE Both(done, [e EXCEPT !.k = "VNONRELOC", !.info = reg])

discharge2anyreg(x) ==
  IF x.e.k = "VNONRELOC" THEN x
  ELSE discharge2reg([x EXCEPT !.fs = luaK_reserveregs(@, 1)], x.fs.freereg)

code_label(fs, a, b, jump) == luaK_codeABC(luaK_getlabel(fs), "LOADBOOL", a, b, jump)

\* The final value of e, jumps included, goes to register reg.
exp2reg(x, reg) ==
  LET y == discharge2reg(x, reg)
      vjmp == y.e.k = "VJMP"
      c == luaK_concat(y.fs, y.e.t, y.e.info)          \* this jump joins the `t' list
      fs == IF vjmp THEN c.fs ELSE y.fs
      e == IF vjmp THEN [y.e EXCEPT !.t = c.l] ELSE y.e
      loads == need_value(fs, e.t) \/ need_value(fs, e.f)
      fj == IF vjmp THEN [fs |-> fs, l |-> NO_JUMP] ELSE luaK_jump(fs)
      twoLoads == luaK_patchtohere(code_label(code_label(fj.fs, reg, 0, 1), reg, 1, 0), fj.l)
      final == luaK_getlabel(IF loads THEN twoLoads ELSE fs)
      p_f == IF loads THEN PC(final) - 2 ELSE NO_JUMP
      p_t == IF loads THEN PC(final) - 1 ELSE NO_JUMP
      patched == patchlistaux(patchlistaux(final, e.f, PC(final), reg, p_f),
                              e.t, PC(final), reg, p_t)
  IN Both(IF hasjumps(e) THEN patched ELSE fs, init_exp("VNONRELOC", reg))

luaK_exp2nextreg(x) ==
  LET y == luaK_dischargevars(x)
      fs == luaK_reserveregs(freeexp(y.fs, y.e), 1)
  IN exp2reg(Both(fs, y.e), fs.freereg - 1)

luaK_exp2anyreg(x) ==
  LET y == luaK_dischargevars(x) IN
  IF y.e.k = "VNONRELOC" /\ ~hasjumps(y.e) THEN y
  ELSE IF y.e.k = "VNONRELOC" /\ y.e.info >= y.fs.nactvar THEN exp2reg(y, y.e.info)
  ELSE luaK_exp2nextreg(y)

luaK_exp2val(x) == IF hasjumps(x.e) THEN luaK_exp2anyreg(x) ELSE luaK_dischargevars(x)

\* Returns [fs, e, rk]: e as an operand that is a register or a constant.
luaK_exp2RK(x) ==
  LET y == luaK_exp2val(x)  e == y.e
      v == CASE e.k = "VNIL" -> NIL
             [] e.k \in {"VTRUE", "VFALSE"} -> Bool(e.k = "VTRUE")
             [] OTHER -> Num(e.nval)
      k == addk(y.fs, v)
      r == luaK_exp2anyreg(y)
  IN IF e.k \in {"VKNUM", "VTRUE", "VFALSE", "VNIL"} /\ Len(y.fs.k) <= MAXINDEXRK
     THEN [fs |-> k.fs, e |-> [e EXCEPT !.k = "VK", !.info = k.i], rk |-> RKASK(k.i)]
     ELSE IF e.k = "VK" /\ e.info <= MAXINDEXRK
     THEN [fs |-> y.fs, e |-> e, rk |-> RKASK(e.info)]
     ELSE [fs |-> r.fs, e |-> r.e, rk |-> r.e.info]

luaK_storevar(fs, var, ex) ==
  LET reg == luaK_exp2anyreg(Both(fs, ex))
      rk == luaK_exp2RK(Both(fs, ex))
  IN CASE var.k = "VLOCAL" -> exp2reg(Both(freeexp(fs, ex), ex), var.info).fs
       [] var.k = "VUPVAL" ->
            freeexp(luaK_codeABC(reg.fs, "SETUPVAL", reg.e.info, var.info, 0), reg.e)
       [] var.k = "VGLOBAL" ->
            freeexp(luaK_codeABx(reg.fs, "SETGLOBAL", reg.e.info, var.info), reg.e)
       [] var.k = "VINDEXED" ->
            freeexp(luaK_codeABC(rk.fs, "SETTABLE", var.info, var.aux, rk.rk), rk.e)
       [] OTHER -> lua_assert(fs, FALSE)

luaK_self(x, key) ==
  LET y == luaK_exp2anyreg(x)
      freed == freeexp(y.fs, y.e)
      func == freed.freereg
      k == luaK_exp2RK(Both(luaK_reserveregs(freed, 2), key))
      fs == freeexp(luaK_codeABC(k.fs, "SELF", func, y.e.info, k.rk), k.e)
  IN Both(fs, [y.e EXCEPT !.info = func, !.k = "VNONRELOC"])

luaK_indexed(fs, t, key) ==
  LET k == luaK_exp2RK(Both(fs, key))
  IN Both(k.fs, [t EXCEPT !.aux = k.rk, !.k = "VINDEXED"])

(* ---------------------------- conditions -------------------------------- *)
invertjump(fs, e) ==
  LET at == getjumpcontrol(fs, e.info) + 1
  IN lua_assert([fs EXCEPT !.code[at].a = 1 - @], fs.code[at].o \in {"EQ", "LT", "LE", "TFORLOOP"})

jumponcond(x, cond) ==
  LET fs == x.fs  e == x.e
      y == discharge2anyreg(x)
  IN IF e.k = "VRELOCABLE" /\ CodeAt(fs, e.info).o = "NOT"
     THEN condjump([fs EXCEPT !.code = SubSeq(@, 1, Len(@) - 1)],   \* remove the OP_NOT
                   "TEST", CodeAt(fs, e.info).b, 0, 1 - cond)
     ELSE condjump(freeexp(y.fs, y.e), "TESTSET", NO_REG, y.e.info, cond)

luaK_goiftrue(x) ==
  LET y == luaK_dischargevars(x)  e == y.e
      pc == CASE e.k \in {"VK", "VKNUM", "VTRUE"} -> [fs |-> y.fs, l |-> NO_JUMP]
              [] e.k = "VJMP" -> [fs |-> invertjump(y.fs, e), l |-> e.info]
              [] OTHER -> jumponcond(y, 0)
      c == luaK_concat(pc.fs, e.f, pc.l)               \* last jump in the `f' list
  IN Both(luaK_patchtohere(c.fs, e.t), [e EXCEPT !.f = c.l, !.t = NO_JUMP])

luaK_goiffalse(x) ==
  LET y == luaK_dischargevars(x)  e == y.e
      pc == CASE e.k \in {"VNIL", "VFALSE"} -> [fs |-> y.fs, l |-> NO_JUMP]
              [] e.k = "VJMP" -> [fs |-> y.fs, l |-> e.info]
              [] OTHER -> jumponcond(y, 1)
      c == luaK_concat(pc.fs, e.t, pc.l)               \* last jump in the `t' list
  IN Both(luaK_patchtohere(c.fs, e.f), [e EXCEPT !.t = c.l, !.f = NO_JUMP])

codenot(x) ==
  LET y == luaK_dischargevars(x)
      r == discharge2anyreg(y)
      z == CASE y.e.k \in {"VNIL", "VFALSE"} -> [y EXCEPT !.e.k = "VTRUE"]
             [] y.e.k \in {"VK", "VKNUM", "VTRUE"} -> [y EXCEPT !.e.k = "VFALSE"]
             [] y.e.k = "VJMP" -> [y EXCEPT !.fs = invertjump(@, y.e)]
             [] OTHER -> Relocatable(luaK_codeABC(freeexp(r.fs, r.e), "NOT", 0, r.e.info, 0), r.e)
  IN Both(removevalues(removevalues(z.fs, z.e.t), z.e.f),
          [z.e EXCEPT !.t = z.e.f, !.f = z.e.t])       \* interchange the lists

(* ---------------------------- operators --------------------------------- *)
\* luai_numadd and so on.  Numbers are integers here: a quotient that is none
\* is the pair <<a, b>>, and nothing is computed from it or from an infinity.
floor(a, b) == IF b > 0 THEN a \div b ELSE (-a) \div (-b)
Infinite(a) == IF a = 0 THEN "nan" ELSE IF a > 0 THEN "inf" ELSE "-inf"

Calc(op, a, b) ==
  CASE op = "ADD" -> a + b  [] op = "SUB" -> a - b  [] op = "MUL" -> a * b
    [] op = "DIV" -> IF b = 0 THEN Infinite(a)
                     ELSE IF floor(a, b) * b = a THEN floor(a, b) ELSE <<a, b>>
    [] op = "MOD" -> IF b = 0 THEN "nan" ELSE a - floor(a, b) * b
    [] op = "POW" -> a ^ b  [] op = "UNM" -> -a

\* Not a division by 0, the one way to a NaN from integers.
Folds(op, e1, e2) ==
  /\ isnumeral(e1) /\ isnumeral(e2) /\ op # "LEN"
  /\ op \in {"DIV", "MOD"} => e2.nval # 0

\* Mutant of codearith: frees the operand registers in the order they were
\* written instead of the order they were allocated.
Bugcodearith(fs, op, e1, e2) ==
  LET r2 == IF op \in {"UNM", "LEN"} THEN [fs |-> fs, e |-> e2, rk |-> 0] ELSE luaK_exp2RK(Both(fs, e2))
      r1 == luaK_exp2RK(Both(r2.fs, e1))
      freed == freeexp(freeexp(r1.fs, r1.e), r2.e)
  IN IF Folds(op, e1, e2) THEN Both(fs, [e1 EXCEPT !.nval = Calc(op, e1.nval, e2.nval)])
     ELSE Relocatable(luaK_codeABC(freed, op, 0, r1.rk, r2.rk), r1.e)

\* constfolding and the general case.
codearith(fs, op, e1, e2) ==
  LET r2 == IF op \in {"UNM", "LEN"} THEN [fs |-> fs, e |-> e2, rk |-> 0] ELSE luaK_exp2RK(Both(fs, e2))
      r1 == luaK_exp2RK(Both(r2.fs, e1))
      freed == IF r1.rk > r2.rk THEN freeexp(freeexp(r1.fs, r1.e), r2.e)
               ELSE freeexp(freeexp(r1.fs, r2.e), r1.e)
  IN IF Folds(op, e1, e2) THEN Both(fs, [e1 EXCEPT !.nval = Calc(op, e1.nval, e2.nval)])
     ELSE Relocatable(luaK_codeABC(freed, op, 0, r1.rk, r2.rk), r1.e)

codecomp(fs, op, cond, e1, e2) ==
  LET r1 == luaK_exp2RK(Both(fs, e1))
      r2 == luaK_exp2RK(Both(r1.fs, e2))
      freed == freeexp(freeexp(r2.fs, r2.e), r1.e)
      swap == cond = 0 /\ op # "EQ"                    \* a > b is b < a
      j == IF swap THEN condjump(freed, op, 1, r2.rk, r1.rk)
           ELSE condjump(freed, op, cond, r1.rk, r2.rk)
  IN Both(j.fs, [r1.e EXCEPT !.k = "VJMP", !.info = j.l])

luaK_prefix(op, x) ==
  LET zero == init_exp("VKNUM", 0)
      r == IF op = "-" /\ isnumeral(x.e) THEN x ELSE luaK_exp2anyreg(x)
  IN CASE op = "not" -> codenot(x)
       [] op = "-" -> codearith(r.fs, "UNM", r.e, zero)
       [] op = "#" -> codearith(r.fs, "LEN", r.e, zero)

Arithmetic == ("+" :> "ADD") @@ ("-" :> "SUB") @@ ("*" :> "MUL")
              @@ ("/" :> "DIV") @@ ("%" :> "MOD") @@ ("^" :> "POW")
Comparison == ("==" :> <<"EQ", 1>>) @@ ("~=" :> <<"EQ", 0>>) @@ ("<" :> <<"LT", 1>>)
              @@ ("<=" :> <<"LE", 1>>) @@ (">" :> <<"LT", 0>>) @@ (">=" :> <<"LE", 0>>)

luaK_infix(op, x) ==
  LET r == luaK_exp2RK(x) IN
  CASE op = "and" -> luaK_goiftrue(x)
    [] op = "or" -> luaK_goiffalse(x)
    [] op = ".." -> luaK_exp2nextreg(x)
    [] op \in DOMAIN Arithmetic /\ isnumeral(x.e) -> x
    [] OTHER -> Both(r.fs, r.e)

\* e1 .. e2: a concatenation to the right is extended to the left.
PosfixConcat(fs, e1, e2) ==
  LET y == luaK_exp2val(Both(fs, e2))
      i == CodeAt(y.fs, y.e.info)
      n == luaK_exp2nextreg(y)
  IN IF y.e.k = "VRELOCABLE" /\ i.o = "CONCAT"
     THEN LET a == freeexp(lua_assert(y.fs, e1.info = i.b - 1), e1)
          IN Both([a EXCEPT !.code[y.e.info + 1].b = e1.info],
                  [e1 EXCEPT !.k = "VRELOCABLE", !.info = y.e.info])
     ELSE codearith(n.fs, "CONCAT", e1, n.e)

luaK_posfix(fs, op, e1, e2) ==
  LET y == luaK_dischargevars(Both(fs, e2))
      and == luaK_concat(lua_assert(y.fs, e1.t = NO_JUMP), y.e.f, e1.f)
      or == luaK_concat(lua_assert(y.fs, e1.f = NO_JUMP), y.e.t, e1.t)
  IN CASE op = "and" -> Both(and.fs, [y.e EXCEPT !.f = and.l])
       [] op = "or" -> Both(or.fs, [y.e EXCEPT !.t = or.l])
       [] op = ".." -> PosfixConcat(fs, e1, e2)
       [] op \in DOMAIN Arithmetic -> codearith(fs, Arithmetic[op], e1, e2)
       [] OTHER -> codecomp(fs, Comparison[op][1], Comparison[op][2], e1, e2)
=============================================================================
