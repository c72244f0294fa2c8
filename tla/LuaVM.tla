------------------------------- MODULE LuaVM -------------------------------
(* The Lua virtual machine: the main loop of lvm.c with the calls of ldo.c  *)
(* and the upvalues of lfunc.c (src/depends/lua/src).  A machine `v' is a   *)
(* record                                                                   *)
(*   [proto, stack, top, ci, heap, result, ok]                              *)
(* of the main prototype, the stack and its top, the frames (innermost      *)
(* last), the heap [tabs, closures, upvals, globals], <<>> or the outcome,  *)
(* and whether every lua_assert of the loop held.  There is one operator    *)
(* per instruction, or per family of instructions that share their code; it *)
(* maps the machine before the instruction to the machine after it.  A      *)
(* value is <<"nil">>, <<"bool", b>>, <<"num", n>>, <<"str", pieces>>,      *)
(* <<"tab", id>> or <<"fun", id>>; metamethods, C functions, hooks and the  *)
(* collector are not part of this machine.                                  *)
EXTENDS LuaDump

CONSTANT StackSize              \* slots of the stack; no program here needs more

l_isfalse(x) == x \in {NIL, Bool(FALSE)}

(* ---------------------------- addressing -------------------------------- *)
RECURSIVE ProtoAt(_, _)
ProtoAt(p, path) == IF path = <<>> THEN p ELSE ProtoAt(p.p[Head(path)], Tail(path))

Frame(v) == v.ci[Len(v.ci)]
Cl(v) == v.heap.closures[Frame(v).cl]
P(v) == ProtoAt(v.proto, Cl(v).path)
I(v) == P(v).code[Frame(v).savedpc + 1]
RA(v) == Frame(v).base + I(v).a
R(v, x) == v.stack[Frame(v).base + x]
RK(v, x) == IF ISK(x) THEN P(v).k[INDEXK(x) + 1] ELSE R(v, x)
RB(v) == R(v, I(v).b)
RKB(v) == RK(v, I(v).b)
RKC(v) == RK(v, I(v).c)

\* pc moves past this instruction and then by n.
Dojump(v, n) == [v EXCEPT !.ci[Len(v.ci)].savedpc = @ + 1 + n]

Throw(v) == [v EXCEPT !.result = ERR]

\* An instruction whose whole effect is to set R(A), or to raise an error.
Sets(v, x) == IF x = ERR THEN Throw(v) ELSE Dojump([v EXCEPT !.stack[RA(v)] = x], 0)

(* ---------------------------- operations -------------------------------- *)
luaV_tonumber(x) ==
  IF x[1] = "num" THEN x
  ELSE IF x[1] = "str" /\ str2d(x[2]).ok THEN Num(str2d(x[2]).n) ELSE NIL

tostring(x) == IF x[1] = "num" THEN <<"str", <<ToString(x[2])>>>> ELSE x
Stringable(x) == x[1] \in {"num", "str"}

luaV_gettable(h, t, key) ==
  IF t[1] # "tab" THEN ERR
  ELSE IF key \in DOMAIN h.tabs[t[2]] THEN h.tabs[t[2]][key] ELSE NIL

WithField(tab, key, x) == (key :> x) @@ tab
luaV_settable(h, t, key, x) == [h EXCEPT !.tabs[t[2]] = WithField(@, key, x)]

Arith(op, b, c) ==
  LET nb == luaV_tonumber(b)
      nc == luaV_tonumber(c)
  IN IF nb = NIL \/ nc = NIL THEN ERR ELSE Num(Calc(op, nb[2], nc[2]))

\* strcoll of the C locale; no string here holds a zero character.
RECURSIVE l_strcmp(_, _)
l_strcmp(l, r) ==
  LET Code(s) == IF s = "" THEN 0 ELSE Weight(SubSeq(s, 1, 1))
  IN IF Code(l) # Code(r) THEN Code(l) - Code(r)
     ELSE IF l = "" THEN 0
     ELSE l_strcmp(SubSeq(l, 2, Len(l)), SubSeq(r, 2, Len(r)))

luaV_lessthan(a, b) ==
  CASE a[1] # b[1] -> ERR
    [] a[1] = "num" -> Bool(a[2] < b[2])
    [] a[1] = "str" -> Bool(l_strcmp(Joined(a[2]), Joined(b[2])) < 0)
    [] OTHER -> ERR

lessequal(a, b) ==
  CASE a[1] # b[1] -> ERR
    [] a[1] = "num" -> Bool(a[2] <= b[2])
    [] a[1] = "str" -> Bool(l_strcmp(Joined(a[2]), Joined(b[2])) <= 0)
    [] OTHER -> ERR

RECURSIVE StringTail(_)
StringTail(vs) ==                                      \* operands strung together at the end
  IF vs = <<>> \/ ~Stringable(vs[Len(vs)]) THEN 0 ELSE 1 + StringTail(SubSeq(vs, 1, Len(vs) - 1))

RECURSIVE Pieces(_)
Pieces(vs) == IF vs = <<>> THEN <<>> ELSE tostring(Head(vs))[2] \o Pieces(Tail(vs))

RECURSIVE luaV_concat(_)
luaV_concat(vs) ==
  LET total == Len(vs)
      last == vs[total]  prev == vs[total - 1]
      empty == last[1] = "str" /\ last[2] = <<>>
      n == IF empty THEN 2 ELSE StringTail(vs)
      one == IF empty THEN tostring(prev) ELSE <<"str", Pieces(SubSeq(vs, total - n + 1, total))>>
  IN IF total = 1 THEN last
     ELSE IF ~(Stringable(prev) /\ Stringable(last)) THEN ERR
     ELSE luaV_concat(SubSeq(vs, 1, total - n) \o <<one>>)

Length(h, x) ==
  CASE x[1] = "tab" -> LET t == h.tabs[x[2]]
                           Has(n) == Num(n) \in DOMAIN t /\ t[Num(n)] # NIL
                       IN Num(CHOOSE n \in 0 .. StackSize :
                                ~Has(n + 1) /\ \A m \in 1 .. n : Has(m))
    [] x[1] = "str" -> Num(Len(x[2]))
    [] OTHER -> ERR

(* ---------------------------- upvalues ---------------------------------- *)
UpValue(v, u) ==
  LET up == v.heap.upvals[u] IN IF up.at >= 0 THEN v.stack[up.at] ELSE up.v

vm_close(h, stk, level) ==
  [h EXCEPT !.upvals = SubSeq([u \in DOMAIN @ |->
     IF @[u].at >= level THEN [at |-> -1, v |-> stk[@[u].at]] ELSE @[u]], 1, Len(@))]

\* [h, u]: the open upvalue of a stack slot, made if there is none.
luaF_findupval(h, slot) ==
  LET at == {u \in DOMAIN h.upvals : h.upvals[u].at = slot} IN
  IF at # {} THEN [h |-> h, u |-> CHOOSE u \in at : TRUE]
  ELSE [h |-> [h EXCEPT !.upvals = Append(@, [at |-> slot, v |-> NIL])],
        u |-> Len(h.upvals) + 1]

(* ---------------------------- calls ------------------------------------- *)
\* The machine with the vararg function's parameters moved above its
\* arguments and the old-style `arg' table made: [v, base].
adjust_varargs(v, p, func, tp) ==
  LET nfix == p.numparams
      actual == IF tp - func - 1 < nfix THEN nfix ELSE tp - func - 1
      base == func + 1 + actual
      nvar == actual - nfix
      extra == [i \in {Num(j) : j \in 1 .. nvar} |-> v.stack[base - nvar + i[2] - 1]]
      htab == (Str("n") :> Num(nvar)) @@ extra
      needs == "NEEDSARG" \in p.is_vararg
      Arg(i) == IF func + 1 + i < tp THEN v.stack[func + 1 + i] ELSE NIL
  IN [base |-> base,
      v |-> [v EXCEPT !.top = base + nfix + (IF needs THEN 1 ELSE 0),
                      !.heap.tabs = IF needs THEN Append(@, htab) ELSE @,
                      !.stack = [s \in DOMAIN @ |->
                         CASE s \in base .. base + nfix - 1 -> Arg(s - base)
                           [] s \in func + 1 .. func + nfix -> NIL
                           [] needs /\ s = base + nfix -> <<"tab", Len(v.heap.tabs) + 1>>
                           [] OTHER -> @[s]]]]

\* Enter the Lua function at slot func, with arguments up to tp.  A fresh
\* frame is one luaD_call runs a new luaV_execute for.
vm_precall(v, func, tp, nresults, fresh) ==
  LET cl == v.stack[func][2]
      p == ProtoAt(v.proto, v.heap.closures[cl].path)
      fixed == func + 1 + p.numparams
      in == IF p.is_vararg # {} THEN adjust_varargs(v, p, func, tp)
            ELSE [base |-> func + 1, v |-> [v EXCEPT !.top = IF tp > fixed THEN fixed ELSE tp]]
      ctop == in.base + p.maxstacksize
      frame == [func |-> func, base |-> in.base, top |-> ctop, nresults |-> nresults,
                savedpc |-> 0, cl |-> cl, fresh |-> fresh]
  IN [in.v EXCEPT !.top = ctop, !.ci = Append(@, frame),
                  !.stack = [s \in DOMAIN @ |-> IF s \in in.v.top .. ctop - 1 THEN NIL ELSE @[s]]]

\* The results from `first' up to tp go where the function was, nil for those
\* that are missing, and its frame is left.
vm_poscall(v, first, tp) ==
  LET got == tp - first
      wanted == Frame(v).nresults
      n == IF wanted = LUA_MULTRET THEN got ELSE wanted
      res == Frame(v).func
  IN [v EXCEPT !.top = res + n, !.ci = SubSeq(@, 1, Len(@) - 1),
               !.stack = [s \in DOMAIN @ |->
                  IF s \in res .. res + n - 1 THEN IF s - res < got THEN @[first + s - res] ELSE NIL
                  ELSE @[s]]]

ArgTop(v) == IF I(v).b # 0 THEN RA(v) + I(v).b ELSE v.top

(* ---------------------------- instructions ------------------------------ *)
Move(v) == Sets(v, RB(v))
LoadK(v) == Sets(v, P(v).k[I(v).b + 1])

LoadBool(v) ==
  Dojump([v EXCEPT !.stack[RA(v)] = Bool(I(v).b = 1)], IF I(v).c = 1 THEN 1 ELSE 0)

LoadNil(v) ==
  Dojump([v EXCEPT !.stack = [s \in DOMAIN @ |->
            IF s \in RA(v) .. Frame(v).base + I(v).b THEN NIL ELSE @[s]]], 0)

GetUpval(v) == Sets(v, UpValue(v, Cl(v).up[I(v).b + 1]))

SetUpval(v) ==
  LET u == Cl(v).up[I(v).b + 1]
      at == v.heap.upvals[u].at
      x == v.stack[RA(v)]
  IN Dojump(IF at >= 0 THEN [v EXCEPT !.stack[at] = x] ELSE [v EXCEPT !.heap.upvals[u].v = x], 0)

Key(v, k) == P(v).k[k + 1]

GetGlobal(v) ==
  LET k == Key(v, I(v).b) IN Sets(v, IF k \in DOMAIN v.heap.globals THEN v.heap.globals[k] ELSE NIL)

SetGlobal(v) ==
  Dojump([v EXCEPT !.heap.globals = WithField(@, Key(v, I(v).b), v.stack[RA(v)])], 0)

GetTable(v) == Sets(v, luaV_gettable(v.heap, RB(v), RKC(v)))

SetTable(v) ==
  LET t == v.stack[RA(v)] IN
  IF t[1] # "tab" \/ RKB(v) = NIL THEN Throw(v)
  ELSE Dojump([v EXCEPT !.heap = luaV_settable(@, t, RKB(v), RKC(v))], 0)

NewTable(v) ==
  Sets([v EXCEPT !.heap.tabs = Append(@, [k \in {} |-> NIL])], <<"tab", Len(v.heap.tabs) + 1>>)

Self(v) == Sets([v EXCEPT !.stack[RA(v) + 1] = RB(v)], luaV_gettable(v.heap, RB(v), RKC(v)))

Arithmetics(v) == Sets(v, Arith(I(v).o, RKB(v), RKC(v)))
Unm(v) == Sets(v, Arith("UNM", RB(v), RB(v)))
Not(v) == Sets(v, Bool(l_isfalse(RB(v))))
LenOf(v) == Sets(v, Length(v.heap, RB(v)))

Concat(v) ==
  LET n == I(v).c - I(v).b + 1
  IN Sets(v, luaV_concat(SubSeq([i \in 1 .. n |-> R(v, I(v).b + i - 1)], 1, n)))

Jmp(v) == Dojump(v, I(v).b)

\* Over the jump that follows a test, or along it.
Branch(v, taken) == Dojump(v, IF taken THEN 1 + P(v).code[Frame(v).savedpc + 2].b ELSE 1)

Compare(v) ==
  LET x == CASE I(v).o = "EQ" -> Bool(RKB(v) = RKC(v))
             [] I(v).o = "LT" -> luaV_lessthan(RKB(v), RKC(v))
             [] I(v).o = "LE" -> lessequal(RKB(v), RKC(v))
  IN IF x = ERR THEN Throw(v) ELSE Branch(v, x = Bool(I(v).a = 1))

Test(v) == Branch(v, l_isfalse(v.stack[RA(v)]) # (I(v).c = 1))

TestSet(v) ==
  LET taken == l_isfalse(RB(v)) # (I(v).c = 1)
  IN Branch([v EXCEPT !.stack[RA(v)] = IF taken THEN RB(v) ELSE @], taken)

\* The pc is saved past the call before the new frame is entered.
Call(v) ==
  IF v.stack[RA(v)][1] # "fun" THEN Throw(v)
  ELSE vm_precall(Dojump(v, 0), RA(v), ArgTop(v), I(v).c - 1, FALSE)

\* The new frame takes the place of this one, whose upvalues are closed.
TailCall(v) ==
  LET n == vm_precall(v, RA(v), ArgTop(v), LUA_MULTRET, FALSE)
      old == Frame(v)
      new == Frame(n)
      down == RA(v) - old.func
  IN IF v.stack[RA(v)][1] # "fun" THEN Throw(v)
     ELSE [n EXCEPT !.heap = vm_close(@, n.stack, old.base), !.top = @ - down,
                    !.ci = Append(SubSeq(@, 1, Len(@) - 2),
                                  [new EXCEPT !.func = old.func, !.base = @ - down, !.top = @ - down,
                                              !.nresults = old.nresults, !.fresh = old.fresh]),
                    !.stack = [s \in DOMAIN @ |->
                       IF s \in old.func .. n.top - 1 - down THEN @[s + down] ELSE @[s]]]

\* Back in OP_TFORLOOP: go round again, past the jump that follows, or leave.
ForResult(v) ==
  LET f == Frame(v)
      cb == f.base + P(v).code[f.savedpc].a + 3
      back == P(v).code[f.savedpc + 1].b
  IN IF v.stack[cb] = NIL THEN Dojump(v, 0)
     ELSE Dojump([v EXCEPT !.stack[cb - 1] = v.stack[cb]], back)

Return(v) ==
  LET first == RA(v)
      tp == IF I(v).b # 0 THEN first + I(v).b - 1 ELSE v.top
      r == vm_poscall([v EXCEPT !.heap = vm_close(@, v.stack, Frame(v).base)], first, tp)
      back == IF Frame(v).nresults = LUA_MULTRET THEN r ELSE [r EXCEPT !.top = Frame(r).top]
  IN IF r.ci = <<>>
     THEN [r EXCEPT !.result = <<"ok", SubSeq([i \in 1 .. tp - first |-> v.stack[first + i - 1]], 1, tp - first)>>]
     ELSE IF Frame(v).fresh THEN ForResult(back) ELSE back

ForLoop(v) ==
  LET ra == RA(v)
      step == v.stack[ra + 2][2]
      idx == v.stack[ra][2] + step
      limit == v.stack[ra + 1][2]
  IN IF (step > 0 /\ idx <= limit) \/ (step <= 0 /\ limit <= idx)
     THEN Dojump([v EXCEPT !.stack[ra] = Num(idx), !.stack[ra + 3] = Num(idx)], I(v).b)
     ELSE Dojump(v, 0)

ForPrep(v) ==
  LET ra == RA(v)
      N(i) == luaV_tonumber(v.stack[ra + i])
  IN IF \E i \in 0 .. 2 : N(i) = NIL THEN Throw(v)
     ELSE Dojump([v EXCEPT !.stack[ra] = Num(N(0)[2] - N(2)[2]), !.stack[ra + 1] = N(1),
                           !.stack[ra + 2] = N(2)], I(v).b)

\* The generator is called with the state and the control variable; its
\* first result decides, on return, whether the loop goes on (ForResult).
TForLoop(v) ==
  LET ra == RA(v)
      cb == ra + 3
      set == [v EXCEPT !.stack[cb] = v.stack[ra], !.stack[cb + 1] = v.stack[ra + 1],
                       !.stack[cb + 2] = v.stack[ra + 2]]
  IN IF v.stack[ra][1] # "fun" THEN Throw(v)
     ELSE vm_precall(Dojump(set, 0), cb, cb + 3, I(v).c, TRUE)

SetList(v) ==
  LET ra == RA(v)  i == I(v)
      n == IF i.b = 0 THEN v.top - ra - 1 ELSE i.b
      c == IF i.c = 0 THEN P(v).code[Frame(v).savedpc + 2].b ELSE i.c
      first == (c - 1) * LFIELDS_PER_FLUSH
      items == [k \in {Num(first + j) : j \in 1 .. n} |-> v.stack[ra + k[2] - first]]
  IN Dojump([v EXCEPT !.heap.tabs[v.stack[ra][2]] = items @@ @,
                      !.top = IF i.b = 0 THEN Frame(v).top ELSE @],
            IF i.c = 0 THEN 1 ELSE 0)

OpClose(v) == Dojump([v EXCEPT !.heap = vm_close(@, v.stack, RA(v))], 0)

\* The upvalues of a new closure, one per pseudo instruction: [h, up].
RECURSIVE Capture(_, _, _, _)
Capture(v, h, pseudo, up) ==
  IF pseudo = <<>> THEN [h |-> h, up |-> up]
  ELSE LET i == Head(pseudo)
           f == luaF_findupval(h, Frame(v).base + i.b)
       IN IF i.o = "GETUPVAL" THEN Capture(v, h, Tail(pseudo), Append(up, Cl(v).up[i.b + 1]))
          ELSE Capture(v, f.h, Tail(pseudo), Append(up, f.u))

Closure(v) ==
  LET i == I(v)
      pc == Frame(v).savedpc
      nup == P(v).p[i.b + 1].nups
      c == Capture(v, v.heap, SubSeq(P(v).code, pc + 2, pc + 1 + nup), <<>>)
      new == [path |-> Append(Cl(v).path, i.b + 1), up |-> c.up]
  IN Dojump([v EXCEPT !.heap = [c.h EXCEPT !.closures = Append(@, new)],
                      !.stack[RA(v)] = <<"fun", Len(v.heap.closures) + 1>>], nup)

Vararg(v) ==
  LET ra == RA(v)
      base == Frame(v).base
      n == base - Frame(v).func - P(v).numparams - 1
      b == IF I(v).b = 0 THEN n ELSE I(v).b - 1
  IN Dojump([v EXCEPT !.top = IF I(v).b = 0 THEN ra + n ELSE @,
                      !.stack = [s \in DOMAIN @ |->
                         IF s \in ra .. ra + b - 1 THEN IF s - ra < n THEN @[base - n + s - ra] ELSE NIL
                         ELSE @[s]]], 0)

(* ---------------------------- the main loop ----------------------------- *)
\* The top is the frame's unless the previous instruction left an open list
\* that this one consumes (the assertions at lvm.c:403).
TopInPlace(v) ==
  /\ Frame(v).base <= v.top /\ v.top <= StackSize
  /\ v.top = Frame(v).top \/ luaG_checkopenop(I(v))

Execute(v) ==
  LET o == I(v).o IN
  CASE o = "MOVE" -> Move(v)          [] o = "LOADK" -> LoadK(v)
    [] o = "LOADBOOL" -> LoadBool(v)  [] o = "LOADNIL" -> LoadNil(v)
    [] o = "GETUPVAL" -> GetUpval(v)  [] o = "SETUPVAL" -> SetUpval(v)
    [] o = "GETGLOBAL" -> GetGlobal(v) [] o = "SETGLOBAL" -> SetGlobal(v)
    [] o = "GETTABLE" -> GetTable(v)  [] o = "SETTABLE" -> SetTable(v)
    [] o = "NEWTABLE" -> NewTable(v)  [] o = "SELF" -> Self(v)
    [] o \in {"ADD", "SUB", "MUL", "DIV", "MOD", "POW"} -> Arithmetics(v)
    [] o = "UNM" -> Unm(v)            [] o = "NOT" -> Not(v)
    [] o = "LEN" -> LenOf(v)          [] o = "CONCAT" -> Concat(v)
    [] o = "JMP" -> Jmp(v)            [] o \in {"EQ", "LT", "LE"} -> Compare(v)
    [] o = "TEST" -> Test(v)          [] o = "TESTSET" -> TestSet(v)
    [] o = "CALL" -> Call(v)          [] o = "TAILCALL" -> TailCall(v)
    [] o = "RETURN" -> Return(v)      [] o = "FORLOOP" -> ForLoop(v)
    [] o = "FORPREP" -> ForPrep(v)    [] o = "TFORLOOP" -> TForLoop(v)
    [] o = "SETLIST" -> SetList(v)    [] o = "CLOSE" -> OpClose(v)
    [] o = "CLOSURE" -> Closure(v)    [] o = "VARARG" -> Vararg(v)

\* At most 2^n instructions, up to the end of the program or a failed assertion.
RECURSIVE luaV_execute(_, _)
luaV_execute(v, n) ==
  LET half == luaV_execute(v, n - 1) IN
  IF n = 0 THEN IF TopInPlace(v) THEN Execute(v) ELSE [v EXCEPT !.ok = FALSE]
  ELSE IF half.result # <<>> \/ ~half.ok THEN half ELSE luaV_execute(half, n - 1)

\* The main function of a compiled program called for all its results, its
\* closure and arguments pushed by the caller (f_parser, luaD_call).
vm_call(proto, args, n) ==
  LET v == [proto |-> proto, top |-> Len(args) + 1, ci |-> <<>>, result |-> <<>>, ok |-> TRUE,
            heap |-> [tabs |-> <<>>, closures |-> <<[path |-> <<>>, up |-> <<>>]>>,
                      upvals |-> <<>>, globals |-> [k \in {} |-> NIL]],
            stack |-> [s \in 0 .. StackSize - 1 |-> IF s = 0 THEN <<"fun", 1>>
                                                    ELSE IF s \in DOMAIN args THEN args[s] ELSE NIL]]
  IN luaV_execute(vm_precall(v, 0, v.top, LUA_MULTRET, TRUE), n)
=============================================================================
