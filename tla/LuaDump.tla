------------------------------ MODULE LuaDump ------------------------------
(* Precompiled chunks: ldump.c writes a prototype as a stream of bytes and  *)
(* lundump.c reads it back, through the buffered stream of lzio.c, however  *)
(* the reader cuts it (src/depends/lua/src).  Byte i of the representation  *)
(* of a value x is the pair <<x, i>>; a value takes as many bytes as its    *)
(* type has here, two for everything but a char.                            *)
(* What was read is checked by the symbolic execution of ldebug.c, with the *)
(* operand modes of lopcodes.c; the compiler asserts the same of its own    *)
(* output (lparser.c:374).                                                  *)
EXTENDS LuaCode

CONSTANT MaxNesting             \* LUAI_MAXCCALLS, less the C calls in progress

(* ---------------------------- ldebug.c ---------------------------------- *)
MAXSTACK == 250

iABx == {"LOADK", "GETGLOBAL", "SETGLOBAL", "CLOSURE"}
iAsBx == {"JMP", "FORLOOP", "FORPREP"}

Arithm == {"ADD", "SUB", "MUL", "DIV", "MOD", "POW", "EQ", "LT", "LE"}

\* The modes of the operands B and C: unused, used, register, RK.
getBMode(o) ==
  CASE o \in {"TFORLOOP", "CLOSE"} -> "N"
    [] o \in {"MOVE", "LOADNIL", "GETTABLE", "SELF", "UNM", "NOT", "LEN", "CONCAT",
              "TEST", "TESTSET"} \cup iAsBx -> "R"
    [] o \in {"LOADK", "GETGLOBAL", "SETGLOBAL", "SETTABLE"} \cup Arithm -> "K"
    [] OTHER -> "U"

getCMode(o) ==
  CASE o \in {"GETTABLE", "SETTABLE", "SELF"} \cup Arithm -> "K"
    [] o = "CONCAT" -> "R"
    [] o \in {"LOADBOOL", "NEWTABLE", "TEST", "TESTSET", "CALL", "TAILCALL", "TFORLOOP",
              "SETLIST"} -> "U"
    [] OTHER -> "N"

checkreg(p, reg) == reg < p.maxstacksize

checkArgMode(p, r, mode) ==
  CASE mode = "N" -> r = 0
    [] mode = "U" -> TRUE
    [] mode = "R" -> checkreg(p, r)
    [] mode = "K" -> IF ISK(r) THEN INDEXK(r) < Len(p.k) ELSE checkreg(p, r)

precheck(p) ==
  /\ p.maxstacksize <= MAXSTACK
  /\ p.numparams + (IF "HASARG" \in p.is_vararg THEN 1 ELSE 0) <= p.maxstacksize
  /\ "NEEDSARG" \in p.is_vararg => "HASARG" \in p.is_vararg
  /\ Len(p.upvalues) <= p.nups
  /\ Len(p.lineinfo) \in {0, Len(p.code)}
  /\ Len(p.code) > 0 /\ p.code[Len(p.code)].o = "RETURN"

luaG_checkopenop(i) == i.o \in {"CALL", "TAILCALL", "RETURN", "SETLIST"} /\ i.b = 0

BigSetList(i) == i.o = "SETLIST" /\ i.c = 0

\* The number of consecutive large OP_SETLISTs just before pc: were it odd,
\* the word at pc would be the count of one.
RECURSIVE SetListsBefore(_, _)
SetListsBefore(p, pc) ==
  IF pc = 0 \/ ~BigSetList(p.code[pc]) THEN 0 ELSE 1 + SetListsBefore(p, pc - 1)

CheckJump(p, dest) ==
  /\ 0 <= dest /\ dest < Len(p.code)
  /\ SetListsBefore(p, dest) % 2 = 0

CheckOperands(p, i, pc) ==
  CASE i.o \in iABx -> getBMode(i.o) = "K" => i.b < Len(p.k)
    [] i.o \in iAsBx -> CheckJump(p, pc + 1 + i.b)
    [] OTHER -> checkArgMode(p, i.b, getBMode(i.o)) /\ checkArgMode(p, i.c, getCMode(i.o))

CheckOpcode(p, i, pc) ==
  LET next == p.code[pc + 2]
      room == pc + 2 < Len(p.code)
  IN CASE i.o = "LOADBOOL" -> i.c = 1 => room /\ ~BigSetList(next)
       [] i.o \in {"GETUPVAL", "SETUPVAL"} -> i.b < p.nups
       [] i.o \in {"GETGLOBAL", "SETGLOBAL"} -> p.k[i.b + 1][1] = "str"
       [] i.o = "SELF" -> checkreg(p, i.a + 1)
       [] i.o = "CONCAT" -> i.b < i.c
       [] i.o = "TFORLOOP" -> i.c >= 1 /\ checkreg(p, i.a + 2 + i.c)
       [] i.o \in {"FORLOOP", "FORPREP"} -> checkreg(p, i.a + 3)
       [] i.o \in {"CALL", "TAILCALL"} ->
            /\ i.b # 0 => checkreg(p, i.a + i.b - 1)
            /\ CASE i.c = 0 -> luaG_checkopenop(next)
                 [] i.c = 1 -> TRUE
                 [] OTHER -> checkreg(p, i.a + i.c - 2)
       [] i.o = "RETURN" -> i.b > 1 => checkreg(p, i.a + i.b - 2)
       [] i.o = "SETLIST" -> /\ i.b > 0 => checkreg(p, i.a + i.b)
                             /\ i.c = 0 => pc + 1 < Len(p.code) - 1
       [] i.o = "CLOSURE" -> LET nup == p.p[i.b + 1].nups IN
            /\ i.b < Len(p.p)
            /\ pc + nup < Len(p.code)
            /\ \A j \in 1 .. nup : p.code[pc + 1 + j].o \in {"GETUPVAL", "MOVE"}
       [] i.o = "VARARG" -> /\ "ISVARARG" \in p.is_vararg /\ "NEEDSARG" \notin p.is_vararg
                            /\ i.b = 0 => luaG_checkopenop(next)
                            /\ checkreg(p, i.a + i.b - 2)
       [] OTHER -> TRUE

CheckInstruction(p, pc) ==
  LET i == p.code[pc + 1] IN
  /\ checkreg(p, i.a)
  /\ CheckOperands(p, i, pc)
  /\ testTMode(i.o) => pc + 2 < Len(p.code) /\ p.code[pc + 2].o = "JMP"
  /\ CheckOpcode(p, i, pc)

\* Instructions in order; the count of a large OP_SETLIST is not one.
RECURSIVE symbexec(_, _)
symbexec(p, pc) ==
  pc >= Len(p.code) \/ ( /\ CheckInstruction(p, pc)
                         /\ symbexec(p, pc + (IF BigSetList(p.code[pc + 1]) THEN 2 ELSE 1)) )

luaG_checkcode(p) == precheck(p) /\ symbexec(p, 0)

RECURSIVE CheckAll(_)
CheckAll(p) == luaG_checkcode(p) /\ \A i \in DOMAIN p.p : CheckAll(p.p[i])

CharSize == 1
WordSize == 2                      \* int, size_t, lua_Number, Instruction
LUA_SIGNATURE == <<"header", 1>>
LUAC_HEADERSIZE == 12
NULL == <<>>                    \* no string
EndOfZ == <<"EOZ">>

BytesOf(x, size) == SubSeq([i \in 1 .. size |-> <<x, i>>], 1, size)
luaU_header == BytesOf("header", LUAC_HEADERSIZE)

(* ---------------------------- ldump.c ----------------------------------- *)
(* D is a record [out, status, strip, room]: the bytes the writer took, its *)
(* last answer, and how many bytes it will take.                            *)
DumpBlock(D, bytes) ==
  IF D.status # 0 THEN D
  ELSE IF Len(bytes) > D.room THEN [D EXCEPT !.status = 1]
  ELSE [D EXCEPT !.out = @ \o bytes, !.room = @ - Len(bytes)]

DumpChar(D, x) == DumpBlock(D, BytesOf(x, CharSize))
DumpInt(D, x) == DumpBlock(D, BytesOf(x, WordSize))
DumpNumber(D, x) == DumpBlock(D, BytesOf(x, WordSize))

\* A string is the sequence of its characters; its zero byte is dumped too.
DumpString(D, s) ==
  IF s = NULL THEN DumpInt(D, 0)
  ELSE DumpBlock(DumpInt(D, Len(s) + 1), SubSeq([i \in 1 .. Len(s) + 1 |->
                                            IF i <= Len(s) THEN <<s[i], 1>> ELSE <<"0", 1>>], 1, Len(s) + 1))

RECURSIVE DumpList(_, _, _)
DumpList(Dump(_, _), D, xs) ==
  IF xs = <<>> \/ D.status # 0 THEN D ELSE DumpList(Dump, Dump(D, Head(xs)), Tail(xs))

\* A count, then that many items.
DumpVector(Dump(_, _), D, xs) == DumpList(Dump, DumpInt(D, Len(xs)), xs)

DumpConstant(D, o) ==
  LET t == DumpChar(D, o[1]) IN
  CASE o[1] = "nil" -> t
    [] o[1] = "bool" -> DumpChar(t, o[2])
    [] o[1] = "num" -> DumpNumber(t, o[2])
    [] o[1] = "str" -> DumpString(t, o[2])

DumpLocVar(D, v) == DumpInt(DumpInt(DumpString(D, v.varname), v.startpc), v.endpc)

\* Mutant of DumpDebug: keeps the names of upvalues when stripping.
BugDumpDebug(D, f) ==
  LET Unless(xs) == IF D.strip THEN <<>> ELSE xs
      lines == DumpVector(DumpInt, D, Unless(f.lineinfo))
      vars == DumpVector(DumpLocVar, lines, Unless(f.locvars))
  IN DumpVector(DumpString, vars, f.upvalues)

DumpDebug(D, f) ==
  LET Unless(xs) == IF D.strip THEN <<>> ELSE xs
      lines == DumpVector(DumpInt, D, Unless(f.lineinfo))
      vars == DumpVector(DumpLocVar, lines, Unless(f.locvars))
  IN DumpVector(DumpString, vars, Unless(f.upvalues))

\* The name of the source is left out when it is the enclosing function's.
RECURSIVE DumpFunction(_, _, _)
DumpFunction(D, f, p) ==
  LET Nested(E, g) == DumpFunction(E, g, f.source)
      name == DumpString(D, IF f.source = p \/ D.strip THEN NULL ELSE f.source)
      at == DumpInt(DumpInt(name, f.linedefined), f.lastlinedefined)
      nums == DumpChar(DumpChar(DumpChar(DumpChar(at, f.nups), f.numparams), f.is_vararg), f.maxstacksize)
      code == DumpVector(DumpInt, nums, f.code)
      k == DumpVector(DumpConstant, code, f.k)
  IN DumpDebug(DumpVector(Nested, k, f.p), f)

luaU_dump(f, strip, room) ==
  LET D == [out |-> <<>>, status |-> 0, strip |-> strip, room |-> room]
  IN DumpFunction(DumpBlock(D, luaU_header), f, NULL)

(* ---------------------------- lzio.c ------------------------------------ *)
(* z is a record [buff, data]: what is unread of the piece the reader gave  *)
(* last, and the pieces it still has.                                       *)
luaZ_init(pieces) == [buff |-> <<>>, data |-> pieces]

\* The reader is asked for the next piece; an empty one ends the stream.
luaZ_fill(z) ==
  IF z.data = <<>> THEN z ELSE [buff |-> Head(z.data), data |-> Tail(z.data)]

luaZ_lookahead(z) ==
  LET y == IF z.buff = <<>> THEN luaZ_fill(z) ELSE z
  IN [z |-> y, c |-> IF y.buff = <<>> THEN EndOfZ ELSE Head(y.buff)]

\* [z, b, missing]: the bytes got and how many of the n there were not.
RECURSIVE luaZ_read(_, _, _)
luaZ_read(z, b, n) ==
  LET y == luaZ_lookahead(z)
      m == IF n <= Len(y.z.buff) THEN n ELSE Len(y.z.buff)
  IN IF n = 0 \/ y.c = EndOfZ THEN [z |-> z, b |-> b, missing |-> n]
     ELSE luaZ_read([y.z EXCEPT !.buff = SubSeq(@, m + 1, Len(@))], b \o SubSeq(y.z.buff, 1, m), n - m)

(* ---------------------------- lundump.c --------------------------------- *)
(* An operation takes a LoadState S = [z, why] and returns one with the     *)
(* value read, S.x; why is the error that was thrown, or "".                *)
LoadBlock(S, size) ==
  LET r == luaZ_read(S.z, <<>>, size) IN
  IF S.why # "" THEN S
  ELSE IF r.missing # 0 THEN [S EXCEPT !.why = "unexpected end"]
  ELSE [S EXCEPT !.z = r.z, !.x = r.b]

\* A variable of that size.
LoadVar(S, size) == LET L == LoadBlock(S, size) IN IF L.why # "" THEN L ELSE [L EXCEPT !.x = @[1][1]]
LoadChar(S) == LoadVar(S, CharSize)
LoadNumber(S) == LoadVar(S, WordSize)

LoadInt(S) ==
  LET L == LoadVar(S, WordSize)
  IN IF L.why # "" THEN L ELSE IF L.x < 0 THEN [L EXCEPT !.why = "bad integer"] ELSE L

LoadString(S) ==
  LET n == LoadVar(S, WordSize)                           \* a size_t: never negative
      L == LoadBlock(n, n.x)
  IN IF n.why # "" \/ n.x = 0 THEN [n EXCEPT !.x = NULL]
     ELSE IF L.why # "" THEN L
     ELSE [L EXCEPT !.x = SubSeq([i \in 1 .. n.x - 1 |-> L.x[i][1]], 1, n.x - 1)]

RECURSIVE LoadList(_, _, _, _)
LoadList(Load(_), S, n, xs) ==
  LET L == Load(S) IN
  IF S.why # "" \/ n = 0 THEN [S EXCEPT !.x = xs] ELSE LoadList(Load, L, n - 1, Append(xs, L.x))

LoadVector(Load(_), S) ==
  LET n == LoadInt(S) IN IF n.why # "" THEN n ELSE LoadList(Load, n, n.x, <<>>)

LoadConstant(S) ==
  LET t == LoadChar(S)
      L == CASE t.x = "nil" -> [t EXCEPT !.x = NIL]
             [] t.x = "bool" -> LoadChar(t)
             [] t.x = "num" -> LoadNumber(t)
             [] t.x = "str" -> LoadString(t)
             [] OTHER -> [t EXCEPT !.why = "bad constant"]
  IN IF t.why # "" THEN t
     ELSE IF L.why # "" \/ t.x = "nil" THEN L ELSE [L EXCEPT !.x = <<t.x, L.x>>]

LoadLocVar(S) ==
  LET n == LoadString(S)
      a == LoadInt(n)
      b == LoadInt(a)
  IN IF b.why # "" THEN b ELSE [b EXCEPT !.x = [varname |-> n.x, startpc |-> a.x, endpc |-> b.x]]

\* level: nCcalls after its increment.
RECURSIVE LoadFunction(_, _, _)
LoadFunction(S, p, level) ==
  LET s == LoadString(S)
      source == IF s.x = NULL THEN p ELSE s.x
      first == LoadInt(s)          last == LoadInt(first)
      nups == LoadChar(last)       numparams == LoadChar(nups)
      vararg == LoadChar(numparams) size == LoadChar(vararg)
      code == LoadVector(LoadNumber, size)
      k == LoadVector(LoadConstant, code)
      Nested(L) == LoadFunction(L, source, level + 1)
      fs == LoadVector(Nested, k)
      lines == LoadVector(LoadInt, fs)
      vars == LoadVector(LoadLocVar, lines)
      ups == LoadVector(LoadString, vars)
      f == [source |-> source, linedefined |-> first.x, lastlinedefined |-> last.x, nups |-> nups.x,
            numparams |-> numparams.x, is_vararg |-> vararg.x, maxstacksize |-> size.x, code |-> code.x,
            k |-> k.x, p |-> fs.x, lineinfo |-> lines.x, locvars |-> vars.x, upvalues |-> ups.x]
  IN IF level > MaxNesting THEN [S EXCEPT !.why = "code too deep"]
     ELSE IF size.why # "" THEN size
     ELSE IF k.why # "" THEN k
     ELSE IF ups.why # "" THEN ups
     ELSE IF ~luaG_checkcode(f) THEN [ups EXCEPT !.why = "bad code"]
     ELSE [ups EXCEPT !.x = f]

luaU_undump(z) ==
  LET h == LoadBlock([z |-> z, why |-> "", x |-> <<>>], LUAC_HEADERSIZE)
  IN IF h.why # "" THEN h
     ELSE IF h.x # luaU_header THEN [h EXCEPT !.why = "bad header"]
     ELSE LoadFunction(h, <<"=?">>, 1)
=============================================================================
