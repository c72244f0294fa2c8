------------------------------ MODULE LuaLang ------------------------------
(* A program goes through the compiler (LuaParser over LuaCode) and its     *)
(* code through the machine (LuaVM), the way lua_load and lua_call chain    *)
(* luaD_protectedparser and luaD_call (src/depends/lua/src/ldo.c).          *)
EXTENDS LuaParser, LuaVM, LuaDump, LuaMeaning, FiniteSetsExt

CONSTANTS Programs,             \* pairs [ss, args]: a chunk and its arguments
          MaxSteps              \* no program runs for more than 2^MaxSteps instructions

Unbounded == 1000000            \* the writer takes everything
PieceSizes == {1, 7}            \* of the pieces a reader hands out

\* The first byte tells a precompiled chunk from source text, which is one
\* cell <<"text", ss>> here.
f_parser(z) ==
  LET y == luaZ_lookahead(z)
  IN IF y.c = LUA_SIGNATURE THEN luaU_undump(y.z)
     ELSE [z |-> y.z, why |-> "", x |-> luaY_parser(y.c[2]).proto]

VARIABLES program,              \* the chunk lua_load is given, and its arguments
          called                \* it has been compiled and called

langVars == <<program, called>>

LangInit == program \in Programs /\ called = FALSE

\* What compiling and running it comes to is the subject of the properties.
LoadAndCall == ~called /\ called' = TRUE /\ UNCHANGED program

LangNext == LoadAndCall
LangSpec == LangInit /\ [][LangNext]_langVars

(* ---------------------------- properties -------------------------------- *)
\* The compiled program computes what the manual says it does: whatever the
\* nesting of and/or/not/comparisons whose jumps lcode.c patches and whose
\* values it leaves in registers, however loops, breaks and closures share
\* local variables (lparser.c, lfunc.c), the machine ends with the values, or
\* the error, of the source program.
RunsAsMeant(p) ==
  LET c == luaY_parser(p.ss)
      v == vm_call(c.proto, p.args, MaxSteps)
      shown == IF v.result[1] = "ok" THEN <<"ok", Shows(v.result[2])>> ELSE v.result
  IN c.ok /\ v.ok => v.result # <<>> /\ shown = Meaning(p.ss, p.args)

CompiledRight == [][LoadAndCall => RunsAsMeant(program)]_langVars

\* No lua_assert fails, in lcode.c and lparser.c while the program is compiled
\* (registers are freed in the order they were allocated, lcode.c:218; every
\* block and statement starts with no temporary register in use; a break
\* block has no upvalue of its own, lparser.c:302), nor in luaV_execute while
\* it runs (the stack top is the frame's, lvm.c:405); and luaG_checkcode accepts
\* what the compiler emits (lparser.c:374): operands in range, tests followed by
\* jumps, jumps inside the code and never onto the count word of an OP_SETLIST,
\* open calls followed by their consumer.
Sound(p) ==
  LET c == luaY_parser(p.ss)
  IN c.ok /\ vm_call(c.proto, p.args, MaxSteps).ok /\ CheckAll(c.proto)

CodeSound == [][LoadAndCall => Sound(program)]_langVars

\* A precompiled chunk is what was compiled: undumping a dump restores every
\* field of every nested function, whatever pieces the reader hands out
\* (luaZ_read, lzio.c:55) and although a nested function does not repeat the
\* name of its source (DumpFunction, ldump.c:123); stripping loses the debug
\* information and nothing else.  Functions nested too deep to be loaded are
\* refused (lundump.c:164).
InPieces(bytes, n) ==
  LET Piece(i) == SubSeq(bytes, n * (i - 1) + 1, IF n * i < Len(bytes) THEN n * i ELSE Len(bytes))
      count == (Len(bytes) + n - 1) \div n
  IN SubSeq([i \in 1 .. count |-> Piece(i)], 1, count)

RECURSIVE Stripped(_)
Stripped(f) ==
  [f EXCEPT !.source = <<"=?">>, !.lineinfo = <<>>, !.locvars = <<>>, !.upvalues = <<>>,
            !.p = SubSeq([i \in DOMAIN @ |-> Stripped(@[i])], 1, Len(@))]

RECURSIVE Depth(_)
Depth(f) == 1 + Max({0} \cup {Depth(f.p[i]) : i \in DOMAIN f.p})

Restored(f, strip, n) ==
  LET D == luaU_dump(f, strip, Unbounded)
      S == f_parser(luaZ_init(InPieces(D.out, n)))
  IN /\ D.status = 0
     /\ IF Depth(f) > MaxNesting THEN S.why = "code too deep"
        ELSE S.why = "" /\ S.x = (IF strip THEN Stripped(f) ELSE f)

\* A dump the writer could not finish is reported (ldump.c:31) and what was
\* written is refused: nothing short of the whole chunk loads (lundump.c:51).
Refused(f, room) ==
  LET D == luaU_dump(f, FALSE, room)
  IN D.status # 0 /\ luaU_undump(luaZ_init(InPieces(D.out, 5))).why # ""

\* Precompiled chunks can be relied on: undumping a dump gives back what was
\* compiled and anything shorter is refused (ldump.c:123-161, lundump.c:40-227).
ChunksRight ==
  [][LoadAndCall =>
       LET f == luaY_parser(program.ss).proto
           whole == Len(luaU_dump(f, FALSE, Unbounded).out)
       IN /\ \A strip \in BOOLEAN, n \in PieceSizes : Restored(f, strip, n)
          /\ \A room \in {5, whole \div 2, whole - 1} : Refused(f, room)]_langVars
=============================================================================
