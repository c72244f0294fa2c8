------------------------------- MODULE LuaAux -------------------------------
(***************************************************************************)
(* String buffers of the auxiliary library, lauxlib.c: a luaL_Buffer       *)
(* collects characters in an array and, when that is full, in strings on   *)
(* the Lua stack, which it joins as it goes.  Their heaviest user is       *)
(* g_read of the io library (liolib.c), which reads a file through one.    *)
(*                                                                         *)
(* bf is the luaL_Buffer: p holds the characters before B->p, stack the    *)
(* whole stack of B->L, of which the lvl last belong to the buffer.        *)
(* Fill adds its n-th character as the number n.  A file gives what is     *)
(* left of it; what comes then is its end or a read error.                 *)
(***************************************************************************)
EXTENDS Integers, Sequences, SequencesExt, FiniteSetsExt

CONSTANTS LUAL_BUFFERSIZE,
          LIMIT,                \* LUA_MINSTACK / 2
          MaxAdded,             \* bound: characters in a buffer
          FileTexts,            \* contents of files
          BrokenTexts,          \* and of those that end in a read error
          Formats               \* lists of formats for one read

EOL == 10
MAX_SIZET == 1000               \* more than any file holds
Callers == <<<<0>>>>            \* what is on the stack before the buffer

(* ------------------------------ buffers --------------------------------- *)
luaL_buffinit(stack) == [p |-> << >>, lvl |-> 0, stack |-> stack]

TopMost(s, n) == SubSeq(s, Len(s) - n + 1, Len(s))
Drop(s, n) == SubSeq(s, 1, Len(s) - n)

\* The n strings on top become one; no strings become the empty one.
lua_concat(stack, n) == Append(Drop(stack, n), FlattenSeq(TopMost(stack, n)))

emptybuffer(bf) ==
  IF bf.p = << >> THEN bf
  ELSE [p |-> << >>, lvl |-> bf.lvl + 1, stack |-> Append(bf.stack, bf.p)]

RECURSIVE ToGet(_, _, _)
ToGet(bf, toget, toplen) ==
  LET l == Len(bf.stack[Len(bf.stack) - toget])
  IN IF toget < bf.lvl /\ (bf.lvl - toget + 1 >= LIMIT \/ toplen > l)
     THEN ToGet(bf, toget + 1, toplen + l) ELSE toget

adjuststack(bf) ==
  LET toget == ToGet(bf, 1, Len(Last(bf.stack)))
  IN IF bf.lvl > 1 THEN [bf EXCEPT !.stack = lua_concat(@, toget), !.lvl = @ - toget + 1] ELSE bf

luaL_prepbuffer(bf) == IF bf.p = << >> THEN bf ELSE adjuststack(emptybuffer(bf))

\* What the caller wrote behind luaL_prepbuffer's pointer counts.
luaL_addsize(bf, s) == [bf EXCEPT !.p = @ \o s]

luaL_addchar(bf, c) ==
  luaL_addsize(IF Len(bf.p) < LUAL_BUFFERSIZE THEN bf ELSE luaL_prepbuffer(bf), <<c>>)

luaL_addlstring(bf, s) == FoldLeft(luaL_addchar, bf, s)

\* Mutant of luaL_addvalue: the contents of the buffer stay above the value.
BugluaL_addvalue(bf, s) ==
  LET e == emptybuffer(bf)
  IN IF Len(s) <= LUAL_BUFFERSIZE - Len(bf.p) THEN luaL_addsize(bf, s)
     ELSE adjuststack([e EXCEPT !.stack = Drop(@, e.lvl - bf.lvl) \o <<s>> \o TopMost(@, e.lvl - bf.lvl), !.lvl = @ + 1])

\* The value s is on top of the stack; it goes into the buffer or on its levels.
luaL_addvalue(bf, s) ==
  LET e == emptybuffer(bf)
  IN IF Len(s) <= LUAL_BUFFERSIZE - Len(bf.p) THEN luaL_addsize(bf, s)
     ELSE adjuststack([e EXCEPT !.stack = Append(@, s), !.lvl = @ + 1])

luaL_pushresult(bf) ==
  LET e == emptybuffer(bf) IN [e EXCEPT !.stack = lua_concat(@, e.lvl), !.lvl = 1]

(* ------------------------------- reads ---------------------------------- *)
\* f is [text, at, broken, ferror].  fgets and fread answer what they read;
\* << >> is NULL, 0.  After reads what was got of f, having asked for more at
\* the end of it or not.
Rest(f) == SubSeq(f.text, f.at, Len(f.text))
Upto(s, n) == SubSeq(s, 1, Min({n, Len(s)}))
Advance(f, s) == [f EXCEPT !.at = @ + Len(s)]
After(f, s, more) ==
  [Advance(f, s) EXCEPT !.ferror = @ \/ (f.broken /\ more /\ s = Rest(f))]

fgets(f, size) ==
  LET eol == SelectInSeq(Rest(f), LAMBDA c : c = EOL)
  IN Upto(Rest(f), IF eol = 0 THEN size - 1 ELSE Min({eol, size - 1}))

fread(f, n) == Upto(Rest(f), n)

\* strlen: the characters before the first NUL.
CText(s) ==
  LET nul == SelectInSeq(s, LAMBDA c : c = 0)
  IN IF nul = 0 THEN s ELSE SubSeq(s, 1, nul - 1)

Read(f, bf, success) == [f |-> f, bf |-> luaL_pushresult(bf), success |-> success]

RECURSIVE LineLoop(_, _)
LineLoop(f, bf) ==
  LET ready == luaL_prepbuffer(bf)
      got == fgets(f, LUAL_BUFFERSIZE)
      s == CText(got)
      ended == s # << >> /\ s[Len(s)] = EOL
      rest == After(f, got, Len(got) < LUAL_BUFFERSIZE - 1 /\ ~(got # << >> /\ Last(got) = EOL))
      done == Read(rest, ready, TRUE)
  IN IF got = << >> THEN [done EXCEPT !.success = Last(done.bf.stack) # << >>]
     ELSE IF ended THEN Read(rest, luaL_addsize(ready, Drop(s, 1)), TRUE)
     ELSE LineLoop(rest, luaL_addsize(ready, s))

read_line(f, stack) == LineLoop(f, luaL_buffinit(stack))

RECURSIVE CharsLoop(_, _, _, _)
CharsLoop(f, bf, n, rlen) ==
  LET want == Min({rlen, n})
      got == fread(f, want)
      more == luaL_addsize(luaL_prepbuffer(bf), got)
      left == n - Len(got)
      rest == After(f, got, Len(got) < want)
      done == Read(rest, more, TRUE)
  IN IF left > 0 /\ Len(got) = want THEN CharsLoop(rest, more, left, want)
     ELSE [done EXCEPT !.success = left = 0 \/ Last(done.bf.stack) # << >>]

read_chars(f, stack, n) == CharsLoop(f, luaL_buffinit(stack), n, LUAL_BUFFERSIZE)

Result(f, stack, x, success) ==
  [f |-> f, bf |-> [luaL_buffinit(stack) EXCEPT !.stack = Append(@, x)], success |-> success]

test_eof(f, stack) == Result(After(f, << >>, TRUE), stack, << >>, Rest(f) # << >>)

NILRESULT == "nil"

\* fscanf skips blanks and takes the digits; it looks one character further.
Prefix(s, C) == SubSeq(s, 1, SelectInSeq(Append(s, -1), LAMBDA c : c \notin C) - 1)
read_number(f, stack) ==
  LET blanks == Prefix(Rest(f), {EOL})
      digits == Prefix(Rest(Advance(f, blanks)), 48 .. 57)
      rest == After(f, blanks \o digits, TRUE)
  IN IF digits # << >> THEN Result(rest, stack, <<"number", digits>>, TRUE)
     ELSE Result(rest, stack, NILRESULT, FALSE)

\* One format: <<"line">>, <<"all">>, <<"number">> or <<"chars", n>>.
ReadOne(f, stack, format) ==
  CASE format[1] = "line" -> read_line(f, stack)
    [] format[1] = "all" -> [read_chars(f, stack, MAX_SIZET) EXCEPT !.success = TRUE]
    [] format[1] = "number" -> read_number(f, stack)
    [] format[1] = "chars" /\ format[2] = 0 -> test_eof(f, stack)
    [] OTHER -> read_chars(f, stack, format[2])

RAISED == "invalid format"
FAILED == <<NILRESULT, "message", "errno">>

\* Results stay on the stack; the one that failed becomes nil and is the last.
\* A format that is none of these raises an error when its turn comes.
RECURSIVE ReadAll(_, _, _)
ReadAll(f, stack, formats) ==
  LET one == ReadOne(f, stack, Head(formats))
  IN IF formats = << >> THEN [f |-> f, stack |-> stack]
     ELSE IF Head(formats) = <<RAISED>> THEN [f |-> f, stack |-> <<RAISED>>]
     ELSE IF one.success THEN ReadAll(one.f, one.bf.stack, Tail(formats))
     ELSE [f |-> one.f, stack |-> Append(Drop(one.bf.stack, 1), NILRESULT)]

\* clearerr, the reads, and pushresult in place of everything after an error.
g_read(f, stack, formats) ==
  LET r == ReadAll([f EXCEPT !.ferror = FALSE], stack, IF formats = << >> THEN <<<<"line">>>> ELSE formats)
  IN IF r.f.ferror /\ r.stack # <<RAISED>> THEN [r EXCEPT !.stack = stack \o FAILED] ELSE r

(* --------------------------- state machine ------------------------------ *)
VARIABLES lbuf,                 \* a buffer being filled
          added,                \* characters it was given
          closed,               \* luaL_pushresult was called
          reading               \* a file, and what the last g_read on it did

auxVars == <<lbuf, added, closed, reading>>

AuxInit ==
  /\ lbuf = luaL_buffinit(Callers) /\ added = 0 /\ closed = FALSE
  /\ \E file \in (FileTexts \X {FALSE}) \cup (BrokenTexts \X {TRUE}) :
       LET f == [text |-> file[1], at |-> 1, broken |-> file[2], ferror |-> FALSE]
       IN reading = [from |-> f, f |-> f, formats |-> << >>, stack |-> << >>]

NextChars(n) == [i \in 1 .. n |-> added + i]

Gives(bf, n) ==
  /\ ~closed /\ added + n <= MaxAdded
  /\ lbuf' = bf /\ added' = added + n
  /\ UNCHANGED <<closed, reading>>

AddChar == Gives(luaL_addchar(lbuf, added + 1), 1)
AddString(n) == Gives(luaL_addlstring(lbuf, NextChars(n)), n)
AddDirectly(n) == n <= LUAL_BUFFERSIZE /\ Gives(luaL_addsize(luaL_prepbuffer(lbuf), NextChars(n)), n)
AddValue(n) == Gives(luaL_addvalue(lbuf, NextChars(n)), n)

PushResult ==
  /\ ~closed
  /\ lbuf' = luaL_pushresult(lbuf) /\ closed' = TRUE
  /\ UNCHANGED <<added, reading>>

ReadFile(formats) ==
  /\ LET r == g_read(reading.f, Callers, formats)
     IN reading' = [from |-> reading.f, f |-> r.f, formats |-> formats, stack |-> r.stack]
  /\ UNCHANGED <<lbuf, added, closed>>

Fill == \/ AddChar \/ PushResult
         \/ \E n \in 0 .. 2 * LUAL_BUFFERSIZE + 1 : AddString(n) \/ AddDirectly(n) \/ AddValue(n)
AuxNext == Fill \/ \E formats \in Formats : ReadFile(formats)

(* ---------------------------- properties -------------------------------- *)
\* What the manual says a read gives: the results, and where the file is then.
RECURSIVE Meant(_, _)
Meant(f, formats) ==
  LET fm == Head(formats)
      eol == SelectInSeq(Rest(f), LAMBDA c : c = EOL)
      number == read_number(f, << >>)
      taken == CASE fm[1] = "line" -> IF eol = 0 THEN Rest(f) ELSE Upto(Rest(f), eol)
                 [] fm[1] = "all" -> Rest(f)
                 [] fm[1] = "number" -> SubSeq(f.text, f.at, number.f.at - 1)
                 [] OTHER -> Upto(Rest(f), fm[2])
      value == IF fm[1] = "number" THEN Last(number.bf.stack)
               ELSE IF fm[1] = "line" /\ eol > 0 THEN Drop(taken, 1) ELSE taken
      missing == IF fm[1] = "number" THEN value = NILRESULT ELSE Rest(f) = << >> /\ fm[1] # "all"
      after == Meant(Advance(f, taken), Tail(formats))
  IN IF formats = << >> THEN [values |-> << >>, f |-> f]
     ELSE IF fm = <<RAISED>> THEN [values |-> fm, f |-> f]
     ELSE IF missing THEN [values |-> <<NILRESULT>>, f |-> Advance(f, taken)]
     ELSE [after EXCEPT !.values = <<value>> \o @]

Lines(formats) == \E i \in DOMAIN formats : formats[i][1] = "line"
Defaulted(formats) == IF formats = << >> THEN <<<<"line">>>> ELSE formats

\* A buffer holds what was added in the order it was added, however its parts
\* moved between the array and the stack (emptybuffer, adjuststack and
\* luaL_addvalue, lauxlib.c:398-469); it leaves what lay on the stack alone
\* and never keeps LIMIT strings there.  Reads through it give the pieces of
\* the file, whatever falls on the end of the array (liolib.c:294-331), and
\* none of them if the file failed underneath (liolib.c:371-372); lines
\* are promised for files without NUL only, at which fgets cannot tell the
\* end of what it read.
BuffersRight ==
  /\ Head(lbuf.stack) = Head(Callers)
  /\ FlattenSeq(Tail(lbuf.stack)) \o lbuf.p = [i \in 1 .. added |-> i]
  /\ Len(lbuf.stack) = 1 + lbuf.lvl /\ lbuf.lvl < LIMIT /\ Len(lbuf.p) <= LUAL_BUFFERSIZE
  /\ closed => lbuf.p = << >> /\ lbuf.lvl = 1
  /\ LET m == Meant(reading.from, Defaulted(reading.formats))
         raises == RAISED \in ToSet(m.values)
     IN reading.stack # << >> /\ (Lines(Defaulted(reading.formats)) => 0 \notin ToSet(reading.f.text))
          => /\ reading.f.at = m.f.at
             /\ reading.stack = IF raises THEN <<RAISED>>
                                ELSE Callers \o (IF reading.f.ferror THEN FAILED ELSE m.values)
=============================================================================
