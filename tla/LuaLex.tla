------------------------------- MODULE LuaLex -------------------------------
(***************************************************************************)
(* The lexical analyser, llex.c, with the conversion of numerals           *)
(* (luaO_str2d, lobject.c) and the writer of quoted strings of             *)
(* string.format (addquoted, lstrlib.c).  Characters are those of          *)
(* LuaMatch; the input stream is a text and the position of `current' in   *)
(* it.  A token is <<kind, value>>: the characters of a name, a reserved   *)
(* word, a string or an operator, or for a number <<m, e>>, m * 10^e.      *)
(* The locale is "C"; no text has 2^31 lines or fills memory.              *)
(***************************************************************************)
EXTENDS LuaMatch

CONSTANTS Reserved,             \* the reserved words the texts use
          LexCases              \* [text, known, toks]: texts and, if known, their tokens

EOZ == -1
TAB == 9
NEWLINE == 10
RETURN == 13
BLANK == 32
QUOTE == 34
APOSTROPHE == 39
LESS == 60
EQUALS == 61
GREATER == 62
BACKSLASH == 92
UNDERSCORE == 95
TILDE == 126
Exponent == {69, 101}           \* E e
HexMark == {88, 120}            \* X x
HexDigit == Digit \cup (65..70) \cup (97..102)
InName == Alpha \cup Digit \cup {UNDERSCORE}

TK_EOS == <<"eos", << >>>>

(* ---------------------------- characters -------------------------------- *)
current(l) == IF l.at <= Len(l.text) THEN l.text[l.at] ELSE EOZ
nextc(l) == [l EXCEPT !.at = @ + 1]
save(l, c) == [l EXCEPT !.buff = Append(@, c)]
save_and_next(l) == nextc(save(l, current(l)))
resetbuffer(l) == [l EXCEPT !.buff = << >>]
currIsNewline(l) == current(l) \in {NEWLINE, RETURN}
luaX_lexerror(l) == [l EXCEPT !.err = TRUE]

\* strchr finds the end of its set too: a NUL in the text passes.
check_next(l, set) == IF current(l) \in set \cup {NUL} THEN save_and_next(l) ELSE l

inclinenumber(l) ==
  LET n == nextc(l)
      both == currIsNewline(n) /\ current(n) # current(l)
  IN [(IF both THEN nextc(n) ELSE n) EXCEPT !.line = @ + 1]

RECURSIVE SaveWhile(_, _)
SaveWhile(l, set) == IF current(l) \in set THEN SaveWhile(save_and_next(l), set) ELSE l

(* ----------------------------- numerals --------------------------------- *)
DigitOf(c) == IF c \in Digit THEN c - 48 ELSE IF c >= 97 THEN c - 87 ELSE c - 55
NatOf(s, base) == FoldLeft(LAMBDA n, c : base * n + DigitOf(c), 0, s)

\* The first position from i on that holds no digit.
AfterDigits(s, i) == CHOOSE j \in i .. Len(s) + 1 : At(s, j) \notin Digit /\ \A k \in i .. j - 1 : s[k] \in Digit

\* strtod on decimals: where it stops, 1 if it reads nothing, and the value.
strtod(s) ==
  LET i == AfterDigits(s, 1)
      f == IF At(s, i) = DOT THEN AfterDigits(s, i + 1) ELSE i
      sign == At(s, f + 1) \in {PLUS, MINUS}
      x == IF sign THEN f + 2 ELSE f + 1
      end == IF At(s, f) \in Exponent /\ At(s, x) \in Digit THEN AfterDigits(s, x) ELSE f
      scale == IF end = f THEN 0
               ELSE (IF At(s, f + 1) = MINUS THEN -1 ELSE 1) * NatOf(SubSeq(s, x, end - 1), 10)
      frac == SubSeq(s, i + 1, f - 1)
  IN IF i = 1 /\ frac = << >> THEN [end |-> 1, r |-> <<0, 0>>]
     ELSE [end |-> end, r |-> <<NatOf(SubSeq(s, 1, i - 1) \o frac, 10), scale - Len(frac)>>]

\* A hexadecimal constant is read by strtoul, or by strtod where that knows them.
luaO_str2d(s) ==
  LET d == strtod(s)
      digits == SubSeq(s, 3, Len(s))
      hex == Len(s) > 2 /\ s[1] = 48 /\ s[2] \in HexMark
  IN IF hex THEN [ok |-> \A i \in DOMAIN digits : digits[i] \in HexDigit, r |-> <<NatOf(digits, 16), 0>>]
     ELSE [ok |-> d.end > 1 /\ At(s, d.end) = NUL, r |-> d.r]

\* strtod reads a C string: the buffer up to its first NUL.
CString(s) ==
  LET nul == SelectInSeq(s, LAMBDA c : c = NUL)
  IN IF nul = 0 THEN s ELSE SubSeq(s, 1, nul - 1)

Token(l, kind, value) == [l |-> l, tk |-> <<kind, value>>]
NoToken(l) == Token(l, "error", << >>)

\* In the "C" locale the other decimal point trydecpoint tries is the same.
read_numeral(l) ==
  LET digits == SaveWhile(save_and_next(l), Digit \cup {DOT})
      e == check_next(digits, Exponent)
      signed == IF e.at # digits.at THEN check_next(e, {PLUS, MINUS}) ELSE e
      whole == SaveWhile(signed, InName)
      d == luaO_str2d(CString(whole.buff))
  IN IF d.ok THEN Token(whole, "number", d.r) ELSE NoToken(luaX_lexerror(whole))

(* ----------------------------- strings ---------------------------------- *)
skip_sep(l) ==
  LET m == SaveWhile(save_and_next(l), {EQUALS})
      count == m.at - l.at - 1
  IN [l |-> m, n |-> IF current(m) = current(l) THEN count ELSE -count - 1]

\* The loop of read_long_string; keep is false for a comment (no seminfo).
RECURSIVE LongBody(_, _, _)
LongBody(l, sep, keep) ==
  LET c == current(l)
      k == skip_sep(l)
      broken == inclinenumber(save(l, NEWLINE))
  IN CASE c = EOZ -> luaX_lexerror(l)
       [] c = LBRACKET /\ k.n = sep /\ sep = 0 -> luaX_lexerror(l)
       [] c = LBRACKET /\ k.n = sep /\ sep # 0 -> LongBody(save_and_next(k.l), sep, keep)
       [] c = RBRACKET /\ k.n = sep -> save_and_next(k.l)
       [] c \in {LBRACKET, RBRACKET} /\ k.n # sep -> LongBody(k.l, sep, keep)
       [] c \in {NEWLINE, RETURN} -> LongBody(IF keep THEN broken ELSE resetbuffer(broken), sep, keep)
       [] OTHER -> LongBody(IF keep THEN save_and_next(l) ELSE nextc(l), sep, keep)

read_long_string(l, sep, keep) ==
  LET opened == save_and_next(l)
  IN LongBody(IF currIsNewline(opened) THEN inclinenumber(opened) ELSE opened, sep, keep)

Escapes == (97 :> 7) @@ (98 :> 8) @@ (102 :> 12) @@ (110 :> NEWLINE) @@ (114 :> RETURN) @@ (116 :> TAB) @@ (118 :> 11)

\* What a backslash makes of the characters after it.
Escape(l) ==
  LET c == current(l)
      n == CHOOSE i \in 1..3 : /\ \A j \in 1 .. i - 1 : At(l.text, l.at + j) \in Digit
                               /\ i = 3 \/ At(l.text, l.at + i) \notin Digit
      code == NatOf(SubSeq(l.text, l.at, l.at + n - 1), 10)
  IN CASE c \in DOMAIN Escapes -> nextc(save(l, Escapes[c]))
       [] c \in {NEWLINE, RETURN} -> inclinenumber(save(l, NEWLINE))
       [] c = EOZ -> l
       [] c \in Digit /\ code > 255 -> luaX_lexerror(l)
       [] c \in Digit /\ code <= 255 -> save([l EXCEPT !.at = @ + n], code)
       [] OTHER -> save_and_next(l)

RECURSIVE StringBody(_, _)
StringBody(l, del) ==
  LET c == current(l)
  IN CASE l.err -> l
       [] ~l.err /\ c = del -> save_and_next(l)
       [] ~l.err /\ c \in {EOZ, NEWLINE, RETURN} -> luaX_lexerror(l)
       [] ~l.err /\ c = BACKSLASH -> StringBody(Escape(nextc(l)), del)
       [] OTHER -> StringBody(save_and_next(l), del)

read_string(l) == StringBody(save_and_next(l), current(l))

\* The string of a buffer whose delimiters have n characters each.
StringToken(l, n) ==
  IF l.err THEN NoToken(l) ELSE Token(l, "string", SubSeq(l.buff, n + 1, Len(l.buff) - n))

(* ------------------------------ tokens ---------------------------------- *)
RECURSIVE SkipLine(_)
SkipLine(l) == IF currIsNewline(l) \/ current(l) = EOZ THEN l ELSE SkipLine(nextc(l))

Comment(l) ==
  LET k == skip_sep(l)
  IN resetbuffer(IF current(l) # LBRACKET THEN SkipLine(l)
                 ELSE IF k.n >= 0 THEN read_long_string(resetbuffer(k.l), k.n, FALSE)
                 ELSE SkipLine(k.l))

Word(l) ==
  LET m == SaveWhile(l, InName)
  IN Token(m, IF m.buff \in Reserved THEN "reserved" ELSE "name", m.buff)

Bracket(l) ==
  LET k == skip_sep(l)
  IN IF k.n >= 0 THEN StringToken(read_long_string(k.l, k.n, TRUE), 2 + k.n)
     ELSE IF k.n = -1 THEN Token(k.l, "op", <<LBRACKET>>)
     ELSE NoToken(luaX_lexerror(k.l))

Dots(l) ==
  LET one == save_and_next(l)
      two == check_next(one, {DOT})
      three == check_next(two, {DOT})
  IN IF two.at # one.at THEN Token(three, "op", IF three.at # two.at THEN <<DOT, DOT, DOT>> ELSE <<DOT, DOT>>)
     ELSE IF current(one) \in Digit THEN read_numeral(one)
     ELSE Token(one, "op", <<DOT>>)

\* The loop of llex.
RECURSIVE Lexed(_)
Lexed(l) ==
  LET c == current(l)
      n == nextc(l)
  IN CASE l.err -> NoToken(l)
       [] ~l.err /\ c \in {NEWLINE, RETURN} -> Lexed(inclinenumber(l))
       [] ~l.err /\ c = MINUS /\ current(n) = MINUS -> Lexed(Comment(nextc(n)))
       [] ~l.err /\ c = LBRACKET -> Bracket(l)
       [] ~l.err /\ c \in {EQUALS, LESS, GREATER, TILDE} /\ current(n) = EQUALS -> Token(nextc(n), "op", <<c, EQUALS>>)
       [] ~l.err /\ c \in {QUOTE, APOSTROPHE} -> StringToken(read_string(l), 1)
       [] ~l.err /\ c = DOT -> Dots(l)
       [] ~l.err /\ c = EOZ -> [l |-> l, tk |-> TK_EOS]
       [] ~l.err /\ c \in {TAB, 11, 12, BLANK} -> Lexed(n)
       [] ~l.err /\ c \in Digit -> read_numeral(l)
       [] ~l.err /\ c \in Alpha \cup {UNDERSCORE} -> Word(l)
       [] OTHER -> Token(n, "op", <<c>>)

llex(l) == Lexed(resetbuffer(l))

(* --------------------------- quoted strings ------------------------------ *)
\* Mutant of QuotedChar: NUL is written with one digit.
BugQuotedChar(c) ==
  CASE c \in {QUOTE, BACKSLASH, NEWLINE} -> <<BACKSLASH, c>>
    [] c = RETURN -> <<BACKSLASH, 114>>
    [] c = NUL -> <<BACKSLASH, 48>>
    [] OTHER -> <<c>>

\* How format("%q") writes one character, and a string.
QuotedChar(c) ==
  CASE c \in {QUOTE, BACKSLASH, NEWLINE} -> <<BACKSLASH, c>>
    [] c = RETURN -> <<BACKSLASH, 114>>
    [] c = NUL -> <<BACKSLASH, 48, 48, 48>>
    [] OTHER -> <<c>>

addquoted(s) == <<QUOTE>> \o FlattenSeq(SubSeq([i \in DOMAIN s |-> QuotedChar(s[i])], 1, Len(s))) \o <<QUOTE>>

(* --------------------------- the parser's side --------------------------- *)
VARIABLES ls,                   \* the LexState
          given,                \* the tokens luaX_next has given the parser
          lexCase               \* the text, and what is known of it

lexVars == <<ls, given, lexCase>>

luaX_setinput(text) ==
  [text |-> text, at |-> 1, line |-> 1, lastline |-> 1, buff |-> << >>, err |-> FALSE,
   t |-> <<"none", << >>>>, lookahead |-> TK_EOS]

LexInit == \E c \in LexCases : lexCase = c /\ ls = luaX_setinput(c.text) /\ given = << >>

\* The parser never asks for a token behind the end of the text.
luaX_next ==
  /\ ~ls.err /\ ls.t # TK_EOS
  /\ LET l == [ls EXCEPT !.lastline = ls.line]
     IN \/ /\ ls.lookahead # TK_EOS
           /\ ls' = [l EXCEPT !.t = ls.lookahead, !.lookahead = TK_EOS]
        \/ /\ ls.lookahead = TK_EOS
           /\ \E x \in {llex(l)} : ls' = [x.l EXCEPT !.t = x.tk]
  /\ given' = IF ls'.err THEN given ELSE Append(given, ls'.t)
  /\ UNCHANGED lexCase

\* Only constructor looks ahead, from a name.
luaX_lookahead ==
  /\ ~ls.err /\ ls.t[1] = "name" /\ ls.lookahead = TK_EOS
  /\ \E x \in {llex(ls)} : ls' = [x.l EXCEPT !.lookahead = x.tk]
  /\ UNCHANGED <<given, lexCase>>

LexNext == luaX_next \/ luaX_lookahead

(* ---------------------------- properties -------------------------------- *)
\* The line ends of a text: LF, CR and either pair of the two are one each.
RECURSIVE LineEnds(_)
LineEnds(text) ==
  IF text = << >> THEN 0
  ELSE IF Head(text) \notin {NEWLINE, RETURN} THEN LineEnds(Tail(text))
  ELSE LET pair == Len(text) > 1 /\ {text[1], text[2]} = {NEWLINE, RETURN}
       IN 1 + LineEnds(SubSeq(text, IF pair THEN 3 ELSE 2, Len(text)))

\* The parser gets the tokens of the text in their order, whatever stands
\* between them and whenever it looks ahead (llex.c:448): the pieces of known
\* texts come back as they were meant, a string written by format("%q")
\* (lstrlib.c:696) among them as itself; and the line number is that of the
\* characters read so far on every path, through comments, long strings,
\* escaped line ends and both kinds of pairs (inclinenumber, llex.c:129).
LexesRight ==
  /\ lexCase.known => ~ls.err /\ IsPrefix(given, Append(lexCase.toks, TK_EOS))
  /\ ~ls.err => ls.line = 1 + LineEnds(SubSeq(ls.text, 1, ls.at - 1))
=============================================================================
