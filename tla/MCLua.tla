------------------------------- MODULE MCLua -------------------------------
(***************************************************************************)
(* The interpreter for TLC, without its collector: the table, the calls    *)
(* and coroutines, the lexer, the libraries, and the compiler with the     *)
(* machine.  They are independent of each other here: a behaviour          *)
(* exercises one of them, named by part.                                   *)
(*   LuaTable: three array keys and two that collide in the hash part;     *)
(*   LuaDo: two coroutines, stack limits that the frames reach;            *)
(*   LuaPattern: every class and repetition alone, then pairs in captures, *)
(*   before back references, balances and frontiers; every text of up to   *)
(*   three characters as a raw pattern;                                    *)
(*   LuaTabLib: arrays of up to six elements, orders consistent or not,    *)
(*   answering for nil or not;                                             *)
(*   LuaLex: pairs of tokens of every kind with every separator, quoted    *)
(*   strings of up to three characters, raw texts around brackets, quotes, *)
(*   comments and line ends;                                               *)
(*   LuaAux: files whose lines end before, at and after the buffer's end;  *)
(*   LuaRequire: two modules that require themselves and each other;       *)
(*   LuaLang: the programs of MCLuaLang.                                   *)
(***************************************************************************)
EXTENDS LuaTable, LuaDo, LuaPattern, LuaTabLib, LuaLex, LuaAux, LuaRequire, MCLuaLang

VARIABLE part

MCKeys == {1, 2, 3, -1, -2}
MCHash == [k \in -3..20 |-> IF k > 0 THEN 2 * k ELSE IF k = -3 THEN 1 ELSE 3]

MCSymmetry == Permutations(Coroutines)

-----------------------------------------------------------------------------
a == 97
b == 98
ClassA == [text |-> <<a>>, set |-> {a}]
ClassB == [text |-> <<b>>, set |-> {b}]
AnyClass == [text |-> <<DOT>>, set |-> 0..255]
Either == [text |-> <<LBRACKET, a, b, RBRACKET>>, set |-> {a, b}]
NotA == [text |-> <<LBRACKET, CARET, a, RBRACKET>>, set |-> (0..255) \ {a}]
LowerRange == [text |-> <<LBRACKET, a, MINUS, 122, RBRACKET>>, set |-> 97..122]
WithBracket == [text |-> <<LBRACKET, RBRACKET, a, RBRACKET>>, set |-> {RBRACKET, a}]
WithDash == [text |-> <<LBRACKET, a, MINUS, RBRACKET>>, set |-> {a, MINUS}]
WithDigits == [text |-> <<LBRACKET, L_ESC, 100, b, RBRACKET>>, set |-> {b} \cup (48..57)]
Letters == [text |-> <<L_ESC, 97>>, set |-> (65..90) \cup (97..122)]
NoDigits == [text |-> <<L_ESC, 68>>, set |-> (0..255) \ (48..57)]
LeftParen == [text |-> <<L_ESC, LPAREN>>, set |-> {LPAREN}]

Repetitions == {<< >>, <<STAR>>, <<PLUS>>, <<MINUS>>, <<QUEST>>}

Singles ==
  {One(c, r) : c \in {ClassA, ClassB, AnyClass, Either, NotA, LowerRange, WithBracket,
                      WithDash, WithDigits, Letters, NoDigits, LeftParen},
               r \in Repetitions}

Some == {One(ClassA, r) : r \in Repetitions}
          \cup {One(AnyClass, <<STAR>>), One(AnyClass, <<MINUS>>), One(ClassB, << >>)}

MCItems ==
  {<<p, q, z>> : p \in Some, q \in Some, z \in {End, Position}}
    \cup {<<Open, p, Close, q, Back(1)>> : p \in Some, q \in Some}
    \cup {<<Open, p, Open, q, Close, One(ClassB, << >>), Close>> : p \in Some, q \in Some}
    \cup {<<Open, p, q>> : p \in Some, q \in {One(ClassA, <<STAR>>), One(ClassB, << >>)}}
    \cup {<<p, Balance(a, e), q>> : p \in {One(AnyClass, <<MINUS>>), One(ClassA, <<QUEST>>)},
                                    e \in {a, b},
                                    q \in {End, One(ClassA, <<STAR>>)}}
    \cup {<<p, BeginOf(c), q, Position>> :
            p \in {One(AnyClass, <<STAR>>), One(ClassA, <<QUEST>>)},
            c \in {Either, NotA, WithBracket},
            q \in {One(ClassB, <<QUEST>>), One(AnyClass, <<PLUS>>)}}

MCPatterns ==
  [anchor : BOOLEAN, items : {<<p>> : p \in Singles}] \cup [anchor : {FALSE}, items : MCItems]

MCSubjects ==
  {<< >>, <<a>>, <<b, a>>, <<a, a, b>>, <<a, b, 49, b, a>>,
   <<RBRACKET, MINUS, a, LPAREN>>, <<a, a, b, b>>}

MCRawPatterns ==
  UNION {[1..n -> {L_ESC, LBRACKET, RBRACKET, LPAREN, RPAREN, STAR, a, CARET, 49}] : n \in 0..3}

CaptureNo(n) == [k |-> "capture", n |-> n]

MCReplacements ==
  {[kind |-> "string",
    pieces |-> <<[k |-> "text", text |-> <<L_ESC, 120>>], CaptureNo(0), CaptureNo(1)>>],
   [kind |-> "table",
    gives |-> (<<<<"str", <<a>>>>>> :> <<b, b>>) @@ (<<<<"pos", 1>>>> :> << >>)],
   [kind |-> "function", gives |-> (<<<<"str", <<a>>>>, <<"str", <<a>>>>>> :> <<120>>)]}

-----------------------------------------------------------------------------
Arrays(values, n) == UNION {[1..k -> 1..values] : k \in 0..n}
Orders(values) == {lt \in SUBSET (values \X values) : <<1, 2>> \in lt}

MCSortCases ==
  [seq : Arrays(2, 6), lt : Orders(1..2), nils : {FALSE}]
    \cup [seq : Arrays(3, 4), lt : Orders(1..3), nils : {FALSE}]
    \cup [seq : Arrays(2, 4), lt : SUBSET ((0..2) \X (0..2)), nils : {TRUE}]

-----------------------------------------------------------------------------
MCReserved == {<<105, 102>>}                    \* if

Piece(text, kind, value) == [text |-> text, toks |-> <<<<kind, value>>>>]
Op(text) == Piece(text, "op", text)

Names == {Piece(w, "name", w) : w \in {<<a>>, <<UNDERSCORE, 49>>, <<105, 102, 102>>}}
           \cup {Piece(w, "reserved", w) : w \in MCReserved}
NumeralPieces == {Piece(<<49, 50>>, "number", <<12, 0>>),
             Piece(<<DOT, 53>>, "number", <<5, -1>>),
             Piece(<<49, DOT, 53, 69, PLUS, 50>>, "number", <<15, 1>>),
             Piece(<<51, DOT, 101, MINUS, 49>>, "number", <<3, -1>>),
             Piece(<<48, 120, 49, 101>>, "number", <<30, 0>>)}
Strings == {Piece(<<QUOTE, APOSTROPHE, BACKSLASH, 110, QUOTE>>, "string", <<APOSTROPHE, NEWLINE>>),
            Piece(<<APOSTROPHE, BACKSLASH, 49, 48, 48, 48, BACKSLASH, APOSTROPHE, APOSTROPHE>>, "string", <<100, 48, APOSTROPHE>>),
            Piece(<<QUOTE, BACKSLASH, RETURN, NEWLINE, a, QUOTE>>, "string", <<NEWLINE, a>>),
            Piece(<<LBRACKET, LBRACKET, NEWLINE, a, RETURN, RBRACKET, RBRACKET>>, "string", <<a, NEWLINE>>),
            Piece(<<LBRACKET, EQUALS, LBRACKET, RBRACKET, RBRACKET, RBRACKET, EQUALS, RBRACKET>>, "string", <<RBRACKET, RBRACKET>>)}
OperatorPieces == {Op(o) : o \in {<<PLUS>>, <<MINUS>>, <<LESS>>, <<LESS, EQUALS>>, <<EQUALS>>, <<EQUALS, EQUALS>>,
                             <<TILDE, EQUALS>>, <<GREATER, EQUALS>>, <<DOT>>, <<DOT, DOT>>, <<DOT, DOT, DOT>>,
                             <<LBRACKET>>, <<RBRACKET>>, <<LPAREN>>}}
TokenPieces == Names \cup NumeralPieces \cup Strings \cup OperatorPieces

Separator(text) == [text |-> text, toks |-> << >>]
Separators ==
  {Separator(w) : w \in {<<BLANK>>, <<NEWLINE, RETURN, TAB>>, <<RETURN, RETURN>>,
                         <<BLANK, MINUS, MINUS, a, RETURN>>,
                         <<BLANK, MINUS, MINUS, LBRACKET, EQUALS, a, NEWLINE>>,
                         <<BLANK, MINUS, MINUS, LBRACKET, LBRACKET, RETURN, NEWLINE, RBRACKET, NEWLINE, RBRACKET, RBRACKET>>,
                         <<BLANK, MINUS, MINUS, LBRACKET, EQUALS, LBRACKET, RBRACKET, RBRACKET, BLANK, RBRACKET, EQUALS, RBRACKET>>}}
Adjacent == {<<a>>, <<105, 102>>} \X {<<LPAREN>>, <<DOT, DOT>>, <<EQUALS, EQUALS>>, <<LBRACKET>>}

LexCase(ps) ==
  [known |-> TRUE, text |-> FlattenSeq([i \in DOMAIN ps |-> ps[i].text]), toks |-> FlattenSeq([i \in DOMAIN ps |-> ps[i].toks])]

Quotable == {QUOTE, BACKSLASH, NEWLINE, RETURN, NUL, 49, 110}

RawTexts ==
  {open \o middle \o close :
     open \in {<< >>, <<LBRACKET, LBRACKET>>, <<MINUS, MINUS, LBRACKET, EQUALS, LBRACKET>>, <<QUOTE>>, <<MINUS, MINUS>>, <<49>>},
     middle \in UNION {[1..n -> {LBRACKET, RBRACKET, EQUALS, MINUS, NEWLINE, RETURN, BACKSLASH, 49, DOT}] : n \in 0..3},
     close \in {<<RBRACKET, RBRACKET>>, <<QUOTE, NEWLINE>>}}

MCLexCases ==
  {LexCase(<<p, s, q>>) : p \in TokenPieces, s \in Separators, q \in {Op(<<EQUALS>>), Piece(<<a>>, "name", <<a>>)} \cup Strings}
    \cup {LexCase(<<p, Separator(<<BLANK>>), q>>) : p \in TokenPieces, q \in TokenPieces}
    \cup {LexCase(<<Piece(w[1], IF w[1] = <<a>> THEN "name" ELSE "reserved", w[1]), Op(w[2]), Piece(<<b>>, "name", <<b>>)>>) : w \in Adjacent}
    \cup {LexCase(<<Piece(addquoted(q), "string", q)>>) : q \in UNION {[1..n -> Quotable] : n \in 0..3}}
    \cup {[known |-> FALSE, text |-> r, toks |-> << >>] : r \in RawTexts}

-----------------------------------------------------------------------------
MCFileTexts ==
  UNION {[1..n -> {a, NEWLINE}] : n \in 0..5}
    \cup {<<a, NUL, NEWLINE, a>>, <<NEWLINE, 49, 50, a>>, <<49, NEWLINE, NEWLINE, 50>>}
MCBrokenTexts == {<<>>, <<49>>} \cup [1..3 -> {a, NEWLINE}]

MCFormats ==
  {<< >>, <<<<"line">>, <<"line">>>>, <<<<"chars", 2>>>>, <<<<"chars", 5>>, <<"chars", 0>>>>,
   <<<<"chars", 3>>, <<"all">>>>, <<<<"all">>>>, <<<<"number">>, <<"number">>>>,
   <<<<"chars", 1>>, <<RAISED>>, <<"line">>>>}

-----------------------------------------------------------------------------
caseVars == <<strVars, tabVars, lexVars, auxVars, requireVars, langVars>>

NoString == strCase = << >> /\ strDone = TRUE
NoSort == sortCase = << >> /\ sortDone = TRUE
NoText == lexCase = LexCase(<< >>) /\ ls = luaX_setinput(<< >>) /\ given = << >>

NoFile == AuxInit /\ reading.f.text = << >> /\ ~reading.f.broken
NoModule == RequireInit /\ globals = [n \in Modules |-> NilEntry]
NoProgram == program = << >> /\ called = TRUE

(* The inputs of the one part that works on inputs, if it is such a part.  *)
Init ==
  /\ part \in {"table", "calls", "buffers", "patterns", "sorting", "lexer", "reads", "require", "programs"}
  /\ TableInit /\ DoInit
  /\ IF part = "patterns" THEN StrInit ELSE NoString
  /\ IF part = "sorting" THEN TabInit ELSE NoSort
  /\ IF part = "lexer" THEN LexInit ELSE NoText
  /\ IF part = "reads" THEN AuxInit ELSE NoFile
  /\ IF part = "require" THEN RequireInit ELSE NoModule
  /\ IF part = "programs" THEN LangInit ELSE NoProgram

TablePart == part = "table" /\ TableNext /\ UNCHANGED <<part, doVars, caseVars>>
CallsPart == part = "calls" /\ DoNext /\ UNCHANGED <<part, tableVars, caseVars>>

OfCase(name, A, others) == part = name /\ A /\ UNCHANGED <<part, tableVars, doVars, others>>

PatternsPart == OfCase("patterns", StrNext, <<tabVars, lexVars, auxVars, requireVars, langVars>>)
SortingPart == OfCase("sorting", TabNext, <<strVars, lexVars, auxVars, requireVars, langVars>>)
LexerPart == OfCase("lexer", LexNext, <<strVars, tabVars, auxVars, requireVars, langVars>>)
BuffersPart == OfCase("buffers", Fill, <<strVars, tabVars, lexVars, requireVars, langVars>>)
ReadsPart == OfCase("reads", \E formats \in Formats : ReadFile(formats),
                    <<strVars, tabVars, lexVars, requireVars, langVars>>)
RequirePart == OfCase("require", RequireNext, <<strVars, tabVars, lexVars, auxVars, langVars>>)
ProgramsPart == OfCase("programs", LangNext, <<strVars, tabVars, lexVars, auxVars, requireVars>>)

Next ==
  \/ TablePart \/ CallsPart \/ PatternsPart \/ SortingPart \/ LexerPart
  \/ BuffersPart \/ ReadsPart \/ RequirePart \/ ProgramsPart

Spec == Init /\ [][Next]_<<part, tableVars, doVars, caseVars>>
=============================================================================
