----------------------------- MODULE LuaPattern -----------------------------
(***************************************************************************)
(* What a pattern of the string library means, apart from how lstrlib.c    *)
(* matches it: a pattern is a sequence of items, and its matches at a      *)
(* place are the list of all ways to match the items one after the other,  *)
(* the preferred one first.  The properties compare the functions of       *)
(* LuaMatch, given the text of a pattern, with this meaning.               *)
(***************************************************************************)
EXTENDS LuaMatch

CONSTANTS Patterns,      \* records [anchor, items]
          RawPatterns,   \* pattern texts, well-formed or not
          Subjects,
          Replacements

VARIABLES strCase, strDone

strVars == <<strCase, strDone>>

(***************************************************************************)
(* The items.  A class is [text, set]: how it is written and the           *)
(* characters it stands for.                                               *)
(***************************************************************************)
One(c, rep) == [k |-> "class", c |-> c, rep |-> rep]
Open == [k |-> "open"]
Close == [k |-> "close"]
Position == [k |-> "position"]
Back(n) == [k |-> "back", n |-> n]
Balance(b, e) == [k |-> "balance", b |-> b, e |-> e]
BeginOf(c) == [k |-> "frontier", c |-> c]
End == [k |-> "end"]

ItemText(x) ==
  CASE x.k = "class" -> x.c.text \o x.rep
    [] x.k = "open" -> <<LPAREN>>
    [] x.k = "close" -> <<RPAREN>>
    [] x.k = "position" -> <<LPAREN, RPAREN>>
    [] x.k = "back" -> <<L_ESC, 48 + x.n>>
    [] x.k = "balance" -> <<L_ESC, Char_b, x.b, x.e>>
    [] x.k = "frontier" -> <<L_ESC, Char_f>> \o x.c.text
    [] x.k = "end" -> <<DOLLAR>>

PatternText(pat) ==
  (IF pat.anchor THEN <<CARET>> ELSE << >>)
    \o FoldLeft(LAMBDA text, x : text \o ItemText(x), << >>, pat.items)

(***************************************************************************)
(* The numbers of repetitions of a class in order of preference, where up  *)
(* to `most' are possible.                                                 *)
(***************************************************************************)
Counts(rep, most) ==
  LET down(lo, hi) == SubSeq([i \in 1..(hi - lo + 1) |-> hi + 1 - i], 1, hi - lo + 1) IN
  CASE rep = << >> -> IF most >= 1 THEN <<1>> ELSE << >>
    [] rep = <<STAR>> -> down(0, most)
    [] rep = <<PLUS>> -> down(1, most)
    [] rep = <<MINUS>> -> Reverse(down(0, most))
    [] rep = <<QUEST>> -> down(0, IF most >= 1 THEN 1 ELSE 0)

Most(src, s, set) ==
  Max({n \in 0..(Len(src) + 1 - s) : \A i \in s..(s + n - 1) : src[i] \in set})

Occurrences(src, s, e, c) == Cardinality({i \in s..e : src[i] = c})

(***************************************************************************)
(* The end of the shortest balanced text at s, {} if there is none.        *)
(***************************************************************************)
BalancedEnds(src, s, b, e) ==
  LET closed(i, j) == IF b = e THEN j > i
                      ELSE Occurrences(src, i, j, b) = Occurrences(src, i, j, e)
      ends == {j \in s..Len(src) : src[s] = b /\ src[j] = e /\ closed(s, j)}
  IN  {j \in ends : \A i \in ends : j <= i}

(***************************************************************************)
(* The ways to match the items from i on at s: the ends and the captures.  *)
(***************************************************************************)
RECURSIVE Ways(_, _, _, _, _)
Ways(items, i, src, s, caps) ==
  LET x == items[i]
      next(t, c) == Ways(items, i + 1, src, t, c)
      open == SelectLastInSeq(caps, LAMBDA c : c.len = CAP_UNFINISHED)
      counts == Counts(x.rep, Most(src, s, x.c.set))
      got == SubSeq(src, caps[x.n].init, caps[x.n].init + caps[x.n].len - 1)
  IN  IF i > Len(items) THEN <<[end |-> s, caps |-> caps]>>
      ELSE CASE x.k = "class" ->
                  FoldLeft(LAMBDA ways, n : ways \o next(s + n, caps), << >>, counts)
             [] x.k = "open" -> next(s, Append(caps, [init |-> s, len |-> CAP_UNFINISHED]))
             [] x.k = "close" -> next(s, [caps EXCEPT ![open].len = s - caps[open].init])
             [] x.k = "position" -> next(s, Append(caps, [init |-> s, len |-> CAP_POSITION]))
             [] x.k = "back" ->
                  IF IsPrefix(got, SubSeq(src, s, Len(src))) THEN next(s + Len(got), caps)
                  ELSE << >>
             [] x.k = "balance" ->
                  IF s > Len(src) \/ BalancedEnds(src, s, x.b, x.e) = {} THEN << >>
                  ELSE next(1 + CHOOSE j \in BalancedEnds(src, s, x.b, x.e) : TRUE, caps)
             [] x.k = "frontier" ->
                  IF At(src, s - 1) \notin x.c.set /\ At(src, s) \in x.c.set
                  THEN next(s, caps) ELSE << >>
             [] x.k = "end" -> IF s = Len(src) + 1 THEN next(s, caps) ELSE << >>

MatchesAt(pat, src, s) == Ways(pat.items, 1, src, s, << >>)

(***************************************************************************)
(* What a match from s to the end of w hands to the program.               *)
(***************************************************************************)
CaptureValue(src, c) ==
  IF c.len = CAP_POSITION THEN <<"pos", c.init>>
  ELSE <<"str", SubSeq(src, c.init, c.init + c.len - 1)>>

Captured(src, w) ==
  IF \E i \in DOMAIN w.caps : w.caps[i].len = CAP_UNFINISHED THEN <<Err>>
  ELSE SubSeq([i \in DOMAIN w.caps |-> CaptureValue(src, w.caps[i])], 1, Len(w.caps))

OrWhole(values, src, s, w) ==
  IF values = << >> THEN <<<<"str", SubSeq(src, s, w.end - 1)>>>> ELSE values

Places(pat, src, from) ==
  {s \in from..(IF pat.anchor THEN from ELSE Len(src) + 1) : MatchesAt(pat, src, s) # << >>}

FindMeaning(pat, src, from, find) ==
  LET s == Min(Places(pat, src, from))
      w == Head(MatchesAt(pat, src, s))
      values == Captured(src, w)
  IN  IF Places(pat, src, from) = {} THEN << >>
      ELSE IF values = <<Err>> THEN values
      ELSE IF find THEN <<<<"pos", s>>, <<"pos", w.end - 1>>>> \o values
      ELSE OrWhole(values, src, s, w)
Start(src, init) ==
  Max({1, Min({Len(src) + 1, IF init < 0 THEN Len(src) + 1 + init ELSE init})})

Literally(text, src, from) ==
  LET at == {s \in from..(Len(src) + 1 - Len(text)) : SubSeq(src, s, s + Len(text) - 1) = text}
  IN  IF at = {} THEN << >> ELSE <<<<"pos", Min(at)>>, <<"pos", Min(at) + Len(text) - 1>>>>

(***************************************************************************)
(* gmatch: match after match, none inside another.                         *)
(***************************************************************************)
RECURSIVE EachMatch(_, _, _)
EachMatch(pat, src, from) ==
  LET s == Min(Places(pat, src, from))
      w == Head(MatchesAt(pat, src, s))
      values == OrWhole(Captured(src, w), src, s, w)
  IN  IF Places(pat, src, from) = {} THEN << >>
      ELSE IF values = <<Err>> THEN <<values>>
      ELSE <<values>> \o EachMatch(pat, src, Max({w.end, s + 1}))

(***************************************************************************)
(* gsub: a replacement is a sequence of pieces, a text or the number of a  *)
(* capture with 0 for the whole match, or a function of the captures.      *)
(***************************************************************************)
PieceText(x) ==
  IF x.k = "capture" THEN <<L_ESC, 48 + x.n>>
  ELSE FoldLeft(LAMBDA text, c : text \o (IF c = L_ESC THEN <<c, c>> ELSE <<c>>), << >>, x.text)

NewsOf(repl) ==
  IF repl.kind # "string" THEN repl
  ELSE [kind |-> "string",
        news |-> FoldLeft(LAMBDA text, x : text \o PieceText(x), << >>, repl.pieces)]

PieceMeaning(x, src, s, w) ==
  LET all == OrWhole(Captured(src, w), src, s, w) IN
  CASE x.k = "text" -> x.text
    [] x.k = "capture" /\ x.n = 0 -> SubSeq(src, s, w.end - 1)
    [] OTHER -> Text(all[x.n])

ReplaceMeaning(repl, src, s, w) ==
  LET all == OrWhole(Captured(src, w), src, s, w)
      key == IF repl.kind = "table" THEN <<all[1]>> ELSE all
  IN  IF repl.kind = "string"
      THEN FoldLeft(LAMBDA text, x : text \o PieceMeaning(x, src, s, w), << >>, repl.pieces)
      ELSE IF key \in DOMAIN repl.gives THEN repl.gives[key]
      ELSE SubSeq(src, s, w.end - 1)

RECURSIVE Replaced(_, _, _, _, _)
Replaced(pat, src, repl, max, s) ==
  LET ways == MatchesAt(pat, src, s)
      new == IF ways = << >> THEN << >> ELSE ReplaceMeaning(repl, src, s, Head(ways))
      empty == ways = << >> \/ Head(ways).end = s
      to == IF empty THEN s + 1 ELSE Head(ways).end
      kept == IF empty THEN SubSeq(src, s, s) ELSE << >>
      count == IF ways = << >> THEN 0 ELSE 1
      rest == IF pat.anchor \/ to > Len(src) + 1
              THEN <<SubSeq(src, to, Len(src)), 0>>
              ELSE Replaced(pat, src, repl, max - count, to)
  IN  IF max = 0 THEN <<SubSeq(src, s, Len(src)), 0>>
      ELSE <<new \o (IF s > Len(src) THEN << >> ELSE kept) \o rest[1], count + rest[2]>>

(***************************************************************************)
(* One case after the other: a pattern or a raw text, and a subject.       *)
(***************************************************************************)
StrInit ==
  /\ strCase \in [pat : Patterns, raw : {<< >>}, src : Subjects]
                  \cup [pat : {[anchor |-> FALSE, items |-> << >>]}, raw : RawPatterns, src : Subjects]
  /\ strDone = FALSE

RunCase == ~strDone /\ strDone' = TRUE /\ UNCHANGED strCase

StrNext == RunCase

-----------------------------------------------------------------------------
(***************************************************************************)
(* find and match give the leftmost place where the pattern matches, the   *)
(* preferred match there and its captures, through all the backtracking    *)
(* of lstrlib.c:281-440 and from any start (lstrlib.c:495-535); find       *)
(* without special characters, or asked to, finds the literal text         *)
(* (lmemfind, lstrlib.c:444-463).                                          *)
(***************************************************************************)
FindMeans(c) ==
  LET text == PatternText(c.pat) IN
  \A init \in {-Len(c.src) - 1, -2, 0, 1, 2, Len(c.src) + 1, Len(c.src) + 2} :
    /\ \A find \in BOOLEAN :
         str_find_aux(c.src, text, init, find, FALSE)
           = FindMeaning(c.pat, c.src, Start(c.src, init), find)
    /\ str_find_aux(c.src, text, init, TRUE, TRUE)
         = Literally(text, c.src, Start(c.src, init))

(***************************************************************************)
(* gmatch gives every match once, none inside another, and ends also with  *)
(* patterns that match the empty string (lstrlib.c:557-570).               *)
(***************************************************************************)
GmatchMeans(c) ==
  ~c.pat.anchor => gmatch_aux(c.src, PatternText(c.pat), 1) = EachMatch(c.pat, c.src, 1)

(***************************************************************************)
(* gsub replaces just the matches, the first max_s of them, keeps every    *)
(* other character and counts right, also at the end of the subject and    *)
(* with empty matches (lstrlib.c:661-679).                                 *)
(***************************************************************************)
AllClosed(pat) ==
  LET count(kind) == Cardinality({i \in DOMAIN pat.items : pat.items[i].k = kind})
  IN  count("open") = count("close")

GsubMeans(c) ==
  \A repl \in Replacements, max_s \in 0..(Len(c.src) + 1) :
    AllClosed(c.pat) => str_gsub(c.src, PatternText(c.pat), NewsOf(repl), max_s)
                          = Replaced(c.pat, c.src, repl, max_s, 1)

(***************************************************************************)
(* Whatever the text of a pattern, malformed ones included: a match that   *)
(* fails leaves no capture behind (the undoing in lstrlib.c:338, 349), and *)
(* one that succeeds ends inside the subject.                              *)
(***************************************************************************)
MatchesCleanly(c) ==
  \A s \in 1..(Len(c.src) + 1) :
    LET ms == MatchState(c.src, c.raw)
        r == match(ms, s, 1)
    IN  \/ r.ms.err
        \/ r.s = 0 /\ r.ms = ms
        \/ r.s \in s..(Len(c.src) + 1)

(***************************************************************************)
(* The functions of lstrlib.c do with a pattern what the pattern means,    *)
(* and with any text at all they match cleanly (lstrlib.c:224-679).        *)
(***************************************************************************)
PatternsRight ==
  [][RunCase => /\ FindMeans(strCase) /\ GmatchMeans(strCase) /\ GsubMeans(strCase)
                /\ MatchesCleanly(strCase)]_strVars
=============================================================================
