----------------------------- MODULE NumberWords -----------------------------
(***************************************************************************)
(* The reading of one numeral: Roman (parser/roman.go), Braille            *)
(* (parser/braille.go) or words of a registered language                   *)
(* (parser/multilang.go and the hooks of languages_*.go).  ParseValue      *)
(* tries them in this order and takes the first that matches.              *)
(*                                                                         *)
(* A text is a sequence of tokens, a token one of chunks (module           *)
(* Languages).  With the text goes the number that its writer means, or    *)
(* Nil for a text that is no number; nothing here reads it.                *)
(***************************************************************************)
EXTENDS Languages, Rational, FiniteSetsExt

CONSTANT Numerals   \* what may be written: [tokens, meant]

VARIABLES
  numeral, \* the text that is read
  stage,   \* "none", what is tried on it, "read" or "refused"
  lang,    \* the language that is tried
  rest,    \* the tokens that are still to come
  sum,     \* what the tokens before them come to
  value    \* the number that was read
numeralVars == <<numeral, stage, lang, rest, sum, value>>

NoNumeral == [tokens |-> <<>>, meant |-> Nil]
NoDigit == -1
Nothing == [total |-> 0, group |-> 0, digit |-> NoDigit, got |-> FALSE, neg |-> FALSE]

InitNumeral ==
  /\ numeral = NoNumeral /\ stage = "none" /\ lang = 1
  /\ rest = <<>> /\ sum = Nothing /\ value = Nil

Begin(numerals) ==
  /\ stage = "none" /\ stage' = "roman"
  /\ \E n \in numerals : numeral' = n /\ rest' = n.tokens
  /\ UNCHANGED <<lang, sum, value>>

Read(x) == stage' = "read" /\ value' = x /\ UNCHANGED <<numeral, lang, rest, sum>>
GoTo(next) == stage' = next /\ UNCHANGED <<numeral, lang, rest, sum, value>>

-----------------------------------------------------------------------------
romanValues ==
  LET letters == <<"i", "v", "x", "l", "c", "d", "m">>
  IN [letter \in Range(letters) |->
        <<1, 5, 10, 50, 100, 500, 1000>>[CHOOSE i \in DOMAIN letters : letters[i] = letter]]
Nulla == <<"nulla">>
Overline == "overline"   \* combining: it stands behind its letter

IsRoman(letters) ==
  \A p \in DOMAIN letters :
    \/ letters[p] \in DOMAIN romanValues
    \/ letters[p] = Overline /\ p > 1 /\ letters[p - 1] # Overline
\* A letter counts a thousand times with an overline behind it, and is taken off
\* when the next letter counts more.
Overlined(letters, p) == p < Len(letters) /\ letters[p + 1] = Overline
RomanDigit(letters, p) ==
  romanValues[letters[p]] * IF Overlined(letters, p) THEN 1000 ELSE 1
RomanTerm(letters, p) ==
  LET digit == RomanDigit(letters, p)
      next == IF Overlined(letters, p) THEN p + 2 ELSE p + 1
  IN IF letters[p] = Overline THEN 0
     ELSE IF next <= Len(letters) /\ digit < RomanDigit(letters, next) THEN -digit
     ELSE digit
RomanTotal(letters) ==
  LET total[p \in 0..Len(letters)] ==
        IF p = 0 THEN 0 ELSE total[p - 1] + RomanTerm(letters, p)
  IN total[Len(letters)]

\* parseRoman.
TryRoman ==
  /\ stage = "roman"
  /\ IF rest = <<Nulla>> THEN Read(Zero)
     ELSE IF Len(rest) = 1 /\ IsRoman(rest[1]) THEN Read(Rat(RomanTotal(rest[1])))
     ELSE GoTo("braille")

\* The cells of the digits, by their raised dots.
brailleDigits ==
  LET cells == <<"245", "1", "12", "14", "145", "15", "124", "1245", "125", "24">>
  IN [cell \in Range(cells) |-> (CHOOSE i \in DOMAIN cells : cells[i] = cell) - 1]
brailleNumIndicator == "3456"
brailleHyphen == "36"
brailleDecimal == "256"

Without(sign, cells) == IF cells # <<>> /\ Head(cells) = sign THEN Tail(cells) ELSE cells
BrailleCells(cells) == Without(brailleNumIndicator, Without(brailleHyphen, cells))
IsBraille(cells) ==
  LET decimals == {p \in DOMAIN cells : cells[p] = brailleDecimal}
      digits == {p \in DOMAIN cells : cells[p] \in DOMAIN brailleDigits}
  IN digits # {} /\ Cardinality(decimals) <= 1 /\ digits \cup decimals = DOMAIN cells
BrailleNumber(cells) ==
  LET step(number, cell) ==
        IF cell = brailleDecimal THEN [number EXCEPT !.unit = 1]
        ELSE [n |-> 10 * number.n + brailleDigits[cell], unit |-> 10 * number.unit]
      read == FoldLeft(step, [n |-> 0, unit |-> 0], cells)
  IN Fraction(read.n, IF read.unit = 0 THEN 1 ELSE read.unit)

\* parseBraille.  What it refuses is no set, interval or expression either:
\* the next that ParseValue tries on a text of words is parseMultiLang.
TryBraille ==
  /\ stage = "braille"
  /\ IF Len(rest) = 1 /\ IsBraille(BrailleCells(rest[1]))
     THEN LET n == BrailleNumber(BrailleCells(rest[1]))
          IN Read(IF Head(rest[1]) = brailleHyphen THEN Neg(n) ELSE n)
     ELSE GoTo("language")

-----------------------------------------------------------------------------
L == Registered[lang]

\* What a table says a word adds, or multiplies by, is a number.
ASSUME TablesAssumption ==
  \A i \in DOMAIN Registered : \A table \in {Registered[i].adds, Registered[i].scales} :
    \A word \in DOMAIN table : table[word] \in Nat

\* parseMultiLang: the language does not match, the next one is tried.
NextLanguage ==
  /\ rest' = numeral.tokens /\ sum' = Nothing /\ UNCHANGED <<numeral, value>>
  /\ IF lang = Len(Registered) THEN stage' = "refused" /\ UNCHANGED lang
     ELSE stage' = "language" /\ lang' = lang + 1

\* The hook did not match, the engine is tried.
Generic ==
  stage' = "prepare" /\ rest' = numeral.tokens /\ sum' = Nothing
    /\ UNCHANGED <<numeral, lang, value>>

Take(new) == rest' = Tail(rest) /\ sum' = new /\ UNCHANGED <<numeral, stage, lang, value>>

QuatreVingt(tokens) ==
  Len(tokens) >= 2 /\ tokens[1] = <<"quatre">> /\ tokens[2] \in Words({"vingt", "vingts"})

\* tryLang: the quirks of the language come first.
TryLanguage ==
  /\ stage = "language"
  /\ CASE L.hook = "positional" -> GoTo("positional")
       [] L.hook = "quatre-vingt" /\ QuatreVingt(rest) ->
            /\ stage' = "eighty" /\ rest' = SubSeq(rest, 3, Len(rest))
            /\ sum' = [sum EXCEPT !.total = 80]
            /\ UNCHANGED <<numeral, lang, value>>
       [] OTHER -> GoTo("prepare")

\* The group, before a scale of at least the base of the language flushes it.
Flushed(total, group, scale) == total + scale * IF group = 0 THEN 1 ELSE group

Pending == IF sum.digit = NoDigit THEN 0 ELSE sum.digit
\* parseCJKPositional.
PositionalDigit ==
  /\ stage = "positional" /\ rest # <<>> /\ Head(rest) \in DOMAIN L.adds
  /\ IF sum.digit # NoDigit THEN Generic
     ELSE Take([sum EXCEPT !.digit = L.adds[Head(rest)]])

PositionalScale ==
  /\ stage = "positional" /\ rest # <<>> /\ Head(rest) \in DOMAIN L.scales
  /\ LET scale == L.scales[Head(rest)]
         digit == IF sum.digit = NoDigit THEN 1 ELSE sum.digit
     IN IF scale >= 10000
        THEN Take([sum EXCEPT !.total = Flushed(@, sum.group + Pending, scale),
                              !.group = 0, !.digit = NoDigit])
        ELSE Take([sum EXCEPT !.group = @ + digit * scale, !.digit = NoDigit])

PositionalOther ==
  /\ stage = "positional" /\ rest # <<>>
  /\ Head(rest) \notin DOMAIN L.adds \cup DOMAIN L.scales
  /\ Generic

PositionalEnd ==
  /\ stage = "positional" /\ rest = <<>>
  /\ Read(Rat(sum.total + sum.group + Pending))

\* frenchQuatreVingtQuirk: the ones of French go up to sixteen.
Eighty ==
  /\ stage = "eighty" /\ rest # <<>>
  /\ LET token == Head(rest) IN
       IF token = <<"et">> THEN Take(sum)
       ELSE IF token \in DOMAIN L.adds /\ L.adds[token] <= 16
       THEN Take([sum EXCEPT !.total = @ + L.adds[token]])
       ELSE Generic

EightyEnd == stage = "eighty" /\ rest = <<>> /\ Read(Rat(sum.total))

-----------------------------------------------------------------------------
IsWholeWord(token) == token \in DOMAIN L.adds \cup DOMAIN L.scales

Infixes(token) == {p \in DOMAIN token : token[p] = L.infix}
\* Mutant: the search that strings.Index would make.
lastIndexMutant(token) == Min(Infixes(token))
lastIndex(token) == Max(Infixes(token))

\* splitFusedCompound of one token: at the last infix, if both sides are words.
Split(token) ==
  LET last == lastIndex(token)
      left == SubSeq(token, 1, last - 1)
      right == SubSeq(token, last + 1, Len(token))
  IN IF ~IsWholeWord(token) /\ Infixes(token) # {} /\ IsWholeWord(left) /\ IsWholeWord(right)
     THEN <<left, <<L.infix>>, right>>
     ELSE <<token>>
splitFusedCompound(tokens) == FlattenSeq([i \in DOMAIN tokens |-> Split(tokens[i])])

joinKoreanNativeWords(tokens) ==
  LET join(before, token) ==
        IF before # <<>> /\ Last(before) \o token \in L.joined
        THEN Append(Front(before), Last(before) \o token)
        ELSE Append(before, token)
  IN FoldLeft(join, <<>>, tokens)

Preprocess(tokens) ==
  IF L.infix # "" THEN splitFusedCompound(tokens)
  ELSE IF L.joined # {} THEN joinKoreanNativeWords(tokens)
  ELSE tokens

\* tryLang, up to its loop: the preprocessing and the sign.
Prepare ==
  /\ stage = "prepare"
  /\ LET tokens == Preprocess(rest)
         neg == tokens # <<>> /\ Head(tokens) \in L.negative
         left == IF neg THEN Tail(tokens) ELSE tokens
     IN IF left = <<>> THEN NextLanguage
        ELSE /\ stage' = "engine" /\ rest' = left /\ sum' = [sum EXCEPT !.neg = neg]
             /\ UNCHANGED <<numeral, lang, value>>

\* tryLang, its loop.
EngineSkip == stage = "engine" /\ rest # <<>> /\ Head(rest) \in L.skip /\ Take(sum)

Engine(words) ==
  stage = "engine" /\ rest # <<>> /\ Head(rest) \notin L.skip /\ Head(rest) \in words

EngineAdd ==
  /\ Engine(DOMAIN L.adds)
  /\ Take([sum EXCEPT !.group = @ + L.adds[Head(rest)], !.got = TRUE])

EngineScale ==
  /\ Engine(DOMAIN L.scales \ DOMAIN L.adds)
  /\ LET scale == L.scales[Head(rest)]
     IN IF scale >= L.base
        THEN Take([sum EXCEPT !.total = Flushed(@, sum.group, scale), !.group = 0, !.got = TRUE])
        ELSE IF sum.got THEN Take([sum EXCEPT !.group = @ * scale])
        ELSE NextLanguage

EngineOther ==
  /\ stage = "engine" /\ rest # <<>>
  /\ Head(rest) \notin L.skip \cup DOMAIN L.adds \cup DOMAIN L.scales
  /\ NextLanguage

EngineEnd ==
  /\ stage = "engine" /\ rest = <<>>
  /\ LET n == sum.total + sum.group
     IN IF sum.got THEN Read(Rat(IF sum.neg THEN -n ELSE n)) ELSE NextLanguage

NumeralStep ==
  \/ TryRoman \/ TryBraille \/ TryLanguage
  \/ PositionalDigit \/ PositionalScale \/ PositionalOther \/ PositionalEnd
  \/ Eighty \/ EightyEnd
  \/ Prepare \/ EngineSkip \/ EngineAdd \/ EngineScale \/ EngineOther \/ EngineEnd

-----------------------------------------------------------------------------
\* What is written in one of the regular ways is read as what it means, though
\* every language before its own is tried first, and what mixes languages is
\* refused (multilang.go:159-178, roman.go, braille.go).
ReadsWhatIsMeant ==
  /\ stage = "read" => value = numeral.meant
  /\ stage = "refused" => numeral.meant = Nil

\* In the languages of positional groups a scale multiplies "only the single
\* digit that precedes it, not the whole group accumulated so far", the hook is
\* "to bypass the generic engine entirely" (languages_cjk.go:96-100).
ScalesMultiplyOneDigit ==
  stage = "read" /\ L.hook = "positional" => value = numeral.meant
=============================================================================
