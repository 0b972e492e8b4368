------------------------------- MODULE Spelling -------------------------------
(***************************************************************************)
(* How numbers are written: inputs of NumberWords, each with the number    *)
(* that it means.  The words are those of the tables, the grammar is that  *)
(* of the languages and not the program's.  Only the regular ways stand    *)
(* here; the README lists what is left out, and why.                       *)
(***************************************************************************)
EXTENDS Languages, Rational, FiniteSetsExt

Phrase(tokens, n) == [tokens |-> tokens, n |-> n]
Silence == {Phrase(<<>>, 0)}
Bare == {Phrase(<<>>, 1)}

\* Words of a language for some numbers; one phrase behind another, with a word
\* in between or fused with it; so many times a scale.
Say(l, numbers) == {Phrase(<<t>>, l.adds[t]) : t \in {w \in DOMAIN l.adds : l.adds[w] \in numbers}}
With(as, between, bs) ==
  {Phrase(a.tokens \o between \o b.tokens, a.n + b.n) : a \in as, b \in bs}
Then(as, bs) == With(as, <<>>, bs)
Fused(as, infix, bs) ==
  {Phrase(<<a.tokens[1] \o <<infix>> \o b.tokens[1]>>, a.n + b.n) : a \in as, b \in bs}
Times(as, l, scale) ==
  {Phrase(Append(a.tokens, t), a.n * scale) :
     a \in as, t \in {w \in DOMAIN l.scales : l.scales[w] = scale}}

FullTens == TensOf(2, 9)
HundredsOf(first, last) == {10 * k : k \in TensOf(first, last)}
Units(l) == Say(l, 1..9)
Few(l) == Say(l, {2, 7, 10, 30})
Basic(l) == Say(l, (0..19) \cup FullTens \cup HundredsOf(2, 9))

\* Numbers up to the millions, from some triples: a thousand needs no number.
Large(l, triples) ==
  LET thousands == Times(triples \cup Bare, l, 1000)
  IN thousands \cup Then(thousands, triples)
       \cup Then(Times(Few(l), l, 1000000), Silence \cup Few(l) \cup Times(Few(l), l, 1000))
Triples(l, hundreds, between, below) ==
  LET h == Times(Say(l, hundreds), l, 100) IN h \cup With(h, between, below)

SaidInEnglish ==
  LET triples == Few(English) \cup Triples(English, {1, 4, 9}, <<<<"and">>>>, Few(English))
  IN Basic(English) \cup Then(Say(English, FullTens), Units(English))
       \cup triples \cup (Large(English, triples) \ Times(Bare, English, 1000))
\* In German and Dutch the ones come before the tens, in one word or in three.
Reversed(l, ones, infix, tens) == With(ones, <<<<infix>>>>, tens) \cup Fused(ones, infix, tens)
SaidInGerman ==
  Basic(German) \cup Reversed(German, Say(German, 1..9), "und", Say(German, FullTens))
    \cup Large(German, Few(German)
         \cup Triples(German, {4}, <<>>, Reversed(German, Say(German, {3}), "und", Say(German, {20}))))
SaidInDutch ==
  Basic(Dutch) \cup With(Units(Dutch), <<<<"en">>>>, Say(Dutch, FullTens))
    \cup Fused(Units(Dutch), "en", Say(Dutch, FullTens \ {70, 90}))
    \cup Large(Dutch, Few(Dutch)
         \cup Triples(Dutch, {4}, <<>>, Reversed(Dutch, Say(Dutch, {1, 7}), "en", Say(Dutch, {20}))))
\* Seventy is sixty and ten, eighty four twenties: plural when nothing follows.
SaidInFrench ==
  LET teens == Say(French, 1..16) \cup Then(Say(French, {10}), Say(French, 7..9))
      eighty(twenty) == {Phrase(<<<<"quatre">>, <<twenty>>>>, 80)}
  IN Basic(French) \cup Then(Say(French, TensOf(2, 6)), Units(French))
       \cup With(Say(French, TensOf(2, 6)), <<<<"et">>>>, Say(French, {1}))
       \cup Then(Say(French, {60}), teens) \cup With(Say(French, {60}), <<<<"et">>>>, Say(French, {11}))
       \cup eighty("vingts") \cup Then(eighty("vingt"), teens)
       \cup Large(French, Few(French)
            \cup Triples(French, {5}, <<>>, Then(Say(French, {60}), Say(French, {10, 12}))))
\* Tens, a word in between, ones.
Southern(l, between) ==
  Basic(l) \cup Say(l, (21..29) \cup {100}) \cup With(Say(l, FullTens), between, Units(l))
    \cup Large(l, Few(l) \cup With(Say(l, {50}), between, Say(l, {6})))
Northern(l) ==
  Basic(l) \cup Then(Say(l, FullTens), Units(l))
    \cup Large(l, Few(l) \cup Triples(l, {3, 5}, <<>>, Few(l)))
SaidInHindi ==
  Basic(Hindi) \cup Triples(Hindi, 1..9, <<>>, Few(Hindi))
    \cup Then(Silence \cup Times(Few(Hindi), Hindi, 10000000),
              Then(Times(Few(Hindi), Hindi, 100000), Silence \cup Times(Few(Hindi), Hindi, 1000)))
SaidInArabic ==
  LET wa == <<<<"arabic", "and">>>>
  IN Basic(Arabic) \cup With(Units(Arabic), wa, Say(Arabic, FullTens))
       \cup Large(Arabic, Triples(Arabic, 3..9, wa, Few(Arabic)))
SaidInAbkhaz ==
  Basic(Abkhaz) \cup Then(Say(Abkhaz, {20}), Say(Abkhaz, 1..19))
    \cup Triples(Abkhaz, 2..9, <<>>, Say(Abkhaz, {5, 20})) \cup Times(Bare, Abkhaz, 1000)

\* Groups of four digits: each but zero with its scale; a one before a scale may
\* be left out.
Place(l, d, unit) ==
  IF d = 0 THEN Silence
  ELSE IF unit = 1 THEN Say(l, {d})
  ELSE Times(Say(l, {d}) \cup IF d = 1 THEN Bare ELSE {}, l, unit)
Group(l, thousands, hundreds, tens, ones) ==
  Then(Then(Place(l, thousands, 1000), Place(l, hundreds, 100)),
       Then(Place(l, tens, 10), Place(l, ones, 1)))
Positional(l) ==
  LET d == {0, 1, 3}
      groups == UNION {Group(l, a, b, c, e) : a \in d, b \in d, c \in d, e \in d}
      few == Group(l, 0, 0, 1, 2) \cup Group(l, 0, 3, 2, 1) \cup Group(l, 2, 0, 5, 0)
      myriads == Times(few, l, 10000)
  IN Say(l, 0..9) \cup (groups \ Silence) \cup myriads \cup Then(myriads, few)
       \cup Then(Times(Group(l, 0, 0, 1, 2), l, 100000000), myriads)
\* A zero stands for the places that are skipped before the last digit.
ZeroThenOnes ==
  With(Group(Chinese, 2, 0, 0, 0) \cup Group(Chinese, 0, 3, 0, 0),
       <<<<"ling">>>>, Say(Chinese, 1..9))
\* And it stands for them before tens, and behind two scales.
ZeroBetweenScales ==
  With(Group(Chinese, 1, 0, 0, 0), <<<<"ling">>>>, Group(Chinese, 0, 0, 5, 0))
    \cup With(Group(Chinese, 1, 3, 0, 0), <<<<"ling">>>>, Group(Chinese, 0, 0, 0, 1))

Syllables(phrases) ==
  {Phrase([i \in DOMAIN p.tokens[1] |-> <<p.tokens[1][i]>>], p.n) : p \in phrases}
SaidInNativeKorean ==
  LET one == Syllables(Say(KoreanNative, 1..10))
  IN one \cup Then(Syllables(Say(KoreanNative, {10})), Syllables(Units(KoreanNative)))

Signed(phrases, negatives) ==
  {Phrase(<<w>> \o p.tokens, -p.n) : p \in phrases, w \in negatives}
Negative(l) == Signed(Few(l), l.negative)

Spoken ==
  UNION {SaidInEnglish, SaidInGerman, SaidInDutch, SaidInFrench, SaidInHindi, SaidInArabic,
         SaidInAbkhaz, SaidInNativeKorean, Southern(Spanish, <<<<"y">>>>),
         Southern(Portuguese, <<<<"e">>>>), Southern(Italian, <<>>), Northern(Swedish),
         Northern(Russian), Positional(Japanese), Positional(Chinese), Positional(KoreanSino),
         ZeroThenOnes} \cup UNION {Negative(Registered[i]) : i \in DOMAIN Registered}
\* Letters that are a Roman numeral, in any case, are read as one (parse.go:192).
LooksRoman == {Word("dix"), Word("mil")}
Regular == {p \in Spoken : ~(Len(p.tokens) = 1 /\ p.tokens[1] \in LooksRoman)}

-----------------------------------------------------------------------------
\* Roman numerals: for each digit its letters.
Letters(d, one, five, ten) ==
  <<<<>>, <<one>>, <<one, one>>, <<one, one, one>>, <<one, five>>, <<five>>, <<five, one>>,
    <<five, one, one>>, <<five, one, one, one>>, <<one, ten>>>>[d + 1]
Roman ==
  {Phrase(<<k[1] \o Letters(h, "c", "d", "m") \o Letters(t, "x", "l", "c") \o Letters(o, "i", "v", "x")>>,
          k[2] + 100 * h + 10 * t + o) :
     k \in {<<<<>>, 0>>, <<<<"m">>, 1000>>, <<<<"x", "overline">>, 10000>>,
            <<<<"i", "overline", "v", "overline">>, 4000>>},
     h \in {0, 4, 9}, t \in {0, 1, 4, 9}, o \in 1..9}
  \cup {Phrase(<<<<"i", "i", "i", "i">>>>, 4), Phrase(<<<<"v", "i", "i", "i", "i">>>>, 9),
        Phrase(<<<<"nulla">>>>, 0)}

\* Braille numerals, with and without the number sign, and a hundredth of them.
Cells == [d \in 0..9 |-> <<"245", "1", "12", "14", "145", "15", "124", "1245", "125", "24">>[d + 1]]
Braille ==
  {Phrase(<<sign \o <<Cells[a], Cells[b], Cells[c]>>>>, 100 * a + 10 * b + c) :
     sign \in {<<>>, <<"3456">>}, a \in 0..9, b \in {0, 1, 9}, c \in {0, 7}}
Below(phrases) == {Phrase(<<<<"36">> \o p.tokens[1]>>, -p.n) : p \in phrases}
WithPoint(p) ==
  LET cells == p.tokens[1]
  IN <<SubSeq(cells, 1, Len(cells) - 2) \o <<"256">> \o SubSeq(cells, Len(cells) - 1, Len(cells))>>

\* What is no number: words of two languages, a word that is in no table, and
\* broken numerals.
Mixed ==
  LET speakers == {5, 6, 7, 8, 9, 10, 11, 12, 13, 15}
      word(i, n) == CHOOSE p \in Say(Registered[i], {n}) : TRUE
  IN {word(p[1], 30).tokens \o word(p[2], 7).tokens : p \in {q \in speakers \X speakers : q[1] # q[2]}}
Broken ==
  {<<<<"drei">>, <<"banana">>>>, <<<<"hundred">>>>, <<<<"and">>>>, <<<<"minus">>>>, <<<<"quatre">>, <<"vingts">>, <<"banana">>>>,
   <<<<"x", "i", "banana">>>>, <<<<"overline">>>>, <<<<"v", "overline", "overline">>>>,
   <<<<"3456">>>>, <<<<"36">>>>, <<<<"3456", "36">>>>, <<<<"1", "256", "12", "256", "14">>>>}

Numbers(phrases) == {[tokens |-> p.tokens, meant |-> Rat(p.n)] : p \in phrases}
Hundredths(phrases) ==
  {[tokens |-> WithPoint(p), meant |-> Fraction(p.n, 100)] : p \in phrases}
NoNumbers(texts) == {[tokens |-> t, meant |-> Nil] : t \in texts}
=============================================================================
