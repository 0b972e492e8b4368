------------------------------ MODULE Languages ------------------------------
(***************************************************************************)
(* The number words that parser/languages_*.go register, in the order in   *)
(* which they are tried.  A word is a sequence of chunks: one chunk, unless *)
(* the code looks inside it, as it does when it splits "eenentwintig" at   *)
(* the infix "en", joins two Hangul syllables, or tries Roman letters.     *)
(* Of the words that a table gives the same number one or two stand here,  *)
(* without their accents; words of other scripts are named by the number   *)
(* that they say.  Numbers above two billion are left out.                 *)
(***************************************************************************)
EXTENDS Integers, SequencesExt, TLC

\* The words that the code looks into.
Inside ==
  "hundert" :> <<"h", "und", "ert">> @@ "dix" :> <<"d", "i", "x">> @@
  "mil" :> <<"m", "i", "l">> @@ "een" :> <<"e", "en">> @@ "zeven" :> <<"zev", "en">> @@
  "negen" :> <<"neg", "en">> @@ "tien" :> <<"ti", "en">> @@ "miljoen" :> <<"miljo", "en">> @@
  "duizend" :> <<"duiz", "en", "d">> @@ "zeventig" :> <<"zev", "en", "tig">> @@
  "negentig" :> <<"neg", "en", "tig">> @@ "zeventien" :> <<"zev", "en", "ti", "en">>
Word(w) == IF w \in DOMAIN Inside THEN Inside[w] ELSE <<w>>
Words(ws) == {Word(w) : w \in ws}

\* A table of words that say first, first + step, ...
Counting(words, first, step) ==
  [t \in Words(Range(words)) |->
     first + step * ((CHOOSE i \in DOMAIN words : Word(words[i]) = t) - 1)]
From(first, words) == Counting(words, first, 1)
Tens(words) == Counting(words, 20, 10)
\* A table of words named by the numbers that they say.
Said(script, n) == <<script, ToString(n)>>
Named(script, numbers) ==
  [t \in {Said(script, n) : n \in numbers} |-> CHOOSE n \in numbers : t = Said(script, n)]
\* hundred, thousand, million and milliard
Scales(words) ==
  [t \in Words(Range(words)) |->
     <<100, 1000, 1000000, 1000000000>>[CHOOSE i \in DOMAIN words : Word(words[i]) = t]]

None == <<>>
\* adds holds the ones and the tens: both are looked up before the scales.
Western(adds, scales, negative, skip) ==
  [adds |-> adds, scales |-> scales, negative |-> Words(negative), skip |-> Words(skip),
   base |-> 1000, hook |-> "none", infix |-> "", joined |-> {}]

Han(digits) ==
  [Western(digits, Named("han", {10, 100, 1000, 10000, 100000000}), {}, {})
     EXCEPT !.base = 10000, !.hook = "positional"]
Japanese == Han(Named("han", 0..9))
\* The second words for zero and two, and a simplified character of its own.
Chinese ==
  [Han(Named("han", 0..9) @@ <<"ling">> :> 0 @@ <<"liang">> :> 2)
     EXCEPT !.scales = Named("han", {10, 100, 1000, 10000}) @@ <<"yi">> :> 100000000]
KoreanSino ==
  [Han(From(0, <<"yeong", "il", "ee", "sam", "sa", "oh", "yuk", "chil", "pal", "gu">>))
     EXCEPT !.scales = <<"sip">> :> 10 @@ <<"baek">> :> 100 @@ <<"cheon">> :> 1000
                         @@ <<"man">> :> 10000 @@ <<"eok">> :> 100000000]
KoreanNative ==
  LET long == <<"ha", "na">> :> 1 @@ <<"da", "seot">> :> 5 @@ <<"yeo", "seot">> :> 6
              @@ <<"il", "gop">> :> 7 @@ <<"yeo", "deol">> :> 8 @@ <<"a", "hop">> :> 9
  IN [Western(long @@ <<"dul">> :> 2 @@ <<"set">> :> 3 @@ <<"net">> :> 4 @@ <<"yeol">> :> 10,
              None, {}, {}) EXCEPT !.joined = DOMAIN long]

English == Western(
  From(0, <<"zero", "one", "two", "three", "four", "five", "six", "seven", "eight", "nine",
            "ten", "eleven", "twelve", "thirteen", "fourteen", "fifteen", "sixteen",
            "seventeen", "eighteen", "nineteen">>)
    @@ Tens(<<"twenty", "thirty", "forty", "fifty", "sixty", "seventy", "eighty", "ninety">>),
  Scales(<<"hundred", "thousand", "million", "billion">>), {"negative", "minus"}, {"and"})
German == [Western(
  From(0, <<"null", "ein", "zwei", "drei", "vier", "fuenf", "sechs", "sieben", "acht", "neun",
            "zehn", "elf", "zwoelf", "dreizehn", "vierzehn", "fuenfzehn", "sechzehn",
            "siebzehn", "achtzehn", "neunzehn">>)
    @@ From(1, <<"eins">>) @@ From(1, <<"eine">>)
    @@ Tens(<<"zwanzig", "dreissig", "vierzig", "fuenfzig", "sechzig", "siebzig", "achtzig",
              "neunzig">>)
    @@ Counting(<<"zweihundert", "dreihundert", "vierhundert", "fuenfhundert", "sechshundert",
                  "siebenhundert", "achthundert", "neunhundert">>, 200, 100),
  Scales(<<"hundert", "tausend", "million", "milliarde">>), {"minus", "negativ"}, {"und"})
  EXCEPT !.infix = "und"]
French == [Western(
  From(0, <<"zero", "un", "deux", "trois", "quatre", "cinq", "six", "sept", "huit", "neuf",
            "dix", "onze", "douze", "treize", "quatorze", "quinze", "seize">>)
    @@ Tens(<<"vingt", "trente", "quarante", "cinquante", "soixante">>),
  Scales(<<"cent", "mille", "million", "milliard">>), {"moins"}, {"et"})
  EXCEPT !.hook = "quatre-vingt"]
Spanish == Western(
  From(0, <<"cero", "uno", "dos", "tres", "cuatro", "cinco", "seis", "siete", "ocho", "nueve",
            "diez", "once", "doce", "trece", "catorce", "quince", "dieciseis", "diecisiete",
            "dieciocho", "diecinueve">>)
    @@ From(21, <<"veintiun", "veintidos", "veintitres", "veinticuatro", "veinticinco",
                  "veintiseis", "veintisiete", "veintiocho", "veintinueve">>)
    @@ Tens(<<"veinte", "treinta", "cuarenta", "cincuenta", "sesenta", "setenta", "ochenta",
              "noventa">>) @@ From(100, <<"cien">>),
  Scales(<<"ciento", "mil", "millon">>), {"menos"}, {"y"})
Portuguese == Western(
  From(0, <<"zero", "um", "dois", "tres", "quatro", "cinco", "seis", "sete", "oito", "nove",
            "dez", "onze", "doze", "treze", "catorze", "quinze", "dezesseis", "dezessete",
            "dezoito", "dezenove">>)
    @@ Tens(<<"vinte", "trinta", "quarenta", "cinquenta", "sessenta", "setenta", "oitenta",
              "noventa">>),
  Scales(<<"cento", "mil", "milhao", "bilhao">>), {"menos"}, {"e"})
Italian == Western(
  From(0, <<"zero", "uno", "due", "tre", "quattro", "cinque", "sei", "sette", "otto", "nove",
            "dieci", "undici", "dodici", "tredici", "quattordici", "quindici", "sedici",
            "diciassette", "diciotto", "diciannove">>)
    @@ Tens(<<"venti", "trenta", "quaranta", "cinquanta", "sessanta", "settanta", "ottanta",
              "novanta">>),
  Scales(<<"cento", "mille", "milione", "miliardo">>), {"meno"}, {})
Dutch == [Western(
  From(0, <<"nul", "een", "twee", "drie", "vier", "vijf", "zes", "zeven", "acht", "negen",
            "tien", "elf", "twaalf", "dertien", "veertien", "vijftien", "zestien",
            "zeventien", "achttien", "negentien">>)
    @@ Tens(<<"twintig", "dertig", "veertig", "vijftig", "zestig", "zeventig", "tachtig",
              "negentig">>),
  Scales(<<"honderd", "duizend", "miljoen", "miljard">>), {"min"}, {"en"})
  EXCEPT !.infix = "en"]
Swedish == Western(
  From(0, <<"noll", "ett", "tva", "tre", "fyra", "fem", "sex", "sju", "atta", "nio", "tio",
            "elva", "tolv", "tretton", "fjorton", "femton", "sexton", "sjutton", "arton",
            "nitton">>) @@ From(1, <<"en">>)
    @@ Tens(<<"tjugo", "trettio", "fyrtio", "femtio", "sextio", "sjuttio", "attio", "nittio">>),
  Scales(<<"hundra", "tusen", "miljon", "miljard">>), {"minus"}, {})

\* The tables of other scripts: ones and tens, scales, negative, skipped.
TensOf(first, last) == {10 * k : k \in first..last}
Other(script, adds, scales, negative, skip) ==
  [Western(Named(script, adds), Named(script, scales), {}, {})
     EXCEPT !.negative = {<<script, w>> : w \in negative}, !.skip = {<<script, w>> : w \in skip}]
Russian == Other("cyrillic", (0..19) \cup TensOf(2, 9) \cup {100 * k : k \in 2..9},
                 {100, 1000, 1000000, 1000000000}, {"minus"}, {})
Arabic == Other("arabic", (0..10) \cup TensOf(2, 9), {100, 1000, 1000000, 1000000000},
                {"minus"}, {"and"})
Hindi == Other("devanagari", (0..19) \cup TensOf(2, 9), {100, 1000, 100000, 10000000},
               {"minus"}, {})
Abkhaz == Other("abkhaz", 1..20, {100, 1000}, {}, {})

Registered ==
  <<Japanese, Chinese, KoreanSino, KoreanNative, English, German, French, Spanish, Portuguese,
    Italian, Dutch, Swedish, Russian, Arabic, Hindi, Abkhaz>>
=============================================================================
