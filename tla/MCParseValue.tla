---------------------------- MODULE MCParseValue ----------------------------
(***************************************************************************)
(* Instances of ParseValue: a configuration file cannot name a negative    *)
(* number.                                                                 *)
(***************************************************************************)
EXTENDS ParseValue

Spelling == INSTANCE Spelling
MCMinInt == -MaxInt - 1

MCNumerals ==
  Spelling!Numbers(Spelling!Regular \cup Spelling!Roman \cup Spelling!Braille
                     \cup Spelling!Below(Spelling!Braille))
    \cup Spelling!Hundredths(Spelling!Braille)
    \cup Spelling!NoNumbers(Spelling!Mixed \cup Spelling!Broken)
\* Two in words, one as a Roman numeral, and no number.
MCInBraces ==
  Spelling!Numbers({Spelling!Phrase(<<<<"deux">>>>, 2), Spelling!Phrase(<<<<"i">>>>, 1)})
    \cup Spelling!NoNumbers({<<<<"banana">>>>})
MCChineseZero == Spelling!Numbers(Spelling!ZeroBetweenScales)
=============================================================================
