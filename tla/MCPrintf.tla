------------------------------ MODULE MCPrintf ------------------------------
(***************************************************************************)
(* Printf for TLC: every set of flags with a field that is absent, shorter *)
(* than the text, longer, and negative (given by "*"), with and without a  *)
(* precision, for numbers of one and two digits and of every width.        *)
(***************************************************************************)
EXTENDS Printf

FlagSets == SUBSET {"LEFT", "PLUS", "SPACE", "SPECIAL", "ZEROPAD"}
Widths   == {<<>>, <<1>>, <<5>>, <<-4>>}
Precs    == {<<>>, <<3>>}

\* 7 is -1 as an int of three bits and as a short, 26 is negative as a long and
\* as a short only, 16 as a long is minus its own negation.
Words == {0, 7, 16, 26}

Given(convs, qualifiers, args) ==
    [flags : FlagSets, width : Widths, prec : Precs, conv : convs, qualifier : qualifiers, arg : args]

NumberDirectives ==
    Given({"d"}, {"none", "h", "l"}, Words) \cup Given({"x", "u"}, {"none", "l"}, {7, 26})
      \cup Given({"X"}, {"none", "h"}, {7}) \cup Given({"p"}, {"none"}, {26})

TextDirectives ==
    Given({"c"}, {"none"}, {"z"}) \cup Given({"s"}, {"none"}, {<<>>, << <<>> >>, << <<"y", "z">> >>})
      \cup [flags : {{}}, width : {<<>>}, prec : {<<>>}, conv : {"%", "n"},
            qualifier : {"none"}, arg : {0}]

AllDirectives == NumberDirectives \cup TextDirectives
=============================================================================
