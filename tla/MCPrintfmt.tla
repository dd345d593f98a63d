------------------------------ MODULE MCPrintfmt ------------------------------
(***************************************************************************)
(* Instances of Printfmt for TLC: ints of 4 bits, long longs of 8.  Every  *)
(* conversion with every combination of flags, widths and precisions that  *)
(* the scanner tells apart, alone and before or after one that would be    *)
(* misprinted if anything were left over.                                  *)
(***************************************************************************)
EXTENDS Printfmt

MCCharacters ==
  Decimals \cup {DigitChar[k] : k \in 1 .. 16} \cup Modifiers \cup Conversions
  \cup {" ", "X", "?", "(", "n", ")", "error ", NUL, "z", "bell", "message"}
MCStrings == << <<"a", "bell">> >>
MCGlyph == [n \in 0 .. 15 |-> IF n = 7 THEN "bell" ELSE "a"]
MCMessages == [k \in 1 .. 6 |-> "message"]
MCSinks == {Console} \cup [kind : {"buffer"}, size : {-1, 0, 1, 4}] \cup [kind : {"null"}, size : {0, 4}]

Widths == { Absent,
            [text |-> <<"4">>, words |-> <<>>, value |-> 4],
            [text |-> <<"1", "0">>, words |-> <<>>, value |-> 10],
            [text |-> <<"*">>, words |-> <<3>>, value |-> 3],
            [text |-> <<"*">>, words |-> <<13>>, value |-> -3] }
Precisions == { Absent,
                [text |-> <<".">>, words |-> <<>>, value |-> -1],
                [text |-> <<".", "0">>, words |-> <<>>, value |-> -1],
                [text |-> <<".", "1">>, words |-> <<>>, value |-> 1],
                [text |-> <<".", "*">>, words |-> <<5>>, value |-> 5] }
Pads == {<<>>, <<"-">>, <<"0">>, <<"0", "-">>}

Every(convs, pads, widths, precisions, long, args) ==
  [conv : convs, pad : pads, width : widths, precision : precisions, long : {long}, arg : args]

OneWord == {<<0>>, <<8>>, <<15>>}
TwoWords == {<<0, 8>>, <<15, 15>>, <<4, 6>>}
MCDirectives ==
  Every({"d", "x"}, Pads, Widths, {Absent}, <<>>, OneWord)
  \cup Every({"d"}, {<<"0">>}, Widths, Precisions \ {Absent}, <<"l">>, {<<15>>})
  \cup Every({"d", "u", "x"}, {<<>>}, {Absent}, {Absent}, <<"l", "l">>, TwoWords)
  \cup Every({"s"}, Pads \cup {<<"#">>}, Widths, Precisions, <<>>, {<<0>>, <<1>>})
  \cup Every({"e"}, {<<>>}, {Absent}, {Absent}, <<>>, {<<n>> : n \in 0 .. 15})
  \cup Every({"c", "p"}, {<<>>}, Widths, {Absent}, <<>>, {<<7>>})
  \cup Every({"o", "%", "z", "plain"}, {<<"-">>}, {Absent}, {Absent}, <<>>, {<<>>})
  \cup Every({"z", "end"}, {<<"0">>}, Widths, Precisions, <<"l">>, {<<>>})

Witnesses ==
  Every({"d", "s"}, {<<>>}, {Absent}, {Absent}, <<>>, {<<1>>})
  \cup Every({"d"}, {<<"-">>}, {n \in Widths : n.value = 4}, {Absent}, <<"l", "l">>, {<<2, 1>>})

MCCalls ==
  {<<d>> : d \in MCDirectives}
  \cup {<<d, w>> : d \in {x \in MCDirectives : x.conv # "end"}, w \in Witnesses}
  \cup {<<w, d>> : d \in MCDirectives, w \in Witnesses}
=============================================================================
