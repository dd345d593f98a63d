-------------------------- MODULE MCDocumentedFormats --------------------------
(***************************************************************************)
(* What the comments and the grading script of the repository say that a   *)
(* format prints, where that is not what Directives says of it.            *)
(***************************************************************************)
EXTENDS MCPrintfmt

DocWord == 8192
DocGlyph == [n \in 0 .. DocWord - 1 |-> "a"]
DocCharacters == MCCharacters \cup {"6828 decimal is ", " octal!"}
DocSinks == {Console}

Padded(conv, flags, arg) ==
  [conv |-> conv, pad |-> flags, width |-> [text |-> <<"4">>, words |-> <<>>, value |-> 4],
   precision |-> Absent, long |-> <<>>, arg |-> arg]
Bare(conv, flags) ==
  [conv |-> conv, pad |-> flags, width |-> Absent, precision |-> Absent, long |-> <<>>, arg |-> <<>>]

(* "%4s%-4d6828 decimal is %o octal!", of which init.c:36 has the end *)
DocCalls == {<< Padded("s", <<>>, <<1>>), Padded("d", <<"-">>, <<5>>),
                Bare("plain", <<"6828 decimal is ">>), Bare("o", <<>>), Bare("plain", <<" octal!">>) >>}

(* Directives has no argument for %o; its caller has passed one (init.c:36). *)
Passed(d) == IF d.conv = "o" THEN <<6828>> ELSE Words(d)
DocInit == Called /\ ap = Concat(Passed, call)
DocSpec == DocInit /\ [][Next]_vars

Documented(d) ==
  CASE d.conv = "s" -> Shown(d)                                 \* printfmt.c:12-13
    [] d.conv = "d" ->                                          \* printfmt.c:107
         LET numeral == Numeral(Magnitude(Value(d)), 10)
         IN (IF Value(d) < 0 THEN <<"-">> ELSE <<>>)
            \o numeral \o Copies(" ", d.width.value - Len(numeral))
    [] d.conv = "o" -> Numeral(6828, 8)                         \* grade-lab1:15
    [] OTHER -> Text(d)

(***************************************************************************)
(* A format prints what the repository documents: a string is not padded   *)
(* (printfmt.c:12-13), the flag - pads a number on the right               *)
(* (printfmt.c:107), and %o prints its argument in octal (grade-lab1:15).  *)
(* The code keeps none of the three (printfmt.c:179-187, 44-45, 209-211).  *)
(***************************************************************************)
PrintsAsDocumented == pc = "done" => out = Concat(Documented, call)
=============================================================================
