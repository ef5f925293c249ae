------------------------------ MODULE MCServices -------------------------------
(***************************************************************************)
(* Instance of Services for TLC.                                           *)
(***************************************************************************)
EXTENDS Services

ProgramsOf ==
  ({"files"} :> 4) @@ ({"streams"} :> 4) @@ ({"sockets"} :> 6) @@ ({"files", "sockets", "close"} :> 4)
  @@ ({"sound"} :> 4) @@ ({"screen"} :> 4) @@ ({"pad"} :> 0) @@ ({"threads"} :> 0)
  @@ ({"printing"} :> 1) @@ ({"library"} :> 1) @@ ({"statics"} :> 0) @@ ({"start"} :> 0) @@ ({"crossing"} :> 0)

PathA == <<"app0", "a">>
PathB == <<"savedata0", "b">>

SpellingsOf == {[leading |-> "/", separator |-> "/", parts |-> PathA],
                [leading |-> "", separator |-> "\\", parts |-> PathB]}

Flag(access, creat, trunc, append) ==
  [access |-> access, creat |-> creat, trunc |-> trunc, append |-> append]

FlagsOf == {Flag(0, FALSE, FALSE, FALSE), Flag(2, TRUE, TRUE, FALSE), Flag(3, FALSE, FALSE, TRUE)}

DiskOf == [p \in {PathA} |-> <<PathA, PathA>>]
MCModes       == {"r", "w", "a"}
MCOffsets     == {-1, 0}
MCSaveNames   == <<"savedata0", "savedata1">>
MCKeys        == {"left", "d", "escape"}
MCFormats     == {1, 2, 3, 9}
MCVolumes     == {0, 12345, 32768, 65535}
MCSamples     == {-32768, -1, 0, 32767}

\* Directives: what is between the percent sign and the conversion, the
\* conversion, its argument, and what they mean.
Item(text, conv, shown, values, zero, width, long, honoured) ==
  [text |-> text, conv |-> conv, shown |-> shown, values |-> values, zero |-> zero,
   width |-> width, long |-> long, honoured |-> honoured]

Plain(c)      == Item(IF c = "%" THEN <<"%", "%">> ELSE <<c>>, "text", c, << >>, FALSE, 0, FALSE, TRUE)
Number(c, v)  == Item(<<"%", c>>, c, "", <<v>>, FALSE, 0, FALSE, TRUE)
Wide(c, v)    == Item(<<"%", "1", "0", c>>, c, "", <<v>>, FALSE, 10, FALSE, TRUE)
Zeroed(c, v)  == Item(<<"%", "0", "6", c>>, c, "", <<v>>, TRUE, 6, FALSE, TRUE)
Long(c, v)    == Item(<<"%", "4", "l", c>>, c, "", <<v>>, FALSE, 4, TRUE, TRUE)
String(v)     == Item(<<"%", "s">>, "s", "", <<v>>, FALSE, 0, FALSE, TRUE)
LeftShort(v)  == Item(<<"%", "-", "7", ".", "2", "h", "d">>, "d", "", <<v>>, FALSE, 7, FALSE, FALSE)

ItemsOf  == {Plain("a"), Plain("%"), Number("x", 43), Wide("u", 7), Zeroed("d", 252), Long("d", 300),
             String(2), LeftShort(5)}
PairsOf  == {<<x, y>> : x \in ItemsOf, y \in ItemsOf}
FormatsOf == PairsOf \cup {<<x, y, Number("d", 200)>> : x \in {Number("d", 1), String(2)}, y \in ItemsOf}
             \cup {<< >>}

TextsOf   == <<<<"x">>, <<"y", "s">>>>
StringsOf == {<<97>>, <<97, 98, 97>>, <<98, 97>>, << >>}

MCPrograms     == ProgramsOf
MCSpellings    == SpellingsOf
MCOpenFlags    == FlagsOf
MCInitialDisk  == DiskOf
MCPrintFormats == FormatsOf
MCTexts        == TextsOf
MCStrings      == StringsOf
MCCodes        == 0 .. 127 \cup {128, 2047, 2048, 55296, 65535}
===============================================================================
