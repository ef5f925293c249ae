-------------------------------- MODULE CLibrary --------------------------------
(***************************************************************************)
(* The stand-ins for the guest's C and C++ libraries that are more than a  *)
(* call of the host's (src/src/hle_symbols.rs): the printf family with its *)
(* own formatter, the guards of static variables, a few string functions,  *)
(* and the ways a program ends itself.                                     *)
(*                                                                         *)
(* A format is a sequence of characters and is scanned one at a time.      *)
(* What the guest meant by it is kept as a sequence of items, to compare.  *)
(***************************************************************************)
EXTENDS Integers, Sequences, SequencesExt

CONSTANTS
  LibCallers,    \* guest threads
  PrintFormats,  \* formats: sequences of items with text, meaning and arguments
  BufferSizes,   \* sizes of the buffers guests print to
  Named,         \* parameters before the variable ones, of functions that pass a va_list
  IntBits,       \* width of an int
  LongBits,      \* width of a long
  Texts,         \* strings in guest memory, by address
  Strings,       \* strings guests search, of codes
  Codes,         \* characters of 16 bits guests convert
  Absent,        \* no such place
  Silent         \* no call in progress

ASSUME CLibraryAssumption == IntBits \in Nat /\ LongBits \in Nat /\ IntBits < LongBits

VARIABLES
  scan,     \* format_c_string at work, or Silent
  printed,  \* history: what the last call of the printf family has left
  guard,    \* the guard word of a static variable
  inGuard,  \* where each thread is with that variable
  ready,    \* history: somebody has initialised it
  answered  \* history: the last call of a string function and its answer

libraryVars == <<scan, printed, guard, inGuard, ready, answered>>

InitLibrary ==
  /\ scan = Silent /\ printed = Silent
  /\ guard = 0 /\ ready = FALSE
  /\ inGuard = [t \in LibCallers |-> "before"]
  /\ answered = Silent

-------------------------------------------------------------------------------
\* Arguments of the printf family

Junk == 1

\* The host functions have five parameters for them.  The ones a guest has not
\* passed hold whatever the registers do, and so do the seventh and eighth
\* parameter of a function: the guest's are further up the stack (HleCall).
Parameters(fn, values) ==
  LET fixed == CASE fn = "printf" -> 1 [] fn = "sprintf" -> 2 [] OTHER -> 3
  IN  [i \in 1 .. 5 |-> IF i \in DOMAIN values /\ i + fixed <= 6 THEN values[i] ELSE Junk]

\* A va_list after n named parameters: six registers' places, then the stack.
VaList(values, n) ==
  [gpOffset |-> 8 * n,
   saved    |-> [i \in 0 .. 5 |-> IF i - n + 1 \in DOMAIN values THEN values[i - n + 1] ELSE Junk],
   overflow |-> [i \in 0 .. 7 |-> IF i + 7 - n \in DOMAIN values THEN values[i + 7 - n] ELSE Junk]]

\* Defect: the stack is indexed as if the registers were on it as well.
FromVaListFlat(ap) ==
  [i \in 1 .. 8 |-> LET gp == ap.gpOffset + 8 * (i - 1) IN
     IF gp < 48 THEN ap.saved[gp \div 8] ELSE ap.overflow[(gp \div 8) % 8]]

\* hle_vsprintf, hle_vsnprintf: always eight of them.
FromVaList(ap) ==
  [i \in 1 .. 8 |-> LET gp == ap.gpOffset + 8 * (i - 1) IN
     IF gp < 48 THEN ap.saved[gp \div 8] ELSE ap.overflow[(gp - 48) \div 8]]

-------------------------------------------------------------------------------
\* Conversions

Flags  == {"-", "+", " ", "#", "0"}
Digits == <<"0", "1", "2", "3", "4", "5", "6", "7", "8", "9", "a", "b", "c", "d", "e", "f">>
DigitOf(c) == SelectInSeq(Digits, LAMBDA d : d = c) - 1
IsDigit(c) == c \in {Digits[i] : i \in 1 .. 10}

Unsigned(v, bits) == v % 2^bits
Signed(v, bits)   == ((v + 2^(bits - 1)) % 2^bits) - 2^(bits - 1)

InBase(n, base) ==
  LET text[k \in Nat] == IF k < base THEN <<Digits[k + 1]>>
                         ELSE Append(text[k \div base], Digits[(k % base) + 1])
  IN  text[n]

Blanks(c, n) == [i \in 1 .. (IF n > 0 THEN n ELSE 0) |-> c]

\* A number in a field: zeros go between the sign and the digits.
Padded(number, base, s) ==
  LET sign   == IF number < 0 THEN <<"-">> ELSE << >>
      digits == InBase(IF number < 0 THEN -number ELSE number, base)
      fill   == s.width - Len(sign) - Len(digits)
  IN  IF "0" \in s.flags THEN sign \o Blanks("0", fill) \o digits
      ELSE Blanks(" ", fill) \o sign \o digits

\* What one directive prints.  Precision, the other flags, the width of
\* anything but numbers and short integers are not honoured; a directive the
\* formatter does not know is printed as it is.
Converted(c, v, s) ==
  LET bits == IF s.long THEN LongBits ELSE IntBits IN
  CASE c \in {"d", "i"} -> Padded(Signed(v, bits), 10, s)
    [] c = "u" -> Padded(Unsigned(v, bits), 10, s)
    [] c = "x" -> Padded(Unsigned(v, bits), 16, s)
    [] c = "p" -> <<"0", "x">> \o InBase(v, 16)
    [] c = "s" -> IF v = 0 THEN <<"(null)">> ELSE Texts[v]
    [] OTHER   -> <<"%", c>>

-------------------------------------------------------------------------------
\* format_c_string, a character at a time

Start(fn, items, args, size) ==
  [fn |-> fn, items |-> items, args |-> args, size |-> size,
   rest |-> FlattenSeq([i \in DOMAIN items |-> items[i].text]),
   at |-> "text", flags |-> {}, width |-> 0, long |-> FALSE, used |-> 0, out |-> << >>]

\* hle_printf, hle_sprintf and hle_snprintf; hle_vsprintf and hle_vsnprintf.
BeginPrint(fn, items, size, n) ==
  LET values == FlattenSeq([i \in DOMAIN items |-> items[i].values])
      args   == IF fn \in {"vsprintf", "vsnprintf"} THEN FromVaList(VaList(values, n))
                ELSE Parameters(fn, values)
  IN  /\ scan = Silent
      /\ scan' = Start(fn, items, args, size)
      /\ UNCHANGED <<printed, guard, inGuard, ready, answered>>

More    == scan # Silent /\ scan.rest # << >>
This    == Head(scan.rest)
Goes(s) == scan' = s /\ UNCHANGED <<printed, guard, inGuard, ready, answered>>
Skipped == [scan EXCEPT !.rest = Tail(@)]

ScanText ==
  /\ More
  /\ scan.at = "text"
  /\ Goes(IF This = "%"
          THEN [Skipped EXCEPT !.at = "percent", !.flags = {}, !.width = 0, !.long = FALSE]
          ELSE [Skipped EXCEPT !.out = Append(@, <<This>>)])

ScanPercent ==
  /\ More
  /\ scan.at = "percent"
  /\ Goes(IF This = "%" THEN [Skipped EXCEPT !.out = Append(@, <<"%">>), !.at = "text"]
          ELSE [scan EXCEPT !.at = "flags"])

ScanFlags ==
  /\ More
  /\ scan.at = "flags"
  /\ Goes(IF This \in Flags THEN [Skipped EXCEPT !.flags = @ \cup {This}]
          ELSE [scan EXCEPT !.at = "width"])

ScanWidth ==
  /\ More
  /\ scan.at = "width"
  /\ Goes(IF IsDigit(This) THEN [Skipped EXCEPT !.width = 10 * @ + DigitOf(This)]
          ELSE IF This = "." THEN [Skipped EXCEPT !.at = "precision"]
          ELSE [scan EXCEPT !.at = "length"])

ScanPrecision ==
  /\ More
  /\ scan.at = "precision"
  /\ Goes(IF IsDigit(This) THEN Skipped ELSE [scan EXCEPT !.at = "length"])

ScanLength ==
  /\ More
  /\ scan.at = "length"
  /\ Goes(IF This \in {"l", "z"} THEN [Skipped EXCEPT !.long = TRUE]
          ELSE IF This = "h" THEN Skipped
          ELSE [scan EXCEPT !.at = "convert"])

ScanConvert ==
  /\ More
  /\ scan.at = "convert"
  /\ Goes(IF scan.used < Len(scan.args)
          THEN [Skipped EXCEPT !.at = "text", !.used = @ + 1,
                  !.out = Append(@, Converted(This, scan.args[scan.used + 1], scan))]
          ELSE [Skipped EXCEPT !.at = "text", !.out = Append(@, <<"<missing arg>">>)])

\* A format that ends within a directive leaves a percent sign.
Result == FlattenSeq(scan.out) \o (IF scan.at = "text" THEN << >> ELSE <<"%">>)

\* What is stored, a zero byte not counted.
Stored(fn, size, text) ==
  IF fn \in {"snprintf", "vsnprintf"} THEN SubSeq(text, 1, IF Len(text) < size - 1 THEN Len(text) ELSE size - 1)
  ELSE text

\* Into a buffer of no size nothing is printed, and the answer is 0.
EndPrint ==
  /\ scan # Silent
  /\ scan.rest = << >>
  /\ LET bounded == scan.fn \in {"snprintf", "vsnprintf"}
         nowhere == bounded /\ scan.size = 0
         stored  == IF nowhere THEN << >> ELSE Stored(scan.fn, scan.size, Result)
         bytes   == IF nowhere THEN 0 ELSE Len(stored) + 1
     IN  printed' = [items |-> scan.items, out |-> scan.out, stored |-> stored, bytes |-> bytes,
                     size |-> IF bounded THEN scan.size ELSE bytes,
                     answer |-> IF nowhere THEN 0 ELSE Len(Result)]
  /\ scan' = Silent
  /\ UNCHANGED <<guard, inGuard, ready, answered>>

ScanStep == ScanText \/ ScanPercent \/ ScanFlags \/ ScanWidth \/ ScanPrecision \/ ScanLength
            \/ ScanConvert \/ EndPrint

-------------------------------------------------------------------------------
\* Static variables of the guest: __cxa_guard_acquire, _release and _abort look
\* at the guard word and set it, with no lock.

GuardAcquire(t) ==
  /\ inGuard[t] = "before"
  /\ inGuard' = [inGuard EXCEPT ![t] = IF guard % 256 # 0 THEN "past" ELSE "initialising"]
  /\ UNCHANGED <<scan, printed, guard, ready, answered>>

GuardRelease(t) ==
  /\ inGuard[t] = "initialising"
  /\ guard' = 1
  /\ inGuard' = [inGuard EXCEPT ![t] = "past"]
  /\ ready' = TRUE
  /\ UNCHANGED <<scan, printed, answered>>

\* The initialiser has thrown: another call of acquire tries again.
GuardAbort(t) ==
  /\ inGuard[t] = "initialising"
  /\ guard' = 0
  /\ inGuard' = [inGuard EXCEPT ![t] = "before"]
  /\ UNCHANGED <<scan, printed, ready, answered>>

GuardCall(t) == GuardAcquire(t) \/ GuardRelease(t) \/ GuardAbort(t)

-------------------------------------------------------------------------------
\* String functions, on strings as sequences of codes; 0 ends a string and a
\* place is a number of characters from the start, or Absent.

\* hle_strchr: the end of the string can be asked for as well.
Strchr(s, c) ==
  LET from[i \in 1 .. Len(s) + 1] ==
        IF i > Len(s) THEN IF c % 256 = 0 THEN i - 1 ELSE Absent
        ELSE IF s[i] = c % 256 THEN i - 1 ELSE from[i + 1]
  IN  from[1]

\* hle_memchr and hle_strstr: the host looks through its own view of the guest's
\* memory, and the place is the guest's again by its distance from the start.
Search(s, needle) ==
  LET found == {i \in 0 .. Len(s) - Len(needle) : SubSeq(s, i + 1, i + Len(needle)) = needle}
  IN  IF found = {} THEN Absent ELSE CHOOSE i \in found : \A k \in found : i <= k

\* hle_mbstowcs, of at most n characters, or of all to count them: a byte is a
\* character, and the end is stored if there is room.
Mbstowcs(s, n) ==
  LET count == IF n = Absent \/ Len(s) < n THEN Len(s) ELSE n
  IN  [count |-> count,
       stored |-> IF n = Absent THEN << >>
                  ELSE SubSeq(s, 1, count) \o (IF count < n THEN <<0>> ELSE << >>)]

\* hle_c16rtomb: a unit of 16 bits in UTF-8, halves of pairs on their own.
C16rtomb(c) ==
  IF c < 128 THEN <<c>>
  ELSE IF c < 2048 THEN <<192 + c \div 64, 128 + (c % 64)>>
  ELSE <<224 + c \div 4096, 128 + ((c \div 64) % 64), 128 + (c % 64)>>

\* CTYPE_TABLE, TOLOWER_TABLE and TOUPPER_TABLE, from -128 on.
Classes(c) ==
  {class \in {"space", "digit", "hex", "lower", "upper", "punct", "control"} :
     CASE class = "space"   -> c \in 9 .. 13 \cup {32}
       [] class = "digit"   -> c \in 48 .. 57
       [] class = "hex"     -> c \in 48 .. 57 \cup 97 .. 102 \cup 65 .. 70
       [] class = "lower"   -> c \in 97 .. 122
       [] class = "upper"   -> c \in 65 .. 90
       [] class = "punct"   -> c \in 33 .. 47 \cup 58 .. 64 \cup 91 .. 96 \cup 123 .. 126
       [] class = "control" -> c \in 0 .. 31 \cup {127}}
ToLower(c) == IF c \in 65 .. 90 THEN c + 32 ELSE c
ToUpper(c) == IF c \in 97 .. 122 THEN c - 32 ELSE c

\* x: what is looked for, a limit, or a character.
AnswerOf(fn, s, x) ==
  CASE fn = "strchr"   -> [place |-> Strchr(s, x[1])]
    [] fn = "search"   -> [place |-> Search(s, x)]
    [] fn = "mbstowcs" -> Mbstowcs(s, IF x = << >> THEN Absent ELSE x[1])
    [] fn = "c16rtomb" -> [bytes |-> C16rtomb(x[1])]
    [] fn = "ctype"    -> [is |-> Classes(x[1]), lower |-> ToLower(x[1]), upper |-> ToUpper(x[1])]

StringCall(fn, s, x) ==
  /\ answered' = [fn |-> fn, s |-> s, x |-> x, answer |-> AnswerOf(fn, s, x)]
  /\ UNCHANGED <<scan, printed, guard, inGuard, ready>>

LibraryCall ==
  \/ \E s \in Strings : \/ \E c \in Range(s) \cup {0, 256} : StringCall("strchr", s, <<c>>)
                       \/ \E needle \in Strings : StringCall("search", s, needle)
                       \/ \E n \in BufferSizes : StringCall("mbstowcs", s, <<n>>)
                       \/ StringCall("mbstowcs", s, << >>)
  \/ \E c \in Codes : StringCall("c16rtomb", << >>, <<c>>)
  \/ \E c \in Codes : c < 256 /\ StringCall("ctype", << >>, <<c>>)

-------------------------------------------------------------------------------
\* The number a text shows in a base, or what is no number.
Shows(text, number, base) ==
  LET body == SelectSeq(text, LAMBDA c : c \notin {" ", "-"})
      value[i \in 0 .. Len(body)] == IF i = 0 THEN 0 ELSE base * value[i - 1] + DigitOf(body[i])
  IN  /\ body # << >>
      /\ value[Len(body)] = IF number < 0 THEN -number ELSE number
      /\ ("-" \in Range(text)) = (number < 0)

\* A directive prints what the standard says: the number at its width in bits,
\* in a field filled with zeros behind the sign or blanks before it and no wider
\* than it has to be; a string as it is.
PrintsAsMeant(text, item) ==
  CASE item.conv = "text" -> text = <<item.shown>>
    [] item.conv = "s"    -> text = Texts[item.values[1]]
    [] OTHER ->
         LET bits   == IF item.long THEN LongBits ELSE IntBits
             number == IF item.conv = "d" THEN Signed(item.values[1], bits) ELSE item.values[1] % 2^bits
             filler == IF item.zero THEN "0" ELSE " "
         IN  /\ Shows(text, number, IF item.conv = "x" THEN 16 ELSE 10)
             /\ Len(text) >= item.width
             /\ Len(text) > item.width => text[IF number < 0 THEN 2 ELSE 1] \notin {" ", "0"} \/ number = 0
             /\ \A i \in DOMAIN text : text[i] = "-" => i = 1 \/ text[i - 1] = " "
             /\ item.zero => " " \notin Range(text)
             /\ Len(text) = item.width /\ ~item.zero /\ Len(text) > 1 => text[1] # "0"

\* Every directive the formatter honours prints its own argument the way the
\* standard has it, whatever stands around it, be it a directive that is not
\* honoured, and however the arguments were passed; what is stored is a
\* beginning of the text that fits the buffer with its end, and the answer is
\* the length of the whole (format_c_string, hle_snprintf, hle_vsnprintf).
PrintsLikeC ==
  printed # Silent /\ printed.size # 0 =>
    /\ Len(printed.out) = Len(printed.items)
    /\ \A i \in DOMAIN printed.items :
         printed.items[i].honoured => PrintsAsMeant(printed.out[i], printed.items[i])
    /\ printed.bytes <= printed.size
    /\ IsPrefix(printed.stored, FlattenSeq(printed.out))
    /\ printed.answer = Len(FlattenSeq(printed.out))
    /\ Len(printed.stored) < printed.answer => printed.bytes = printed.size

\* A thread that goes past a static variable without initialising it finds it
\* initialised, also after another thread's initialiser has thrown
\* (__cxa_guard_acquire, __cxa_guard_release, __cxa_guard_abort).
PassedGuardsAreReady == \A t \in LibCallers : inGuard[t] = "past" => ready

\* String functions answer what the standard says, and the tables of character
\* classes agree with those of upper and lower case (hle_strchr, hle_strstr,
\* hle_mbstowcs, hle_c16rtomb, CTYPE_TABLE).
StringsLikeC ==
  answered # Silent =>
    LET fn == answered.fn
        s  == answered.s
        x  == answered.x
        a  == answered.answer
        Z  == Append(s, 0)
        B(i) == a.bytes[i] % 64
    IN
    CASE fn = "strchr" ->
           IF x[1] % 256 \in Range(Z)
             THEN a.place # Absent /\ Z[a.place + 1] = x[1] % 256 /\ \A i \in 1 .. a.place : Z[i] # x[1] % 256
             ELSE a.place = Absent
      [] fn = "search" ->
           IF a.place = Absent THEN \A i \in 0 .. Len(s) : ~IsPrefix(x, SubSeq(s, i + 1, Len(s)))
           ELSE IsPrefix(x, SubSeq(s, a.place + 1, Len(s)))
      [] fn = "mbstowcs" ->
           /\ a.count <= Len(s)
           /\ x # << >> => Len(a.stored) <= x[1] /\ IsPrefix(a.stored, Z)
      [] fn = "c16rtomb" ->
           x[1] = (CASE Len(a.bytes) = 1 -> a.bytes[1]
                     [] Len(a.bytes) = 2 -> (a.bytes[1] % 32) * 64 + B(2)
                     [] Len(a.bytes) = 3 -> (a.bytes[1] % 16) * 4096 + B(2) * 64 + B(3))
      [] fn = "ctype" ->
           /\ ("upper" \in a.is) = (a.lower # x[1]) /\ ("lower" \in a.is) = (a.upper # x[1])
           /\ ToUpper(a.lower) = a.upper /\ ToLower(a.upper) = a.lower
           /\ "hex" \in a.is => "digit" \in a.is \/ "lower" \in a.is \/ "upper" \in a.is
           /\ \A p \in a.is \cap {"punct", "digit"} : a.is \cap {"space", "lower", "upper", "control"} = {}

\* The stand-ins for the C library keep what the guest was compiled against:
\* printing, searches and tables, and the guards of static objects.
LibraryAnswersLikeC == PrintsLikeC /\ StringsLikeC /\ PassedGuardsAreReady
===============================================================================
