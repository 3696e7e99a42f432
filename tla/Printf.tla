------------------------------- MODULE Printf --------------------------------
(***************************************************************************)
(* Formatted output: _printf_helper and vsnprintf of the C library         *)
(* (lib/c/src/stdio) and do_printf of the kernel (kernel/src/lib/printf.c) *)
(* as one fold over the characters of the format, and the rendering of a   *)
(* line, given in pieces, that it is compared with.                        *)
(***************************************************************************)
EXTENDS Integers, Sequences, SequencesExt

CONSTANT IntRange \* how many values an int has; a long keeps every value here

Digits == <<"0", "1", "2", "3", "4", "5", "6", "7", "8", "9",
            "a", "b", "c", "d", "e", "f">>

\* What each of the two knows after a '%'.
LibConversions == {"d", "x", "u", "c", "s"}
KernelConversions == {"d", "x", "u", "p", "s"}

\* _printf_number: the digits from the last to the first, one zero for 0.
Number(n, base) ==
    LET digits[k \in Nat] ==
          IF k = 0 THEN << >> ELSE Append(digits[k \div base], Digits[(k % base) + 1])
    IN  IF n = 0 THEN <<"0">> ELSE digits[n]

\* An argument as va_arg reads it.
Unsigned(arg, long) == IF long THEN arg ELSE arg % IntRange
Signed(arg, long) ==
    LET n == arg % IntRange
    IN  IF long THEN arg ELSE IF n < IntRange \div 2 THEN n ELSE n - IntRange

Converted(ch, long, arg) ==
    CASE ch = "s" -> arg
      [] ch = "c" -> <<arg>>
      [] ch = "x" -> Number(Unsigned(arg, long), 16)
      [] ch = "u" -> Number(Unsigned(arg, long), 10)
      [] ch = "p" -> Number(arg, 16)
      [] ch = "d" -> LET n == Signed(arg, long)
                     IN  IF n < 0 THEN <<"-">> \o Number(-n, 10) ELSE Number(n, 10)

\* One turn of the loop.  An unknown conversion prints nothing and takes nothing.
Turn(conversions, s, ch) ==
    CASE ~s.format /\ ch = "%" -> [s EXCEPT !.format = TRUE, !.long = FALSE]
      [] ~s.format /\ ch # "%" -> [s EXCEPT !.out = Append(@, ch)]
      [] s.format /\ ch = "l" -> [s EXCEPT !.long = TRUE]
      [] s.format /\ ch \in conversions ->
           [s EXCEPT !.format = FALSE, !.args = Tail(@),
                     !.out = @ \o Converted(ch, s.long, Head(s.args))]
      [] OTHER -> [s EXCEPT !.format = FALSE]

Out(conversions, format, args) ==
    FoldLeft(LAMBDA s, ch : Turn(conversions, s, ch),
             [format |-> FALSE, long |-> FALSE, args |-> args, out |-> << >>], format).out

\* do_printf.
KernelText(format, args) == Out(KernelConversions, format, args)

\* vsnprintf: the buffer drops what it has no room for, and its last character
\* makes place for the '\0'; the number returned is that of the characters kept.
Vsnprintf(format, args, size) ==
    LET all == Out(LibConversions, format, args)
    IN  SubSeq(all, 1, IF Len(all) >= size THEN size - 1 ELSE Len(all))

-----------------------------------------------------------------------------
\* A line in pieces: texts, and conversions with their arguments.
Text(t) == [text |-> t]
Conversion(ch, longs, arg) == [ch |-> ch, longs |-> longs, arg |-> arg]
IsText(piece) == "text" \in DOMAIN piece

FormatOf(line) == FlattenSeq([i \in DOMAIN line |->
    IF IsText(line[i]) THEN line[i].text
    ELSE <<"%">> \o [j \in 1 .. line[i].longs |-> "l"] \o <<line[i].ch>>])
ArgsOf(line) ==
    LET conversions == SelectSeq(line, LAMBDA piece : ~IsText(piece))
    IN  [i \in DOMAIN conversions |-> conversions[i].arg]

\* The numeral of n: no zero in front, and the sum of its digits' values is n.
Numeral(n, base) ==
    LET Value(s) == FoldLeft(LAMBDA v, i : base * v + i, 0, s)
        s == CHOOSE s \in BoundedSeq(0 .. base - 1, 2) :
               /\ s # << >> /\ Value(s) = n
               /\ s[1] = 0 => Len(s) = 1
    IN  [i \in DOMAIN s |-> Digits[s[i] + 1]]

\* What a line means, for arguments its conversions have room for.
Rendered(line) == FlattenSeq([i \in DOMAIN line |->
    LET p == line[i]
    IN  CASE IsText(p) -> p.text
          [] ~IsText(p) /\ p.ch = "s" -> p.arg
          [] ~IsText(p) /\ p.ch = "c" -> <<p.arg>>
          [] ~IsText(p) /\ p.ch \in {"x", "p"} -> Numeral(p.arg, 16)
          [] ~IsText(p) /\ p.ch = "u" -> Numeral(p.arg, 10)
          [] ~IsText(p) /\ p.ch = "d" /\ p.arg >= 0 -> Numeral(p.arg, 10)
          [] ~IsText(p) /\ p.ch = "d" /\ p.arg < 0 -> <<"-">> \o Numeral(-p.arg, 10)])
=============================================================================
