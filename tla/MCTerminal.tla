----------------------------- MODULE MCTerminal ------------------------------
(* A small instance of Terminal for TLC: a screen of two by two. *)
EXTENDS Terminal

Line(ch, longs, arg) == <<Conversion(ch, longs, arg), Text(<<LF>>)>>

\* One number each that fits or does not, and a line with all the rest.
SmallReports ==
    {<<Line("u", 2, 27), Line("u", 2, 0)>>,
     <<Line("d", 0, -7), <<Text(<<"b">>), Conversion("s", 0, <<"s", "t">>)>>>>}
SmallGreetings == {<<"g", "h", CR>>, <<"g", LF, "h">>}
SmallKernelLines == {Line("x", 1, 26), <<Text(<<"k">>)>>}

\* What the theorem about the texts takes for granted.
ASSUME FormatsAssumption == FormatsRender
=============================================================================
