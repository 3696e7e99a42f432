------------------------------- MODULE Screen --------------------------------
(***************************************************************************)
(* The text screen as its driver (drivers/video/screen/src/main.c) and the *)
(* console of the kernel (kernel/platform/pc/src/screen.c) write to it:    *)
(* operators from the cells of the frame buffer and a cursor to what one   *)
(* character leaves behind, and the layout it is compared with.            *)
(***************************************************************************)
EXTENDS Integers, Sequences

CONSTANTS
    Width, Height, \* the size of the screen
    Blank,         \* what a cleared cell shows
    CR, LF         \* '\r' and '\n'; every other character is drawn

ASSUME ScreenAssumption == Width \in Nat \ {0} /\ Height \in Nat \ {0} /\ CR # LF

Row == 0 .. Height - 1
Column == 0 .. Width - 1
Cursor == [x : Column, y : Row]
Home == [x |-> 0, y |-> 0]

BlankRow == [c \in Column |-> Blank]

\* screen_clear.
Cleared == [r \in Row |-> BlankRow]

\* scroll_up: the rows move up, the last one is cleared.
ScrolledUp(cells) == [r \in Row |-> IF r < Height - 1 THEN cells[r + 1] ELSE BlankRow]

\* The character in the cell at the cursor, if it is one to draw.
Drawn(cells, cur, char) ==
    IF char \in {CR, LF} THEN cells ELSE [cells EXCEPT ![cur.y][cur.x] = char]

\* The cursor behind the character, and at the start of the next row if it left
\* the row.
Advanced(cur, char) ==
    CASE char = CR -> [cur EXCEPT !.x = 0]
      [] char = LF -> [x |-> 0, y |-> cur.y + 1]
      [] OTHER -> [cur EXCEPT !.x = @ + 1]
Wrapped(cur) == IF cur.x = Width THEN [x |-> 0, y |-> cur.y + 1] ELSE cur

\* Mutant: the last row is left before it is scrolled away.
PutLate(cells, cur, char) ==
    LET next == Wrapped(Advanced(cur, char))
        drawn == Drawn(cells, cur, char)
    IN  IF next.y = Height
        THEN [cells |-> ScrolledUp(cells), cursor |-> [next EXCEPT !.y = @ - 1]]
        ELSE [cells |-> drawn, cursor |-> next]

\* screen_putc.
Put(cells, cur, char) ==
    LET next == Wrapped(Advanced(cur, char))
        drawn == Drawn(cells, cur, char)
    IN  IF next.y = Height
        THEN [cells |-> ScrolledUp(drawn), cursor |-> [next EXCEPT !.y = @ - 1]]
        ELSE [cells |-> drawn, cursor |-> next]

\* The screen behind a text, put there one character after the other.
Printed(cells, cur, text) ==
    LET after[i \in 0 .. Len(text)] ==
          IF i = 0 THEN [cells |-> cells, cursor |-> cur]
          ELSE Put(after[i - 1].cells, after[i - 1].cursor, text[i])
    IN  after[Len(text)]

-----------------------------------------------------------------------------
\* The place after the one where a character is written, on a page without end.
PlaceAfter(place, char) ==
    IF char = CR THEN [place EXCEPT !.x = 0]
    ELSE IF char = LF \/ place.x = Width - 1 THEN [x |-> 0, y |-> place.y + 1]
    ELSE [place EXCEPT !.x = @ + 1]

\* The place behind the first i characters of a text, for each i: text[i + 1] is
\* written there.
Places(text) ==
    LET at[i \in 0 .. Len(text)] ==
          IF i = 0 THEN Home ELSE PlaceAfter(at[i - 1], text[i])
    IN  at

\* What a place of the page shows: the last character written there.
Shown(text, at, place) ==
    LET here == {i \in 1 .. Len(text) : text[i] \notin {CR, LF} /\ at[i - 1] = place}
    IN  IF here = {} THEN Blank ELSE text[CHOOSE i \in here : \A j \in here : j <= i]

\* The screen is a window on that page whose last row is the cursor's, once the
\* page is longer than the screen.
Layout(text) ==
    LET at == Places(text)
        last == at[Len(text)]
        top == IF last.y < Height THEN 0 ELSE last.y - Height + 1
        shows(r, c) == Shown(text, at, [x |-> c, y |-> top + r])
    IN  [cells |-> [r \in Row |-> [c \in Column |-> shows(r, c)]],
         cursor |-> [last EXCEPT !.y = @ - top]]
=============================================================================
