------------------------------ MODULE Terminal -------------------------------
(***************************************************************************)
(* From the keyboard to the screen: the terminal server                    *)
(* (servers/terminal), a client of the keyboard and of the screen driver   *)
(* and itself the driver of a pseudo terminal; init (apps/init), which     *)
(* echoes what it reads there; the screen driver (drivers/video/screen);   *)
(* and the kernel's console on the same frame buffer.                      *)
(*                                                                         *)
(* The processes exchange messages; handling one is a step, except that    *)
(* the terminal waits for the screen in the middle of a write, and that    *)
(* the driver draws one character after the other.  Devices has the        *)
(* library below: look-ups, request queues, what a full or refused device  *)
(* does.  Here every open succeeds and init is the only client, so that    *)
(* the pseudo terminal has one request at a time.                          *)
(***************************************************************************)
EXTENDS Screen, Printf, FiniteSets

CONSTANTS
    Reports,     \* the lines init_screen may print, each a sequence of them
    BufSize,     \* the size of the buffer it prints a line to
    Greetings,   \* the texts init may begin with
    KernelLines, \* the lines the kernel may print
    Key,         \* the keys, by the character s_keymap has for them
    MaxCodes,     \* bound: how many codes the keyboard sends
    MaxPrints    \* bound: how many lines the kernel prints

\* What is printed for a line: kprintf of the kernel, screen_printf of the terminal.
KernelPrinted(line) == KernelText(FormatOf(line), ArgsOf(line))
ScreenPrinted(line) == Vsnprintf(FormatOf(line), ArgsOf(line), BufSize)

\* Every text that may reach the screen.
Texts ==
    UNION {{KernelPrinted(line) : line \in KernelLines},
           {ScreenPrinted(line) : line \in UNION {ToSet(lines) : lines \in Reports}},
           Greetings, {<<char>> : char \in Key}}

\* Texts and reports are sequences.
ASSUME TerminalAssumption ==
    /\ BufSize \in Nat \ {0} /\ MaxCodes \in Nat /\ MaxPrints \in Nat
    /\ \A lines \in Reports : lines \in Seq(ToSet(lines))
    /\ \A text \in Texts : text \in Seq(ToSet(text))

\* What the keyboard sends: the code of a key that goes down or up, and 0xe0, which
\* says that the next code is that of another key.
Extended == [key |-> "none", up |-> TRUE]
Code == [key : Key, up : BOOLEAN] \cup {Extended}
NoCode == [key |-> "none", up |-> FALSE]

VARIABLES
    driver,     \* the screen driver runs
    job,        \* what it has left to draw of its current request
    answered,   \* its answer is on its way
    drawn,      \* history: the characters it has drawn
    cells, cursor, \* the frame buffer, and the driver's s_x and s_y
    kernelCursor,  \* those of the kernel's console
    kernelText, \* history: what the kernel printed since the screen was cleared
    prints,     \* and how many lines it printed at all
    terminal,   \* where the terminal server is
    report,     \* the lines init_screen has still to print
    inbox,      \* its port
    registered, \* "terminal" is a name of the registry
    active,     \* s_active_pty: there is a pseudo terminal
    request,    \* init's read is its current request
    lastCode,   \* s_last_keycode
    asked,      \* a read of the terminal waits at the keyboard
    sent,       \* history: the codes the keyboard sent
    init,       \* where init is
    initBox,    \* its reply port
    heard,      \* history: the characters it was given
    greeting,   \* the text this init begins with
    before      \* history: what should be drawn before the first of them

drawing == <<driver, job, answered, drawn, cursor>>
console == <<kernelCursor, kernelText, prints>>
serverVars == <<terminal, report, inbox, registered, active, request>>
keyboard == <<lastCode, asked, sent>>
initVars == <<init, initBox, heard, greeting, before>>
terminalVars == <<drawing, cells, console, serverVars, keyboard, initVars>>

\* What a report should look like on the screen: its lines as their arguments say,
\* each without what the buffer has no room for.
Kept(text) == SubSeq(text, 1, IF Len(text) < BufSize THEN Len(text) ELSE BufSize - 1)
Expected(lines) == FlattenSeq([i \in DOMAIN lines |-> Kept(Rendered(lines[i]))])

\* What is printed for every line of a report is what its arguments say: what the
\* order of the texts on the screen rests on, and a fact about formats alone.
FormatsRender ==
    \A line \in UNION {ToSet(lines) : lines \in Reports} :
      ScreenPrinted(line) = Kept(Rendered(line))

\* The kernel has cleared the screen.
TerminalInit ==
    /\ driver = FALSE /\ job = << >> /\ answered = FALSE /\ drawn = << >>
    /\ cells = Cleared /\ cursor = Home
    /\ kernelCursor = Home /\ kernelText = << >> /\ prints = 0
    /\ terminal = "report" /\ report \in Reports /\ inbox = << >>
    /\ registered = FALSE /\ active = FALSE /\ request = FALSE
    /\ lastCode = NoCode /\ asked = FALSE /\ sent = << >>
    /\ init = "lookup" /\ initBox = << >> /\ heard = << >>
    /\ greeting \in Greetings /\ before = Expected(report) \o greeting

-----------------------------------------------------------------------------
(* The screen: the kernel's console, and the driver *)

\* kprintf, with the console's lock and interrupts off from the first character to
\* the last.
KernelPrint(line) ==
    LET text == KernelPrinted(line)
        shown == Printed(cells, kernelCursor, text)
    IN  /\ prints < MaxPrints
        /\ prints' = prints + 1
        /\ kernelText' = kernelText \o text
        /\ cells' = shown.cells /\ kernelCursor' = shown.cursor
        /\ UNCHANGED <<drawing, serverVars, keyboard, initVars>>

\* main of the driver, up to its loop.
StartDriver ==
    /\ ~driver /\ driver' = TRUE
    /\ cells' = Cleared /\ cursor' = Home /\ kernelText' = << >>
    /\ UNCHANGED <<job, answered, drawn, kernelCursor, prints, serverVars, keyboard, initVars>>

\* A turn of the loop of screen_write; after the last one the request is finished.
Draw ==
    /\ job # << >>
    /\ LET next == Put(cells, cursor, Head(job))
       IN  cells' = next.cells /\ cursor' = next.cursor
    /\ drawn' = Append(drawn, Head(job))
    /\ job' = Tail(job) /\ answered' = (Len(job) = 1)
    /\ UNCHANGED <<driver, console, serverVars, keyboard, initVars>>

\* device_write of the terminal to the screen: it sends the text, unless that is
\* empty, and waits for the answer.
WriteScreen(text) == job' = text /\ UNCHANGED <<driver, answered, drawn, cursor>>
WriteAnswered == answered /\ answered' = FALSE /\ UNCHANGED <<driver, job, drawn, cursor>>

-----------------------------------------------------------------------------
(* The terminal server *)

\* init_screen: device_lookup has waited for the driver, the next line is printed.
PrintLine ==
    /\ terminal = "report" /\ driver /\ report # << >>
    /\ LET text == ScreenPrinted(Head(report))
       IN  /\ WriteScreen(text)
           /\ IF text = << >> THEN report' = Tail(report) /\ UNCHANGED terminal
              ELSE terminal' = "printing" /\ UNCHANGED report
    /\ UNCHANGED <<cells, console, inbox, registered, active, request, keyboard, initVars>>

LinePrinted ==
    /\ terminal = "printing" /\ WriteAnswered
    /\ terminal' = "report" /\ report' = Tail(report)
    /\ UNCHANGED <<cells, console, inbox, registered, active, request, keyboard, initVars>>

\* init_input asks for the first code.
StartInput ==
    /\ terminal = "report" /\ driver /\ report = << >>
    /\ terminal' = "register" /\ asked' = TRUE
    /\ UNCHANGED <<drawing, cells, console, report, inbox, registered, active, request,
                   lastCode, sent, initVars>>

\* ipc_server_register, and into the loop.
RegisterName ==
    /\ terminal = "register"
    /\ terminal' = "serve" /\ registered' = TRUE
    /\ UNCHANGED <<drawing, cells, console, report, inbox, active, request, keyboard, initVars>>

Serves(kind) ==
    /\ terminal = "serve" /\ inbox # << >> /\ Head(inbox).kind = kind
    /\ inbox' = Tail(inbox)
    /\ UNCHANGED <<report, registered, cells, console>>
ToInit(msg) == initBox' = Append(initBox, msg) /\ UNCHANGED <<init, heard, greeting, before>>

\* pty_create_device, which may not get a structure; the first pseudo terminal it
\* makes is the active one.
CreatePty(made) == active' = (active \/ made)

\* do_create.
ServeCreate ==
    /\ Serves("create")
    /\ \E made \in BOOLEAN :
         CreatePty(made) /\ ToInit([kind |-> IF made THEN "created" ELSE "error"])
    /\ UNCHANGED <<terminal, request, drawing, keyboard>>

ServeOpen ==
    /\ Serves("open") /\ ToInit([kind |-> "opened"])
    /\ UNCHANGED <<terminal, active, request, drawing, keyboard>>

\* pty_read: the request stays until there is a key.
ServeRead ==
    /\ Serves("read") /\ request' = TRUE
    /\ UNCHANGED <<terminal, active, drawing, keyboard, initVars>>

\* pty_write: the whole server waits for the screen; then the request is finished.
ServeWrite ==
    /\ Serves("write") /\ WriteScreen(Head(inbox).text)
    /\ terminal' = "writing"
    /\ UNCHANGED <<active, request, keyboard, initVars>>
Written ==
    /\ terminal = "writing" /\ WriteAnswered
    /\ terminal' = "serve" /\ ToInit([kind |-> "written"])
    /\ UNCHANGED <<cells, console, report, inbox, registered, active, request, keyboard>>

\* Mutant: what came before does not matter.
DecodedAlone(code) == IF code.up THEN {} ELSE {code.key}

\* The key a code stands for, if it says that one went down.  The code after 0xe0
\* is of a key the map does not have.
Decoded(code) == IF lastCode = Extended \/ code.up THEN {} ELSE {code.key}

\* pty_input_available: the character ends the read that waits, or is lost if none
\* does.
GiveChar(chars) ==
    IF active /\ request /\ chars # {}
    THEN /\ \E ch \in chars : ToInit([kind |-> "char", char |-> ch])
         /\ request' = FALSE
    ELSE UNCHANGED <<request, initVars>>

\* Mutant: the next code is asked for only if this one was a character.
ServeKeyOnce ==
    /\ Serves("key")
    /\ GiveChar(Decoded(Head(inbox).code))
    /\ lastCode' = Head(inbox).code /\ asked' = (Decoded(Head(inbox).code) # {})
    /\ UNCHANGED <<terminal, active, sent, drawing>>

\* input_read_cb, which asks for the next code.
ServeKey ==
    /\ Serves("key")
    /\ GiveChar(Decoded(Head(inbox).code))
    /\ lastCode' = Head(inbox).code /\ asked' = TRUE
    /\ UNCHANGED <<terminal, active, sent, drawing>>

\* The keyboard has a code for the read that waits; Devices says how it comes by it.
KeyCode(code) ==
    /\ asked /\ Len(sent) < MaxCodes
    /\ asked' = FALSE /\ sent' = Append(sent, code)
    /\ inbox' = Append(inbox, [kind |-> "key", code |-> code])
    /\ UNCHANGED <<lastCode, terminal, report, registered, active, request, drawing, cells,
                   console, initVars>>

-----------------------------------------------------------------------------
(* init *)

ToTerminal(msg) ==
    /\ inbox' = Append(inbox, msg)
    /\ UNCHANGED <<terminal, report, registered, active, request, keyboard, drawing, cells,
                   console, greeting, before>>
InitReceives(kind) == initBox # << >> /\ Head(initBox).kind = kind /\ initBox' = Tail(initBox)

\* ipc_server_lookup has waited for the name.
InitCreates ==
    /\ init = "lookup" /\ registered /\ init' = "creating"
    /\ ToTerminal([kind |-> "create"]) /\ UNCHANGED <<initBox, heard>>
InitOpens ==
    /\ init = "creating" /\ InitReceives("created") /\ init' = "opening"
    /\ ToTerminal([kind |-> "open"]) /\ UNCHANGED heard
InitExits ==
    /\ init = "creating" /\ InitReceives("error") /\ init' = "exited"
    /\ UNCHANGED <<heard, greeting, before, drawing, cells, console, serverVars, keyboard>>
InitGreets ==
    /\ init = "opening" /\ InitReceives("opened") /\ init' = "writing"
    /\ ToTerminal([kind |-> "write", text |-> greeting]) /\ UNCHANGED heard
InitReads ==
    /\ init = "writing" /\ InitReceives("written") /\ init' = "reading"
    /\ ToTerminal([kind |-> "read"]) /\ UNCHANGED heard
InitEchoes ==
    /\ init = "reading" /\ InitReceives("char") /\ init' = "writing"
    /\ heard' = Append(heard, Head(initBox).char)
    /\ ToTerminal([kind |-> "write", text |-> <<Head(initBox).char>>])

-----------------------------------------------------------------------------
Server ==
    \/ PrintLine \/ LinePrinted \/ StartInput \/ RegisterName
    \/ ServeCreate \/ ServeOpen \/ ServeRead \/ ServeWrite \/ Written \/ ServeKey
InitStep == InitCreates \/ InitOpens \/ InitExits \/ InitGreets \/ InitReads \/ InitEchoes

TerminalNext ==
    \/ \E line \in KernelLines : KernelPrint(line)
    \/ StartDriver \/ Draw \/ Server \/ InitStep
    \/ \E code \in Code : KeyCode(code)

TerminalSpec == TerminalInit /\ [][TerminalNext]_terminalVars

\* The processes go on with the messages they have; nobody needs to press a key, and
\* the kernel needs not print.
FairTerminalSpec ==
    /\ TerminalSpec
    /\ WF_terminalVars(StartDriver) /\ WF_terminalVars(Draw)
    /\ WF_terminalVars(Server) /\ WF_terminalVars(InitStep)

-----------------------------------------------------------------------------
(* Properties *)

\* The frame buffer shows what was written, laid out line by line and scrolled, and
\* no character is ever put outside it: first what the kernel printed, then, until
\* the kernel prints again, what the driver was asked to draw.  The driver's cursor
\* is where its own texts end, whatever the kernel did to the cells.
ScreenShowsTexts ==
    /\ ~driver => [cells |-> cells, cursor |-> kernelCursor] = Layout(kernelText)
    /\ driver => cursor = Layout(drawn).cursor
    /\ driver /\ kernelText = << >> => cells = Layout(drawn).cells

\* The characters the codes stand for, those of keys that go down and are not the
\* second code of another key.
KeysMeant ==
    LET down == {i \in DOMAIN sent : ~sent[i].up /\ (i = 1 \/ sent[i - 1] # Extended)}
    IN  [i \in 1 .. Cardinality(down) |->
           sent[CHOOSE d \in down : Cardinality({e \in down : e <= d}) = i].key]
Within(s, t) ==
    \E f \in [DOMAIN s -> DOMAIN t] :
      /\ \A i, j \in DOMAIN s : i < j => f[i] < f[j]
      /\ \A i \in DOMAIN s : s[i] = t[f[i]]

\* The driver draws, in this order and nothing else, the report as its arguments say,
\* the greeting and the characters init was given; and those are keys that went down,
\* in the order in which they did, though some may be lost.
TextsInOrder ==
    /\ IsPrefix(drawn, before \o heard)
    /\ Within(heard, KeysMeant)

\* Neither the terminal nor init waits for ever: every code is taken in the end,
\* and every character that init was given is on the screen in the end.
KeysEchoed ==
    /\ \A n \in 1 .. MaxCodes : Len(sent) = n ~> asked
    /\ \A n \in 1 .. MaxCodes : Len(heard) = n ~> Len(drawn) >= Len(before) + n
=============================================================================
