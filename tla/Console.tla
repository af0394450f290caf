------------------------------- MODULE Console -------------------------------
(***************************************************************************)
(* The kernel's console: printk and vprintk (core/printk.c) read a format  *)
(* character by character, pty_putstr (pty/core.c) lays its characters out *)
(* behind a cursor, pty_putch paints them column by column from the font   *)
(* (pty/font.c), and fb_putpix (dev/video/fb.c) writes the pixels into the *)
(* memory of the framebuffer.                                              *)
(*                                                                         *)
(* An exception may come between any two of these steps.  Its handler ends *)
(* in a panic, which prints with the same code and the same cursor and     *)
(* never returns to the call it has interrupted.                           *)
(*                                                                         *)
(* A character is a string that names it: "esc" is \001, "nl" is \n.  What *)
(* a conversion prints is taken as given (NumFmt models the digits).       *)
(***************************************************************************)
EXTENDS Messages, SequencesExt

CONSTANTS
  FONT_WIDTH, FONT_HEIGHT,   \* the size of a glyph (9 and 16)
  Scenarios,   \* the machine, the calls of printk, and the exceptions to come
  NULL

ASSUME FontAssumption == FONT_WIDTH \in Nat \ {0} /\ FONT_HEIGHT \in Nat \ {0}

Codes   == {"0", "1", "2", "3", "4", "5"}
Letters == {"s", "c", "x", "d"}   \* what handle_format converts

IsColor(p) == p.kind = "color"
IsArg(p)   == p.kind = "arg"

\* The conversions among the first k parts of a format.
ArgsUpTo(parts, k) == Cardinality({j \in 1 .. k : IsArg(parts[j])})

\* The characters the font has, from 32 on.
Printable ==
  << " ", "!", "\"", "#", "$", "%", "&", "'", "(", ")", "*", "+", ",", "-", ".", "/",
     "0", "1", "2", "3", "4", "5", "6", "7", "8", "9", ":", ";", "<", "=", ">", "?",
     "@", "A", "B", "C", "D", "E", "F", "G", "H", "I", "J", "K", "L", "M", "N", "O",
     "P", "Q", "R", "S", "T", "U", "V", "W", "X", "Y", "Z", "[", "\\", "]", "^", "_",
     "backquote", "a", "b", "c", "d", "e", "f", "g", "h", "i", "j", "k", "l", "m", "n", "o",
     "p", "q", "r", "s", "t", "u", "v", "w", "x", "y", "z", "{", "|", "}", "~" >>

\* What a text is made of.
Chars == {Printable[i] : i \in DOMAIN Printable} \cup {"nl"}

\* The parts of formats: a conversion is one that handle_format knows.
Parts == {part \in [kind : {"color", "char", "arg", "unknown"}, what : Chars] :
            /\ part.kind = "char" => part.what \notin {"esc", "%"}
            /\ part.kind = "arg" => part.what \in Letters
            /\ part.kind = "unknown" => part.what \notin Letters}

\* The calls that are made on a port: each conversion has an argument, and on
\* aarch64, where the list of arguments does not advance, there is one at most.
Calls(p) == {call \in [parts : Seq(Parts), args : Seq(Seq(Chars))] :
               LET n == ArgsUpTo(call.parts, Len(call.parts))
               IN  n <= Len(call.args) /\ (p = "aarch64" => n <= 1)}

\* A framebuffer of 32 bits a pixel, whose lines are as long as its width at least.
IsFramebuffer(fb) ==
  /\ fb.width \in Nat \ {0} /\ fb.height \in Nat \ {0} /\ fb.pitch \in Nat
  /\ (fb.pitch % 4) = 0 /\ fb.width <= fb.pitch \div 4

ASSUME ScenarioAssumption ==
  \A s \in Scenarios :
    /\ s.port \in {"amd64", "aarch64"} /\ s.faults \in Nat /\ s.late \in Nat
    /\ s.framebuffer = NULL \/ IsFramebuffer(s.framebuffer)
    /\ s.calls \in Seq(Calls(s.port))

VARIABLES
  port,          \* "amd64", where va_list is an array, or "aarch64"
  framebuffer,   \* what the bootloader provides: width, height, pitch; or NULL
  faults,   \* bound: exceptions that may still come
  late,     \* how many of the last calls are made with the exception table loaded
  pc,       \* "idle", in vprintk "format", in pty_putstr "string", "newline" or
            \* "glyph", or the access without a framebuffer: "fault"
  todo,     \* the printk calls still to be made
  fmt,      \* what is left of the format of the current call
  ap,       \* its va_list: the arguments not yet taken
  color,    \* local of vprintk
  str,      \* what is left of the string of pty_putstr
  cx,       \* the columns painted of the current character
  stores,   \* the stores newline still has to make
  cursor_x, cursor_y,
  mem,      \* the words of the framebuffer that have been written
  out,      \* history: the characters put out, the current one included
  expected, \* history: what the calls made so far ask to be put out
  origin,   \* history: where the cursor was before the first of these
  base      \* history: what the framebuffer held then

machine   == <<port, framebuffer>>
call_vars == <<todo, fmt, ap, color, expected>>
cursor    == <<cursor_x, cursor_y>>
history   == <<origin, base>>
panic_vars == <<faults, late, history>>
pty_vars  == <<str, cx, stores, cursor, mem, out>>
vars == <<machine, panic_vars, pc, call_vars, pty_vars>>

PRINTK_DEFAULT_FG == "0"

\* Mutant: a code that is not a colour is taken for one.
Bug_NoDefault(code) == code

\* get_color.
get_color(code) == IF code \in Codes THEN code ELSE PRINTK_DEFAULT_FG

------------------------------------------------------------------------------
(* What a call asks for. *)

\* The format string with these parts.
Encoded(part) == CASE part.kind = "color" -> <<"esc", part.what>>
                   [] part.kind \in {"arg", "unknown"} -> <<"%", part.what>>
                   [] part.kind = "char" -> <<part.what>>
Encode(parts) == FlattenSeq([k \in DOMAIN parts |-> Encoded(parts[k])])

\* The colour asked for at part k: that of the last colour before it, the
\* default if there is none or if it is not a colour of printk.h.
ColorAt(parts, k) ==
  LET before == {j \in 1 .. (k - 1) : IsColor(parts[j])}
      last   == parts[Max(before)].what
  IN  IF before # {} /\ last \in Codes THEN last ELSE PRINTK_DEFAULT_FG

\* A text in a colour.
Colored(text, code) == [j \in DOMAIN text |-> [char |-> text[j], color |-> code]]

\* The text that part k asks for: the n-th "arg" stands for the n-th argument.
Asked(parts, args, k) ==
  Colored(CASE parts[k].kind \in {"color", "unknown"} -> <<>>
            [] IsArg(parts[k]) -> args[ArgsUpTo(parts, k)]
            [] parts[k].kind = "char" -> <<parts[k].what>>,
          ColorAt(parts, k))
Meaning(parts, args) == FlattenSeq([k \in DOMAIN parts |-> Asked(parts, args, k)])

------------------------------------------------------------------------------

Init ==
  \E s \in Scenarios :
    /\ port = s.port /\ framebuffer = s.framebuffer
    /\ faults = s.faults /\ late = s.late
    /\ todo = s.calls
    /\ pc = "idle"
    /\ fmt = <<>> /\ ap = <<>> /\ color = PRINTK_DEFAULT_FG
    /\ str = <<>> /\ cx = FONT_WIDTH /\ stores = {}
    /\ cursor_x = 0 /\ cursor_y = 0
    /\ mem = <<>> /\ out = <<>> /\ expected = <<>>
    /\ origin = <<0, 0>> /\ base = <<>>

\* printk, or the vprintk of panic: va_start, and the loop of vprintk.
Printk ==
  /\ pc = "idle" /\ todo # <<>>
  /\ todo' = Tail(todo)
  /\ fmt' = Encode(Head(todo).parts)
  /\ ap' = Head(todo).args
  /\ color' = PRINTK_DEFAULT_FG
  /\ expected' = expected \o Meaning(Head(todo).parts, Head(todo).args)
  /\ pc' = "format"
  /\ UNCHANGED <<machine, panic_vars, pty_vars>>

\* Mutant: the code is read but not skipped.
Bug_Rereads == UNCHANGED fmt

SkipTwo == fmt' = SubSeq(fmt, 3, Len(fmt))

\* \001 and a colour code.
Escape ==
  /\ pc = "format" /\ Len(fmt) >= 2 /\ fmt[1] = "esc"
  /\ color' = get_color(fmt[2])
  /\ SkipTwo
  /\ UNCHANGED <<machine, panic_vars, pc, todo, ap, expected, pty_vars>>

\* Mutant: one argument for the whole format.
Bug_SameArgument == UNCHANGED ap

\* va_arg in handle_format: an array decays to a pointer, so the caller's list
\* advances; a structure is passed by value, so only a copy does.
TakeArgument == IF port = "amd64" THEN ap' = Tail(ap) ELSE UNCHANGED ap

\* handle_format: a conversion of an argument.
Conversion ==
  /\ pc = "format" /\ Len(fmt) >= 2 /\ fmt[1] = "%"
  /\ fmt[2] \in Letters
  /\ str' = Head(ap)
  /\ TakeArgument
  /\ SkipTwo
  /\ pc' = "string"
  /\ UNCHANGED <<machine, panic_vars, todo, color, expected, cx, stores, cursor, mem, out>>

\* handle_format: a letter it does not know prints nothing.
Unconverted ==
  /\ pc = "format" /\ Len(fmt) >= 2 /\ fmt[1] = "%"
  /\ fmt[2] \notin Letters
  /\ SkipTwo
  /\ UNCHANGED <<machine, panic_vars, pc, todo, ap, color, expected, pty_vars>>

\* Any other character is a string of its own.
Plain ==
  /\ pc = "format" /\ fmt # <<>> /\ fmt[1] \notin {"esc", "%"}
  /\ str' = <<fmt[1]>>
  /\ fmt' = Tail(fmt)
  /\ pc' = "string"
  /\ UNCHANGED <<machine, panic_vars, todo, ap, color, expected, cx, stores, cursor, mem, out>>

EndOfFormat ==
  /\ pc = "format" /\ fmt = <<>>
  /\ pc' = "idle"
  /\ UNCHANGED <<machine, panic_vars, call_vars, pty_vars>>

------------------------------------------------------------------------------

\* The loop of pty_putstr turns to the next character.
Begin(next) ==
  /\ pc = "string" /\ str # <<>>
  /\ pc' = next
  /\ out' = Append(out, [char |-> Head(str), color |-> color])
  /\ UNCHANGED <<machine, panic_vars, call_vars, str, cursor, mem>>

BeginNewline == /\ str # <<>> /\ Head(str) = "nl"
                /\ stores' = {"x", "y"}
                /\ UNCHANGED cx
                /\ Begin("newline")

\* pty_putch is called.
BeginGlyph == /\ str # <<>> /\ Head(str) # "nl"
              /\ framebuffer # NULL
              /\ cx' = 0
              /\ UNCHANGED stores
              /\ Begin("glyph")

\* fb_putpix asks for the width through the null response before fb_assert
\* looks at it.
NoFramebuffer ==
  /\ pc = "string" /\ str # <<>> /\ Head(str) # "nl"
  /\ framebuffer = NULL
  /\ pc' = "fault"
  /\ UNCHANGED <<machine, panic_vars, call_vars, pty_vars>>

EndOfString ==
  /\ pc = "string" /\ str = <<>>
  /\ pc' = "format"
  /\ UNCHANGED <<machine, panic_vars, call_vars, pty_vars>>

\* Mutant: the cursor goes down but not back.
Bug_LineFeed(s) == /\ cursor_y' = IF s = "y" THEN cursor_y + FONT_HEIGHT ELSE cursor_y
                   /\ UNCHANGED cursor_x

\* The stores of newline.  The compiler may put them in either order.
newline(s) == /\ cursor_y' = IF s = "y" THEN cursor_y + FONT_HEIGHT ELSE cursor_y
              /\ cursor_x' = IF s = "x" THEN 0 ELSE cursor_x

Newline ==
  /\ pc = "newline"
  /\ \E s \in stores : newline(s) /\ stores' = stores \ {s}
  /\ UNCHANGED <<machine, panic_vars, pc, call_vars, str, cx, mem, out>>

EndOfLine ==
  /\ pc = "newline" /\ stores = {}
  /\ str' = Tail(str)
  /\ pc' = "string"
  /\ UNCHANGED <<machine, panic_vars, call_vars, cx, stores, cursor, mem, out>>

------------------------------------------------------------------------------

\* The number of a character, less 32.
CodeOf == [c \in {Printable[i] : i \in DOMAIN Printable} |->
             (CHOOSE i \in DOMAIN Printable : Printable[i] = c) - 1]

\* An entry of the font is one column of one glyph.  Which of its bits are 1 is
\* left open: a bit is known by its glyph, its column and its row.
DEFAULT_FONT_DATA(i) == [glyph |-> Printable[i \div FONT_WIDTH + 1], column |-> i % FONT_WIDTH]

\* The word pty_putch writes for a bit: fg or bg, whichever the bit says.
Dot(entry, cy, fg) == [entry |-> entry, row |-> cy, fg |-> fg]

\* get_index.
get_index(x, y) == x + y * (framebuffer.pitch \div 4)

\* Mutant: no look at the lower edge.
Bug_WidthOnly(x, y) == x < framebuffer.width

\* The test of fb_putpix.
OnScreen(x, y) == x < framebuffer.width /\ y < framebuffer.height

\* A round of the outer loop of pty_putch: the rows of column cx.
PaintColumn ==
  LET x    == cursor_x + cx
      rows == {cy \in 0 .. (FONT_HEIGHT - 1) : OnScreen(x, cursor_y + cy)}
      entry == DEFAULT_FONT_DATA(CodeOf[Head(str)] * FONT_WIDTH + cx)
      words == {get_index(x, cursor_y + cy) : cy \in rows}
      RowOf(i) == CHOOSE cy \in rows : get_index(x, cursor_y + cy) = i
  IN  /\ pc = "glyph" /\ cx < FONT_WIDTH
      /\ mem' = [i \in words \cup DOMAIN mem |->
                   IF i \in words THEN Dot(entry, RowOf(i), color) ELSE mem[i]]
      /\ cx' = cx + 1
      /\ UNCHANGED <<machine, panic_vars, pc, call_vars, str, stores, cursor, out>>

\* pty_putch has returned.
Advance ==
  /\ pc = "glyph" /\ cx = FONT_WIDTH
  /\ str' = Tail(str)
  /\ cursor_x' = cursor_x + FONT_WIDTH
  /\ pc' = "string"
  /\ UNCHANGED <<machine, panic_vars, call_vars, cx, stores, cursor_y, mem, out>>

------------------------------------------------------------------------------

\* An exception in the middle of a call, once the exception table is loaded: the
\* handler calls panic, whose calls of printk are made instead of all that was
\* still to be done.
Exception ==
  /\ pc \notin {"idle", "fault"} /\ faults > 0 /\ Len(todo) < late
  /\ faults' = faults - 1
  /\ todo' = PanicLog(ExceptionMessage(port)) /\ late' = 2
  /\ pc' = "idle"
  /\ fmt' = <<>> /\ ap' = <<>> /\ color' = PRINTK_DEFAULT_FG
  /\ str' = <<>> /\ cx' = FONT_WIDTH /\ stores' = {}
  /\ out' = <<>> /\ expected' = <<>>
  /\ origin' = cursor /\ base' = mem
  /\ UNCHANGED <<machine, cursor, mem>>

\* The code of the console itself.
Kernel == \/ Printk \/ Escape \/ Conversion \/ Unconverted \/ Plain \/ EndOfFormat
          \/ BeginNewline \/ Newline \/ EndOfLine \/ EndOfString
          \/ BeginGlyph \/ PaintColumn \/ Advance \/ NoFramebuffer

Next == Kernel \/ Exception

Spec == Init /\ [][Next]_vars

\* The processor keeps executing.  No exception has to come.
FairSpec == Spec /\ WF_vars(Kernel)

------------------------------------------------------------------------------

Text == [char : Chars, color : Codes]

TypeOK ==
  /\ port \in {"amd64", "aarch64"} /\ faults \in Nat /\ late \in Nat
  /\ pc \in {"idle", "format", "string", "newline", "glyph", "fault"}
  /\ color \in Codes
  /\ ToSet(out) \cup ToSet(expected) \subseteq Text
  /\ cx \in 0 .. FONT_WIDTH /\ stores \subseteq {"x", "y"}
  /\ cursor_x \in Nat /\ cursor_y \in Nat

\* Between calls, exactly what the calls asked for has been put out, in the
\* colours they asked for (printk.c:146-190): escapes colour what follows them
\* in their own call only, and each conversion takes an argument of its own.
\* After an exception that is the message of its panic, complete.
PrintedAsAsked == pc = "idle" => out = expected

\* Where the characters of a text belong: one behind the other, and after a line
\* end at the start of the next line.
After(place, t) == IF t.char = "nl" THEN <<0, place[2] + FONT_HEIGHT>>
                                   ELSE <<place[1] + FONT_WIDTH, place[2]>>
PlacesOf(start, text) ==
  LET place[k \in 1 .. (Len(text) + 1)] ==
        IF k = 1 THEN start ELSE After(place[k - 1], text[k - 1])
  IN  place

\* What is on the screen at column x of line y, as the display reads it: line y
\* starts y * pitch bytes into the memory.
Shown(memory, x, y) ==
  LET word == (y * framebuffer.pitch + 4 * x) \div 4
  IN  IF word \in DOMAIN memory THEN memory[word] ELSE NULL

Screen == (0 .. (framebuffer.width - 1)) \X (0 .. (framebuffer.height - 1))

\* The glyphs of the text put out: where each belongs, and how many columns of
\* it have been painted.
Glyphs ==
  LET places == PlacesOf(origin, out)
  IN  {[at |-> places[k], what |-> out[k], columns |-> IF k = Len(out) THEN cx ELSE FONT_WIDTH]
         : k \in {k \in DOMAIN out : out[k].char # "nl"}}

\* The pixels a glyph takes, and what each should show.
Covers(g, p) == /\ p[1] - g.at[1] \in 0 .. (g.columns - 1)
                /\ p[2] - g.at[2] \in 0 .. (FONT_HEIGHT - 1)
Want(g, p) == Dot([glyph |-> g.what.char, column |-> p[1] - g.at[1]],
                  p[2] - g.at[2], g.what.color)

\* At any moment the screen shows the text put out so far, glyph by glyph, as far
\* as it fits, and beside it what it showed before (pty/core.c:38-73, fb.c:29-45):
\* no glyph paints over another, none is missing, the last is as far painted as
\* the loop has come.  That holds for the message of a panic too, whichever step
\* it has interrupted, over whatever was there.
ScreenShowsText ==
  framebuffer # NULL =>
    LET glyphs == Glyphs
    IN  \A p \in Screen :
          /\ \A g \in glyphs : Covers(g, p) => Shown(mem, p[1], p[2]) = Want(g, p)
          /\ (\A g \in glyphs : ~Covers(g, p)) =>
               Shown(mem, p[1], p[2]) = Shown(base, p[1], p[2])

\* Nothing is written outside the screen (fb.c:35-45): not behind the end of a
\* line, where the next one or a margin begins, and not below the last.
StaysInside ==
  framebuffer # NULL =>
    \A word \in DOMAIN mem :
      /\ word \div (framebuffer.pitch \div 4) < framebuffer.height
      /\ word % (framebuffer.pitch \div 4) < framebuffer.width

\* However often it is interrupted, printing ends: all calls return, or there is
\* no framebuffer to print to (printk.c:165-190, pty/core.c:57-73).
CallsReturn == <>(pc = "fault" \/ (pc = "idle" /\ todo = <<>>))
==============================================================================
