------------------------------ MODULE Messages ------------------------------
(***************************************************************************)
(* What the kernel says: the calls of printk that the messages of          *)
(* core/init.c, mm/pmm.c, aarch64/mm/mmu.c and the handlers of exceptions  *)
(* come to, with their formats and arguments.                              *)
(*                                                                         *)
(* A format is a sequence of parts: a colour, a character, an argument, or *)
(* a conversion that vprintk does not know.  Words are cut to their first  *)
(* letter; a conversion, a colour and a line end are kept.                 *)
(***************************************************************************)
EXTENDS Integers, Sequences

Color(code)   == [kind |-> "color", what |-> code]
Char(c)       == [kind |-> "char", what |-> c]
Arg(letter)   == [kind |-> "arg", what |-> letter]
Unknown(letter) == [kind |-> "unknown", what |-> letter]
NewLine       == Char("nl")

\* One call, with the texts its arguments come to.
Call(parts, args) == [parts |-> parts, args |-> args]

\* "[ INFO ] ", "[ KPANIC ] ": white brackets around a coloured word.
Tag(letter, code) ==
  <<Color("2"), Char("["), Color(code), Char(" "), Char(letter), Color("2"),
    Char(" "), Char("]"), Color("0"), Char(" ")>>

KERN_INFO  == Tag("I", "3")
KERN_PANIC == Tag("P", "1")

\* kinfo is two calls, the first of them for the tag and the module's name.
kinfo(module, parts, args) ==
  <<Call(KERN_INFO \o <<Color("4"), Arg("s"), Char(":"), Char(" ")>>, <<module>>),
    Call(parts, args)>>

------------------------------------------------------------------------------

Hello == <<Call(<<Char("V"), Char("v"), Arg("s"), Char("C"), NewLine>>, <<<<"0">>>>)>>

\* The messages of pmm_init: the size of the bitmap, and where it is.
PmmLog == kinfo(<<"p">>, <<Char("R"), Arg("d"), Char("b"), NewLine>>, <<<<"4">>>>)
            \o kinfo(<<"p">>, <<Char("F"), Arg("x"), NewLine>>, <<<<"0", "x">>>>)

MmuLog == kinfo(<<"m">>, <<Char("W"), NewLine>>, <<>>)

\* The main identification register, as far as the messages depend on it.
Boards  == {2934, 3079, 3331, 3336}             \* 0xB76, 0xC07, 0xD03, 0xD08
Vendors == {192, 65, 66, 67, 68, 70, 73, 77, 78, 80, 81, 86, 105}

\* get_vendor: a name for each of these implementers, one for all others.
get_vendor(midr) == IF midr.implementer \in Vendors THEN <<"v">> ELSE <<"u">>

\* get_board_info: two messages, the first of them without an argument.
get_board_info(midr) ==
  kinfo(<<"k">>, IF midr.part \in Boards THEN <<Char("B"), NewLine>>
                                         ELSE <<Char("U"), Char(" "), NewLine>>, <<>>)
    \o kinfo(<<"k">>, <<Char("D"), Arg("s"), NewLine>>, <<get_vendor(midr)>>)

\* The calls of _start, pmm_init and arch_init up to the load of the exception
\* table and those after it.
EarlyLog == Hello \o PmmLog

LateLog(port, midr) ==
  IF port = "amd64" THEN <<>> ELSE MmuLog \o get_board_info(midr)

\* panic: the tag, and the message in a call of its own.
PanicLog(message) == <<Call(KERN_PANIC, <<>>), message>>

\* What the handler of an exception hands to panic.  On aarch64 the message is
\* one of three plain strings.
ExceptionMessage(port) ==
  IF port = "amd64"
  THEN Call(<<Arg("s"), Char(" "), Arg("x"), Char(")"), NewLine>>, <<<<"D">>, <<"8">>>>)
  ELSE Call(<<Char("M")>>, <<>>)
==============================================================================
