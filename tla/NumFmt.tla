-------------------------------- MODULE NumFmt --------------------------------
(***************************************************************************)
(* hex2str and dec2str of core/printk.c: the digits are written last one   *)
(* first into a static buffer, behind them whatever goes before them, and  *)
(* the buffer is then reversed in place.  A buffer keeps the text of the   *)
(* call before, so that a text ends where its own terminator stands.       *)
(***************************************************************************)
EXTENDS Integers, Sequences

CONSTANTS
  BufferSize,   \* characters of hex_string and of dec_string (80)
  Numbers,      \* the arguments callers pass, unsigned numbers (of 64 bits)
  MaxFaults     \* bound: exceptions in the middle of a call

ASSUME BufferAssumption ==
  BufferSize \in 5 .. 255 /\ Numbers \subseteq Nat /\ MaxFaults \in Nat

\* A character is the value of a digit, or one of these.
X == 16
Nul == 17

Converters == {"hex2str", "dec2str"}
Base(f) == IF f = "hex2str" THEN 16 ELSE 10

\* What is left of v, by the number of digits taken from its end.
Left(f, v) ==
  LET left[n \in 0 .. BufferSize] == IF n = 0 THEN v ELSE left[n - 1] \div Base(f)
  IN  left

\* The digits there is room for, beside "0x" and the terminator.
Room(f) == IF f = "hex2str" THEN BufferSize - 3 ELSE BufferSize - 1

\* 64 bits are 16 or 20 digits at most, and a buffer has 80 characters.
ASSUME RoomAssumption == \A f \in Converters, v \in Numbers : Left(f, v)[Room(f)] = 0

VARIABLES
  pc,       \* "idle", "digits", "reverse", "done"
  fn,       \* the function called
  arg,      \* its argument
  number,   \* what is left of it
  buffer,   \* hex_string and dec_string
  i, j,
  faults    \* bound: counts exceptions

vars == <<pc, fn, arg, number, buffer, i, j, faults>>

Init ==
  /\ pc = "idle" /\ fn = "hex2str" /\ arg = 0 /\ number = 0
  /\ buffer = [f \in Converters |-> [k \in 0 .. (BufferSize - 1) |-> Nul]]
  /\ i = 0 /\ j = 0 /\ faults = 0

\* The buffer with text written at position at.
Put(text, at) ==
  [buffer EXCEPT ![fn] = [k \in DOMAIN @ |->
     IF at <= k /\ k < at + Len(text) THEN text[k - at + 1] ELSE @[k]]]

\* Entry: 0 has a digit of its own.
Call(f, v) ==
  /\ pc = "idle"
  /\ fn' = f /\ arg' = v /\ number' = v
  /\ buffer' = IF v = 0 THEN [buffer EXCEPT ![f][0] = 0] ELSE buffer
  /\ i' = IF v = 0 THEN 1 ELSE 0
  /\ j' = 0
  /\ pc' = "digits"
  /\ UNCHANGED faults

MoreDigits == number > 0

\* Mutant: the quotient is rounded up.
Bug_RoundsUp == (number + Base(fn) - 1) \div Base(fn)

Rest == number \div Base(fn)

Digit ==
  /\ pc = "digits" /\ MoreDigits
  /\ buffer' = Put(<<number % Base(fn)>>, i)
  /\ number' = Rest
  /\ i' = (i + 1) % 256
  /\ UNCHANGED <<pc, fn, arg, j, faults>>

\* Mutant: "0x" in the order in which it is read.
Bug_InOrder == IF fn = "hex2str" THEN (IF arg < 16 THEN <<0>> ELSE <<>>) \o <<0, X>> ELSE <<>>

\* What goes before the digits, last character first: a second hexadecimal
\* digit and "0x".  dec2str puts a sign before a number below 0, but a size_t
\* never is.
Prefix == IF fn = "hex2str" THEN (IF arg < 16 THEN <<0>> ELSE <<>>) \o <<X, 0>> ELSE <<>>

Terminate ==
  /\ pc = "digits" /\ ~MoreDigits
  /\ buffer' = Put(Prefix \o <<Nul>>, i)
  /\ i' = i + Len(Prefix) - 1
  /\ pc' = "reverse"
  /\ UNCHANGED <<fn, arg, number, j, faults>>

Swap ==
  /\ pc = "reverse" /\ j < i
  /\ buffer' = [buffer EXCEPT ![fn] = [@ EXCEPT ![j] = buffer[fn][i], ![i] = buffer[fn][j]]]
  /\ j' = j + 1
  /\ i' = i - 1
  /\ UNCHANGED <<pc, fn, arg, number, faults>>

Reversed ==
  /\ pc = "reverse" /\ j >= i
  /\ pc' = "done"
  /\ UNCHANGED <<fn, arg, number, buffer, i, j, faults>>

\* The caller has put the text out.
Printed ==
  /\ pc = "done"
  /\ pc' = "idle"
  /\ UNCHANGED <<fn, arg, number, buffer, i, j, faults>>

\* An exception in the middle of a call, which is never gone on with.  The panic
\* it ends in calls the same functions, on the buffers as they are.
Exception ==
  /\ pc # "idle" /\ faults < MaxFaults
  /\ faults' = faults + 1
  /\ pc' = "idle"
  /\ number' = 0 /\ i' = 0 /\ j' = 0
  /\ UNCHANGED <<fn, arg, buffer>>

Next == \/ \E f \in Converters, v \in Numbers : Call(f, v)
        \/ Exception
        \/ Digit \/ Terminate \/ Swap \/ Reversed \/ Printed

\* The processor goes on with a call it has begun.
Spec == Init /\ [][Next]_vars
FairSpec == Spec /\ WF_vars(Digit \/ Terminate \/ Swap \/ Reversed \/ Printed)

------------------------------------------------------------------------------

TypeOK ==
  /\ pc \in {"idle", "digits", "reverse", "done"}
  /\ fn \in Converters /\ arg \in Numbers \cup {0} /\ number \in 0 .. arg
  /\ buffer \in [Converters -> [0 .. (BufferSize - 1) -> 0 .. Nul]]
  /\ i \in 0 .. (BufferSize - 1) /\ j \in 0 .. (BufferSize - 1)

\* Length of the text the caller sees.
TextLength == CHOOSE n \in 0 .. (BufferSize - 1) :
                /\ buffer[fn][n] = Nul
                /\ \A k \in 0 .. (n - 1) : buffer[fn][k] # Nul
Text == [k \in 1 .. TextLength |-> buffer[fn][k - 1]]

\* The number that digits spell.
Value(digits) ==
  LET value[k \in 0 .. Len(digits)] ==
        IF k = 0 THEN 0 ELSE value[k - 1] * Base(fn) + digits[k]
  IN  value[Len(digits)]

Digits == IF fn = "hex2str" THEN SubSeq(Text, 3, Len(Text)) ELSE Text

\* What a call returns reads back as its argument (printk.c:36-123), without
\* a zero in front that need not be there, whatever the buffer held before:
\* "0x" and two hexadecimal digits at least, or one decimal digit at least.
ReadsBack ==
  pc = "done" =>
    /\ fn = "hex2str" => SubSeq(Text, 1, 2) = <<0, X>>
    /\ \A k \in DOMAIN Digits : Digits[k] \in 0 .. (Base(fn) - 1)
    /\ Value(Digits) = arg
    /\ Len(Digits) >= (IF fn = "hex2str" THEN 2 ELSE 1)
    /\ Len(Digits) > (IF fn = "hex2str" THEN 2 ELSE 1) => Digits[1] # 0

\* Every call ends: the number runs out and the two ends meet (printk.c:52,
\* 73, 103, 115).
CallEnds == pc # "idle" ~> pc = "idle"

------------------------------------------------------------------------------

\* The text of D digits as it is written, last character first.
Backwards(k, D) == CASE k < D     -> Left(fn, arg)[k] % Base(fn)
                     [] k = D     -> X
                     [] k = D + 1 -> 0

\* The digits taken so far stand in the buffer, and the number is what is left.
\* 0 has one digit, and no other number has one that is left of all its digits.
DigitsInv ==
  pc = "digits" =>
    /\ arg \in Numbers /\ i \in 0 .. Room(fn) /\ j = 0
    /\ number = Left(fn, arg)[i]
    /\ \A k \in 0 .. (i - 1) : buffer[fn][k] = Left(fn, arg)[k] % Base(fn)
    /\ arg = 0 => i = 1
    /\ arg # 0 => \A k \in 0 .. (i - 1) : Left(fn, arg)[k] > 0

\* The text ends behind i and j; what lies outside them has changed places.
ReverseInv ==
  pc \in {"reverse", "done"} =>
    LET L == i + j + 1
        D == IF fn = "hex2str" THEN L - 2 ELSE L
        least == IF fn = "hex2str" THEN 2 ELSE 1
    IN  /\ arg \in Numbers /\ j <= i + 1 /\ D \in least .. Room(fn)
        /\ Left(fn, arg)[D] = 0
        /\ D > least => Left(fn, arg)[D - 1] > 0
        /\ buffer[fn][L] = Nul
        /\ \A k \in 0 .. (L - 1) :
             buffer[fn][k] = Backwards(IF j <= k /\ k <= i THEN k ELSE L - 1 - k, D)
        /\ pc = "done" => j >= i

IInv == TypeOK /\ DigitsInv /\ ReverseInv
==============================================================================
