------------------------------ MODULE MCConsole ------------------------------
(***************************************************************************)
(* Small instances of Console: all short formats on a screen of two        *)
(* characters and a half by two lines and a half, exceptions in the middle *)
(* of some of them, and the kernel's own messages on a screen that they do *)
(* not fit on.                                                             *)
(***************************************************************************)
EXTENDS Console

CONSTANTS
  MaxParts,    \* bound: parts of a format printed alone
  PairParts    \* bound: parts of each of two formats printed one after the other

MCParts == {Color("1"), Color("9"), Char("a"), NewLine, Arg("s"), Unknown("q")}

\* Formats of up to m parts with no more than n conversions.
Formats(m, n) == {parts \in UNION {[1 .. k -> MCParts] : k \in 1 .. m} :
                    Cardinality({k \in DOMAIN parts : IsArg(parts[k])}) <= n}

Arguments == <<<<"b", "c">>, <<"d">>>>

Frame(width, height, pitch) == [width |-> width, height |-> height, pitch |-> pitch]

Scenario(p, fb, calls, k, n) ==
  [port |-> p, framebuffer |-> fb, calls |-> calls, late |-> k, faults |-> n]

\* On aarch64 the list of arguments does not advance: the kernel's formats there
\* have one conversion each.
Conversions == [amd64 |-> 2, aarch64 |-> 1]

Singles == {Scenario(p, Frame(5, 5, 20), <<Call(f, Arguments)>>, 0, 0) :
              p \in {"amd64", "aarch64"}, f \in Formats(MaxParts, 2)}

Pairs == {Scenario(p, Frame(5, 5, 24), <<Call(f, Arguments), Call(g, Arguments)>>, 0, 0) :
              p \in {"amd64", "aarch64"}, f \in Formats(PairParts, 2), g \in Formats(PairParts, 2)}

\* Exceptions in the middle of calls, and of the panic that follows.
Interrupted == {Scenario(p, Frame(5, 5, 20), <<Call(f, <<>>)>>, 1, 2) :
                  p \in {"amd64", "aarch64"},
                  f \in {<<Color("1"), Char("a"), NewLine, Char("b")>>, <<Char("a"), Char("b")>>}}

\* The start of the kernel, with an exception in a call late enough.
Logs == {Scenario(p, Frame(17, 9, 72), EarlyLog \o LateLog(p, [implementer |-> i, part |-> n]),
                  Len(LateLog(p, [implementer |-> i, part |-> n])), 1) :
           p \in {"amd64", "aarch64"}, i \in {65, 1}, n \in {3336, 0}}

NoScreen == {Scenario(p, NULL, Hello, 0, 0) : p \in {"amd64", "aarch64"}}

Printable1(s) == \A k \in DOMAIN s.calls :
  Cardinality({j \in DOMAIN s.calls[k].parts : IsArg(s.calls[k].parts[j])}) <= Conversions[s.port]

MCScenarios == {s \in Singles \cup Pairs : Printable1(s)} \cup Interrupted \cup Logs \cup NoScreen
==============================================================================
