----------------------------- MODULE ConsoleProofs -----------------------------
(***************************************************************************)
(* For every font, every framebuffer and all calls: what is put out is     *)
(* what the calls ask for, it is what the screen shows, and nothing is     *)
(* written outside the screen.                                             *)
(***************************************************************************)
EXTENDS Console, Arithmetic, TLAPS, SequenceTheorems, FiniteSetTheorems

\* rest[k] is what follows the first k of some sequences that are put together.
Rests(rest, S, seqs) ==
  /\ rest \in [0 .. Len(seqs) -> Seq(S)] /\ rest[Len(seqs)] = <<>>
  /\ \A k \in 1 .. Len(seqs) : rest[k - 1] = seqs[k] \o rest[k]

LEMMA ConcatIn ==
  ASSUME NEW S, NEW s \in Seq(S), NEW t \in Seq(S)
  PROVE  s \o t \in Seq(S)
OBVIOUS

LEMMA RestsExist ==
  ASSUME NEW S, NEW n \in Nat, NEW seqs, seqs \in [1 .. n -> Seq(S)], Len(seqs) = n
  PROVE  \E rest : Rests(rest, S, seqs)
<1> DEFINE step == [i \in 1 .. n |-> [s \in Seq(S) |-> seqs[n - i + 1] \o s]]
<1>1. \A i \in 1 .. n : seqs[n - i + 1] \in Seq(S)
  OBVIOUS
<1>2. /\ step \in [1 .. n -> [Seq(S) -> Seq(S)]]
      /\ \A i \in 1 .. n, s \in Seq(S) : step[i][s] = seqs[n - i + 1] \o s
  BY <1>1, ConcatIn
<1>3. StepsIn(Seq(S), n, step)
  BY <1>2 DEF StepsIn
<1> HIDE DEF step
<1>4. <<>> \in Seq(S)
  OBVIOUS
<1>5. PICK f : Follows(f, Seq(S), n, <<>>, step)
  BY <1>3, <1>4, Recursion
<1>6. /\ f \in [0 .. n -> Seq(S)] /\ f[0] = <<>>
      /\ \A i \in 1 .. n : f[i] = step[i][f[i - 1]]
  BY <1>5 DEF Follows
<1> DEFINE rest == [k \in 0 .. n |-> f[n - k]]
<1>7. rest \in [0 .. n -> Seq(S)] /\ rest[n] = <<>>
  BY <1>6
<1>8. ASSUME NEW k \in 1 .. n
      PROVE  rest[k - 1] = seqs[k] \o rest[k]
  <2> DEFINE i == n - k + 1
  <2>1. i \in 1 .. n /\ n - i + 1 = k /\ n - (k - 1) = i /\ i - 1 = n - k
        /\ k - 1 \in 0 .. n /\ k \in 0 .. n /\ i - 1 \in 0 .. n
    OBVIOUS
  <2>2. rest[k - 1] = f[i] /\ rest[k] = f[i - 1]
    BY <2>1
  <2> HIDE DEF i, rest
  <2>3. f[i] = step[i][f[i - 1]] /\ f[i - 1] \in Seq(S)
    BY <1>6, <2>1
  <2>4. step[i][f[i - 1]] = seqs[n - i + 1] \o f[i - 1]
    BY <1>2, <2>1, <2>3
  <2>5. QED  BY <2>1, <2>2, <2>3, <2>4
<1> HIDE DEF rest
<1>9. Rests(rest, S, seqs)
  BY <1>7, <1>8 DEF Rests
<1>10. QED  BY <1>9

\* Put together, the sequences are what follows none of them.
LEMMA FlattenIs ==
  ASSUME NEW S, NEW n \in Nat, NEW seqs, seqs \in [1 .. n -> Seq(S)], Len(seqs) = n,
         NEW rest, Rests(rest, S, seqs)
  PROVE  FlattenSeq(seqs) = rest[0]
<1>1. /\ rest \in [0 .. n -> Seq(S)] /\ rest[n] = <<>>
      /\ \A k \in 1 .. n : rest[k - 1] = seqs[k] \o rest[k]
  BY DEF Rests
<1>2. CASE n = 0
  <2>1. FlattenSeq(seqs) = seqs
    BY <1>2 DEF FlattenSeq
  <2>2. seqs = <<>>
    BY <1>2
  <2>3. QED  BY <1>1, <1>2, <2>1, <2>2
<1>3. CASE n > 0
  <2> DEFINE Is(h) == h = [i \in 1 .. n |-> IF i = 1 THEN seqs[i] ELSE h[i - 1] \o seqs[i]]
             step == [i \in 1 .. n |-> [s \in Seq(S) |-> s \o seqs[i]]]
  <2>1. /\ step \in [1 .. n -> [Seq(S) -> Seq(S)]]
        /\ \A i \in 1 .. n, s \in Seq(S) : step[i][s] = s \o seqs[i]
    BY ConcatIn
  <2>2. StepsIn(Seq(S), n, step) /\ <<>> \in Seq(S)
    BY <2>1 DEF StepsIn
  <2> HIDE DEF step
  <2>3. PICK f : Follows(f, Seq(S), n, <<>>, step)
    BY <2>2, Recursion
  <2>4. /\ f \in [0 .. n -> Seq(S)] /\ f[0] = <<>>
        /\ \A i \in 1 .. n : f[i] = step[i][f[i - 1]]
    BY <2>3 DEF Follows
  <2>5. ASSUME NEW i \in 1 .. n
        PROVE  f[i] = f[i - 1] \o seqs[i] /\ f[i - 1] \in Seq(S)
    <3>1. f[i - 1] \in Seq(S)
      BY <2>4
    <3>2. QED  BY <2>1, <2>4, <3>1
  <2>6. f[1] = seqs[1]
    <3>1. 1 \in 1 .. n /\ seqs[1] \in Seq(S)
      BY <1>3
    <3>2. f[1] = f[1 - 1] \o seqs[1]
      BY <2>5, <3>1
    <3>3. f[1 - 1] = <<>>
      BY <2>4
    <3>4. QED  BY <3>1, <3>2, <3>3, ConcatEmptySeq
  <2> DEFINE g == [i \in 1 .. n |-> f[i]]
  <2>7. \A i \in 1 .. n : g[i] = IF i = 1 THEN seqs[i] ELSE g[i - 1] \o seqs[i]
    <3> SUFFICES ASSUME NEW i \in 1 .. n
                 PROVE  g[i] = IF i = 1 THEN seqs[i] ELSE g[i - 1] \o seqs[i]
      OBVIOUS
    <3>1. i # 1 => i - 1 \in 1 .. n
      OBVIOUS
    <3>2. i # 1 => g[i - 1] = f[i - 1]
      BY <3>1
    <3>3. QED  BY <2>5, <2>6, <3>2
  <2>8. Is(g)
    BY <2>7
  <2> HIDE DEF g
  <2>9. FlattenSeq(seqs) = (CHOOSE h : Is(h))[n]
    BY <1>3 DEF FlattenSeq
  <2> DEFINE h == CHOOSE h : Is(h)
  <2> HIDE DEF Is
  <2>10. Is(h)
    BY <2>8
  <2>11. h = [i \in 1 .. n |-> IF i = 1 THEN seqs[i] ELSE h[i - 1] \o seqs[i]]
    BY <2>10 DEF Is
  <2> HIDE DEF h
  <2>12. h[1] = seqs[1] /\ \A i \in 1 .. n : i # 1 => h[i] = h[i - 1] \o seqs[i]
    <3>1. \A i \in 1 .. n : h[i] = IF i = 1 THEN seqs[i] ELSE h[i - 1] \o seqs[i]
      BY <2>11, Zenon
    <3>2. 1 \in 1 .. n
      BY <1>3
    <3>3. QED  BY <3>1, <3>2, Zenon
  <2> DEFINE Good(i) == h[i] \in Seq(S) /\ h[i] \o rest[i] = rest[0]
             Bad == {i \in 1 .. n : ~Good(i)}
  <2>13. Good(1)
    <3>1. 1 \in 1 .. n /\ 1 - 1 = 0
      BY <1>3
    <3>2. rest[0] = seqs[1] \o rest[1]
      BY <1>1, <3>1
    <3>3. QED  BY <2>12, <3>1, <3>2
  <2>14. ASSUME NEW i \in 1 .. n, i # 1, Good(i - 1)
         PROVE  Good(i)
    <3> DEFINE a == h[i - 1]
               b == seqs[i]
               c == rest[i]
    <3>1. i \in 0 .. n
      OBVIOUS
    <3>2. a \in Seq(S) /\ b \in Seq(S) /\ c \in Seq(S)
      BY <1>1, <2>14, <3>1
    <3>3. h[i] = a \o b
      BY <2>12, <2>14
    <3>4. a \o rest[i - 1] = rest[0] /\ rest[i - 1] = b \o c
      BY <1>1, <2>14
    <3> HIDE DEF a, b, c
    <3>5. (a \o b) \o c = a \o (b \o c)
      BY <3>2, ConcatAssociative
    <3>6. h[i] \in Seq(S)
      BY <3>2, <3>3, ConcatIn
    <3>7. h[i] \o c = rest[0]
      BY <3>3, <3>4, <3>5
    <3>8. QED  BY <3>6, <3>7 DEF c
  <2> HIDE DEF Good
  <2>15. Bad = {}
    <3> SUFFICES ASSUME Bad # {} PROVE FALSE
      OBVIOUS
    <3>1. Bad \in SUBSET Nat
      OBVIOUS
    <3>2. PICK i \in Bad : \A m \in Bad : i <= m
      BY <3>1, LeastNatural
    <3>3. i # 1 /\ i \in 1 .. n /\ i - 1 \in 1 .. n /\ i - 1 \notin Bad
      BY <2>13, <3>2
    <3>4. Good(i - 1)
      BY <3>3
    <3>5. Good(i)
      BY <2>14, <3>3, <3>4
    <3>6. QED  BY <3>2, <3>5
  <2>16. Good(n)
    <3>1. n \in 1 .. n /\ n \notin Bad
      BY <1>3, <2>15
    <3>2. QED  BY <3>1
  <2>17. h[n] \in Seq(S) /\ h[n] \o <<>> = rest[0]
    BY <1>1, <2>16 DEF Good
  <2>18. h[n] = rest[0]
    BY <2>17, ConcatEmptySeq
  <2>19. QED  BY <2>9, <2>18 DEF h
<1>4. QED  BY <1>2, <1>3

------------------------------------------------------------------------------
(* What a format asks for, part by part. *)

LEMMA ColorIn == \A parts, k : ColorAt(parts, k) \in Codes
BY DEF ColorAt, Codes, PRINTK_DEFAULT_FG

LEMMA ColorStart == \A parts : ColorAt(parts, 1) = PRINTK_DEFAULT_FG
BY DEF ColorAt

\* A colour holds until the next one.
LEMMA ColorNext ==
  ASSUME NEW parts, NEW k \in Nat \ {0}
  PROVE  ColorAt(parts, k + 1) = IF IsColor(parts[k]) THEN get_color(parts[k].what)
                                                      ELSE ColorAt(parts, k)
<1> DEFINE Before(n) == {j \in 1 .. (n - 1) : IsColor(parts[j])}
<1>1. ColorAt(parts, k + 1) =
        IF Before(k + 1) # {} /\ parts[Max(Before(k + 1))].what \in Codes
        THEN parts[Max(Before(k + 1))].what ELSE PRINTK_DEFAULT_FG
  BY DEF ColorAt
<1>2. CASE IsColor(parts[k])
  <2>1. k \in Before(k + 1) /\ Before(k + 1) \subseteq 1 .. k
    BY <1>2
  <2> HIDE DEF Before
  <2>2. Max(Before(k + 1)) = k
    <3>1. \A x \in Before(k + 1) : (\A y \in Before(k + 1) : x >= y) <=> x = k
      BY <2>1
    <3>2. QED  BY <2>1, <3>1 DEF Max
  <2>3. QED  BY <1>1, <1>2, <2>1, <2>2 DEF get_color
<1>3. CASE ~IsColor(parts[k])
  <2>1. Before(k + 1) = Before(k)
    <3>1. \A j \in 1 .. k : IsColor(parts[j]) => j \in 1 .. (k - 1)
      BY <1>3
    <3>2. 1 .. (k - 1) \subseteq 1 .. k /\ (k + 1) - 1 = k
      OBVIOUS
    <3>3. QED  BY <3>1, <3>2
  <2>2. ColorAt(parts, k) =
          IF Before(k) # {} /\ parts[Max(Before(k))].what \in Codes
          THEN parts[Max(Before(k))].what ELSE PRINTK_DEFAULT_FG
    BY DEF ColorAt
  <2> HIDE DEF Before
  <2>3. QED  BY <1>1, <1>3, <2>1, <2>2
<1>4. QED  BY <1>2, <1>3

\* Conversions are counted one by one.
LEMMA ArgsNext ==
  ASSUME NEW parts, NEW k \in Nat
  PROVE  /\ ArgsUpTo(parts, 0) = 0 /\ ArgsUpTo(parts, k) \in Nat
         /\ ArgsUpTo(parts, k + 1) = ArgsUpTo(parts, k) + (IF IsArg(parts[k + 1]) THEN 1 ELSE 0)
         /\ \A n \in Nat : k <= n => ArgsUpTo(parts, k) <= ArgsUpTo(parts, n)
<1> DEFINE Conv(n) == {j \in 1 .. n : IsArg(parts[j])}
<1>1. \A n \in Nat : IsFiniteSet(Conv(n)) /\ Cardinality(Conv(n)) \in Nat
                     /\ ArgsUpTo(parts, n) = Cardinality(Conv(n))
  <2> SUFFICES ASSUME NEW n \in Nat
               PROVE  IsFiniteSet(Conv(n)) /\ Cardinality(Conv(n)) \in Nat
                      /\ ArgsUpTo(parts, n) = Cardinality(Conv(n))
    OBVIOUS
  <2>1. IsFiniteSet(1 .. n) /\ Conv(n) \subseteq 1 .. n
    BY FS_Interval
  <2>2. IsFiniteSet(Conv(n))
    BY <2>1, FS_Subset
  <2>3. QED  BY <2>2, FS_CardinalityType DEF ArgsUpTo
<1>2. ArgsUpTo(parts, 0) = 0
  <2>1. Conv(0) = {}
    OBVIOUS
  <2>2. QED  BY <1>1, <2>1, FS_EmptySet
<1>3. ASSUME IsArg(parts[k + 1])
      PROVE  ArgsUpTo(parts, k + 1) = ArgsUpTo(parts, k) + 1
  <2>1. Conv(k + 1) = Conv(k) \cup {k + 1} /\ k + 1 \notin Conv(k)
    BY <1>3
  <2> HIDE DEF Conv
  <2>2. Cardinality(Conv(k) \cup {k + 1}) = Cardinality(Conv(k)) + 1
    BY <1>1, <2>1, FS_AddElement
  <2>3. k + 1 \in Nat
    OBVIOUS
  <2>4. QED  BY <1>1, <2>1, <2>2, <2>3
<1>4. ASSUME ~IsArg(parts[k + 1])
      PROVE  ArgsUpTo(parts, k + 1) = ArgsUpTo(parts, k)
  <2>1. Conv(k + 1) = Conv(k)
    BY <1>4
  <2> HIDE DEF Conv
  <2>2. k + 1 \in Nat
    OBVIOUS
  <2>3. QED  BY <1>1, <2>1, <2>2
<1>5. ASSUME NEW n \in Nat, k <= n
      PROVE  ArgsUpTo(parts, k) <= ArgsUpTo(parts, n)
  <2>1. Conv(k) \subseteq Conv(n)
    BY <1>5
  <2> HIDE DEF Conv
  <2>2. Cardinality(Conv(k)) <= Cardinality(Conv(n))
    BY <1>1, <2>1, FS_Subset
  <2>3. QED  BY <1>1, <2>2
<1> HIDE DEF Conv
<1>6. ArgsUpTo(parts, k) \in Nat
  BY <1>1
<1>7. ArgsUpTo(parts, k + 1) = ArgsUpTo(parts, k) + (IF IsArg(parts[k + 1]) THEN 1 ELSE 0)
  BY <1>3, <1>4, <1>6
<1>8. QED  BY <1>2, <1>5, <1>6, <1>7

\* What a format is made of.
Symbols == Chars \cup {"esc"}

\* The characters of formats and messages are printable.
LEMMA Named ==
  /\ " " \in Chars /\ "%" \in Chars /\ ")" \in Chars /\ "0" \in Chars /\ "1" \in Chars
  /\ "2" \in Chars /\ "8" \in Chars /\ "D" \in Chars /\ "M" \in Chars /\ "P" \in Chars
  /\ "[" \in Chars /\ "]" \in Chars /\ "s" \in Chars /\ "x" \in Chars
  /\ "nl" \in Chars
<1>1. DOMAIN Printable = 1 .. 95
  BY DEF Printable
<1>2. \A i \in 1 .. 95 : Printable[i] \in Chars
  BY <1>1 DEF Chars
<1>3. " " \in Chars
  <2>1. Printable[1] = " " /\ 1 \in 1 .. 95
    BY DEF Printable
  <2>2. QED  BY <1>2, <2>1
<1>4. "%" \in Chars
  <2>1. Printable[6] = "%" /\ 6 \in 1 .. 95
    BY DEF Printable
  <2>2. QED  BY <1>2, <2>1
<1>5. ")" \in Chars
  <2>1. Printable[10] = ")" /\ 10 \in 1 .. 95
    BY DEF Printable
  <2>2. QED  BY <1>2, <2>1
<1>6. "0" \in Chars
  <2>1. Printable[17] = "0" /\ 17 \in 1 .. 95
    BY DEF Printable
  <2>2. QED  BY <1>2, <2>1
<1>7. "1" \in Chars
  <2>1. Printable[18] = "1" /\ 18 \in 1 .. 95
    BY DEF Printable
  <2>2. QED  BY <1>2, <2>1
<1>8. "2" \in Chars
  <2>1. Printable[19] = "2" /\ 19 \in 1 .. 95
    BY DEF Printable
  <2>2. QED  BY <1>2, <2>1
<1>9. "8" \in Chars
  <2>1. Printable[25] = "8" /\ 25 \in 1 .. 95
    BY DEF Printable
  <2>2. QED  BY <1>2, <2>1
<1>10. "D" \in Chars
  <2>1. Printable[37] = "D" /\ 37 \in 1 .. 95
    BY DEF Printable
  <2>2. QED  BY <1>2, <2>1
<1>11. "M" \in Chars
  <2>1. Printable[46] = "M" /\ 46 \in 1 .. 95
    BY DEF Printable
  <2>2. QED  BY <1>2, <2>1
<1>12. "P" \in Chars
  <2>1. Printable[49] = "P" /\ 49 \in 1 .. 95
    BY DEF Printable
  <2>2. QED  BY <1>2, <2>1
<1>13. "[" \in Chars
  <2>1. Printable[60] = "[" /\ 60 \in 1 .. 95
    BY DEF Printable
  <2>2. QED  BY <1>2, <2>1
<1>14. "]" \in Chars
  <2>1. Printable[62] = "]" /\ 62 \in 1 .. 95
    BY DEF Printable
  <2>2. QED  BY <1>2, <2>1
<1>15. "s" \in Chars
  <2>1. Printable[84] = "s" /\ 84 \in 1 .. 95
    BY DEF Printable
  <2>2. QED  BY <1>2, <2>1
<1>16. "x" \in Chars
  <2>1. Printable[89] = "x" /\ 89 \in 1 .. 95
    BY DEF Printable
  <2>2. QED  BY <1>2, <2>1
<1>17. "nl" \in Chars
  BY DEF Chars
<1>18. QED  BY <1>3, <1>4, <1>5, <1>6, <1>7, <1>8, <1>9, <1>10, <1>11, <1>12, <1>13, <1>14, <1>15, <1>16, <1>17

\* What is known of a call that is made.
LEMMA CallFacts ==
  ASSUME NEW p, NEW call \in Calls(p)
  PROVE  /\ call.parts \in Seq(Parts) /\ call.args \in Seq(Seq(Chars))
         /\ Len(call.parts) \in Nat /\ Len(call.args) \in Nat
         /\ DOMAIN call.parts = 1 .. Len(call.parts)
         /\ ArgsUpTo(call.parts, Len(call.parts)) <= Len(call.args)
         /\ p = "aarch64" => ArgsUpTo(call.parts, Len(call.parts)) <= 1
<1>1. call.parts \in Seq(Parts) /\ call.args \in Seq(Seq(Chars))
  BY DEF Calls
<1>2. /\ ArgsUpTo(call.parts, Len(call.parts)) <= Len(call.args)
      /\ p = "aarch64" => ArgsUpTo(call.parts, Len(call.parts)) <= 1
  BY DEF Calls
<1>3. QED  BY <1>1, <1>2, LenProperties

LEMMA PartKinds ==
  ASSUME NEW part \in Parts
  PROVE  /\ part.kind \in {"color", "char", "arg", "unknown"} /\ part.what \in Chars
         /\ part.kind = "char" => part.what \notin {"esc", "%"}
         /\ part.kind = "arg" => part.what \in Letters
         /\ part.kind = "unknown" => part.what \notin Letters
BY DEF Parts

LEMMA ShortSeq ==
  ASSUME NEW S, NEW a \in S
  PROVE  <<a>> \in Seq(S) /\ \A b \in S : <<a, b>> \in Seq(S)
OBVIOUS

LEMMA EncodedIn ==
  ASSUME NEW part \in Parts
  PROVE  Encoded(part) \in Seq(Symbols)
<1>1. part.kind \in {"color", "char", "arg", "unknown"} /\ part.what \in Chars
  BY PartKinds
<1>2. /\ <<"esc", part.what>> \in Seq(Symbols)
      /\ <<"%", part.what>> \in Seq(Symbols)
      /\ <<part.what>> \in Seq(Symbols)
  <2>1. "esc" \in Symbols /\ "%" \in Symbols /\ part.what \in Symbols
    BY <1>1, Named DEF Symbols
  <2>2. QED  BY <1>1, <2>1, ShortSeq
<1>3. CASE part.kind = "color"
  BY <1>2, <1>3 DEF Encoded
<1>4. CASE part.kind \in {"arg", "unknown"}
  BY <1>2, <1>4 DEF Encoded
<1>5. CASE part.kind = "char"
  BY <1>2, <1>5 DEF Encoded
<1>6. QED  BY <1>1, <1>3, <1>4, <1>5

\* A conversion has an argument.
LEMMA HasArgument ==
  ASSUME NEW p, NEW call \in Calls(p), NEW k \in 1 .. Len(call.parts), IsArg(call.parts[k])
  PROVE  /\ ArgsUpTo(call.parts, k) = ArgsUpTo(call.parts, k - 1) + 1
         /\ ArgsUpTo(call.parts, k - 1) \in Nat
         /\ ArgsUpTo(call.parts, k) \in 1 .. Len(call.args)
         /\ p = "aarch64" => ArgsUpTo(call.parts, k) = 1
<1> DEFINE n == Len(call.parts)
           A(m) == ArgsUpTo(call.parts, m)
<1>1. /\ n \in Nat /\ Len(call.args) \in Nat /\ A(n) <= Len(call.args)
      /\ p = "aarch64" => A(n) <= 1
  BY CallFacts
<1>2. k \in Nat /\ k - 1 \in Nat /\ (k - 1) + 1 = k /\ k <= n
  BY <1>1
<1>3. A(k - 1) \in Nat /\ A((k - 1) + 1) = A(k - 1) + 1
  BY <1>2, ArgsNext
<1>4. A(k) <= A(n) /\ A(n) \in Nat
  BY <1>1, <1>2, ArgsNext
<1> HIDE DEF A, n
<1>5. A(k) = A(k - 1) + 1
  BY <1>2, <1>3
<1>6. A(k) \in 1 .. Len(call.args) /\ (p = "aarch64" => A(k) = 1)
  BY <1>1, <1>3, <1>4, <1>5
<1>7. QED  BY <1>3, <1>5, <1>6 DEF A

LEMMA ColoredIn ==
  ASSUME NEW text \in Seq(Chars), NEW code \in Codes
  PROVE  /\ Colored(text, code) \in Seq(Text) /\ Len(Colored(text, code)) = Len(text)
         /\ \A j \in 1 .. Len(text) : Colored(text, code)[j] = [char |-> text[j], color |-> code]
<1>1. Len(text) \in Nat /\ DOMAIN text = 1 .. Len(text)
      /\ \A j \in 1 .. Len(text) : text[j] \in Chars
  BY LenProperties, ElementOfSeq
<1> DEFINE c == [j \in 1 .. Len(text) |-> [char |-> text[j], color |-> code]]
<1>2. Colored(text, code) = c
  BY <1>1 DEF Colored
<1>3. c \in [1 .. Len(text) -> Text]
  BY <1>1 DEF Text
<1>4. c \in Seq(Text) /\ Len(c) = Len(text)
  BY <1>1, <1>3
<1>5. QED  BY <1>2, <1>4

\* The text of a part.
LEMMA AskedIs ==
  ASSUME NEW p, NEW call \in Calls(p), NEW k \in 1 .. Len(call.parts)
  PROVE  /\ Asked(call.parts, call.args, k) \in Seq(Text)
         /\ LET part == call.parts[k]
                code == ColorAt(call.parts, k)
            IN  /\ part.kind \in {"color", "unknown"} =>
                     Asked(call.parts, call.args, k) = <<>>
                /\ part.kind = "arg" =>
                     /\ call.args[ArgsUpTo(call.parts, k)] \in Seq(Chars)
                     /\ Asked(call.parts, call.args, k) =
                          Colored(call.args[ArgsUpTo(call.parts, k)], code)
                /\ part.kind = "char" =>
                     Asked(call.parts, call.args, k) = Colored(<<part.what>>, code)
<1> DEFINE part == call.parts[k]
           code == ColorAt(call.parts, k)
           asked == Asked(call.parts, call.args, k)
<1>1. part \in Parts /\ call.args \in Seq(Seq(Chars))
  BY CallFacts, ElementOfSeq
<1>2. part.kind \in {"color", "char", "arg", "unknown"} /\ part.what \in Chars
  BY <1>1, PartKinds
<1>3. code \in Codes
  BY ColorIn
<1>4. ASSUME part.kind \in {"color", "unknown"}
      PROVE  asked \in Seq(Text) /\ asked = <<>>
  <2>1. asked = Colored(<<>>, code)
    <3>1. CASE part.kind = "color"
      BY <3>1 DEF Asked, IsArg
    <3>2. CASE part.kind = "unknown"
      BY <3>2 DEF Asked, IsArg
    <3>3. QED  BY <1>4, <3>1, <3>2
  <2>2. <<>> \in Seq(Chars)
    OBVIOUS
  <2>3. Colored(<<>>, code) \in Seq(Text) /\ Len(Colored(<<>>, code)) = 0
    BY <1>3, <2>2, ColoredIn
  <2>4. Colored(<<>>, code) = <<>>
    BY <2>3, EmptySeq
  <2>5. QED  BY <2>1, <2>3, <2>4
<1>5. ASSUME part.kind = "arg"
      PROVE  /\ asked \in Seq(Text) /\ call.args[ArgsUpTo(call.parts, k)] \in Seq(Chars)
             /\ asked = Colored(call.args[ArgsUpTo(call.parts, k)], code)
  <2>1. ArgsUpTo(call.parts, k) \in 1 .. Len(call.args)
    BY <1>5, HasArgument DEF IsArg
  <2>2. call.args[ArgsUpTo(call.parts, k)] \in Seq(Chars)
    BY <1>1, <2>1, ElementOfSeq
  <2>3. asked = Colored(call.args[ArgsUpTo(call.parts, k)], code)
    BY <1>5 DEF Asked, IsArg
  <2>4. QED  BY <1>3, <2>2, <2>3, ColoredIn
<1>6. ASSUME part.kind = "char"
      PROVE  asked \in Seq(Text) /\ asked = Colored(<<part.what>>, code)
  <2>1. asked = Colored(<<part.what>>, code)
    BY <1>6 DEF Asked, IsArg
  <2>2. <<part.what>> \in Seq(Chars)
    BY <1>2
  <2>3. QED  BY <1>3, <2>1, <2>2, ColoredIn
<1>7. QED  BY <1>2, <1>4, <1>5, <1>6

\* The codes and the texts of the parts of a call.
CodesOf(call) == [j \in DOMAIN call.parts |-> Encoded(call.parts[j])]
TextsOf(call) == [j \in DOMAIN call.parts |-> Asked(call.parts, call.args, j)]

LEMMA CodesAndTexts ==
  ASSUME NEW p, NEW call \in Calls(p)
  PROVE  /\ CodesOf(call) \in [1 .. Len(call.parts) -> Seq(Symbols)]
         /\ TextsOf(call) \in [1 .. Len(call.parts) -> Seq(Text)]
         /\ Len(CodesOf(call)) = Len(call.parts) /\ Len(TextsOf(call)) = Len(call.parts)
         /\ Encode(call.parts) = FlattenSeq(CodesOf(call))
         /\ Meaning(call.parts, call.args) = FlattenSeq(TextsOf(call))
<1> DEFINE n == Len(call.parts)
<1>1. n \in Nat /\ DOMAIN call.parts = 1 .. n /\ call.parts \in Seq(Parts)
  BY CallFacts
<1>2. \A j \in 1 .. n : Encoded(call.parts[j]) \in Seq(Symbols)
  BY <1>1, ElementOfSeq, EncodedIn
<1>3. \A j \in 1 .. n : Asked(call.parts, call.args, j) \in Seq(Text)
  BY AskedIs
<1> HIDE DEF n
<1>4. /\ CodesOf(call) \in [1 .. n -> Seq(Symbols)]
      /\ TextsOf(call) \in [1 .. n -> Seq(Text)]
  BY <1>1, <1>2, <1>3 DEF CodesOf, TextsOf
<1>5. Len(CodesOf(call)) = n /\ Len(TextsOf(call)) = n
  BY <1>1, <1>4
<1>6. QED  BY <1>4, <1>5 DEF n, CodesOf, TextsOf, Encode, Meaning

------------------------------------------------------------------------------
(* The calls of a panic. *)

LEMMA MadeParts ==
  /\ \A c \in Chars : Color(c) \in Parts /\ ~IsArg(Color(c))
  /\ \A c \in Chars \ {"%"} : c # "esc" => Char(c) \in Parts /\ ~IsArg(Char(c))
  /\ \A c \in Letters : c \in Chars => Arg(c) \in Parts /\ IsArg(Arg(c))
<1>1. \A c \in Chars : Color(c) \in Parts /\ ~IsArg(Color(c))
  BY DEF Color, Parts, IsArg
<1>2. \A c \in Chars \ {"%"} : c # "esc" => Char(c) \in Parts /\ ~IsArg(Char(c))
  BY DEF Char, Parts, IsArg
<1>3. \A c \in Letters : c \in Chars => Arg(c) \in Parts /\ IsArg(Arg(c))
  BY DEF Arg, Parts, IsArg
<1>4. QED  BY <1>1, <1>2, <1>3

LEMMA TenSeq ==
  ASSUME NEW S, NEW a \in S, NEW b \in S, NEW c \in S, NEW d \in S, NEW e \in S,
         NEW f \in S, NEW g \in S, NEW h \in S, NEW k \in S, NEW m \in S
  PROVE  <<a, b, c, d, e, f, g, h, k, m>> \in Seq(S)
OBVIOUS

LEMMA FiveSeq ==
  ASSUME NEW S, NEW a \in S, NEW b \in S, NEW c \in S, NEW d \in S, NEW e \in S
  PROVE  <<a, b, c, d, e>> \in Seq(S)
OBVIOUS

LEMMA TagCall ==
  ASSUME NEW p
  PROVE  Call(KERN_PANIC, <<>>) \in Calls(p)
<1>1. /\ Color("2") \in Parts /\ Color("1") \in Parts /\ Color("0") \in Parts
      /\ Char("[") \in Parts /\ Char(" ") \in Parts /\ Char("P") \in Parts /\ Char("]") \in Parts
      /\ ~IsArg(Color("2")) /\ ~IsArg(Color("1")) /\ ~IsArg(Color("0"))
      /\ ~IsArg(Char("[")) /\ ~IsArg(Char(" ")) /\ ~IsArg(Char("P")) /\ ~IsArg(Char("]"))
  BY Named, MadeParts
<1> DEFINE tag == KERN_PANIC
<1>2. tag = <<Color("2"), Char("["), Color("1"), Char(" "), Char("P"), Color("2"),
              Char(" "), Char("]"), Color("0"), Char(" ")>>
  BY DEF KERN_PANIC, Tag
<1>3. tag \in Seq(Parts) /\ Len(tag) = 10
  <2>1. Len(tag) = 10
    BY <1>2
  <2>2. tag \in Seq(Parts)
    BY <1>1, <1>2, TenSeq
  <2>3. QED  BY <2>1, <2>2
<1>4. \A j \in 1 .. 10 : ~IsArg(tag[j])
  <2>1. /\ tag[1] = Color("2") /\ tag[2] = Char("[") /\ tag[3] = Color("1")
        /\ tag[4] = Char(" ") /\ tag[5] = Char("P") /\ tag[6] = Color("2")
        /\ tag[7] = Char(" ") /\ tag[8] = Char("]") /\ tag[9] = Color("0") /\ tag[10] = Char(" ")
    BY <1>2
  <2>2. \A j \in 1 .. 10 : j \in {1, 2, 3, 4, 5, 6, 7, 8, 9, 10}
    OBVIOUS
  <2> HIDE DEF tag
  <2>3. QED  BY <1>1, <2>1, <2>2
<1> HIDE DEF tag
<1>5. ArgsUpTo(tag, Len(tag)) = 0
  <2>1. {j \in 1 .. 10 : IsArg(tag[j])} = {}
    BY <1>4
  <2>2. ArgsUpTo(tag, 10) = Cardinality({j \in 1 .. 10 : IsArg(tag[j])})
    BY DEF ArgsUpTo
  <2>3. QED  BY <1>3, <2>1, <2>2, FS_EmptySet
<1> DEFINE call == Call(tag, <<>>)
<1>6. call.parts = tag /\ call.args = <<>>
      /\ call \in [parts : Seq(Parts), args : Seq(Seq(Chars))]
  <2>1. <<>> \in Seq(Seq(Chars))
    OBVIOUS
  <2>2. QED  BY <1>3, <2>1 DEF Call
<1>7. Len(<<>>) = 0
  OBVIOUS
<1> HIDE DEF call
<1>8. call \in Calls(p)
  BY <1>5, <1>6, <1>7 DEF Calls
<1>9. QED  BY <1>8 DEF call, tag

LEMMA ExceptionCall ==
  ASSUME NEW p \in {"amd64", "aarch64"}
  PROVE  ExceptionMessage(p) \in Calls(p)
<1> DEFINE call == ExceptionMessage(p)
<1>1. CASE p = "amd64"
  <2>1. /\ Arg("s") \in Parts /\ Char(" ") \in Parts /\ Arg("x") \in Parts
        /\ Char(")") \in Parts /\ NewLine \in Parts
        /\ IsArg(Arg("s")) /\ ~IsArg(Char(" ")) /\ IsArg(Arg("x"))
        /\ ~IsArg(Char(")")) /\ ~IsArg(NewLine)
    BY Named, MadeParts DEF Letters, NewLine
  <2> DEFINE parts == <<Arg("s"), Char(" "), Arg("x"), Char(")"), NewLine>>
             args == <<<<"D">>, <<"8">>>>
  <2>2. call = [parts |-> parts, args |-> args]
    BY <1>1 DEF ExceptionMessage, Call
  <2>3. parts \in Seq(Parts) /\ Len(parts) = 5
    BY <2>1, FiveSeq
  <2>4. args \in Seq(Seq(Chars)) /\ Len(args) = 2
    <3>1. <<"D">> \in Seq(Chars) /\ <<"8">> \in Seq(Chars)
      BY Named, ShortSeq
    <3>2. QED  BY <3>1, ShortSeq
  <2>5. {j \in 1 .. 5 : IsArg(parts[j])} = {1, 3}
    <3>1. /\ parts[1] = Arg("s") /\ parts[2] = Char(" ") /\ parts[3] = Arg("x")
          /\ parts[4] = Char(")") /\ parts[5] = NewLine
      OBVIOUS
    <3>2. \A j \in 1 .. 5 : j \in {1, 2, 3, 4, 5}
      OBVIOUS
    <3> HIDE DEF parts
    <3>3. \A j \in 1 .. 5 : IsArg(parts[j]) <=> j \in {1, 3}
      BY <2>1, <3>1, <3>2
    <3>4. QED  BY <3>3
  <2> HIDE DEF parts, args
  <2>6. ArgsUpTo(parts, Len(parts)) = 2
    <3>1. ArgsUpTo(parts, 5) = Cardinality({1, 3})
      BY <2>5 DEF ArgsUpTo
    <3>2. IsFiniteSet({1}) /\ Cardinality({1}) = 1
      BY FS_Singleton
    <3>3. Cardinality({1} \cup {3}) = 2
      <4>1. 3 \notin {1}
        OBVIOUS
      <4>2. Cardinality({1} \cup {3}) = Cardinality({1}) + 1
        BY <3>2, <4>1, FS_AddElement
      <4>3. QED  BY <3>2, <4>2
    <3>4. {1, 3} = {1} \cup {3}
      OBVIOUS
    <3>5. QED  BY <2>3, <3>1, <3>3, <3>4
  <2>7. call.parts = parts /\ call.args = args
        /\ call \in [parts : Seq(Parts), args : Seq(Seq(Chars))]
    BY <2>2, <2>3, <2>4
  <2> HIDE DEF call
  <2>8. call \in Calls(p)
    <3>1. ArgsUpTo(call.parts, Len(call.parts)) <= Len(call.args)
      <4>1. call.parts = parts /\ call.args = args
        BY <2>7
      <4>2. ArgsUpTo(call.parts, Len(call.parts)) = 2
        BY <2>6, <4>1
      <4>3. Len(call.args) = 2
        BY <2>4, <4>1
      <4>4. QED  BY <4>2, <4>3
    <3>2. p # "aarch64"
      BY <1>1
    <3>3. QED  BY <2>7, <3>1, <3>2 DEF Calls
  <2>9. QED  BY <2>8 DEF call
<1>2. CASE p = "aarch64"
  <2>1. Char("M") \in Parts /\ ~IsArg(Char("M"))
    BY Named, MadeParts
  <2> DEFINE parts == <<Char("M")>>
  <2>2. call = [parts |-> parts, args |-> <<>>]
    BY <1>2 DEF ExceptionMessage, Call
  <2>3. parts \in Seq(Parts) /\ Len(parts) = 1 /\ parts[1] = Char("M")
    BY <2>1
  <2> HIDE DEF parts
  <2>4. ArgsUpTo(parts, Len(parts)) = 0
    <3>1. {j \in 1 .. 1 : IsArg(parts[j])} = {}
      BY <2>1, <2>3
    <3>2. QED  BY <2>3, <3>1, FS_EmptySet DEF ArgsUpTo
  <2>5. <<>> \in Seq(Seq(Chars)) /\ Len(<<>>) = 0
    OBVIOUS
  <2>6. call.parts = parts /\ call.args = <<>>
        /\ call \in [parts : Seq(Parts), args : Seq(Seq(Chars))]
    BY <2>2, <2>3, <2>5
  <2> HIDE DEF call
  <2>7. call \in Calls(p)
    BY <1>2, <2>4, <2>5, <2>6 DEF Calls
  <2>8. QED  BY <2>7 DEF call
<1>3. QED  BY <1>1, <1>2

LEMMA PanicCalls ==
  ASSUME NEW p \in {"amd64", "aarch64"}
  PROVE  PanicLog(ExceptionMessage(p)) \in Seq(Calls(p))
BY TagCall, ExceptionCall, ShortSeq DEF PanicLog

------------------------------------------------------------------------------
(* The invariant. *)

DataInv ==
  /\ port \in {"amd64", "aarch64"} /\ faults \in Nat /\ late \in Nat
  /\ framebuffer = NULL \/ IsFramebuffer(framebuffer)
  /\ pc \in {"idle", "format", "string", "newline", "glyph", "fault"}
  /\ todo \in Seq(Calls(port)) /\ ap \in Seq(Seq(Chars)) /\ color \in Codes
  /\ str \in Seq(Chars) /\ out \in Seq(Text) /\ expected \in Seq(Text)
  /\ cx \in 0 .. FONT_WIDTH /\ stores \subseteq {"x", "y"}
  /\ cursor_x \in Nat /\ cursor_y \in Nat
  /\ pc \in {"newline", "glyph"} => str # <<>>

\* What pty_putstr has still to put out.
Pending == IF pc = "string" THEN Colored(str, color)
           ELSE IF pc \in {"newline", "glyph"} THEN Colored(Tail(str), color)
           ELSE <<>>

\* The arguments behind the first k parts of a call.
ArgsLeft(call, k) ==
  IF port = "amd64"
  THEN /\ Len(ap) = Len(call.args) - ArgsUpTo(call.parts, k)
       /\ \A m \in 1 .. Len(ap) : ap[m] = call.args[ArgsUpTo(call.parts, k) + m]
  ELSE ap = call.args

\* vprintk has taken the first k parts of a call: what it has put out, what is on
\* its way and what the other parts ask for is all that has been asked for.
AtPart(call, k, codes, texts) ==
  /\ k \in 0 .. Len(call.parts)
  /\ Rests(codes, Symbols, CodesOf(call)) /\ Rests(texts, Text, TextsOf(call))
  /\ fmt = codes[k] /\ color = ColorAt(call.parts, k + 1)
  /\ ArgsLeft(call, k)
  /\ expected = (out \o Pending) \o texts[k]

Busy == {"format", "string", "newline", "glyph"}

TextInv ==
  /\ pc = "idle" => out = expected
  /\ pc \in Busy => \E call, k, codes, texts :
        call \in Calls(port) /\ AtPart(call, k, codes, texts)

IInv == DataInv /\ TextInv /\ StaysInside

\* A text begins with its first character.
LEMMA ColoredHead ==
  ASSUME NEW text \in Seq(Chars), text # <<>>, NEW code \in Codes
  PROVE  /\ Head(text) \in Chars /\ Tail(text) \in Seq(Chars)
         /\ [char |-> Head(text), color |-> code] \in Text
         /\ Colored(Tail(text), code) \in Seq(Text)
         /\ Colored(text, code) =
              <<[char |-> Head(text), color |-> code]>> \o Colored(Tail(text), code)
<1> DEFINE t == [char |-> Head(text), color |-> code]
           c == Colored(text, code)
           d == Colored(Tail(text), code)
<1>1. /\ Head(text) \in Chars /\ Tail(text) \in Seq(Chars) /\ Len(Tail(text)) = Len(text) - 1
      /\ \A j \in 1 .. Len(Tail(text)) : Tail(text)[j] = text[j + 1]
      /\ Len(text) \in Nat /\ Len(text) >= 1 /\ Head(text) = text[1]
  BY HeadTailProperties, EmptySeq, LenProperties
<1>2. t \in Text
  BY <1>1 DEF Text
<1>3. /\ c \in Seq(Text) /\ Len(c) = Len(text)
      /\ \A j \in 1 .. Len(text) : c[j] = [char |-> text[j], color |-> code]
  BY ColoredIn
<1>4. /\ d \in Seq(Text) /\ Len(d) = Len(text) - 1
      /\ \A j \in 1 .. (Len(text) - 1) : d[j] = [char |-> text[j + 1], color |-> code]
  <2> DEFINE u == Tail(text)
  <2>1. /\ u \in Seq(Chars) /\ Len(u) = Len(text) - 1
        /\ \A j \in 1 .. Len(u) : u[j] = text[j + 1]
    BY <1>1
  <2>2. d = Colored(u, code)
    OBVIOUS
  <2> HIDE DEF u, d
  <2>3. /\ d \in Seq(Text) /\ Len(d) = Len(u)
        /\ \A j \in 1 .. Len(u) : d[j] = [char |-> u[j], color |-> code]
    BY <2>1, <2>2, ColoredIn
  <2>4. QED  BY <2>1, <2>3
<1>5. c[1] = t
  BY <1>1, <1>3
<1>6. \A j \in 1 .. (Len(text) - 1) : d[j] = c[j + 1]
  <2>1. \A j \in 1 .. (Len(text) - 1) : j + 1 \in 1 .. Len(text)
    BY <1>1
  <2> HIDE DEF t, c, d
  <2>2. QED  BY <1>3, <1>4, <2>1
<1> HIDE DEF t, c, d
<1>7. c = <<t>> \o d
  <2> DEFINE e == <<t>> \o d
             n == Len(text)
  <2>1. <<t>> \in Seq(Text) /\ Len(<<t>>) = 1 /\ <<t>>[1] = t
    BY <1>2
  <2>2. /\ e \in Seq(Text) /\ Len(e) = 1 + (n - 1)
        /\ \A j \in 1 .. 1 + (n - 1) : e[j] = IF j <= 1 THEN <<t>>[j] ELSE d[j - 1]
    BY <1>4, <2>1, ConcatProperties
  <2>3. n \in Nat /\ 1 + (n - 1) = n
    BY <1>1
  <2> HIDE DEF e, n
  <2>4. ASSUME NEW j \in 1 .. n PROVE c[j] = e[j]
    <3>1. CASE j = 1
      BY <1>5, <2>1, <2>2, <2>3, <3>1
    <3>2. CASE j # 1
      <4>1. j - 1 \in 1 .. (n - 1) /\ (j - 1) + 1 = j /\ ~(j <= 1)
        BY <2>3, <3>2
      <4>2. e[j] = d[j - 1]
        BY <2>2, <2>3, <4>1
      <4>3. d[j - 1] = c[(j - 1) + 1]
        BY <1>6, <4>1 DEF n
      <4>4. QED  BY <4>1, <4>2, <4>3
    <3>3. QED  BY <3>1, <3>2
  <2>5. Len(c) = n /\ Len(e) = n
    BY <1>3, <2>2, <2>3 DEF n
  <2>6. c = e
    BY <1>3, <2>2, <2>4, <2>5, SeqEqual
  <2>7. QED  BY <2>6 DEF e
<1>8. QED  BY <1>1, <1>2, <1>4, <1>7 DEF t, c, d

\* Steps of pty_putstr and below: what is put out is no longer on its way.
LEMMA SameText ==
  ASSUME TextInv, UNCHANGED <<port, fmt, ap, color, expected>>,
         pc \in Busy, pc' \in Busy, (out \o Pending)' = out \o Pending
  PROVE  TextInv'
<1>1. PICK call, k, codes, texts :
        call \in Calls(port) /\ AtPart(call, k, codes, texts)
  BY DEF TextInv
<1>2. ArgsLeft(call, k)' <=> ArgsLeft(call, k)
  BY DEF ArgsLeft
<1>3. AtPart(call, k, codes, texts)'
  BY <1>1, <1>2 DEF AtPart
<1>4. pc' # "idle"
  BY DEF Busy
<1>5. QED  BY <1>1, <1>3, <1>4 DEF TextInv

\* A word of a line lies in that line, and left of the edge of the screen.
LEMMA WordInside ==
  ASSUME IsFramebuffer(framebuffer), NEW x \in Nat, NEW y \in Nat, OnScreen(x, y)
  PROVE  /\ get_index(x, y) \div (framebuffer.pitch \div 4) = y
         /\ get_index(x, y) % (framebuffer.pitch \div 4) = x
<1>1. /\ framebuffer.width \in Nat \ {0} /\ framebuffer.pitch \in Nat
      /\ framebuffer.width <= framebuffer.pitch \div 4
      /\ x < framebuffer.width
  BY DEF IsFramebuffer, OnScreen
<1>2. framebuffer.pitch \div 4 \in Nat
  BY <1>1, DivBounds
<1> DEFINE w == framebuffer.pitch \div 4
           width == framebuffer.width
<1>3. get_index(x, y) = x + y * w
  BY DEF get_index
<1> HIDE DEF w
<1>4. w \in Nat \ {0} /\ x \in 0 .. (w - 1)
  <2>1. width \in Nat /\ width > 0 /\ width <= w /\ x < width /\ w \in Nat
    BY <1>1, <1>2 DEF w
  <2> HIDE DEF width
  <2>2. QED  BY <2>1
<1>5. (x + y * w) \div w = y /\ (x + y * w) % w = x
  BY <1>4, DivUnique
<1>6. QED  BY <1>3, <1>5 DEF w

LEMMA PaintStaysInside == DataInv /\ StaysInside /\ PaintColumn => StaysInside'
<1> SUFFICES ASSUME DataInv, StaysInside, PaintColumn, framebuffer # NULL, framebuffer' = framebuffer
             PROVE  \A word \in DOMAIN mem' :
                      /\ word \div (framebuffer.pitch \div 4) < framebuffer.height
                      /\ word % (framebuffer.pitch \div 4) < framebuffer.width
  BY DEF StaysInside, PaintColumn, machine
<1> DEFINE x == cursor_x + cx
           rows == {cy \in 0 .. (FONT_HEIGHT - 1) : OnScreen(x, cursor_y + cy)}
           words == {get_index(x, cursor_y + cy) : cy \in rows}
<1>1. DOMAIN mem' = words \cup DOMAIN mem
  BY DEF PaintColumn
<1>2. IsFramebuffer(framebuffer) /\ cursor_x \in Nat /\ cursor_y \in Nat /\ x \in Nat
      /\ FONT_HEIGHT \in Nat
  BY FontAssumption DEF DataInv
<1> HIDE DEF x
<1>3. ASSUME NEW word \in words
      PROVE  /\ word \div (framebuffer.pitch \div 4) < framebuffer.height
             /\ word % (framebuffer.pitch \div 4) < framebuffer.width
  <2>1. PICK cy \in 0 .. (FONT_HEIGHT - 1) :
          OnScreen(x, cursor_y + cy) /\ word = get_index(x, cursor_y + cy)
    OBVIOUS
  <2>2. cursor_y + cy \in Nat
    BY <1>2
  <2>3. word \div (framebuffer.pitch \div 4) = cursor_y + cy
        /\ word % (framebuffer.pitch \div 4) = x
    BY <1>2, <2>1, <2>2, WordInside
  <2>4. QED  BY <2>1, <2>3 DEF OnScreen
<1>4. ASSUME NEW word \in DOMAIN mem
      PROVE  /\ word \div (framebuffer.pitch \div 4) < framebuffer.height
             /\ word % (framebuffer.pitch \div 4) < framebuffer.width
  BY DEF StaysInside
<1> HIDE DEF words
<1>5. QED  BY <1>1, <1>3, <1>4

\* All other steps leave the framebuffer alone.
LEMMA SameScreen == StaysInside /\ UNCHANGED <<framebuffer, mem>> => StaysInside'
BY DEF StaysInside

------------------------------------------------------------------------------

\* The text of the next part comes first in what is left.
TextFollows(call, k, texts) ==
  texts[k] = Asked(call.parts, call.args, k + 1) \o texts[k + 1]

\* The next part of a format: its code is what is left of the format begins with.
LEMMA NextPart ==
  ASSUME DataInv, NEW call \in Calls(port), NEW k, NEW codes, NEW texts,
         AtPart(call, k, codes, texts)
  PROVE  /\ k \in 0 .. Len(call.parts) /\ Len(call.parts) \in Nat
         /\ texts[k] \in Seq(Text)
         /\ k = Len(call.parts) => fmt = <<>> /\ texts[k] = <<>>
         /\ k # Len(call.parts) =>
              /\ k + 1 \in 1 .. Len(call.parts) /\ call.parts[k + 1] \in Parts
              /\ fmt = Encoded(call.parts[k + 1]) \o codes[k + 1]
              /\ codes[k + 1] \in Seq(Symbols) /\ texts[k + 1] \in Seq(Text)
              /\ TextFollows(call, k, texts)
<1> DEFINE n == Len(call.parts)
<1>1. /\ n \in Nat /\ call.parts \in Seq(Parts) /\ DOMAIN call.parts = 1 .. n
      /\ Len(CodesOf(call)) = n /\ Len(TextsOf(call)) = n
  BY CallFacts, CodesAndTexts
<1>2. k \in 0 .. n /\ fmt = codes[k]
  BY DEF AtPart
<1>3. /\ codes \in [0 .. n -> Seq(Symbols)] /\ codes[n] = <<>>
      /\ \A j \in 1 .. n : codes[j - 1] = CodesOf(call)[j] \o codes[j]
  BY <1>1 DEF AtPart, Rests
<1>4. /\ texts \in [0 .. n -> Seq(Text)] /\ texts[n] = <<>>
      /\ \A j \in 1 .. n : texts[j - 1] = TextsOf(call)[j] \o texts[j]
  BY <1>1 DEF AtPart, Rests
<1>5. ASSUME k # n
      PROVE  /\ k + 1 \in 1 .. n /\ call.parts[k + 1] \in Parts
             /\ fmt = Encoded(call.parts[k + 1]) \o codes[k + 1]
             /\ codes[k + 1] \in Seq(Symbols) /\ texts[k + 1] \in Seq(Text)
             /\ texts[k] = Asked(call.parts, call.args, k + 1) \o texts[k + 1]
  <2>1. k + 1 \in 1 .. n /\ k + 1 \in 0 .. n /\ (k + 1) - 1 = k
    BY <1>1, <1>2, <1>5
  <2>2. call.parts[k + 1] \in Parts
    BY <1>1, <2>1, ElementOfSeq
  <2>3. CodesOf(call)[k + 1] = Encoded(call.parts[k + 1])
        /\ TextsOf(call)[k + 1] = Asked(call.parts, call.args, k + 1)
    BY <1>1, <2>1 DEF CodesOf, TextsOf
  <2> HIDE DEF n
  <2>4. codes[(k + 1) - 1] = CodesOf(call)[k + 1] \o codes[k + 1]
        /\ texts[(k + 1) - 1] = TextsOf(call)[k + 1] \o texts[k + 1]
    BY <1>3, <1>4, <2>1
  <2>5. codes[k + 1] \in Seq(Symbols) /\ texts[k + 1] \in Seq(Text)
    BY <1>3, <1>4, <2>1
  <2>6. QED  BY <1>2, <2>1, <2>2, <2>3, <2>4, <2>5
<1> HIDE DEF n
<1>7. k # n => TextFollows(call, k, texts)
  BY <1>5 DEF TextFollows
<1>6. texts[k] \in Seq(Text) /\ (k = n => fmt = <<>> /\ texts[k] = <<>>)
  BY <1>2, <1>3, <1>4
<1>8. QED  BY <1>1, <1>2, <1>5, <1>6, <1>7 DEF n

LEMMA BehindOne ==
  ASSUME NEW S, NEW a \in S, NEW s \in Seq(S)
  PROVE  /\ <<a>> \o s # <<>> /\ (<<a>> \o s)[1] = a /\ Tail(<<a>> \o s) = s
OBVIOUS

LEMMA BehindPair ==
  ASSUME NEW S, NEW a \in S, NEW b \in S, NEW s \in Seq(S)
  PROVE  LET f == <<a, b>> \o s
         IN  f # <<>> /\ f[1] = a /\ f[2] = b /\ SubSeq(f, 3, Len(f)) = s
<1> DEFINE f == <<a, b>> \o s
<1>1. <<a, b>> \in Seq(S) /\ Len(<<a, b>>) = 2 /\ <<a, b>>[1] = a /\ <<a, b>>[2] = b
  OBVIOUS
<1>2. /\ f \in Seq(S) /\ Len(f) = 2 + Len(s) /\ Len(s) \in Nat
      /\ \A i \in 1 .. 2 + Len(s) : f[i] = IF i <= 2 THEN <<a, b>>[i] ELSE s[i - 2]
  BY <1>1, ConcatProperties, LenProperties
<1> HIDE DEF f
<1>3. f # <<>> /\ f[1] = a /\ f[2] = b
  <2>1. 1 \in 1 .. 2 + Len(s) /\ 2 \in 1 .. 2 + Len(s) /\ Len(f) # 0
    BY <1>2
  <2>2. f[1] = a /\ f[2] = b
    BY <1>1, <1>2, <2>1
  <2>3. QED  BY <2>1, <2>2
<1> DEFINE g == SubSeq(f, 3, Len(f))
<1>4. /\ g \in Seq(S) /\ Len(g) = Len(s) /\ \A i \in 1 .. Len(s) : g[i] = f[i + 2]
  BY <1>2
<1> HIDE DEF g
<1>5. \A i \in 1 .. Len(s) : g[i] = s[i]
  <2>1. \A i \in 1 .. Len(s) : i + 2 \in 1 .. 2 + Len(s) /\ ~(i + 2 <= 2) /\ (i + 2) - 2 = i
    BY <1>2
  <2>2. \A i \in 1 .. Len(s) : f[i + 2] = s[(i + 2) - 2]
    BY <1>2, <2>1
  <2>3. QED  BY <1>4, <2>1, <2>2
<1>6. g = s
  BY <1>4, <1>5, SeqEqual
<1>7. QED  BY <1>3, <1>6 DEF f, g

\* Its first characters tell its kind, and behind them stands the rest.
LEMMA FirstCharacters ==
  ASSUME NEW part \in Parts, NEW rest \in Seq(Symbols)
  PROVE  LET f == Encoded(part) \o rest
         IN  /\ f # <<>>
             /\ part.kind = "color" =>
                  f[1] = "esc" /\ f[2] = part.what /\ SubSeq(f, 3, Len(f)) = rest
             /\ part.kind \in {"arg", "unknown"} =>
                  f[1] = "%" /\ f[2] = part.what /\ SubSeq(f, 3, Len(f)) = rest
             /\ part.kind = "char" =>
                  f[1] = part.what /\ f[1] \notin {"esc", "%"} /\ Tail(f) = rest
<1> DEFINE f == Encoded(part) \o rest
<1>1. part.kind \in {"color", "char", "arg", "unknown"} /\ part.what \in Chars
      /\ (part.kind = "char" => part.what \notin {"esc", "%"})
  BY PartKinds
<1>2. "esc" \in Symbols /\ "%" \in Symbols /\ part.what \in Symbols
  BY <1>1, Named DEF Symbols
<1>3. CASE part.kind = "color"
  <2>1. f = <<"esc", part.what>> \o rest
    BY <1>3 DEF Encoded
  <2>2. f # <<>> /\ f[1] = "esc" /\ f[2] = part.what /\ SubSeq(f, 3, Len(f)) = rest
    BY <1>2, <2>1, BehindPair
  <2>3. QED  BY <1>3, <2>2
<1>4. CASE part.kind \in {"arg", "unknown"}
  <2>1. f = <<"%", part.what>> \o rest
    BY <1>4 DEF Encoded
  <2>2. f # <<>> /\ f[1] = "%" /\ f[2] = part.what /\ SubSeq(f, 3, Len(f)) = rest
    BY <1>2, <2>1, BehindPair
  <2>3. QED  BY <1>4, <2>2
<1>5. CASE part.kind = "char"
  <2>1. f = <<part.what>> \o rest
    BY <1>5 DEF Encoded
  <2>2. f # <<>> /\ f[1] = part.what /\ Tail(f) = rest
    BY <1>2, <2>1, BehindOne
  <2>3. QED  BY <1>1, <1>5, <2>2
<1>6. QED  BY <1>1, <1>3, <1>4, <1>5

------------------------------------------------------------------------------

LEMMA InitInv == Init => IInv
<1> SUFFICES ASSUME Init PROVE IInv
  OBVIOUS
<1>1. PICK s \in Scenarios :
        /\ port = s.port /\ framebuffer = s.framebuffer /\ faults = s.faults /\ late = s.late
        /\ todo = s.calls /\ pc = "idle" /\ fmt = <<>> /\ ap = <<>>
        /\ color = PRINTK_DEFAULT_FG /\ str = <<>> /\ cx = FONT_WIDTH /\ stores = {}
        /\ cursor_x = 0 /\ cursor_y = 0 /\ mem = <<>> /\ out = <<>> /\ expected = <<>>
  BY DEF Init
<1>2. /\ s.port \in {"amd64", "aarch64"} /\ s.faults \in Nat /\ s.late \in Nat
      /\ s.framebuffer = NULL \/ IsFramebuffer(s.framebuffer)
      /\ s.calls \in Seq(Calls(s.port))
  BY ScenarioAssumption
<1>3. FONT_WIDTH \in 0 .. FONT_WIDTH
  BY FontAssumption
<1>4. DataInv
  <2>1. <<>> \in Seq(Text) /\ <<>> \in Seq(Chars) /\ <<>> \in Seq(Seq(Chars))
    OBVIOUS
  <2>2. color \in Codes
    BY <1>1 DEF Codes, PRINTK_DEFAULT_FG
  <2>3. QED  BY <1>1, <1>2, <1>3, <2>1, <2>2 DEF DataInv
<1>5. TextInv
  BY <1>1 DEF TextInv, Busy
<1>6. StaysInside
  <2>1. DOMAIN mem = {}
    BY <1>1
  <2>2. QED  BY <2>1 DEF StaysInside
<1>7. QED  BY <1>4, <1>5, <1>6 DEF IInv

LEMMA PrintkStep == IInv /\ Printk => IInv'
<1> SUFFICES ASSUME IInv, Printk PROVE IInv'
  OBVIOUS
<1>1. /\ pc = "idle" /\ todo # <<>> /\ todo' = Tail(todo) /\ pc' = "format"
      /\ fmt' = Encode(Head(todo).parts) /\ ap' = Head(todo).args /\ color' = PRINTK_DEFAULT_FG
      /\ expected' = expected \o Meaning(Head(todo).parts, Head(todo).args)
      /\ UNCHANGED <<port, framebuffer, faults, late, str, cx, stores, cursor_x, cursor_y, mem, out>>
  BY DEF Printk, machine, panic_vars, pty_vars, cursor
<1>2. DataInv /\ TextInv /\ StaysInside
  BY DEF IInv
<1>3. Head(todo) \in Calls(port) /\ Tail(todo) \in Seq(Calls(port))
  BY <1>1, <1>2, HeadTailProperties DEF DataInv
<1>4. PICK call \in Calls(port) : call = Head(todo)
  BY <1>3
<1> DEFINE n == Len(call.parts)
<1>5. n \in Nat /\ call.args \in Seq(Seq(Chars)) /\ Len(call.args) \in Nat
  BY CallFacts
<1>6. /\ CodesOf(call) \in [1 .. n -> Seq(Symbols)] /\ Len(CodesOf(call)) = n
      /\ TextsOf(call) \in [1 .. n -> Seq(Text)] /\ Len(TextsOf(call)) = n
      /\ fmt' = FlattenSeq(CodesOf(call))
      /\ expected' = expected \o FlattenSeq(TextsOf(call))
  BY <1>1, <1>4, CodesAndTexts
<1> HIDE DEF n
<1>7. PICK codes : Rests(codes, Symbols, CodesOf(call))
  BY <1>5, <1>6, RestsExist
<1>8. PICK texts : Rests(texts, Text, TextsOf(call))
  BY <1>5, <1>6, RestsExist
<1>9. fmt' = codes[0] /\ expected' = expected \o texts[0]
  BY <1>5, <1>6, <1>7, <1>8, FlattenIs
<1>10. texts[0] \in Seq(Text)
  BY <1>5, <1>6, <1>8 DEF Rests
<1>11. out = expected /\ out \in Seq(Text) /\ expected \in Seq(Text)
  BY <1>1, <1>2 DEF TextInv, DataInv
<1>12. DataInv'
  <2>1. expected' \in Seq(Text)
    BY <1>9, <1>10, <1>11, ConcatIn
  <2>2. color' \in Codes
    BY <1>1 DEF Codes, PRINTK_DEFAULT_FG
  <2>3. QED  BY <1>1, <1>2, <1>3, <1>5, <1>4, <2>1, <2>2 DEF DataInv
<1>13. AtPart(call, 0, codes, texts)'
  <2>1. ArgsLeft(call, 0)'
    <3>1. ArgsUpTo(call.parts, 0) = 0
      BY ArgsNext
    <3>2. Len(call.args) = Len(call.args) - 0 /\ \A m \in 1 .. Len(call.args) : m = 0 + m
      BY <1>5
    <3>3. QED  BY <1>1, <1>4, <3>1, <3>2 DEF ArgsLeft
  <2>2. Pending' = <<>>
    BY <1>1 DEF Pending
  <2>3. out' \o <<>> = out
    BY <1>1, <1>11, ConcatEmptySeq
  <2>4. expected' = (out' \o Pending') \o texts[0]
    BY <1>9, <1>11, <2>2, <2>3
  <2>5. color' = ColorAt(call.parts, 0 + 1) /\ 0 \in 0 .. Len(call.parts)
    BY <1>1, <1>5, ColorStart DEF n
  <2>6. QED  BY <1>7, <1>8, <1>9, <2>1, <2>4, <2>5 DEF AtPart
<1>14. TextInv'
  <2>1. call \in Calls(port')
    BY <1>1
  <2>2. QED  BY <1>1, <1>13, <2>1 DEF TextInv
<1>15. StaysInside'
  BY <1>1, <1>2, SameScreen
<1>16. QED  BY <1>12, <1>14, <1>15 DEF IInv

\* vprintk turns to the next part: what this one asks for is on its way.
LEMMA Advanced ==
  ASSUME DataInv, NEW call \in Calls(port), NEW k, NEW codes, NEW texts,
         AtPart(call, k, codes, texts), pc = "format", k # Len(call.parts)
  PROVE  /\ UNCHANGED <<port, expected, out>> /\ fmt' = codes[k + 1]
         /\ color' = ColorAt(call.parts, (k + 1) + 1) /\ ArgsLeft(call, k + 1)'
         /\ Pending' = Asked(call.parts, call.args, k + 1) /\ pc' \in Busy
         => TextInv'
<1>1. /\ k \in 0 .. Len(call.parts) /\ k + 1 \in 1 .. Len(call.parts)
      /\ Len(call.parts) \in Nat /\ texts[k + 1] \in Seq(Text)
      /\ texts[k] = Asked(call.parts, call.args, k + 1) \o texts[k + 1]
  <2>1. k \in 0 .. Len(call.parts) /\ Len(call.parts) \in Nat
    BY NextPart
  <2>2. k + 1 \in 1 .. Len(call.parts) /\ texts[k + 1] \in Seq(Text)
    BY NextPart
  <2>3. TextFollows(call, k, texts)
    BY NextPart
  <2>4. QED  BY <2>1, <2>2, <2>3 DEF TextFollows
<1> SUFFICES ASSUME UNCHANGED <<port, expected, out>>, fmt' = codes[k + 1],
                    color' = ColorAt(call.parts, (k + 1) + 1), ArgsLeft(call, k + 1)',
                    Pending' = Asked(call.parts, call.args, k + 1), pc' \in Busy
             PROVE  TextInv'
  OBVIOUS
<1>2. Asked(call.parts, call.args, k + 1) \in Seq(Text)
  BY <1>1, AskedIs
<1>3. expected = (out \o Pending) \o texts[k]
  BY DEF AtPart
<1>4. out \in Seq(Text) /\ Pending = <<>>
  BY DEF DataInv, Pending
<1> DEFINE a == Asked(call.parts, call.args, k + 1)
           t == texts[k + 1]
<1>5. out \o (a \o t) = (out \o a) \o t
  <2>1. out \in Seq(Text) /\ a \in Seq(Text) /\ t \in Seq(Text)
    BY <1>1, <1>2, <1>4
  <2> HIDE DEF a, t
  <2>2. QED  BY <2>1, ConcatAssociative
<1>6. out \o <<>> = out
  BY <1>4, ConcatEmptySeq
<1>7. expected' = (out' \o Pending') \o t
  BY <1>1, <1>3, <1>4, <1>5, <1>6
<1>8. Rests(codes, Symbols, CodesOf(call)) /\ Rests(texts, Text, TextsOf(call))
  BY DEF AtPart
<1>9. k + 1 \in 0 .. Len(call.parts)
  BY <1>1
<1>10. AtPart(call, k + 1, codes, texts)'
  BY <1>7, <1>8, <1>9 DEF AtPart
<1>11. call \in Calls(port') /\ pc' # "idle"
  BY DEF Busy
<1>12. QED  BY <1>10, <1>11 DEF TextInv

LEMMA NoArgument ==
  ASSUME NEW call \in Calls(port), NEW k \in Nat, ArgsLeft(call, k),
         ~IsArg(call.parts[k + 1]), UNCHANGED <<port, ap>>
  PROVE  ArgsLeft(call, k + 1)'
<1>1. ArgsUpTo(call.parts, k + 1) = ArgsUpTo(call.parts, k)
  BY ArgsNext
<1>2. QED  BY <1>1 DEF ArgsLeft

\* In a format that has not been read to its end.
LEMMA Reading ==
  ASSUME DataInv, TextInv, pc = "format", fmt # <<>>
  PROVE  \E call, k, codes, texts :
           /\ call \in Calls(port)
           /\ AtPart(call, k, codes, texts) /\ k # Len(call.parts) /\ k \in Nat
           /\ k + 1 \in 1 .. Len(call.parts) /\ call.parts[k + 1] \in Parts
           /\ fmt = Encoded(call.parts[k + 1]) \o codes[k + 1]
           /\ codes[k + 1] \in Seq(Symbols)
           /\ color = ColorAt(call.parts, k + 1) /\ ArgsLeft(call, k)
<1>1. PICK call, k, codes, texts :
        call \in Calls(port) /\ AtPart(call, k, codes, texts)
  BY DEF TextInv, Busy
<1>2. /\ k \in 0 .. Len(call.parts) /\ k # Len(call.parts)
      /\ k + 1 \in 1 .. Len(call.parts) /\ call.parts[k + 1] \in Parts
      /\ fmt = Encoded(call.parts[k + 1]) \o codes[k + 1]
      /\ codes[k + 1] \in Seq(Symbols)
  BY <1>1, NextPart
<1>3. color = ColorAt(call.parts, k + 1) /\ ArgsLeft(call, k) /\ k \in Nat
  BY <1>1, <1>2 DEF AtPart
<1>4. QED  BY <1>1, <1>2, <1>3

LEMMA EscapeStep == IInv /\ Escape => IInv'
<1> SUFFICES ASSUME IInv, Escape PROVE IInv'
  OBVIOUS
<1>1. /\ pc = "format" /\ Len(fmt) >= 2 /\ fmt[1] = "esc"
      /\ color' = get_color(fmt[2]) /\ fmt' = SubSeq(fmt, 3, Len(fmt))
      /\ UNCHANGED <<port, framebuffer, faults, late, pc, todo, ap, expected, str, cx, stores,
                     cursor_x, cursor_y, mem, out>>
  BY DEF Escape, SkipTwo, machine, panic_vars, pty_vars, cursor
<1>2. DataInv /\ TextInv /\ StaysInside
  BY DEF IInv
<1>3. fmt # <<>>
  BY <1>1
<1>4. PICK call, k, codes, texts :
        /\ call \in Calls(port)
        /\ AtPart(call, k, codes, texts) /\ k # Len(call.parts) /\ k \in Nat
        /\ k + 1 \in 1 .. Len(call.parts) /\ call.parts[k + 1] \in Parts
        /\ fmt = Encoded(call.parts[k + 1]) \o codes[k + 1]
        /\ codes[k + 1] \in Seq(Symbols)
        /\ color = ColorAt(call.parts, k + 1) /\ ArgsLeft(call, k)
  BY <1>1, <1>2, <1>3, Reading
<1> DEFINE part == call.parts[k + 1]
<1>5. part.kind = "color"
  BY <1>1, <1>4, FirstCharacters, PartKinds
<1>6. fmt[2] = part.what /\ fmt' = codes[k + 1]
  BY <1>1, <1>4, <1>5, FirstCharacters
<1>7. color' = ColorAt(call.parts, (k + 1) + 1)
  <2>1. k + 1 \in Nat \ {0}
    BY <1>4
  <2>2. ColorAt(call.parts, (k + 1) + 1) = get_color(part.what)
    BY <1>5, <2>1, ColorNext DEF IsColor
  <2>3. QED  BY <1>1, <1>6, <2>2
<1>8. ArgsLeft(call, k + 1)'
  BY <1>1, <1>4, <1>5, NoArgument DEF IsArg
<1>9. Pending' = Asked(call.parts, call.args, k + 1)
  <2>1. Asked(call.parts, call.args, k + 1) = <<>>
    BY <1>4, <1>5, AskedIs
  <2>2. QED  BY <1>1, <2>1 DEF Pending
<1>10. TextInv'
  BY <1>1, <1>2, <1>4, <1>6, <1>7, <1>8, <1>9, Advanced DEF Busy
<1>11. color' \in Codes
  BY <1>7, ColorIn
<1>12. DataInv'
  BY <1>1, <1>2, <1>11 DEF DataInv
<1>13. StaysInside'
  BY <1>1, <1>2, SameScreen
<1>14. QED  BY <1>10, <1>12, <1>13 DEF IInv

LEMMA UnconvertedStep == IInv /\ Unconverted => IInv'
<1> SUFFICES ASSUME IInv, Unconverted PROVE IInv'
  OBVIOUS
<1>1. /\ pc = "format" /\ Len(fmt) >= 2 /\ fmt[1] = "%" /\ fmt[2] \notin Letters
      /\ fmt' = SubSeq(fmt, 3, Len(fmt))
      /\ UNCHANGED <<port, framebuffer, faults, late, pc, todo, ap, color, expected, str, cx,
                     stores, cursor_x, cursor_y, mem, out>>
  BY DEF Unconverted, SkipTwo, machine, panic_vars, pty_vars, cursor
<1>2. DataInv /\ TextInv /\ StaysInside
  BY DEF IInv
<1>3. fmt # <<>>
  BY <1>1
<1>4. PICK call, k, codes, texts :
        /\ call \in Calls(port)
        /\ AtPart(call, k, codes, texts) /\ k # Len(call.parts) /\ k \in Nat
        /\ k + 1 \in 1 .. Len(call.parts) /\ call.parts[k + 1] \in Parts
        /\ fmt = Encoded(call.parts[k + 1]) \o codes[k + 1]
        /\ codes[k + 1] \in Seq(Symbols)
        /\ color = ColorAt(call.parts, k + 1) /\ ArgsLeft(call, k)
  BY <1>1, <1>2, <1>3, Reading
<1> DEFINE part == call.parts[k + 1]
<1>5. part.kind = "unknown"
  <2>1. part.kind \in {"color", "char", "arg", "unknown"}
    BY <1>4, PartKinds
  <2>2. part.kind = "color" => fmt[1] = "esc"
    BY <1>4, FirstCharacters
  <2>3. part.kind = "char" => fmt[1] # "%"
    BY <1>4, FirstCharacters
  <2>4. part.kind = "arg" => fmt[2] \in Letters
    BY <1>4, FirstCharacters, PartKinds
  <2>5. QED  BY <1>1, <2>1, <2>2, <2>3, <2>4
<1>6. fmt' = codes[k + 1]
  BY <1>1, <1>4, <1>5, FirstCharacters
<1>7. color' = ColorAt(call.parts, (k + 1) + 1)
  <2>1. k + 1 \in Nat \ {0}
    BY <1>4
  <2>2. ColorAt(call.parts, (k + 1) + 1) = ColorAt(call.parts, k + 1)
    BY <1>5, <2>1, ColorNext DEF IsColor
  <2>3. QED  BY <1>1, <1>4, <2>2
<1>8. ArgsLeft(call, k + 1)'
  BY <1>1, <1>4, <1>5, NoArgument DEF IsArg
<1>9. Pending' = Asked(call.parts, call.args, k + 1)
  <2>1. Asked(call.parts, call.args, k + 1) = <<>>
    BY <1>4, <1>5, AskedIs
  <2>2. QED  BY <1>1, <2>1 DEF Pending
<1>10. TextInv'
  BY <1>1, <1>2, <1>4, <1>6, <1>7, <1>8, <1>9, Advanced DEF Busy
<1>11. DataInv'
  BY <1>1, <1>2 DEF DataInv
<1>12. StaysInside'
  BY <1>1, <1>2, SameScreen
<1>13. QED  BY <1>10, <1>11, <1>12 DEF IInv

\* The argument of a conversion is the first that is left, on either port, and
\* the arguments of those behind it are left behind it.
LEMMA TakesArgument ==
  ASSUME DataInv, NEW call \in Calls(port), NEW k \in Nat, ArgsLeft(call, k),
         k + 1 \in 1 .. Len(call.parts), IsArg(call.parts[k + 1]),
         port' = port, TakeArgument
  PROVE  /\ Head(ap) = call.args[ArgsUpTo(call.parts, k + 1)]
         /\ ArgsLeft(call, k + 1)' /\ ap' \in Seq(Seq(Chars))
<1> DEFINE A(m) == ArgsUpTo(call.parts, m)
<1>1. /\ A(k + 1) = A((k + 1) - 1) + 1 /\ A((k + 1) - 1) \in Nat /\ A(k + 1) \in 1 .. Len(call.args)
      /\ port = "aarch64" => A(k + 1) = 1
  BY HasArgument
<1>2. A((k + 1) - 1) = A(k)
  <2>1. (k + 1) - 1 = k
    OBVIOUS
  <2>2. QED  BY <2>1
<1>3. call.args \in Seq(Seq(Chars)) /\ Len(call.args) \in Nat
  BY CallFacts
<1>4. ap \in Seq(Seq(Chars)) /\ port \in {"amd64", "aarch64"}
  BY DEF DataInv
<1>5. CASE port = "amd64"
  <2>1. Len(ap) = Len(call.args) - A(k) /\ \A m \in 1 .. Len(ap) : ap[m] = call.args[A(k) + m]
    BY <1>5 DEF ArgsLeft
  <2> HIDE DEF A
  <2>2. Len(ap) >= 1 /\ Len(ap) \in Nat
    BY <1>1, <1>2, <1>3, <2>1
  <2>3. ap # <<>>
    BY <2>2
  <2>4. ap' = Tail(ap)
    BY <1>5 DEF TakeArgument
  <2>5. /\ Head(ap) = ap[1] /\ Tail(ap) \in Seq(Seq(Chars))
        /\ Len(Tail(ap)) = Len(ap) - 1 /\ \A m \in 1 .. Len(Tail(ap)) : Tail(ap)[m] = ap[m + 1]
    BY <1>4, <2>3, HeadTailProperties
  <2>6. Head(ap) = call.args[A(k + 1)]
    <3>1. ap[1] = call.args[A(k) + 1]
      BY <2>1, <2>2
    <3>2. QED  BY <1>1, <1>2, <2>5, <3>1
  <2>7. Len(ap') = Len(call.args) - A(k + 1)
    <3>1. A(k) \in Nat /\ A(k + 1) = A(k) + 1
      BY <1>1, <1>2
    <3>2. Len(ap) = Len(call.args) - A(k) /\ Len(call.args) \in Nat
      BY <1>3, <2>1
    <3>3. Len(ap) - 1 = Len(call.args) - A(k + 1)
      BY <3>1, <3>2
    <3>4. QED  BY <2>4, <2>5, <3>3
  <2>8. ASSUME NEW m \in 1 .. Len(ap') PROVE ap'[m] = call.args[A(k + 1) + m]
    <3>1. m + 1 \in 1 .. Len(ap) /\ A(k) + (m + 1) = A(k + 1) + m
      BY <1>1, <1>2, <2>2, <2>4, <2>5
    <3>2. ap'[m] = ap[m + 1]
      BY <2>4, <2>5
    <3>3. ap[m + 1] = call.args[A(k) + (m + 1)]
      BY <2>1, <3>1
    <3>4. QED  BY <3>1, <3>2, <3>3
  <2>9. ArgsLeft(call, k + 1)'
    BY <1>5, <2>7, <2>8 DEF ArgsLeft, A
  <2>10. QED  BY <2>4, <2>5, <2>6, <2>9 DEF A
<1>6. CASE port = "aarch64"
  <2>1. ap = call.args /\ ap' = ap
    BY <1>6 DEF ArgsLeft, TakeArgument
  <2>2. Head(ap) = ap[1]
    BY <1>4
  <2>3. ArgsLeft(call, k + 1)'
    BY <1>6, <2>1 DEF ArgsLeft
  <2>4. QED  BY <1>1, <1>4, <1>6, <2>1, <2>2, <2>3
<1>7. QED  BY <1>4, <1>5, <1>6

LEMMA ConversionStep == IInv /\ Conversion => IInv'
<1> SUFFICES ASSUME IInv, Conversion PROVE IInv'
  OBVIOUS
<1>1. /\ pc = "format" /\ Len(fmt) >= 2 /\ fmt[1] = "%" /\ fmt[2] \in Letters
      /\ str' = Head(ap) /\ TakeArgument /\ fmt' = SubSeq(fmt, 3, Len(fmt)) /\ pc' = "string"
      /\ UNCHANGED <<port, framebuffer, faults, late, todo, color, expected, cx,
                     stores, cursor_x, cursor_y, mem, out>>
  BY DEF Conversion, SkipTwo, machine, panic_vars, cursor
<1>2. DataInv /\ TextInv /\ StaysInside
  BY DEF IInv
<1>3. fmt # <<>>
  BY <1>1
<1>4. PICK call, k, codes, texts :
        /\ call \in Calls(port)
        /\ AtPart(call, k, codes, texts) /\ k # Len(call.parts) /\ k \in Nat
        /\ k + 1 \in 1 .. Len(call.parts) /\ call.parts[k + 1] \in Parts
        /\ fmt = Encoded(call.parts[k + 1]) \o codes[k + 1]
        /\ codes[k + 1] \in Seq(Symbols)
        /\ color = ColorAt(call.parts, k + 1) /\ ArgsLeft(call, k)
  BY <1>1, <1>2, <1>3, Reading
<1> DEFINE part == call.parts[k + 1]
<1>5. part.kind = "arg"
  <2>1. part.kind \in {"color", "char", "arg", "unknown"}
    BY <1>4, PartKinds
  <2>2. part.kind = "color" => fmt[1] = "esc"
    BY <1>4, FirstCharacters
  <2>3. part.kind = "char" => fmt[1] # "%"
    BY <1>4, FirstCharacters
  <2>4. part.kind = "unknown" => fmt[2] \notin Letters
    BY <1>4, FirstCharacters, PartKinds
  <2>5. QED  BY <1>1, <2>1, <2>2, <2>3, <2>4
<1>6. fmt' = codes[k + 1]
  BY <1>1, <1>4, <1>5, FirstCharacters
<1>7. color' = ColorAt(call.parts, (k + 1) + 1)
  <2>1. k + 1 \in Nat \ {0}
    BY <1>4
  <2>2. ColorAt(call.parts, (k + 1) + 1) = ColorAt(call.parts, k + 1)
    BY <1>5, <2>1, ColorNext DEF IsColor
  <2>3. QED  BY <1>1, <1>4, <2>2
<1>8. /\ Head(ap) = call.args[ArgsUpTo(call.parts, k + 1)]
      /\ ArgsLeft(call, k + 1)' /\ ap' \in Seq(Seq(Chars))
  BY <1>1, <1>2, <1>4, <1>5, TakesArgument DEF IsArg
<1>9. /\ call.args[ArgsUpTo(call.parts, k + 1)] \in Seq(Chars)
      /\ Asked(call.parts, call.args, k + 1) =
           Colored(call.args[ArgsUpTo(call.parts, k + 1)], ColorAt(call.parts, k + 1))
  BY <1>4, <1>5, AskedIs
<1>10. Pending' = Asked(call.parts, call.args, k + 1)
  BY <1>1, <1>4, <1>8, <1>9 DEF Pending
<1>11. TextInv'
  BY <1>1, <1>2, <1>4, <1>6, <1>7, <1>8, <1>10, Advanced DEF Busy
<1>12. DataInv'
  BY <1>1, <1>2, <1>8, <1>9 DEF DataInv
<1>13. StaysInside'
  BY <1>1, <1>2, SameScreen
<1>14. QED  BY <1>11, <1>12, <1>13 DEF IInv

LEMMA PlainStep == IInv /\ Plain => IInv'
<1> SUFFICES ASSUME IInv, Plain PROVE IInv'
  OBVIOUS
<1>1. /\ pc = "format" /\ fmt # <<>> /\ fmt[1] \notin {"esc", "%"}
      /\ str' = <<fmt[1]>> /\ fmt' = Tail(fmt) /\ pc' = "string"
      /\ UNCHANGED <<port, framebuffer, faults, late, todo, ap, color, expected, cx,
                     stores, cursor_x, cursor_y, mem, out>>
  BY DEF Plain, machine, panic_vars, cursor
<1>2. DataInv /\ TextInv /\ StaysInside
  BY DEF IInv
<1>3. PICK call, k, codes, texts :
        /\ call \in Calls(port)
        /\ AtPart(call, k, codes, texts) /\ k # Len(call.parts) /\ k \in Nat
        /\ k + 1 \in 1 .. Len(call.parts) /\ call.parts[k + 1] \in Parts
        /\ fmt = Encoded(call.parts[k + 1]) \o codes[k + 1]
        /\ codes[k + 1] \in Seq(Symbols)
        /\ color = ColorAt(call.parts, k + 1) /\ ArgsLeft(call, k)
  BY <1>1, <1>2, Reading
<1> DEFINE part == call.parts[k + 1]
<1>4. part.kind = "char"
  <2>1. part.kind \in {"color", "char", "arg", "unknown"}
    BY <1>3, PartKinds
  <2>2. part.kind = "color" => fmt[1] = "esc"
    BY <1>3, FirstCharacters
  <2>3. part.kind \in {"arg", "unknown"} => fmt[1] = "%"
    BY <1>3, FirstCharacters
  <2>4. QED  BY <1>1, <2>1, <2>2, <2>3
<1>5. fmt[1] = part.what /\ fmt' = codes[k + 1]
  BY <1>1, <1>3, <1>4, FirstCharacters
<1>6. color' = ColorAt(call.parts, (k + 1) + 1)
  <2>1. k + 1 \in Nat \ {0}
    BY <1>3
  <2>2. ColorAt(call.parts, (k + 1) + 1) = ColorAt(call.parts, k + 1)
    BY <1>4, <2>1, ColorNext DEF IsColor
  <2>3. QED  BY <1>1, <1>3, <2>2
<1>7. ArgsLeft(call, k + 1)'
  BY <1>1, <1>3, <1>4, NoArgument DEF IsArg
<1>8. str' = <<part.what>> /\ part.what \in Chars
  BY <1>1, <1>3, <1>5, PartKinds
<1>9. Pending' = Asked(call.parts, call.args, k + 1)
  <2>1. Asked(call.parts, call.args, k + 1) = Colored(<<part.what>>, ColorAt(call.parts, k + 1))
    BY <1>3, <1>4, AskedIs
  <2>2. QED  BY <1>1, <1>3, <1>8, <2>1 DEF Pending
<1>10. TextInv'
  BY <1>1, <1>2, <1>3, <1>5, <1>6, <1>7, <1>9, Advanced DEF Busy
<1>11. str' \in Seq(Chars)
  BY <1>8, ShortSeq
<1>12. DataInv'
  BY <1>1, <1>2, <1>11 DEF DataInv
<1>13. StaysInside'
  BY <1>1, <1>2, SameScreen
<1>14. QED  BY <1>10, <1>12, <1>13 DEF IInv

\* At the end of the format nothing that has been asked for is left.
LEMMA EndOfFormatStep == IInv /\ EndOfFormat => IInv'
<1> SUFFICES ASSUME IInv, EndOfFormat PROVE IInv'
  OBVIOUS
<1>1. /\ pc = "format" /\ fmt = <<>> /\ pc' = "idle"
      /\ UNCHANGED <<port, framebuffer, faults, late, todo, fmt, ap, color, expected, str, cx,
                     stores, cursor_x, cursor_y, mem, out>>
  BY DEF EndOfFormat, machine, panic_vars, call_vars, pty_vars, cursor
<1>2. DataInv /\ TextInv /\ StaysInside
  BY DEF IInv
<1>3. PICK call, k, codes, texts :
        call \in Calls(port) /\ AtPart(call, k, codes, texts)
  BY <1>1, <1>2 DEF TextInv, Busy
<1>4. k = Len(call.parts)
  <2> SUFFICES ASSUME k # Len(call.parts) PROVE FALSE
    OBVIOUS
  <2>1. /\ call.parts[k + 1] \in Parts /\ codes[k + 1] \in Seq(Symbols)
        /\ fmt = Encoded(call.parts[k + 1]) \o codes[k + 1]
    BY <1>2, <1>3, NextPart
  <2>2. fmt # <<>>
    BY <2>1, FirstCharacters
  <2>3. QED  BY <1>1, <2>2
<1>5. texts[k] = <<>>
  BY <1>2, <1>3, <1>4, NextPart
<1>6. expected = (out \o <<>>) \o <<>>
  BY <1>1, <1>3, <1>5 DEF AtPart, Pending
<1>7. expected = out
  <2>1. out \in Seq(Text) /\ out \o <<>> = out
    BY <1>2, ConcatEmptySeq DEF DataInv
  <2>2. QED  BY <1>6, <2>1
<1>8. TextInv'
  BY <1>1, <1>7 DEF TextInv, Busy
<1>9. DataInv'
  BY <1>1, <1>2 DEF DataInv
<1>10. StaysInside'
  BY <1>1, <1>2, SameScreen
<1>11. QED  BY <1>8, <1>9, <1>10 DEF IInv

\* The loop of pty_putstr puts out a character: it is the next on its way.
LEMMA BeginStep ==
  ASSUME IInv, NEW next \in {"newline", "glyph"}, Begin(next),
         cx' \in 0 .. FONT_WIDTH, stores' \subseteq {"x", "y"}
  PROVE  IInv'
<1>1. /\ pc = "string" /\ str # <<>> /\ pc' = next
      /\ out' = Append(out, [char |-> Head(str), color |-> color])
      /\ UNCHANGED <<port, framebuffer, faults, late, todo, fmt, ap, color, expected, str,
                     cursor_x, cursor_y, mem>>
  BY DEF Begin, machine, panic_vars, call_vars, cursor
<1>2. DataInv /\ TextInv /\ StaysInside
  BY DEF IInv
<1> DEFINE t == [char |-> Head(str), color |-> color]
           rest == Colored(Tail(str), color)
<1>3. out \in Seq(Text) /\ str \in Seq(Chars) /\ color \in Codes
  BY <1>2 DEF DataInv
<1>4. t \in Text /\ rest \in Seq(Text) /\ Colored(str, color) = <<t>> \o rest
  BY <1>1, <1>3, ColoredHead
<1>5. Pending = Colored(str, color)
  BY <1>1 DEF Pending
<1>6. Pending' = rest
  BY <1>1 DEF Pending
<1>7. out' = Append(out, t)
  BY <1>1
<1> HIDE DEF t, rest
<1>8. out' = out \o <<t>> /\ out' \in Seq(Text) /\ <<t>> \in Seq(Text)
  BY <1>3, <1>4, <1>7, AppendIsConcat, AppendProperties
<1>9. (out \o <<t>>) \o rest = out \o (<<t>> \o rest)
  BY <1>3, <1>4, <1>8, ConcatAssociative
<1>10. (out \o Pending)' = out \o Pending
  BY <1>4, <1>5, <1>6, <1>8, <1>9
<1>11. TextInv'
  <2>1. pc \in Busy /\ pc' \in Busy
    BY <1>1 DEF Busy
  <2>2. QED  BY <1>1, <1>2, <1>10, <2>1, SameText
<1>12. DataInv'
  BY <1>1, <1>2, <1>8 DEF DataInv
<1>13. StaysInside'
  BY <1>1, <1>2, SameScreen
<1>14. QED  BY <1>11, <1>12, <1>13 DEF IInv

LEMMA BeginNewlineStep == IInv /\ BeginNewline => IInv'
<1> SUFFICES ASSUME IInv, BeginNewline PROVE IInv'
  OBVIOUS
<1>1. Begin("newline") /\ stores' \subseteq {"x", "y"} /\ cx' = cx
  BY DEF BeginNewline
<1>2. cx' \in 0 .. FONT_WIDTH
  BY <1>1 DEF IInv, DataInv
<1>3. QED  BY <1>1, <1>2, BeginStep

LEMMA BeginGlyphStep == IInv /\ BeginGlyph => IInv'
<1> SUFFICES ASSUME IInv, BeginGlyph PROVE IInv'
  OBVIOUS
<1>1. Begin("glyph") /\ stores' = stores /\ cx' = 0
  BY DEF BeginGlyph
<1>2. cx' \in 0 .. FONT_WIDTH /\ stores' \subseteq {"x", "y"}
  BY <1>1, FontAssumption DEF IInv, DataInv
<1>3. QED  BY <1>1, <1>2, BeginStep

LEMMA EndOfStringStep == IInv /\ EndOfString => IInv'
<1> SUFFICES ASSUME IInv, EndOfString PROVE IInv'
  OBVIOUS
<1>1. /\ pc = "string" /\ str = <<>> /\ pc' = "format"
      /\ UNCHANGED <<port, framebuffer, faults, late, todo, fmt, ap, color, expected, str,
                     cx, stores, cursor_x, cursor_y, mem, out>>
  BY DEF EndOfString, machine, panic_vars, call_vars, pty_vars, cursor
<1>2. DataInv /\ TextInv /\ StaysInside
  BY DEF IInv
<1>3. Pending = <<>>
  <2>1. Pending = Colored(<<>>, color)
    BY <1>1 DEF Pending
  <2>2. color \in Codes /\ <<>> \in Seq(Chars)
    BY <1>2 DEF DataInv
  <2>3. Colored(<<>>, color) \in Seq(Text) /\ Len(Colored(<<>>, color)) = Len(<<>>)
    BY <2>2, ColoredIn
  <2>4. QED  BY <2>1, <2>3, EmptySeq
<1>4. Pending' = <<>>
  BY <1>1 DEF Pending
<1>5. TextInv'
  <2>1. pc \in Busy /\ pc' \in Busy
    BY <1>1 DEF Busy
  <2>2. (out \o Pending)' = out \o Pending
    BY <1>1, <1>3, <1>4
  <2>3. QED  BY <1>1, <1>2, <2>1, <2>2, SameText
<1>6. DataInv'
  BY <1>1, <1>2 DEF DataInv
<1>7. StaysInside'
  BY <1>1, <1>2, SameScreen
<1>8. QED  BY <1>5, <1>6, <1>7 DEF IInv

LEMMA NewlineStep == IInv /\ Newline => IInv'
<1> SUFFICES ASSUME IInv, Newline PROVE IInv'
  OBVIOUS
<1>1. PICK s \in stores : newline(s) /\ stores' = stores \ {s}
  BY DEF Newline
<1>2. /\ pc = "newline"
      /\ UNCHANGED <<port, framebuffer, faults, late, pc, todo, fmt, ap, color, expected, str,
                     cx, mem, out>>
  BY DEF Newline, machine, panic_vars, call_vars
<1>3. DataInv /\ TextInv /\ StaysInside
  BY DEF IInv
<1>4. cursor_x' \in Nat /\ cursor_y' \in Nat
  <2>1. cursor_x \in Nat /\ cursor_y \in Nat /\ FONT_HEIGHT \in Nat
    BY <1>3, FontAssumption DEF DataInv
  <2>2. QED  BY <1>1, <2>1 DEF newline
<1>5. TextInv'
  <2>1. pc \in Busy /\ pc' \in Busy
    BY <1>2 DEF Busy
  <2>2. (out \o Pending)' = out \o Pending
    BY <1>2 DEF Pending
  <2>3. QED  BY <1>2, <1>3, <2>1, <2>2, SameText
<1>6. DataInv'
  BY <1>1, <1>2, <1>3, <1>4 DEF DataInv
<1>7. StaysInside'
  BY <1>2, <1>3, SameScreen
<1>8. QED  BY <1>5, <1>6, <1>7 DEF IInv

\* The character that has been put out is the first of the string: it is passed.
LEMMA Passed ==
  ASSUME IInv, pc \in {"newline", "glyph"}, pc' = "string", str' = Tail(str),
         UNCHANGED <<port, framebuffer, faults, late, todo, fmt, ap, color, expected,
                     cx, stores, mem, out>>,
         cursor_x' \in Nat, cursor_y' \in Nat
  PROVE  IInv'
<1>1. DataInv /\ TextInv /\ StaysInside
  BY DEF IInv
<1>2. str # <<>> /\ str \in Seq(Chars)
  BY <1>1 DEF DataInv
<1>3. str' \in Seq(Chars)
  BY <1>2, HeadTailProperties
<1>4. TextInv'
  <2>1. pc \in Busy /\ pc' \in Busy
    BY DEF Busy
  <2>2. Pending' = Pending
    BY DEF Pending
  <2>3. (out \o Pending)' = out \o Pending
    BY <2>2
  <2>4. QED  BY <1>1, <2>1, <2>3, SameText
<1>5. DataInv'
  BY <1>1, <1>3 DEF DataInv
<1>6. StaysInside'
  BY <1>1, SameScreen
<1>7. QED  BY <1>4, <1>5, <1>6 DEF IInv

LEMMA EndOfLineStep == IInv /\ EndOfLine => IInv'
<1> SUFFICES ASSUME IInv, EndOfLine PROVE IInv'
  OBVIOUS
<1>1. /\ pc = "newline" /\ pc' = "string" /\ str' = Tail(str)
      /\ UNCHANGED <<port, framebuffer, faults, late, todo, fmt, ap, color, expected,
                     cx, stores, mem, out, cursor_x, cursor_y>>
  BY DEF EndOfLine, machine, panic_vars, call_vars, cursor
<1>2. cursor_x' \in Nat /\ cursor_y' \in Nat
  BY <1>1 DEF IInv, DataInv
<1>3. QED  BY <1>1, <1>2, Passed

LEMMA AdvanceStep == IInv /\ Advance => IInv'
<1> SUFFICES ASSUME IInv, Advance PROVE IInv'
  OBVIOUS
<1>1. /\ pc = "glyph" /\ pc' = "string" /\ str' = Tail(str)
      /\ cursor_x' = cursor_x + FONT_WIDTH
      /\ UNCHANGED <<port, framebuffer, faults, late, todo, fmt, ap, color, expected,
                     cx, stores, mem, out, cursor_y>>
  BY DEF Advance, machine, panic_vars, call_vars
<1>2. cursor_x' \in Nat /\ cursor_y' \in Nat
  BY <1>1, FontAssumption DEF IInv, DataInv
<1>3. QED  BY <1>1, <1>2, Passed

LEMMA PaintColumnStep == IInv /\ PaintColumn => IInv'
<1> SUFFICES ASSUME IInv, PaintColumn PROVE IInv'
  OBVIOUS
<1>1. /\ pc = "glyph" /\ cx < FONT_WIDTH /\ cx' = cx + 1
      /\ UNCHANGED <<port, framebuffer, faults, late, pc, todo, fmt, ap, color, expected, str,
                     stores, cursor_x, cursor_y, out>>
  BY DEF PaintColumn, machine, panic_vars, call_vars, cursor
<1>2. DataInv /\ TextInv /\ StaysInside
  BY DEF IInv
<1>3. cx' \in 0 .. FONT_WIDTH
  BY <1>1, <1>2, FontAssumption DEF DataInv
<1>4. TextInv'
  <2>1. pc \in Busy /\ pc' \in Busy
    BY <1>1 DEF Busy
  <2>2. (out \o Pending)' = out \o Pending
    BY <1>1 DEF Pending
  <2>3. QED  BY <1>1, <1>2, <2>1, <2>2, SameText
<1>5. DataInv'
  BY <1>1, <1>2, <1>3 DEF DataInv
<1>6. StaysInside'
  BY <1>2, PaintStaysInside
<1>7. QED  BY <1>4, <1>5, <1>6 DEF IInv

LEMMA NoFramebufferStep == IInv /\ NoFramebuffer => IInv'
<1> SUFFICES ASSUME IInv, NoFramebuffer PROVE IInv'
  OBVIOUS
<1>1. /\ pc' = "fault"
      /\ UNCHANGED <<port, framebuffer, faults, late, todo, fmt, ap, color, expected, str,
                     cx, stores, cursor_x, cursor_y, mem, out>>
  BY DEF NoFramebuffer, machine, panic_vars, call_vars, pty_vars, cursor
<1>2. DataInv /\ TextInv /\ StaysInside
  BY DEF IInv
<1>3. TextInv'
  BY <1>1 DEF TextInv, Busy
<1>4. DataInv'
  BY <1>1, <1>2 DEF DataInv
<1>5. StaysInside'
  BY <1>1, <1>2, SameScreen
<1>6. QED  BY <1>3, <1>4, <1>5 DEF IInv

\* An exception drops what was being printed, and its panic starts anew.
LEMMA ExceptionStep == IInv /\ Exception => IInv'
<1> SUFFICES ASSUME IInv, Exception PROVE IInv'
  OBVIOUS
<1>1. /\ faults > 0 /\ faults' = faults - 1 /\ late' = 2 /\ pc' = "idle"
      /\ todo' = PanicLog(ExceptionMessage(port))
      /\ fmt' = <<>> /\ ap' = <<>> /\ color' = PRINTK_DEFAULT_FG /\ str' = <<>>
      /\ cx' = FONT_WIDTH /\ stores' = {} /\ out' = <<>> /\ expected' = <<>>
      /\ UNCHANGED <<port, framebuffer, cursor_x, cursor_y, mem>>
  BY DEF Exception, machine, cursor
<1>2. DataInv /\ TextInv /\ StaysInside
  BY DEF IInv
<1>3. todo' \in Seq(Calls(port'))
  <2>1. port \in {"amd64", "aarch64"} /\ port' = port
    BY <1>1, <1>2 DEF DataInv
  <2>2. QED  BY <1>1, <2>1, PanicCalls
<1>4. TextInv'
  BY <1>1 DEF TextInv, Busy
<1>5. DataInv'
  <2>1. color' \in Codes
    BY <1>1 DEF Codes, PRINTK_DEFAULT_FG
  <2>2. faults' \in Nat /\ late' \in Nat /\ cx' \in 0 .. FONT_WIDTH
    BY <1>1, <1>2, FontAssumption DEF DataInv
  <2>3. <<>> \in Seq(Text) /\ <<>> \in Seq(Chars) /\ <<>> \in Seq(Seq(Chars))
    OBVIOUS
  <2>4. QED  BY <1>1, <1>2, <1>3, <2>1, <2>2, <2>3 DEF DataInv
<1>6. StaysInside'
  BY <1>1, <1>2, SameScreen
<1>7. QED  BY <1>4, <1>5, <1>6 DEF IInv

LEMMA NoStep == IInv /\ UNCHANGED vars => IInv'
<1> SUFFICES ASSUME IInv, UNCHANGED vars PROVE IInv'
  OBVIOUS
<1>1. UNCHANGED <<port, framebuffer, faults, late, pc, todo, fmt, ap, color, expected, str,
                  cx, stores, cursor_x, cursor_y, mem, out>>
  BY DEF vars, machine, panic_vars, call_vars, pty_vars, cursor
<1>2. DataInv /\ TextInv /\ StaysInside
  BY DEF IInv
<1>3. TextInv'
  <2>1. Pending' = Pending
    BY <1>1 DEF Pending
  <2>2. CASE pc = "idle"
    BY <1>1, <1>2, <2>2 DEF TextInv, Busy
  <2>3. CASE pc \in Busy
    <3>1. pc' \in Busy /\ (out \o Pending)' = out \o Pending
      BY <1>1, <2>1, <2>3
    <3>2. QED  BY <1>1, <1>2, <2>3, <3>1, SameText
  <2>4. CASE pc \notin Busy \cup {"idle"}
    BY <1>1, <2>4 DEF TextInv
  <2>5. QED  BY <2>2, <2>3, <2>4
<1>4. DataInv'
  BY <1>1, <1>2 DEF DataInv
<1>5. StaysInside'
  BY <1>1, <1>2, SameScreen
<1>6. QED  BY <1>3, <1>4, <1>5 DEF IInv

LEMMA NextStep == IInv /\ [Next]_vars => IInv'
<1> SUFFICES ASSUME IInv, [Next]_vars PROVE IInv'
  OBVIOUS
<1>1. CASE Printk \/ Escape \/ Conversion \/ Unconverted \/ Plain \/ EndOfFormat
  BY <1>1, PrintkStep, EscapeStep, ConversionStep, UnconvertedStep, PlainStep, EndOfFormatStep
<1>2. CASE BeginNewline \/ Newline \/ EndOfLine \/ EndOfString
  BY <1>2, BeginNewlineStep, NewlineStep, EndOfLineStep, EndOfStringStep
<1>3. CASE BeginGlyph \/ PaintColumn \/ Advance \/ NoFramebuffer
  BY <1>3, BeginGlyphStep, PaintColumnStep, AdvanceStep, NoFramebufferStep
<1>4. CASE Exception
  BY <1>4, ExceptionStep
<1>5. CASE UNCHANGED vars
  BY <1>5, NoStep
<1>6. QED  BY <1>1, <1>2, <1>3, <1>4, <1>5 DEF Next, Kernel

LEMMA Inductive == Spec => []IInv
BY InitInv, NextStep, PTL DEF Spec

------------------------------------------------------------------------------
(* Where the characters belong. *)

Spots == Nat \X Nat

LEMMA AfterIs ==
  ASSUME NEW place \in Spots, NEW t
  PROVE  /\ After(place, t) \in Spots
         /\ t.char = "nl" => After(place, t)[1] = 0 /\ After(place, t)[2] = place[2] + FONT_HEIGHT
         /\ t.char # "nl" => After(place, t)[1] = place[1] + FONT_WIDTH /\ After(place, t)[2] = place[2]
<1>1. FONT_WIDTH \in Nat /\ FONT_HEIGHT \in Nat
  BY FontAssumption
<1>2. place[1] \in Nat /\ place[2] \in Nat
  BY DEF Spots
<1>3. 0 \in Nat /\ place[1] + FONT_WIDTH \in Nat /\ place[2] + FONT_HEIGHT \in Nat
  BY <1>1, <1>2
<1>4. QED  BY <1>2, <1>3 DEF After, Spots

LEMMA PlacesAre ==
  ASSUME NEW start \in Spots, NEW n \in Nat, NEW text, Len(text) = n
  PROVE  /\ PlacesOf(start, text) \in [1 .. (n + 1) -> Spots]
         /\ PlacesOf(start, text)[1] = start
         /\ \A k \in 1 .. n :
              PlacesOf(start, text)[k + 1] = After(PlacesOf(start, text)[k], text[k])
<1> DEFINE step == [k \in 1 .. n |-> [s \in Spots |-> After(s, text[k])]]
<1>1. step \in [1 .. n -> [Spots -> Spots]]
  BY AfterIs
<1>2. \A k \in 1 .. n, s \in Spots : step[k][s] = After(s, text[k])
  OBVIOUS
<1>3. StepsIn(Spots, n, step)
  BY <1>1 DEF StepsIn
<1> HIDE DEF step
<1>4. PICK g : Follows(g, Spots, n, start, step)
  BY <1>3, Recursion
<1>5. /\ g \in [0 .. n -> Spots] /\ g[0] = start
      /\ \A k \in 1 .. n : g[k] = step[k][g[k - 1]]
  BY <1>4 DEF Follows
<1>6. ASSUME NEW k \in 1 .. n
      PROVE  g[k] = After(g[k - 1], text[k])
  <2>1. g[k - 1] \in Spots
    BY <1>5
  <2>2. QED  BY <1>2, <1>5, <2>1
<1> DEFINE Is(h) == h = [k \in 1 .. (n + 1) |->
                           IF k = 1 THEN start ELSE After(h[k - 1], text[k - 1])]
           f == [k \in 1 .. (n + 1) |-> g[k - 1]]
<1>7. ASSUME NEW k \in 1 .. (n + 1)
      PROVE  f[k] = IF k = 1 THEN start ELSE After(f[k - 1], text[k - 1])
  <2>1. CASE k = 1
    BY <1>5, <2>1
  <2>2. CASE k # 1
    <3>1. k - 1 \in 1 .. n /\ k - 1 \in 1 .. (n + 1)
      BY <2>2
    <3>2. f[k] = g[k - 1] /\ f[k - 1] = g[(k - 1) - 1]
      BY <3>1
    <3>3. g[k - 1] = After(g[(k - 1) - 1], text[k - 1])
      BY <1>6, <3>1
    <3>4. QED  BY <2>2, <3>2, <3>3
  <2>3. QED  BY <2>1, <2>2
<1>8. Is(f)
  BY <1>7
<1>9. PlacesOf(start, text) = CHOOSE h : Is(h)
  BY DEF PlacesOf
<1> HIDE DEF Is, f
<1>10. Is(PlacesOf(start, text))
  BY <1>8, <1>9
<1> DEFINE h == PlacesOf(start, text)
<1>11. h = [k \in 1 .. (n + 1) |-> IF k = 1 THEN start ELSE After(h[k - 1], text[k - 1])]
  BY <1>10 DEF Is
<1> HIDE DEF h
<1>12. \A k \in 1 .. (n + 1) : h[k] = IF k = 1 THEN start ELSE After(h[k - 1], text[k - 1])
  BY <1>11, Zenon
<1>13. h[1] = start
  <2>1. 1 \in 1 .. (n + 1)
    OBVIOUS
  <2>2. QED  BY <1>12, <2>1
<1>14. ASSUME NEW k \in 1 .. n
       PROVE  h[k + 1] = After(h[k], text[k])
  <2>1. k + 1 \in 1 .. (n + 1) /\ k + 1 # 1 /\ (k + 1) - 1 = k
    OBVIOUS
  <2>2. QED  BY <1>12, <2>1
<1>15. \A k \in 1 .. (n + 1) : h[k] \in Spots
  <2> DEFINE Bad == {k \in 1 .. (n + 1) : h[k] \notin Spots}
  <2> SUFFICES ASSUME Bad # {} PROVE FALSE
    OBVIOUS
  <2>1. Bad \in SUBSET Nat
    OBVIOUS
  <2>2. PICK k \in Bad : \A m \in Bad : k <= m
    BY <2>1, LeastNatural
  <2>3. k # 1
    BY <1>13, <2>2
  <2>4. k - 1 \in 1 .. n /\ k - 1 \in 1 .. (n + 1) /\ (k - 1) + 1 = k /\ k - 1 \notin Bad
    BY <2>2, <2>3
  <2>5. h[k - 1] \in Spots
    BY <2>4
  <2>6. h[(k - 1) + 1] = After(h[k - 1], text[k - 1])
    BY <1>14, <2>4
  <2>7. h[k] \in Spots
    BY <2>4, <2>5, <2>6, AfterIs
  <2>8. QED  BY <2>2, <2>7
<1>16. h \in [1 .. (n + 1) -> Spots]
  BY <1>11, <1>15
<1>17. QED  BY <1>13, <1>14, <1>16 DEF h

\* A further character leaves the places before it as they are.
LEMMA PlacesKept ==
  ASSUME NEW start \in Spots, NEW n \in Nat, NEW text, Len(text) = n,
         NEW longer, Len(longer) = n + 1, \A k \in 1 .. n : longer[k] = text[k]
  PROVE  \A k \in 1 .. (n + 1) : PlacesOf(start, longer)[k] = PlacesOf(start, text)[k]
<1> DEFINE p == PlacesOf(start, text)
           q == PlacesOf(start, longer)
<1>1. p[1] = start /\ \A k \in 1 .. n : p[k + 1] = After(p[k], text[k])
  BY PlacesAre
<1>2. q[1] = start /\ \A k \in 1 .. (n + 1) : q[k + 1] = After(q[k], longer[k])
  <2>1. PICK m \in Nat : m = n + 1
    OBVIOUS
  <2>2. Len(longer) = m
    BY <2>1
  <2>3. q[1] = start
    BY <2>2, PlacesAre
  <2>4. \A k \in 1 .. m : q[k + 1] = After(q[k], longer[k])
    BY <2>2, PlacesAre
  <2>5. QED  BY <2>1, <2>3, <2>4
<1> HIDE DEF p, q
<1> DEFINE Bad == {k \in 1 .. (n + 1) : q[k] # p[k]}
<1>3. Bad = {}
  <2> SUFFICES ASSUME Bad # {} PROVE FALSE
    OBVIOUS
  <2>1. Bad \in SUBSET Nat
    OBVIOUS
  <2>2. PICK k \in Bad : \A m \in Bad : k <= m
    BY <2>1, LeastNatural
  <2>3. k # 1
    BY <1>1, <1>2, <2>2
  <2>4. k - 1 \in 1 .. n /\ k - 1 \in 1 .. (n + 1) /\ (k - 1) + 1 = k /\ k - 1 \notin Bad
    BY <2>2, <2>3
  <2>5. q[k - 1] = p[k - 1] /\ longer[k - 1] = text[k - 1]
    BY <2>4
  <2>6. p[(k - 1) + 1] = After(p[k - 1], text[k - 1])
    BY <1>1, <2>4
  <2>7. q[(k - 1) + 1] = After(q[k - 1], longer[k - 1])
    BY <1>2, <2>4
  <2>8. q[k] = p[k]
    BY <2>4, <2>5, <2>6, <2>7
  <2>9. QED  BY <2>2, <2>8
<1>4. \A k \in 1 .. (n + 1) : q[k] = p[k]
  BY <1>3
<1>5. QED  BY <1>4 DEF p, q

\* What comes after a glyph lies right of it on its line, or below it.
Clear(p, q) == \/ q[2] >= p[2] + FONT_HEIGHT
               \/ q[2] = p[2] /\ q[1] >= p[1] + FONT_WIDTH

LEMMA PlacesApart ==
  ASSUME NEW start \in Spots, NEW n \in Nat, NEW text, Len(text) = n,
         NEW j \in 1 .. n, text[j].char # "nl"
  PROVE  \A k \in (j + 1) .. (n + 1) : Clear(PlacesOf(start, text)[j], PlacesOf(start, text)[k])
<1> DEFINE p == PlacesOf(start, text)
<1>1. /\ p \in [1 .. (n + 1) -> Spots]
      /\ \A k \in 1 .. n : p[k + 1] = After(p[k], text[k])
  <2>1. p \in [1 .. (n + 1) -> Spots]
    BY PlacesAre
  <2>2. \A k \in 1 .. n : p[k + 1] = After(p[k], text[k])
    BY PlacesAre
  <2>3. QED  BY <2>1, <2>2
<1> HIDE DEF p
<1>2. j \in 1 .. (n + 1) /\ p[j] \in Spots
  BY <1>1
<1>3. PICK x \in Nat, y \in Nat : p[j][1] = x /\ p[j][2] = y
  BY <1>2 DEF Spots
<1>4. FONT_WIDTH \in Nat /\ FONT_HEIGHT \in Nat
  BY FontAssumption
<1> DEFINE Bad == {k \in (j + 1) .. (n + 1) : ~Clear(p[j], p[k])}
<1>5. Bad = {}
  <2> SUFFICES ASSUME Bad # {} PROVE FALSE
    OBVIOUS
  <2>1. Bad \in SUBSET Nat
    OBVIOUS
  <2>2. PICK k \in Bad : \A m \in Bad : k <= m
    BY <2>1, LeastNatural
  <2>3. k \in (j + 1) .. (n + 1) /\ ~Clear(p[j], p[k])
    BY <2>2
  <2>4. k - 1 \in 1 .. n /\ k - 1 \in 1 .. (n + 1) /\ (k - 1) + 1 = k
    BY <2>3
  <2>5. p[k] = After(p[k - 1], text[k - 1]) /\ p[k - 1] \in Spots
    <3>1. p[(k - 1) + 1] = After(p[k - 1], text[k - 1])
      BY <1>1, <2>4
    <3>2. QED  BY <1>1, <2>4, <3>1
  <2>6. PICK a \in Nat, b \in Nat : p[k - 1][1] = a /\ p[k - 1][2] = b
    BY <2>5 DEF Spots
  <2>7. /\ text[k - 1].char = "nl" => p[k][2] = b + FONT_HEIGHT
        /\ text[k - 1].char # "nl" => p[k][1] = a + FONT_WIDTH /\ p[k][2] = b
    <3>1. PICK s, t : s \in Spots /\ s = p[k - 1] /\ t = text[k - 1] /\ p[k] = After(s, t)
      BY <2>5
    <3>2. s[1] = a /\ s[2] = b
      BY <2>6, <3>1
    <3>3. t.char = "nl" => After(s, t)[2] = s[2] + FONT_HEIGHT
      BY <3>1, AfterIs
    <3>4. t.char # "nl" => After(s, t)[1] = s[1] + FONT_WIDTH /\ After(s, t)[2] = s[2]
      BY <3>1, AfterIs
    <3>5. QED  BY <3>1, <3>2, <3>3, <3>4
  <2>8. CASE k - 1 = j
    BY <1>3, <1>4, <2>3, <2>6, <2>7, <2>8 DEF Clear
  <2>9. CASE k - 1 # j
    <3>1. k - 1 \in (j + 1) .. (n + 1) /\ ~(k <= k - 1)
      BY <2>3, <2>9
    <3>2. Clear(p[j], p[k - 1])
      BY <2>2, <3>1
    <3>3. b >= y + FONT_HEIGHT \/ (b = y /\ a >= x + FONT_WIDTH)
      BY <1>3, <2>6, <3>2 DEF Clear
    <3>4. CASE text[k - 1].char = "nl"
      <4>1. p[k][2] = b + FONT_HEIGHT
        BY <2>7, <3>4
      <4>2. b + FONT_HEIGHT >= y + FONT_HEIGHT
        BY <1>3, <1>4, <2>6, <3>3
      <4>3. QED  BY <1>3, <2>3, <4>1, <4>2 DEF Clear
    <3>5. CASE text[k - 1].char # "nl"
      <4>1. p[k][1] = a + FONT_WIDTH /\ p[k][2] = b
        BY <2>7, <3>5
      <4>2. a + FONT_WIDTH >= a
        BY <1>4
      <4>3. b >= y + FONT_HEIGHT \/ (b = y /\ a + FONT_WIDTH >= x + FONT_WIDTH)
        BY <1>3, <1>4, <2>6, <3>3, <4>2
      <4>4. QED  BY <1>3, <2>3, <4>1, <4>3 DEF Clear
    <3>6. QED  BY <3>4, <3>5
  <2>10. QED  BY <2>8, <2>9
<1>6. \A k \in (j + 1) .. (n + 1) : Clear(p[j], p[k])
  BY <1>5
<1>7. QED  BY <1>6 DEF p

------------------------------------------------------------------------------
(* Pixels and words. *)

LEMMA PixelIs ==
  ASSUME NEW p \in Screen, IsFramebuffer(framebuffer)
  PROVE  p[1] \in Nat /\ p[2] \in Nat /\ OnScreen(p[1], p[2]) /\ p = <<p[1], p[2]>>
BY DEF Screen, OnScreen, IsFramebuffer

\* The display reads the word that get_index gives for a pixel.
LEMMA ShownIs ==
  ASSUME NEW p \in Screen, IsFramebuffer(framebuffer), NEW memory
  PROVE  Shown(memory, p[1], p[2]) =
           IF get_index(p[1], p[2]) \in DOMAIN memory THEN memory[get_index(p[1], p[2])] ELSE NULL
<1>1. framebuffer.pitch \in Nat /\ (framebuffer.pitch % 4) = 0
  BY DEF IsFramebuffer
<1>2. PICK x \in Nat, y \in Nat : x = p[1] /\ y = p[2]
  BY PixelIs
<1>3. PICK pitch \in Nat : pitch = framebuffer.pitch /\ (pitch % 4) = 0
  BY <1>1
<1>4. PICK w \in Nat : w = pitch \div 4 /\ pitch = 4 * w
  <2>1. pitch \div 4 \in Nat /\ pitch = 4 * (pitch \div 4)
    BY <1>3, Z3
  <2>2. QED  BY <2>1
<1>5. (y * pitch + 4 * x) \div 4 = x + y * w
  <2>1. y * w \in Nat /\ x + y * w \in Nat
    BY Z3
  <2>2. PICK q \in Nat : q = x + y * w
    BY <2>1
  <2>3. (0 + q * 4) \div 4 = q
    <3>1. 0 \in 0 .. (4 - 1) /\ 4 \in Nat \ {0}
      OBVIOUS
    <3>2. QED  BY <3>1, DivUnique
  <2>4. y * pitch + 4 * x = 0 + q * 4
    BY <1>4, <2>2, Z3
  <2>5. QED  BY <2>2, <2>3, <2>4
<1>6. get_index(p[1], p[2]) = x + y * w
  BY <1>2, <1>3, <1>4 DEF get_index
<1>7. (p[2] * framebuffer.pitch + 4 * p[1]) \div 4 = get_index(p[1], p[2])
  BY <1>2, <1>3, <1>5, <1>6
<1>8. QED  BY <1>7 DEF Shown

\* No two pixels share a word.
LEMMA OneWord ==
  ASSUME IsFramebuffer(framebuffer), NEW x \in Nat, NEW y \in Nat, OnScreen(x, y),
         NEW v \in Nat, NEW z \in Nat, OnScreen(v, z), get_index(x, y) = get_index(v, z)
  PROVE  x = v /\ y = z
BY WordInside

\* The entry of the font that belongs to a column of a character's glyph.
LEMMA EntryOf ==
  ASSUME NEW c \in Chars, c # "nl", NEW k \in 0 .. (FONT_WIDTH - 1)
  PROVE  DEFAULT_FONT_DATA(CodeOf[c] * FONT_WIDTH + k) = [glyph |-> c, column |-> k]
<1>1. DOMAIN Printable \subseteq Nat \ {0}
  <2>1. DOMAIN Printable = 1 .. 95
    BY DEF Printable
  <2>2. QED  BY <2>1
<1>2. \E i \in DOMAIN Printable : Printable[i] = c
  BY DEF Chars
<1>3. PICK i \in DOMAIN Printable : Printable[i] = c /\ CodeOf[c] = i - 1
  BY <1>2 DEF CodeOf
<1>4. i \in Nat /\ i # 0 /\ FONT_WIDTH \in Nat \ {0}
  BY <1>1, <1>3, FontAssumption
<1>5. PICK q \in Nat : q = i - 1 /\ q + 1 = i
  BY <1>4
<1>6. (k + q * FONT_WIDTH) \div FONT_WIDTH = q /\ (k + q * FONT_WIDTH) % FONT_WIDTH = k
  BY <1>4, <1>5, DivUnique
<1>7. CodeOf[c] * FONT_WIDTH + k = k + q * FONT_WIDTH
  <2>1. CodeOf[c] = q /\ q * FONT_WIDTH \in Nat /\ k \in Nat
    BY <1>3, <1>4, <1>5
  <2>2. QED  BY <2>1
<1>8. QED  BY <1>3, <1>5, <1>6, <1>7 DEF DEFAULT_FONT_DATA

\* Painting a column changes the pixels of that column, and no other.
LEMMA PaintedPixels ==
  ASSUME DataInv, PaintColumn, framebuffer # NULL, Head(str) # "nl", NEW p \in Screen
  PROVE  Shown(mem', p[1], p[2]) =
           IF p[1] = cursor_x + cx /\ p[2] - cursor_y \in 0 .. (FONT_HEIGHT - 1)
           THEN Dot([glyph |-> Head(str), column |-> cx], p[2] - cursor_y, color)
           ELSE Shown(mem, p[1], p[2])
<1> DEFINE X == cursor_x + cx
           rows == {cy \in 0 .. (FONT_HEIGHT - 1) : OnScreen(X, cursor_y + cy)}
           words == {get_index(X, cursor_y + cy) : cy \in rows}
           RowOf(i) == CHOOSE cy \in rows : get_index(X, cursor_y + cy) = i
           entry == DEFAULT_FONT_DATA(CodeOf[Head(str)] * FONT_WIDTH + cx)
<1>1. /\ IsFramebuffer(framebuffer) /\ cursor_x \in Nat /\ cursor_y \in Nat
      /\ cx \in 0 .. (FONT_WIDTH - 1) /\ FONT_HEIGHT \in Nat \ {0} /\ pc = "glyph"
      /\ str \in Seq(Chars) /\ str # <<>>
  BY FontAssumption DEF DataInv, PaintColumn
<1>2. mem' = [i \in words \cup DOMAIN mem |->
                IF i \in words THEN Dot(entry, RowOf(i), color) ELSE mem[i]]
  BY DEF PaintColumn
<1>3. X \in Nat
  BY <1>1
<1>4. entry = [glyph |-> Head(str), column |-> cx]
  <2>1. Head(str) \in Chars
    BY <1>1, HeadTailProperties
  <2>2. QED  BY <1>1, <2>1, EntryOf
<1> HIDE DEF entry
<1>5. PICK x \in Nat, y \in Nat : p[1] = x /\ p[2] = y /\ OnScreen(x, y)
  BY <1>1, PixelIs
<1> DEFINE i == get_index(x, y)
<1>6. Shown(mem, p[1], p[2]) = IF i \in DOMAIN mem THEN mem[i] ELSE NULL
  BY <1>1, <1>5, ShownIs
<1>7. Shown(mem', p[1], p[2]) = IF i \in DOMAIN mem' THEN mem'[i] ELSE NULL
  BY <1>1, <1>5, ShownIs
<1>8. ASSUME NEW cy \in rows, get_index(X, cursor_y + cy) = i
      PROVE  x = X /\ y = cursor_y + cy
  <2>1. cursor_y + cy \in Nat /\ OnScreen(X, cursor_y + cy)
    BY <1>1
  <2>2. QED  BY <1>1, <1>3, <1>5, <1>8, <2>1, OneWord
<1> HIDE DEF X, i
<1>9. CASE x = X /\ y - cursor_y \in 0 .. (FONT_HEIGHT - 1)
  <2>1. PICK cy \in 0 .. (FONT_HEIGHT - 1) : cy = y - cursor_y
    BY <1>9
  <2>2. cursor_y + cy = y
    BY <1>1, <1>5, <2>1
  <2>3. cy \in rows /\ get_index(X, cursor_y + cy) = i
    BY <1>5, <1>9, <2>2 DEF i
  <2>4. \A row \in rows : get_index(X, cursor_y + row) = i => row = cy
    <3>1. SUFFICES ASSUME NEW row \in rows, get_index(X, cursor_y + row) = i PROVE row = cy
      OBVIOUS
    <3>2. y = cursor_y + row
      BY <1>8, <3>1
    <3>3. row \in 0 .. (FONT_HEIGHT - 1)
      OBVIOUS
    <3>4. QED  BY <1>1, <2>2, <3>2, <3>3
  <2>5. RowOf(i) = cy
    BY <2>3, <2>4
  <2>6. i \in words
    BY <2>3
  <2> HIDE DEF words, rows, RowOf
  <2>7. i \in DOMAIN mem' /\ mem'[i] = Dot(entry, cy, color)
    BY <1>2, <2>5, <2>6
  <2>8. Shown(mem', p[1], p[2]) = Dot(entry, cy, color)
    BY <1>7, <2>7
  <2>9. p[1] = cursor_x + cx /\ p[2] - cursor_y = cy
    BY <1>5, <1>9, <2>1 DEF X
  <2>10. QED  BY <1>4, <2>8, <2>9
<1>10. CASE ~(x = X /\ y - cursor_y \in 0 .. (FONT_HEIGHT - 1))
  <2>1. i \notin words
    <3> SUFFICES ASSUME i \in words PROVE FALSE
      OBVIOUS
    <3>1. PICK cy \in rows : get_index(X, cursor_y + cy) = i
      OBVIOUS
    <3>2. x = X /\ y = cursor_y + cy
      BY <1>8, <3>1
    <3>3. cy \in 0 .. (FONT_HEIGHT - 1)
      OBVIOUS
    <3>4. y - cursor_y = cy
      BY <1>1, <3>2, <3>3
    <3>5. QED  BY <1>10, <3>2, <3>3, <3>4
  <2> HIDE DEF words, rows, RowOf
  <2>2. DOMAIN mem' = words \cup DOMAIN mem
    BY <1>2
  <2>3. i \in DOMAIN mem => mem'[i] = mem[i]
    BY <1>2, <2>1
  <2>4. Shown(mem', p[1], p[2]) = Shown(mem, p[1], p[2])
    BY <1>6, <1>7, <2>1, <2>2, <2>3
  <2>5. QED  BY <1>5, <1>10, <2>4 DEF X
<1>11. QED  BY <1>9, <1>10

------------------------------------------------------------------------------
(* The screen shows the text. *)

\* The cursor is where the next character belongs; while a glyph is painted it
\* is where that one belongs, and a line end takes it there one store at a time.
CursorInv ==
  LET n == Len(out)
      places == PlacesOf(origin, out)
  IN  /\ origin \in Spots
      /\ pc # "glyph" => cx = FONT_WIDTH
      /\ pc \notin {"newline", "glyph"} => cursor = places[n + 1]
      /\ pc = "glyph" => /\ n > 0 /\ cursor = places[n]
                         /\ out[n] = [char |-> Head(str), color |-> color]
                         /\ Head(str) # "nl"
      /\ pc = "newline" =>
           /\ n > 0 /\ out[n].char = "nl"
           /\ cursor_x = IF "x" \in stores THEN places[n][1] ELSE 0
           /\ cursor_y = IF "y" \in stores THEN places[n][2] ELSE places[n][2] + FONT_HEIGHT

\* A glyph of a text, and a pixel that shows what it should.
GlyphAt(places, text, columns, k) ==
  [at |-> places[k], what |-> text[k], columns |-> IF k = Len(text) THEN columns ELSE FONT_WIDTH]
Right(memory, old, glyphs, p) ==
  /\ \A g \in glyphs : Covers(g, p) => Shown(memory, p[1], p[2]) = Want(g, p)
  /\ (\A g \in glyphs : ~Covers(g, p)) => Shown(memory, p[1], p[2]) = Shown(old, p[1], p[2])

LEMMA ScreenIs ==
  ASSUME ScreenShowsText, framebuffer # NULL
  PROVE  \A p \in Screen : Right(mem, base, Glyphs, p)
BY DEF ScreenShowsText, Right

LEMMA ScreenNext ==
  ASSUME framebuffer' = framebuffer,
         framebuffer # NULL => \A p \in Screen : Right(mem', base', Glyphs', p)
  PROVE  ScreenShowsText'
<1>1. Screen' = Screen
  BY DEF Screen
<1>2. QED  BY <1>1 DEF ScreenShowsText, Right, Shown

\* The glyphs of the text, one by one.
LEMMA GlyphsAre ==
  /\ \A g : g \in Glyphs <=> \E k \in DOMAIN out :
       out[k].char # "nl" /\ g = GlyphAt(PlacesOf(origin, out), out, cx, k)
  /\ \A g : g \in Glyphs' <=> \E k \in DOMAIN out' :
       out'[k].char # "nl" /\ g = GlyphAt(PlacesOf(origin', out'), out', cx', k)
BY DEF Glyphs, GlyphAt

LEMMA ScreenKept ==
  ASSUME ScreenShowsText, UNCHANGED <<framebuffer, mem, out, origin, base, cx>>
  PROVE  ScreenShowsText'
<1>1. Glyphs' = Glyphs
  BY DEF Glyphs
<1>2. framebuffer # NULL => \A p \in Screen : Right(mem', base', Glyphs', p)
  BY <1>1, ScreenIs
<1>3. QED  BY <1>2, ScreenNext

\* A character more: its glyph has no column yet, and those before it are complete.
LEMMA ScreenGrows ==
  ASSUME ScreenShowsText, out \in Seq(Text), NEW t, out' = Append(out, t), cx = FONT_WIDTH,
         origin \in Spots, UNCHANGED <<framebuffer, mem, origin, base>>,
         t.char = "nl" \/ cx' = 0
  PROVE  ScreenShowsText'
<1>1. PICK n \in Nat : n = Len(out) /\ DOMAIN out = 1 .. n
  BY LenProperties
<1>2. Len(out') = n + 1 /\ DOMAIN out' = 1 .. (n + 1) /\ out'[n + 1] = t
      /\ \A k \in 1 .. n : out'[k] = out[k]
  BY <1>1
<1> DEFINE P == PlacesOf(origin, out)
           Q == PlacesOf(origin', out')
<1>3. \A k \in 1 .. n : Q[k] = P[k]
  <2>1. \A k \in 1 .. (n + 1) : PlacesOf(origin, out')[k] = PlacesOf(origin, out)[k]
    <3>1. PICK start, text, longer : start \in Spots /\ start = origin /\ text = out /\ longer = out'
      OBVIOUS
    <3>2. start \in Spots /\ Len(text) = n /\ Len(longer) = n + 1
          /\ \A k \in 1 .. n : longer[k] = text[k]
      BY <1>1, <1>2, <3>1
    <3>3. \A k \in 1 .. (n + 1) : PlacesOf(start, longer)[k] = PlacesOf(start, text)[k]
      BY <3>2, PlacesKept
    <3>4. QED  BY <3>1, <3>3
  <2>2. QED  BY <2>1
<1> HIDE DEF P, Q
<1>4. ASSUME NEW k \in 1 .. n
      PROVE  GlyphAt(Q, out', cx', k) = GlyphAt(P, out, cx, k)
  <2>1. k # n + 1
    OBVIOUS
  <2>2. QED  BY <1>1, <1>2, <1>3, <2>1 DEF GlyphAt
<1>5. \A g : g \in Glyphs <=> \E k \in 1 .. n : out[k].char # "nl" /\ g = GlyphAt(P, out, cx, k)
  BY <1>1, GlyphsAre DEF P
<1>6. \A g : g \in Glyphs' <=>
        \E k \in 1 .. (n + 1) : out'[k].char # "nl" /\ g = GlyphAt(Q, out', cx', k)
  BY <1>2, GlyphsAre DEF Q
<1>7. \A g \in Glyphs : g \in Glyphs'
  <2> SUFFICES ASSUME NEW g \in Glyphs PROVE g \in Glyphs'
    OBVIOUS
  <2>1. PICK k \in 1 .. n : out[k].char # "nl" /\ g = GlyphAt(P, out, cx, k)
    BY <1>5
  <2>2. k \in 1 .. (n + 1) /\ out'[k] = out[k] /\ g = GlyphAt(Q, out', cx', k)
    BY <1>2, <1>4, <2>1
  <2>3. QED  BY <1>6, <2>1, <2>2
<1>8. ASSUME NEW g \in Glyphs', NEW p \in Screen, Covers(g, p)
      PROVE  g \in Glyphs
  <2>1. PICK k \in 1 .. (n + 1) : out'[k].char # "nl" /\ g = GlyphAt(Q, out', cx', k)
    BY <1>6
  <2>2. k # n + 1
    <3> SUFFICES ASSUME k = n + 1 PROVE FALSE
      OBVIOUS
    <3>1. out'[k] = t /\ cx' = 0
      BY <1>2, <2>1
    <3>2. g.columns = 0
      BY <1>2, <2>1, <3>1 DEF GlyphAt
    <3>3. p[1] - g.at[1] \in 0 .. (0 - 1)
      BY <1>8, <3>2 DEF Covers
    <3>4. QED  BY <3>3
  <2>3. k \in 1 .. n
    BY <2>2
  <2>4. out'[k] = out[k] /\ g = GlyphAt(P, out, cx, k)
    BY <1>2, <1>4, <2>1, <2>3
  <2>5. QED  BY <1>5, <2>1, <2>3, <2>4
<1>9. ASSUME framebuffer # NULL, NEW p \in Screen
      PROVE  Right(mem', base', Glyphs', p)
  <2>1. Right(mem, base, Glyphs, p)
    BY <1>9, ScreenIs
  <2>2. QED  BY <1>7, <1>8, <2>1 DEF Right
<1>10. QED  BY <1>9, ScreenNext

\* A column painted is one more of the last glyph, and hides nothing of the others.
LEMMA ScreenPainted ==
  ASSUME DataInv, CursorInv, ScreenShowsText, PaintColumn
  PROVE  ScreenShowsText'
<1>1. /\ pc = "glyph" /\ cx' = cx + 1 /\ cx < FONT_WIDTH
      /\ UNCHANGED <<framebuffer, out, origin, base>>
  BY DEF PaintColumn, machine, panic_vars, history
<1>2. /\ FONT_WIDTH \in Nat \ {0} /\ FONT_HEIGHT \in Nat \ {0} /\ cx \in Nat
      /\ cursor_x \in Nat /\ cursor_y \in Nat /\ out \in Seq(Text)
  BY FontAssumption DEF DataInv
<1>3. PICK n \in Nat : n = Len(out) /\ DOMAIN out = 1 .. n
  BY <1>2, LenProperties
<1> DEFINE P == PlacesOf(origin, out)
           t == out[n]
<1>4. /\ origin \in Spots /\ n > 0 /\ P[n] = cursor
      /\ t = [char |-> Head(str), color |-> color] /\ Head(str) # "nl"
  BY <1>1, <1>3 DEF CursorInv, Spots
<1>5. P[n][1] = cursor_x /\ P[n][2] = cursor_y
  BY <1>4 DEF cursor
<1>6. P \in [1 .. (n + 1) -> Spots]
  BY <1>3, <1>4, PlacesAre
<1>7. \A k \in 1 .. n : out[k].char # "nl" => \A m \in (k + 1) .. (n + 1) : Clear(P[k], P[m])
  BY <1>3, <1>4, PlacesApart
<1> HIDE DEF P, t
<1>8. t = out[n]
  BY DEF t
<1>9. \A g : g \in Glyphs <=> \E k \in 1 .. n : out[k].char # "nl" /\ g = GlyphAt(P, out, cx, k)
  BY <1>3, GlyphsAre DEF P
<1>10. \A g : g \in Glyphs' <=>
         \E k \in 1 .. n : out[k].char # "nl" /\ g = GlyphAt(P, out, cx + 1, k)
  BY <1>1, <1>3, GlyphsAre DEF P
<1>11. \A k \in 1 .. n : k # n => GlyphAt(P, out, cx + 1, k) = GlyphAt(P, out, cx, k)
  BY <1>3 DEF GlyphAt
<1> DEFINE old == GlyphAt(P, out, cx, n)
           new == GlyphAt(P, out, cx + 1, n)
<1>12. old \in Glyphs /\ new \in Glyphs'
  <2>1. n \in 1 .. n /\ out[n].char # "nl"
    BY <1>4, <1>8
  <2>2. QED  BY <1>9, <1>10, <2>1
<1>13. /\ old.at = P[n] /\ old.what = t /\ old.columns = cx
       /\ new.at = P[n] /\ new.what = t /\ new.columns = cx + 1
  BY <1>3, <1>8 DEF GlyphAt
<1> HIDE DEF old, new
<1>14. ASSUME framebuffer # NULL, NEW p \in Screen
       PROVE  Right(mem', base', Glyphs', p)
  <2>1. IsFramebuffer(framebuffer)
    BY <1>14 DEF DataInv
  <2>2. PICK x \in Nat, y \in Nat : p[1] = x /\ p[2] = y
    BY <2>1, PixelIs
  <2> DEFINE here == x = cursor_x + cx /\ y - cursor_y \in 0 .. (FONT_HEIGHT - 1)
  <2>3. Shown(mem', p[1], p[2]) =
          IF here THEN Dot([glyph |-> Head(str), column |-> cx], y - cursor_y, color)
          ELSE Shown(mem, p[1], p[2])
    BY <1>4, <1>14, <2>2, PaintedPixels
  <2>4. Right(mem, base, Glyphs, p)
    BY <1>14, ScreenIs
  <2> DEFINE row == y - cursor_y \in 0 .. (FONT_HEIGHT - 1)
  <2>5. Covers(new, p) <=> x - cursor_x \in 0 .. ((cx + 1) - 1) /\ row
    BY <1>5, <1>13, <2>2 DEF Covers
  <2>6. Covers(old, p) <=> x - cursor_x \in 0 .. (cx - 1) /\ row
    BY <1>5, <1>13, <2>2 DEF Covers
  <2>7. here => Covers(new, p)
    <3>1. here => x - cursor_x \in 0 .. ((cx + 1) - 1)
      BY <1>2
    <3>2. QED  BY <2>5, <3>1
  <2>8. Covers(new, p) => here \/ Covers(old, p)
    <3>1. x - cursor_x \in 0 .. ((cx + 1) - 1) => x = cursor_x + cx \/ x - cursor_x \in 0 .. (cx - 1)
      BY <1>2
    <3>2. QED  BY <2>5, <2>6, <3>1
  <2>9. Covers(old, p) => Covers(new, p) /\ ~here
    <3>1. x - cursor_x \in 0 .. (cx - 1) =>
            x - cursor_x \in 0 .. ((cx + 1) - 1) /\ x # cursor_x + cx
      BY <1>2
    <3>2. QED  BY <2>5, <2>6, <3>1
  <2>10. Want(new, p) = Want(old, p)
    BY <1>13 DEF Want
  <2>11. here => Shown(mem', p[1], p[2]) = Want(new, p)
    <3>1. Want(new, p) = Dot([glyph |-> t.char, column |-> x - cursor_x], y - cursor_y, t.color)
      BY <1>5, <1>13, <2>2 DEF Want
    <3>2. t.char = Head(str) /\ t.color = color
      BY <1>4
    <3>3. here => x - cursor_x = cx
      BY <1>2
    <3>4. QED  BY <2>3, <3>1, <3>2, <3>3
  <2>12. ASSUME NEW k \in 1 .. n, k # n, out[k].char # "nl", Covers(GlyphAt(P, out, cx, k), p)
         PROVE  ~here
    <3>1. P[k] \in Spots /\ Clear(P[k], P[n])
      BY <1>6, <1>7, <2>12
    <3>2. PICK a \in Nat, b \in Nat : P[k][1] = a /\ P[k][2] = b
      BY <3>1 DEF Spots
    <3>3. GlyphAt(P, out, cx, k).at = P[k] /\ GlyphAt(P, out, cx, k).columns = FONT_WIDTH
      BY <1>3, <2>12 DEF GlyphAt
    <3>4. x - a \in 0 .. (FONT_WIDTH - 1) /\ y - b \in 0 .. (FONT_HEIGHT - 1)
      BY <2>2, <2>12, <3>2, <3>3 DEF Covers
    <3>5. cursor_y >= b + FONT_HEIGHT \/ (cursor_y = b /\ cursor_x >= a + FONT_WIDTH)
      BY <1>5, <3>1, <3>2 DEF Clear
    <3>6. QED  BY <1>2, <3>4, <3>5
  <2> HIDE DEF here
  <2>13. ASSUME NEW g \in Glyphs', Covers(g, p)
         PROVE  Shown(mem', p[1], p[2]) = Want(g, p)
    <3>1. PICK k \in 1 .. n : out[k].char # "nl" /\ g = GlyphAt(P, out, cx + 1, k)
      BY <1>10
    <3>2. CASE k = n
      <4>1. g = new
        BY <3>1, <3>2 DEF new
      <4>2. CASE here
        BY <2>11, <4>1, <4>2
      <4>3. CASE ~here
        <5>1. Covers(old, p)
          BY <2>8, <2>13, <4>1, <4>3
        <5>2. Shown(mem, p[1], p[2]) = Want(old, p)
          BY <1>12, <2>4, <5>1 DEF Right
        <5>3. QED  BY <2>3, <2>10, <4>1, <4>3, <5>2
      <4>4. QED  BY <4>2, <4>3
    <3>3. CASE k # n
      <4>1. g = GlyphAt(P, out, cx, k) /\ g \in Glyphs
        BY <1>9, <1>11, <3>1, <3>3
      <4>2. ~here
        BY <2>12, <2>13, <3>1, <3>3, <4>1
      <4>3. Shown(mem, p[1], p[2]) = Want(g, p)
        BY <2>4, <2>13, <4>1 DEF Right
      <4>4. QED  BY <2>3, <4>2, <4>3
    <3>4. QED  BY <3>2, <3>3
  <2>14. ASSUME \A g \in Glyphs' : ~Covers(g, p)
         PROVE  Shown(mem', p[1], p[2]) = Shown(base', p[1], p[2])
    <3>1. ~Covers(new, p)
      BY <1>12, <2>14
    <3>2. ~here /\ ~Covers(old, p)
      BY <2>7, <2>9, <3>1
    <3>3. ASSUME NEW g \in Glyphs PROVE ~Covers(g, p)
      <4>1. PICK k \in 1 .. n : out[k].char # "nl" /\ g = GlyphAt(P, out, cx, k)
        BY <1>9
      <4>2. CASE k = n
        BY <3>2, <4>1, <4>2 DEF old
      <4>3. CASE k # n
        <5>1. g \in Glyphs'
          BY <1>10, <1>11, <4>1, <4>3
        <5>2. QED  BY <2>14, <5>1
      <4>4. QED  BY <4>2, <4>3
    <3>4. Shown(mem, p[1], p[2]) = Shown(base, p[1], p[2])
      BY <2>4, <3>3 DEF Right
    <3>5. QED  BY <1>1, <2>3, <3>2, <3>4
  <2>15. QED  BY <2>13, <2>14 DEF Right
<1>15. QED  BY <1>1, <1>14, ScreenNext

\* After an exception the screen is what the panic finds.
LEMMA ScreenStartsAnew ==
  ASSUME out' = <<>>, base' = mem', framebuffer' = framebuffer
  PROVE  ScreenShowsText'
<1>1. \A g \in Glyphs' : FALSE
  BY GlyphsAre
<1>2. \A p \in Screen : Right(mem', base', Glyphs', p)
  BY <1>1 DEF Right
<1>3. QED  BY <1>2, ScreenNext

------------------------------------------------------------------------------
(* The cursor. *)

\* The place after the last character.
LEMMA NextPlace ==
  ASSUME origin \in Spots, out \in Seq(Text), NEW n \in Nat \ {0}, n = Len(out)
  PROVE  /\ PlacesOf(origin, out)[n] \in Spots
         /\ PlacesOf(origin, out)[n + 1] = After(PlacesOf(origin, out)[n], out[n])
<1>1. n \in 1 .. n /\ n \in 1 .. (n + 1)
  OBVIOUS
<1>2. PlacesOf(origin, out) \in [1 .. (n + 1) -> Spots]
  BY PlacesAre
<1>3. \A k \in 1 .. n :
        PlacesOf(origin, out)[k + 1] = After(PlacesOf(origin, out)[k], out[k])
  BY PlacesAre
<1>4. QED  BY <1>1, <1>2, <1>3

LEMMA CursorKept ==
  ASSUME CursorInv, pc \notin {"newline", "glyph"}, pc' \notin {"newline", "glyph"},
         UNCHANGED <<out, origin, cursor_x, cursor_y, cx>>
  PROVE  CursorInv'
<1>1. cursor' = cursor /\ cursor = PlacesOf(origin, out)[Len(out) + 1] /\ pc # "glyph"
  BY DEF CursorInv, cursor
<1>2. origin \in Spots /\ cx = FONT_WIDTH
  BY <1>1 DEF CursorInv
<1>3. QED  BY <1>1, <1>2 DEF CursorInv

\* The next character is put out at the cursor.
LEMMA CursorBegins ==
  ASSUME DataInv, CursorInv, NEW next \in {"newline", "glyph"}, Begin(next),
         next = "newline" => Head(str) = "nl" /\ stores' = {"x", "y"} /\ cx' = cx,
         next = "glyph" => Head(str) # "nl"
  PROVE  CursorInv'
<1> DEFINE t == [char |-> Head(str), color |-> color]
<1>1. /\ pc = "string" /\ pc' = next /\ out' = Append(out, t)
      /\ UNCHANGED <<origin, cursor_x, cursor_y, str, color>>
  BY DEF Begin, panic_vars, history, cursor, call_vars
<1>2. PICK n \in Nat : n = Len(out) /\ out \in Seq(Text)
  BY LenProperties DEF DataInv
<1>3. /\ origin \in Spots /\ cx = FONT_WIDTH
      /\ cursor = PlacesOf(origin, out)[n + 1]
  BY <1>1, <1>2 DEF CursorInv, Spots
<1> HIDE DEF t
<1>4. Len(out') = n + 1 /\ out'[n + 1] = t /\ \A k \in 1 .. n : out'[k] = out[k]
  BY <1>1, <1>2
<1>5. PlacesOf(origin, out')[n + 1] = PlacesOf(origin, out)[n + 1]
  <2>1. PICK start, text, longer : start \in Spots /\ start = origin /\ text = out /\ longer = out'
    BY <1>3
  <2>2. start \in Spots /\ Len(text) = n /\ Len(longer) = n + 1
        /\ \A k \in 1 .. n : longer[k] = text[k]
    BY <1>2, <1>4, <2>1
  <2>3. \A k \in 1 .. (n + 1) : PlacesOf(start, longer)[k] = PlacesOf(start, text)[k]
    BY <2>2, PlacesKept
  <2>4. n + 1 \in 1 .. (n + 1)
    OBVIOUS
  <2>5. QED  BY <2>1, <2>3, <2>4
<1>6. Len(out') > 0 /\ cursor' = PlacesOf(origin', out')[Len(out')]
  BY <1>1, <1>2, <1>3, <1>4, <1>5 DEF cursor
<1>7. origin' \in Spots
  BY <1>1, <1>3 DEF Spots
<1>8. out'[Len(out')] = [char |-> Head(str'), color |-> color']
  BY <1>1, <1>4 DEF t
<1>9. CASE next = "glyph"
  BY <1>1, <1>6, <1>7, <1>8, <1>9 DEF CursorInv
<1>10. CASE next = "newline"
  <2>1. out'[Len(out')].char = "nl" /\ stores' = {"x", "y"} /\ cx' = FONT_WIDTH
    BY <1>1, <1>3, <1>8, <1>10
  <2>2. cursor_x' = PlacesOf(origin', out')[Len(out')][1]
        /\ cursor_y' = PlacesOf(origin', out')[Len(out')][2]
    BY <1>6 DEF cursor
  <2>3. QED  BY <1>1, <1>6, <1>7, <1>10, <2>1, <2>2 DEF CursorInv
<1>11. QED  BY <1>9, <1>10

LEMMA CursorNewline == DataInv /\ CursorInv /\ Newline => CursorInv'
<1> SUFFICES ASSUME DataInv, CursorInv, Newline PROVE CursorInv'
  OBVIOUS
<1>1. /\ pc = "newline" /\ UNCHANGED <<pc, origin, out, cx>>
  BY DEF Newline, panic_vars, history
<1>2. PICK s \in stores : newline(s) /\ stores' = stores \ {s}
  BY DEF Newline
<1>3. s \in {"x", "y"}
  BY <1>2 DEF DataInv
<1> DEFINE p == PlacesOf(origin, out)[Len(out)]
<1>4. /\ origin \in Spots /\ cx = FONT_WIDTH
      /\ Len(out) > 0 /\ out[Len(out)].char = "nl"
      /\ cursor_x = IF "x" \in stores THEN p[1] ELSE 0
      /\ cursor_y = IF "y" \in stores THEN p[2] ELSE p[2] + FONT_HEIGHT
  BY <1>1 DEF CursorInv
<1>5. /\ cursor_x' = IF "x" \in stores' THEN p[1] ELSE 0
      /\ cursor_y' = IF "y" \in stores' THEN p[2] ELSE p[2] + FONT_HEIGHT
  <2>1. CASE s = "x"
    BY <1>2, <1>4, <2>1 DEF newline
  <2>2. CASE s = "y"
    BY <1>2, <1>4, <2>2 DEF newline
  <2>3. QED  BY <1>3, <2>1, <2>2
<1>6. p' = p
  BY <1>1
<1>7. QED  BY <1>1, <1>4, <1>5, <1>6 DEF CursorInv

LEMMA CursorEndOfLine == DataInv /\ CursorInv /\ EndOfLine => CursorInv'
<1> SUFFICES ASSUME DataInv, CursorInv, EndOfLine PROVE CursorInv'
  OBVIOUS
<1>1. /\ pc = "newline" /\ pc' = "string" /\ stores = {}
      /\ UNCHANGED <<origin, out, cx, cursor_x, cursor_y>>
  BY DEF EndOfLine, panic_vars, history, cursor
<1>2. PICK n \in Nat : n = Len(out) /\ out \in Seq(Text)
  BY LenProperties DEF DataInv
<1> DEFINE p == PlacesOf(origin, out)[n]
<1>3. /\ origin \in Spots /\ cx = FONT_WIDTH /\ n > 0 /\ out[n].char = "nl"
      /\ cursor_x = 0 /\ cursor_y = p[2] + FONT_HEIGHT
  BY <1>1, <1>2 DEF CursorInv, Spots
<1>4. PlacesOf(origin, out)[n + 1] = After(p, out[n])
  BY <1>2, <1>3, NextPlace
<1>5. After(p, out[n]) = <<0, p[2] + FONT_HEIGHT>>
  BY <1>3 DEF After
<1>6. cursor' = PlacesOf(origin', out')[Len(out') + 1]
  BY <1>1, <1>2, <1>3, <1>4, <1>5 DEF cursor
<1>7. origin' \in Spots /\ cx' = FONT_WIDTH
  BY <1>1, <1>3 DEF Spots
<1>8. QED  BY <1>1, <1>6, <1>7 DEF CursorInv

LEMMA CursorAdvance == DataInv /\ CursorInv /\ Advance => CursorInv'
<1> SUFFICES ASSUME DataInv, CursorInv, Advance PROVE CursorInv'
  OBVIOUS
<1>1. /\ pc = "glyph" /\ pc' = "string" /\ cx = FONT_WIDTH
      /\ cursor_x' = cursor_x + FONT_WIDTH
      /\ UNCHANGED <<origin, out, cx, cursor_y>>
  BY DEF Advance, panic_vars, history
<1>2. PICK n \in Nat : n = Len(out) /\ out \in Seq(Text)
  BY LenProperties DEF DataInv
<1> DEFINE p == PlacesOf(origin, out)[n]
<1>3. /\ origin \in Spots /\ n > 0 /\ cursor = p
      /\ out[n] = [char |-> Head(str), color |-> color] /\ Head(str) # "nl"
  BY <1>1, <1>2 DEF CursorInv, Spots
<1>4. PlacesOf(origin, out)[n + 1] = After(p, out[n])
  BY <1>2, <1>3, NextPlace
<1>5. p[1] = cursor_x /\ p[2] = cursor_y
  BY <1>3 DEF cursor
<1>6. After(p, out[n]) = <<p[1] + FONT_WIDTH, p[2]>>
  BY <1>3 DEF After
<1>7. cursor' = PlacesOf(origin', out')[Len(out') + 1]
  BY <1>1, <1>2, <1>4, <1>5, <1>6 DEF cursor
<1>8. origin' \in Spots /\ cx' = FONT_WIDTH
  BY <1>1, <1>3 DEF Spots
<1>9. QED  BY <1>1, <1>7, <1>8 DEF CursorInv

LEMMA CursorPaint == CursorInv /\ PaintColumn => CursorInv'
<1> SUFFICES ASSUME CursorInv, PaintColumn PROVE CursorInv'
  OBVIOUS
<1>1. pc = "glyph" /\ UNCHANGED <<pc, origin, out, cursor_x, cursor_y, str, color>>
  BY DEF PaintColumn, panic_vars, history, cursor, call_vars
<1>2. /\ origin \in Spots
      /\ Len(out) > 0 /\ cursor = PlacesOf(origin, out)[Len(out)]
      /\ out[Len(out)] = [char |-> Head(str), color |-> color] /\ Head(str) # "nl"
  BY <1>1 DEF CursorInv
<1>3. cursor' = cursor
  BY <1>1 DEF cursor
<1>4. QED  BY <1>1, <1>2, <1>3 DEF CursorInv

\* A text starts at the cursor.
LEMMA CursorStarts ==
  ASSUME NEW x \in Nat, NEW y \in Nat
  PROVE  PlacesOf(<<x, y>>, <<>>)[Len(<<>>) + 1] = <<x, y>>
<1>1. <<x, y>> \in Spots /\ Len(<<>>) = 0
  BY DEF Spots
<1>2. PlacesOf(<<x, y>>, <<>>)[1] = <<x, y>>
  BY <1>1, PlacesAre
<1>3. QED  BY <1>1, <1>2

LEMMA CursorException == DataInv /\ CursorInv /\ Exception => CursorInv'
<1> SUFFICES ASSUME DataInv, Exception PROVE CursorInv'
  OBVIOUS
<1>1. /\ pc' = "idle" /\ out' = <<>> /\ cx' = FONT_WIDTH
      /\ origin' = <<cursor_x, cursor_y>>
      /\ UNCHANGED <<cursor_x, cursor_y>>
  BY DEF Exception, cursor
<1>2. cursor_x \in Nat /\ cursor_y \in Nat
  BY DEF DataInv
<1>3. cursor' = PlacesOf(origin', out')[Len(out') + 1]
  BY <1>1, <1>2, CursorStarts DEF cursor
<1>4. origin' \in Spots
  BY <1>1, <1>2 DEF Spots
<1>5. QED  BY <1>1, <1>3, <1>4 DEF CursorInv

------------------------------------------------------------------------------

\* The inductive invariant behind ScreenShowsText.
SInv == IInv /\ CursorInv /\ ScreenShowsText

LEMMA InitScreen == Init => SInv
<1> SUFFICES ASSUME Init PROVE SInv
  OBVIOUS
<1>1. /\ pc = "idle" /\ cx = FONT_WIDTH /\ cursor_x = 0 /\ cursor_y = 0 /\ mem = <<>>
      /\ out = <<>> /\ origin = <<0, 0>> /\ base = <<>>
  BY DEF Init
<1>2. CursorInv
  <2>1. cursor = PlacesOf(origin, out)[Len(out) + 1]
    BY <1>1, CursorStarts DEF cursor
  <2>2. origin \in Spots
    BY <1>1 DEF Spots
  <2>3. QED  BY <1>1, <2>1, <2>2 DEF CursorInv
<1>3. ScreenShowsText
  <2>1. Glyphs = {}
    BY <1>1 DEF Glyphs
  <2>2. QED  BY <1>1, <2>1 DEF ScreenShowsText
<1>4. QED  BY <1>2, <1>3, InitInv DEF SInv

LEMMA ScreenInductive == Spec => []SInv
<1>1. Init => SInv
  BY InitScreen
<1>2. SInv /\ [Next]_vars => SInv'
  <2> SUFFICES ASSUME SInv, [Next]_vars PROVE CursorInv' /\ ScreenShowsText'
    BY NextStep DEF SInv
  <2>1. DataInv /\ CursorInv /\ ScreenShowsText
    BY DEF SInv, IInv
  <2>2. CASE Printk \/ Escape \/ Conversion \/ Unconverted \/ Plain \/ EndOfFormat \/ EndOfString
             \/ NoFramebuffer
    <3>1. /\ pc \notin {"newline", "glyph"} /\ pc' \notin {"newline", "glyph"}
          /\ UNCHANGED <<framebuffer, mem, out, origin, base, cursor_x, cursor_y, cx>>
      BY <2>2 DEF Printk, Escape, Conversion, Unconverted, Plain, EndOfFormat, EndOfString,
                  NoFramebuffer, machine, panic_vars, history, pty_vars, cursor
    <3>2. QED  BY <2>1, <3>1, CursorKept, ScreenKept
  <2>3. CASE BeginNewline \/ BeginGlyph
    <3>1. PICK t : out' = Append(out, t) /\ (t.char = "nl" \/ cx' = 0)
      BY <2>3 DEF BeginNewline, BeginGlyph, Begin
    <3>2. /\ pc # "glyph" /\ UNCHANGED <<framebuffer, mem, origin, base>>
      BY <2>3 DEF BeginNewline, BeginGlyph, Begin, machine, panic_vars, history
    <3>3. cx = FONT_WIDTH /\ origin \in Spots /\ out \in Seq(Text)
      BY <2>1, <3>2 DEF CursorInv, Spots, DataInv
    <3>4. ScreenShowsText'
      BY <2>1, <3>1, <3>2, <3>3, ScreenGrows
    <3>5. CASE BeginNewline
      <4>1. Begin("newline") /\ Head(str) = "nl" /\ stores' = {"x", "y"} /\ cx' = cx
        BY <3>5 DEF BeginNewline
      <4>2. QED  BY <2>1, <3>4, <4>1, CursorBegins
    <3>6. CASE BeginGlyph
      <4>1. Begin("glyph") /\ Head(str) # "nl"
        BY <3>6 DEF BeginGlyph
      <4>2. QED  BY <2>1, <3>4, <4>1, CursorBegins
    <3>7. QED  BY <2>3, <3>5, <3>6
  <2>4. CASE Newline \/ EndOfLine \/ Advance
    <3>1. UNCHANGED <<framebuffer, mem, out, origin, base, cx>>
      BY <2>4 DEF Newline, EndOfLine, Advance, machine, panic_vars, history
    <3>2. QED  BY <2>1, <2>4, <3>1, ScreenKept, CursorNewline, CursorEndOfLine, CursorAdvance
  <2>5. CASE PaintColumn
    BY <2>1, <2>5, CursorPaint, ScreenPainted
  <2>6. CASE Exception
    <3>1. out' = <<>> /\ base' = mem' /\ framebuffer' = framebuffer
      BY <2>6 DEF Exception, machine
    <3>2. QED  BY <2>1, <2>6, <3>1, CursorException, ScreenStartsAnew
  <2>7. CASE UNCHANGED vars
    <3>1. UNCHANGED <<framebuffer, mem, out, origin, base, cx, pc, cursor_x, cursor_y, str, color,
                      stores>>
      BY <2>7 DEF vars, machine, panic_vars, history, call_vars, pty_vars, cursor
    <3>2. CursorInv'
      BY <2>1, <3>1 DEF CursorInv, cursor
    <3>3. QED  BY <2>1, <3>1, <3>2, ScreenKept
  <2>8. QED  BY <2>2, <2>3, <2>4, <2>5, <2>6, <2>7 DEF Next, Kernel
<1>3. QED  BY <1>1, <1>2, PTL DEF Spec

------------------------------------------------------------------------------

\* Every variable keeps its range, and whatever printk is asked to print on
\* either port, each character that pty_putch looks up has a glyph in the font
\* (pty/core.c:38-51), and each colour is one of printk.h.
THEOREM TypeCorrect == Spec => []TypeOK
<1>1. IInv => TypeOK
  <2> SUFFICES ASSUME IInv PROVE TypeOK
    OBVIOUS
  <2>1. DataInv
    BY DEF IInv
  <2>2. ToSet(out) \subseteq Text /\ ToSet(expected) \subseteq Text
    BY <2>1 DEF DataInv, ToSet
  <2>3. QED  BY <2>1, <2>2 DEF DataInv, TypeOK
<1>2. QED  BY <1>1, Inductive, PTL

\* Between calls what has been put out is what was asked for, for formats and
\* arguments of any length and exceptions in any number, on either port
\* (printk.c:146-190).
THEOREM AsAsked == Spec => []PrintedAsAsked
<1>1. IInv => PrintedAsAsked
  BY DEF IInv, TextInv, PrintedAsAsked
<1>2. QED  BY <1>1, Inductive, PTL

\* Nothing is written outside the screen, whatever its size, the size of a glyph
\* and the place of the cursor (fb.c:35-45).
THEOREM Inside == Spec => []StaysInside
<1>1. IInv => StaysInside
  BY DEF IInv
<1>2. QED  BY <1>1, Inductive, PTL

\* Whatever is printed, on a framebuffer and with glyphs of any size, and whenever
\* exceptions come, the screen shows the text so far, glyph by glyph as far as it
\* fits, over what was there before (pty/core.c:38-73, fb.c:29-45).
THEOREM ShowsText == Spec => []ScreenShowsText
<1>1. SInv => ScreenShowsText
  BY DEF SInv
<1>2. QED  BY <1>1, ScreenInductive, PTL
==============================================================================
