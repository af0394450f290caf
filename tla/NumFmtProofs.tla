----------------------------- MODULE NumFmtProofs ------------------------------
(***************************************************************************)
(* For every size of the buffers and all numbers a buffer has room for:    *)
(* no index leaves the buffer, and the text returned reads back as the     *)
(* number, however the calls before it ended.                              *)
(*                                                                         *)
(* The digits are the remainders of the numbers that are left (Left), and  *)
(* reading them from the front goes back through these numbers one by one. *)
(***************************************************************************)
EXTENDS NumFmt, Arithmetic, TLAPS, SequenceTheorems

\* Left is what its definition says.
LEMMA LeftIs ==
  ASSUME NEW f \in Converters, NEW v \in Nat
  PROVE  /\ Left(f, v) \in [0 .. BufferSize -> Nat]
         /\ Left(f, v)[0] = v
         /\ \A n \in 1 .. BufferSize : Left(f, v)[n] = Left(f, v)[n - 1] \div Base(f)
<1> DEFINE step == [n \in 1 .. BufferSize |-> [a \in Nat |-> a \div Base(f)]]
<1>1. BufferSize \in Nat /\ Base(f) \in Nat \ {0}
  BY BufferAssumption DEF Base
<1>2. step \in [1 .. BufferSize -> [Nat -> Nat]]
  BY <1>1, DivBounds
<1>3. \A a \in Nat, n \in 1 .. BufferSize : step[n][a] = a \div Base(f)
  OBVIOUS
<1>4. StepsIn(Nat, BufferSize, step)
  BY <1>2 DEF StepsIn
<1> HIDE DEF step
<1>5. PICK g : Follows(g, Nat, BufferSize, v, step)
  BY <1>1, <1>4, Recursion
<1>6. g \in [0 .. BufferSize -> Nat]
      /\ g[0] = v /\ \A n \in 1 .. BufferSize : g[n] = step[n][g[n - 1]]
  BY <1>5 DEF Follows
<1>7. \A n \in 0 .. BufferSize : g[n] = IF n = 0 THEN v ELSE g[n - 1] \div Base(f)
  <2> SUFFICES ASSUME NEW n \in 0 .. BufferSize, n # 0
               PROVE  g[n] = g[n - 1] \div Base(f)
    BY <1>6
  <2>1. n \in 1 .. BufferSize /\ g[n - 1] \in Nat
    BY <1>1, <1>6
  <2>2. QED  BY <1>3, <1>6, <2>1
<1>8. g = [n \in 0 .. BufferSize |-> IF n = 0 THEN v ELSE g[n - 1] \div Base(f)]
  BY <1>6, <1>7
<1> DEFINE Is(h) == h = [n \in 0 .. BufferSize |-> IF n = 0 THEN v ELSE h[n - 1] \div Base(f)]
<1>9. \E h : Is(h)
  BY <1>8
<1>10. Left(f, v) = CHOOSE h : Is(h)
  BY DEF Left
<1> HIDE DEF Is
<1>11. Is(Left(f, v))
  BY <1>9, <1>10
<1> DEFINE l == Left(f, v)
<1>12. l = [n \in 0 .. BufferSize |-> IF n = 0 THEN v ELSE l[n - 1] \div Base(f)]
  BY <1>11 DEF Is
<1> HIDE DEF l
<1>13. l[0] = v /\ \A n \in 1 .. BufferSize : l[n] = l[n - 1] \div Base(f)
  <2>1. \A n \in 0 .. BufferSize : l[n] = IF n = 0 THEN v ELSE l[n - 1] \div Base(f)
    BY <1>12, Zenon
  <2>2. 0 \in 0 .. BufferSize /\ \A n \in 1 .. BufferSize : n \in 0 .. BufferSize /\ n # 0
    BY <1>1
  <2>3. QED  BY <2>1, <2>2, Zenon
<1>14. \A n \in 0 .. BufferSize : l[n] \in Nat
  <2> DEFINE Bad == {n \in 0 .. BufferSize : l[n] \notin Nat}
  <2> SUFFICES ASSUME Bad # {} PROVE FALSE
    OBVIOUS
  <2>1. Bad \in SUBSET Nat
    OBVIOUS
  <2>2. PICK n \in Bad : \A k \in Bad : n <= k
    BY <2>1, LeastNatural
  <2>3. n # 0 /\ n \in 1 .. BufferSize /\ n - 1 \in 0 .. BufferSize /\ n - 1 \notin Bad
    BY <1>1, <1>13, <2>2
  <2>4. l[n - 1] \in Nat
    BY <2>3
  <2>5. l[n] \in Nat
    BY <1>1, <1>13, <2>3, <2>4, DivBounds
  <2>6. QED  BY <2>2, <2>5
<1>15. l \in [0 .. BufferSize -> Nat]
  BY <1>12, <1>14
<1>16. QED  BY <1>13, <1>15 DEF l

------------------------------------------------------------------------------

\* The two conversions and the room they have.
LEMMA ConverterFacts ==
  ASSUME NEW f \in Converters
  PROVE  /\ BufferSize \in Nat /\ 5 <= BufferSize /\ BufferSize <= 255
         /\ IF f = "hex2str" THEN Base(f) = 16 /\ Room(f) = BufferSize - 3
                             ELSE Base(f) = 10 /\ Room(f) = BufferSize - 1
BY BufferAssumption DEF Base, Room

\* What is left of a number callers pass.
LEMMA LeftFacts ==
  ASSUME NEW f \in Converters, NEW v \in Numbers
  PROVE  /\ v \in Nat /\ Left(f, v)[0] = v /\ Left(f, v)[Room(f)] = 0
         /\ \A n \in 0 .. BufferSize : Left(f, v)[n] \in Nat
         /\ \A n \in 0 .. (BufferSize - 1) : Left(f, v)[n + 1] = Left(f, v)[n] \div Base(f)
<1>1. v \in Nat /\ BufferSize \in Nat
  BY BufferAssumption
<1>2. /\ Left(f, v) \in [0 .. BufferSize -> Nat] /\ Left(f, v)[0] = v
      /\ \A n \in 1 .. BufferSize : Left(f, v)[n] = Left(f, v)[n - 1] \div Base(f)
  BY <1>1, LeftIs
<1>3. ASSUME NEW n \in 0 .. (BufferSize - 1)
      PROVE  Left(f, v)[n + 1] = Left(f, v)[n] \div Base(f)
  <2>1. n + 1 \in 1 .. BufferSize /\ (n + 1) - 1 = n
    BY <1>1
  <2>2. Left(f, v)[n + 1] = Left(f, v)[(n + 1) - 1] \div Base(f)
    BY <1>2, <2>1
  <2>3. QED  BY <2>1, <2>2
<1>4. QED  BY <1>1, <1>2, <1>3, RoomAssumption

\* Division by a base.
LEMMA BaseDivides ==
  ASSUME NEW f \in Converters, NEW a \in Nat
  PROVE  /\ a = Base(f) * (a \div Base(f)) + (a % Base(f))
         /\ a % Base(f) \in 0 .. (Base(f) - 1)
         /\ a \div Base(f) \in Nat /\ a \div Base(f) <= a
         /\ a < Base(f) <=> a \div Base(f) = 0
         /\ Base(f) - 1 \in 0 .. 15
<1>1. CASE Base(f) = 16
  BY <1>1
<1>2. CASE Base(f) = 10
  BY <1>2
<1>3. QED  BY <1>1, <1>2 DEF Base

\* What the buffers hold after text has been written at some position.
LEMMA PutEffect ==
  ASSUME TypeOK, NEW text, NEW at \in Nat
  PROVE  /\ \A k \in 0 .. (BufferSize - 1) :
              Put(text, at)[fn][k] = IF at <= k /\ k < at + Len(text) THEN text[k - at + 1]
                                                                   ELSE buffer[fn][k]
         /\ (\A k \in 1 .. Len(text) : text[k] \in 0 .. Nul) /\ Len(text) \in Nat =>
              Put(text, at) \in [Converters -> [0 .. (BufferSize - 1) -> 0 .. Nul]]
<1>1. fn \in Converters /\ buffer \in [Converters -> [0 .. (BufferSize - 1) -> 0 .. Nul]]
  BY DEF TypeOK
<1> DEFINE line == [k \in 0 .. (BufferSize - 1) |->
                      IF at <= k /\ k < at + Len(text) THEN text[k - at + 1] ELSE buffer[fn][k]]
<1>2. Put(text, at) = [buffer EXCEPT ![fn] = line]
  BY <1>1 DEF Put
<1>3. (\A k \in 1 .. Len(text) : text[k] \in 0 .. Nul) /\ Len(text) \in Nat =>
        line \in [0 .. (BufferSize - 1) -> 0 .. Nul]
  <2> SUFFICES ASSUME \A k \in 1 .. Len(text) : text[k] \in 0 .. Nul, Len(text) \in Nat,
                      NEW k \in 0 .. (BufferSize - 1)
               PROVE  line[k] \in 0 .. Nul
    OBVIOUS
  <2>1. at <= k /\ k < at + Len(text) => k - at + 1 \in 1 .. Len(text)
    OBVIOUS
  <2>2. QED  BY <1>1, <2>1
<1>4. Put(text, at)[fn] = line
  BY <1>1, <1>2
<1> HIDE DEF line
<1>5. (\A k \in 1 .. Len(text) : text[k] \in 0 .. Nul) /\ Len(text) \in Nat =>
        Put(text, at) \in [Converters -> [0 .. (BufferSize - 1) -> 0 .. Nul]]
  BY <1>1, <1>2, <1>3
<1>6. QED  BY <1>4, <1>5 DEF line

\* Reading the next state.
LEMMA PrimedText ==
  /\ Left(fn, arg)' = Left(fn', arg')
  /\ \A k, D : Backwards(k, D)' =
       CASE k < D -> Left(fn', arg')[k] % Base(fn') [] k = D -> X [] k = D + 1 -> 0
BY DEF Left, Backwards, Base

------------------------------------------------------------------------------

LEMMA InitInv == Init => IInv
<1> SUFFICES ASSUME Init PROVE IInv
  OBVIOUS
<1>1. BufferSize \in Nat /\ 0 \in 0 .. (BufferSize - 1)
  BY BufferAssumption
<1>2. TypeOK
  BY <1>1 DEF Init, TypeOK, Converters, Nul
<1>3. QED  BY <1>2 DEF Init, IInv, DigitsInv, ReverseInv

LEMMA CallStep ==
  ASSUME NEW f \in Converters, NEW v \in Numbers
  PROVE  IInv /\ Call(f, v) => IInv'
<1> SUFFICES ASSUME IInv, Call(f, v) PROVE IInv'
  OBVIOUS
<1>1. /\ fn' = f /\ arg' = v /\ number' = v /\ j' = 0 /\ pc' = "digits"
      /\ buffer' = IF v = 0 THEN [buffer EXCEPT ![f][0] = 0] ELSE buffer
      /\ i' = IF v = 0 THEN 1 ELSE 0
  BY DEF Call
<1>2. BufferSize \in Nat /\ 5 <= BufferSize /\ Room(f) \in Nat /\ 1 <= Room(f)
  BY ConverterFacts
<1>3. /\ v \in Nat /\ Left(f, v)[0] = v
      /\ v = 0 => Left(f, v)[1] = 0 /\ Left(f, v)[0] % Base(f) = 0
  <2>1. v \in Nat /\ Left(f, v)[0] = v /\ Left(f, v)[0 + 1] = Left(f, v)[0] \div Base(f)
    BY <1>2, LeftFacts
  <2>2. v = 0 => v \div Base(f) = 0 /\ v % Base(f) = 0
    BY DEF Base
  <2>3. QED  BY <2>1, <2>2
<1>4. buffer \in [Converters -> [0 .. (BufferSize - 1) -> 0 .. Nul]]
  BY DEF IInv, TypeOK
<1>5. TypeOK'
  <2>1. [buffer EXCEPT ![f][0] = 0] \in [Converters -> [0 .. (BufferSize - 1) -> 0 .. Nul]]
    BY <1>2, <1>4 DEF Nul
  <2>2. buffer' \in [Converters -> [0 .. (BufferSize - 1) -> 0 .. Nul]]
    BY <1>1, <1>4, <2>1
  <2>3. QED  BY <1>1, <1>2, <1>3, <2>2 DEF TypeOK
<1>6. DigitsInv'
  <2>1. v = 0 => buffer'[f][0] = 0
    BY <1>1, <1>2, <1>4
  <2>2. \A k \in 0 .. (i' - 1) : k = 0 /\ v = 0
    BY <1>1
  <2>3. \A k \in 0 .. (i' - 1) : buffer'[f][k] = Left(f, v)[k] % Base(f)
    BY <1>3, <2>1, <2>2
  <2>4. number' = Left(f, v)[i']
    BY <1>1, <1>3
  <2>5. v # 0 => \A k \in 0 .. (i' - 1) : Left(f, v)[k] > 0
    BY <2>2
  <2>6. i' \in 0 .. Room(f)
    BY <1>1, <1>2
  <2>7. QED
    BY <1>1, <2>3, <2>4, <2>5, <2>6, PrimedText DEF DigitsInv, Base, Room
<1>7. ReverseInv'
  BY <1>1 DEF ReverseInv
<1>8. QED  BY <1>5, <1>6, <1>7 DEF IInv

\* One digit more: as the last of all divisions leaves 0, there is room for it.
LEMMA DigitStep == IInv /\ Digit => IInv'
<1> SUFFICES ASSUME IInv, Digit PROVE IInv'
  OBVIOUS
<1> USE DEF IInv
<1>1. /\ UNCHANGED <<pc, fn, arg, j, faults>> /\ pc = "digits" /\ number > 0
      /\ buffer' = Put(<<number % Base(fn)>>, i)
      /\ number' = number \div Base(fn) /\ i' = (i + 1) % 256
  BY DEF Digit, MoreDigits, Rest
<1>2. /\ arg \in Numbers /\ i \in 0 .. Room(fn) /\ j = 0
      /\ number = Left(fn, arg)[i]
      /\ \A k \in 0 .. (i - 1) : buffer[fn][k] = Left(fn, arg)[k] % Base(fn)
      /\ arg # 0 => \A k \in 0 .. (i - 1) : Left(fn, arg)[k] > 0
  BY <1>1 DEF DigitsInv
<1>3. /\ fn \in Converters /\ number \in 0 .. arg /\ i \in 0 .. (BufferSize - 1)
      /\ j \in 0 .. (BufferSize - 1)
  BY DEF TypeOK
<1>4. /\ BufferSize \in Nat /\ BufferSize <= 255 /\ Room(fn) \in Nat
      /\ Room(fn) <= BufferSize - 1
  BY <1>3, ConverterFacts
<1>5. arg \in Nat /\ number \in Nat /\ Left(fn, arg)[Room(fn)] = 0
      /\ Left(fn, arg)[i + 1] = number \div Base(fn)
  BY <1>2, <1>3, LeftFacts
<1>6. i # Room(fn)
  BY <1>1, <1>2, <1>5
<1>7. i' = i + 1 /\ i + 1 \in 0 .. Room(fn) /\ i + 1 \in 0 .. (BufferSize - 1)
  BY <1>1, <1>2, <1>3, <1>4, <1>6
<1>8. /\ number % Base(fn) \in 0 .. 15 /\ number' \in 0 .. arg
      /\ number' = Left(fn, arg)[i + 1]
  <2>1. /\ number % Base(fn) \in 0 .. (Base(fn) - 1) /\ Base(fn) - 1 \in 0 .. 15
        /\ number \div Base(fn) \in Nat /\ number \div Base(fn) <= number
    BY <1>3, <1>5, BaseDivides
  <2>2. QED  BY <1>1, <1>3, <1>5, <2>1
<1> DEFINE text == <<number % Base(fn)>>
<1>9. Len(text) = 1 /\ text[1] = number % Base(fn)
  OBVIOUS
<1>10. /\ \A k \in 0 .. (BufferSize - 1) :
            buffer'[fn][k] = IF i <= k /\ k < i + 1 THEN text[k - i + 1] ELSE buffer[fn][k]
       /\ buffer' \in [Converters -> [0 .. (BufferSize - 1) -> 0 .. Nul]]
  <2>1. i \in Nat /\ \A k \in 1 .. 1 : text[k] \in 0 .. Nul
    BY <1>3, <1>8, <1>9 DEF Nul
  <2> HIDE DEF text
  <2>2. QED  BY <1>1, <1>9, <2>1, PutEffect DEF text
<1> HIDE DEF text
<1>11. TypeOK'
  BY <1>1, <1>7, <1>8, <1>10 DEF TypeOK
<1>12. DigitsInv'
  <2>1. ASSUME NEW k \in 0 .. i
        PROVE  buffer'[fn][k] = Left(fn, arg)[k] % Base(fn) /\ Left(fn, arg)[k] > 0
    <3>1. k \in 0 .. (BufferSize - 1) /\ arg # 0
      BY <1>1, <1>3, <1>4
    <3>2. CASE k = i
      <4>1. i <= k /\ k < i + 1 /\ k - i + 1 = 1
        BY <1>3, <3>2
      <4>2. QED  BY <1>1, <1>2, <1>9, <1>10, <3>1, <3>2, <4>1
    <3>3. CASE k # i
      <4>1. k \in 0 .. (i - 1) /\ ~(i <= k)
        BY <1>3, <3>3
      <4>2. QED  BY <1>2, <1>10, <3>1, <4>1
    <3>4. QED  BY <3>2, <3>3
  <2>2. arg # 0
    BY <1>1, <1>3
  <2>3. \A k \in 0 .. (i' - 1) : k \in 0 .. i
    BY <1>3, <1>7
  <2>4. QED
    BY <1>1, <1>2, <1>7, <1>8, <2>1, <2>2, <2>3, PrimedText DEF DigitsInv, Base, Room
<1>13. ReverseInv'
  BY <1>1 DEF ReverseInv
<1>14. QED  BY <1>11, <1>12, <1>13

\* The last digit has been taken: what is written behind it, and where the text
\* ends.
LEMMA TerminateEffect ==
  ASSUME IInv, Terminate
  PROVE  LET L == i' + 1
             D == IF fn = "hex2str" THEN L - 2 ELSE L
             least == IF fn = "hex2str" THEN 2 ELSE 1
         IN  /\ i' \in 0 .. (BufferSize - 1) /\ L \in 1 .. (BufferSize - 1)
             /\ D \in least .. Room(fn)
             /\ Left(fn, arg)[D] = 0
             /\ D > least => Left(fn, arg)[D - 1] > 0
             /\ buffer' \in [Converters -> [0 .. (BufferSize - 1) -> 0 .. Nul]]
             /\ buffer'[fn][L] = Nul
             /\ \A k \in 0 .. (L - 1) : buffer'[fn][k] = Backwards(k, D)
<1> USE DEF IInv
<1>1. pc = "digits" /\ ~(number > 0) /\ buffer' = Put(Prefix \o <<Nul>>, i)
      /\ i' = i + Len(Prefix) - 1
  BY DEF Terminate, MoreDigits
<1>2. /\ arg \in Numbers /\ i \in 0 .. Room(fn) /\ j = 0
      /\ number = Left(fn, arg)[i]
      /\ \A k \in 0 .. (i - 1) : buffer[fn][k] = Left(fn, arg)[k] % Base(fn)
      /\ arg = 0 => i = 1
      /\ arg # 0 => \A k \in 0 .. (i - 1) : Left(fn, arg)[k] > 0
  BY <1>1 DEF DigitsInv
<1>3. fn \in Converters /\ number \in 0 .. arg /\ i \in 0 .. (BufferSize - 1)
  BY DEF TypeOK
<1>4. /\ BufferSize \in Nat /\ 5 <= BufferSize
      /\ IF fn = "hex2str" THEN Base(fn) = 16 /\ Room(fn) = BufferSize - 3
                           ELSE Base(fn) = 10 /\ Room(fn) = BufferSize - 1
  BY <1>3, ConverterFacts
<1>5. /\ arg \in Nat /\ Left(fn, arg)[0] = arg
      /\ Left(fn, arg)[1] = arg \div Base(fn) /\ Left(fn, arg)[2] = Left(fn, arg)[1] \div Base(fn)
      /\ arg < Base(fn) <=> arg \div Base(fn) = 0
  <2>1. 0 \in 0 .. (BufferSize - 1) /\ 1 \in 0 .. (BufferSize - 1)
    BY <1>4
  <2>2. Left(fn, arg)[0 + 1] = Left(fn, arg)[0] \div Base(fn)
        /\ Left(fn, arg)[1 + 1] = Left(fn, arg)[1] \div Base(fn)
    BY <1>2, <1>3, <2>1, LeftFacts
  <2>3. arg \in Nat /\ Left(fn, arg)[0] = arg
    BY <1>2, <1>3, LeftFacts
  <2>4. QED  BY <1>3, <2>2, <2>3, BaseDivides
<1>6. number = 0 /\ Left(fn, arg)[i] = 0
  BY <1>1, <1>2, <1>3, <1>5
<1>7. i # 0
  BY <1>2, <1>5, <1>6
<1>8. arg < Base(fn) => i = 1
  <2> SUFFICES ASSUME arg < Base(fn), arg # 0, i # 1 PROVE FALSE
    BY <1>2
  <2>1. 1 \in 0 .. (i - 1)
    BY <1>3, <1>7
  <2>2. QED  BY <1>2, <1>5, <2>1
<1>9. ~(arg < Base(fn)) => i # 1
  BY <1>5, <1>6
<1>10. i > 1 => Left(fn, arg)[i - 1] > 0
  <2>1. i > 1 => i - 1 \in 0 .. (i - 1) /\ arg # 0
    BY <1>2, <1>3
  <2>2. QED  BY <1>2, <2>1
<1> DEFINE text == Prefix \o <<Nul>>
<1>11. /\ fn = "hex2str" /\ arg < 16 =>
            /\ Len(Prefix) = 3 /\ Len(text) = 4
            /\ text[1] = 0 /\ text[2] = X /\ text[3] = 0 /\ text[4] = Nul
       /\ fn = "hex2str" /\ ~(arg < 16) =>
            /\ Len(Prefix) = 2 /\ Len(text) = 3
            /\ text[1] = X /\ text[2] = 0 /\ text[3] = Nul
       /\ fn # "hex2str" =>
            Len(Prefix) = 0 /\ Len(text) = 1 /\ text[1] = Nul
  <2>1. CASE fn = "hex2str" /\ arg < 16
    <3>1. Prefix = <<0>> \o <<X, 0>>
      BY <2>1 DEF Prefix
    <3>2. QED  BY <2>1, <3>1
  <2>2. CASE fn = "hex2str" /\ ~(arg < 16)
    <3>1. Prefix = <<X, 0>>
      BY <2>2 DEF Prefix
    <3>2. QED  BY <2>2, <3>1
  <2>3. CASE fn # "hex2str"
    <3>1. Prefix = <<>>
      BY <2>3 DEF Prefix
    <3>2. QED  BY <2>3, <3>1
  <2>4. QED  BY <2>1, <2>2, <2>3
<1> HIDE DEF text
<1>12. Len(text) = Len(Prefix) + 1 /\ Len(text) \in Nat
       /\ \A k \in 1 .. Len(text) : text[k] \in 0 .. Nul
  <2>1. CASE fn = "hex2str" /\ arg < 16
    <3>1. Len(Prefix) = 3 /\ Len(text) = 4
      BY <1>11, <2>1
    <3>2. text[1] \in 0 .. Nul /\ text[2] \in 0 .. Nul /\ text[3] \in 0 .. Nul /\ text[4] \in 0 .. Nul
      BY <1>11, <2>1 DEF X, Nul
    <3>3. \A k \in 1 .. 4 : text[k] \in 0 .. Nul
      BY <3>2
    <3>4. QED  BY <3>1, <3>3
  <2>2. CASE fn = "hex2str" /\ ~(arg < 16)
    <3>1. Len(Prefix) = 2 /\ Len(text) = 3
      BY <1>11, <2>2
    <3>2. text[1] \in 0 .. Nul /\ text[2] \in 0 .. Nul /\ text[3] \in 0 .. Nul
      BY <1>11, <2>2 DEF X, Nul
    <3>3. \A k \in 1 .. 3 : text[k] \in 0 .. Nul
      BY <3>2
    <3>4. QED  BY <3>1, <3>3
  <2>3. CASE fn # "hex2str"
    <3>1. Len(Prefix) = 0 /\ Len(text) = 1
      BY <1>11, <2>3
    <3>2. text[1] \in 0 .. Nul
      BY <1>11, <2>3 DEF Nul
    <3>3. QED  BY <3>1, <3>2
  <2>4. QED  BY <2>1, <2>2, <2>3
<1>13. /\ \A k \in 0 .. (BufferSize - 1) :
            buffer'[fn][k] = IF i <= k /\ k < i + Len(text) THEN text[k - i + 1]
                                                            ELSE buffer[fn][k]
       /\ buffer' \in [Converters -> [0 .. (BufferSize - 1) -> 0 .. Nul]]
  <2>1. i \in Nat
    BY <1>3
  <2>2. buffer' = Put(text, i)
    BY <1>1 DEF text
  <2>3. QED  BY <1>12, <2>1, <2>2, PutEffect
<1>14. \A k \in 0 .. (i - 1) : buffer'[fn][k] = Left(fn, arg)[k] % Base(fn)
  <2>1. \A k \in 0 .. (i - 1) : k \in 0 .. (BufferSize - 1) /\ ~(i <= k)
    BY <1>3, <1>4
  <2>2. QED  BY <1>2, <1>13, <2>1
<1>15. CASE fn = "hex2str" /\ arg < 16
  <2>1. i = 1 /\ i' = 3 /\ Len(text) = 4
    <3>1. i = 1 /\ Len(Prefix) = 3 /\ Len(text) = 4
      BY <1>4, <1>8, <1>11, <1>15
    <3>2. QED  BY <1>1, <3>1
  <2>2. buffer'[fn][1] = 0 /\ buffer'[fn][2] = X /\ buffer'[fn][3] = 0 /\ buffer'[fn][4] = Nul
    <3>1. \A k \in 1 .. 4 : k \in 0 .. (BufferSize - 1) /\ 1 <= k /\ k < 1 + 4 /\ k - 1 + 1 = k
      BY <1>4
    <3>2. \A k \in 1 .. 4 : buffer'[fn][k] = text[k - 1 + 1]
      BY <1>13, <2>1, <3>1
    <3>3. \A k \in 1 .. 4 : buffer'[fn][k] = text[k]
      BY <3>1, <3>2
    <3>4. QED  BY <1>11, <1>15, <3>3
  <2>3. Left(fn, arg)[1] = 0 /\ Left(fn, arg)[2] = 0 /\ 0 % Base(fn) = 0
    BY <1>4, <1>5, <1>6, <1>15, <2>1
  <2>4. buffer'[fn][0] = Left(fn, arg)[0] % Base(fn)
    BY <1>14, <2>1
  <2>5. \A k \in 0 .. 3 : k \in {0, 1, 2, 3}
    OBVIOUS
  <2>6. \A k \in 0 .. 3 : buffer'[fn][k] = Backwards(k, 2)
    BY <2>2, <2>3, <2>4, <2>5 DEF Backwards
  <2>7. QED  BY <1>4, <1>13, <1>15, <2>1, <2>2, <2>3, <2>6
<1>16. CASE fn = "hex2str" /\ ~(arg < 16)
  <2>1. i > 1 /\ i' = i + 1 /\ Len(text) = 3
    <3>1. i # 0 /\ i # 1 /\ Len(Prefix) = 2 /\ Len(text) = 3
      BY <1>4, <1>7, <1>9, <1>11, <1>16
    <3>2. QED  BY <1>1, <1>3, <3>1
  <2>2. i + 2 \in 0 .. (BufferSize - 1)
    BY <1>2, <1>3, <1>4, <1>16
  <2>3. buffer'[fn][i] = X /\ buffer'[fn][i + 1] = 0 /\ buffer'[fn][i + 2] = Nul
    <3>1. i \in 0 .. (BufferSize - 1) /\ i + 1 \in 0 .. (BufferSize - 1)
          /\ i - i + 1 = 1 /\ (i + 1) - i + 1 = 2 /\ (i + 2) - i + 1 = 3
      BY <1>3, <1>4, <2>2
    <3>2. buffer'[fn][i] = text[i - i + 1] /\ buffer'[fn][i + 1] = text[(i + 1) - i + 1]
          /\ buffer'[fn][i + 2] = text[(i + 2) - i + 1]
      BY <1>3, <1>13, <2>1, <2>2, <3>1
    <3>3. QED  BY <1>11, <1>16, <3>1, <3>2
  <2>4. \A k \in 0 .. (i + 1) : k \in 0 .. (i - 1) \/ k = i \/ k = i + 1
    BY <1>3
  <2>5. \A k \in 0 .. (i + 1) : buffer'[fn][k] = Backwards(k, i)
    BY <1>3, <1>14, <2>3, <2>4 DEF Backwards
  <2>6. i' + 1 = i + 2 /\ (i' + 1) - 2 = i /\ (i' + 1) - 1 = i + 1
    BY <1>3, <2>1
  <2>7. /\ i' \in 0 .. (BufferSize - 1) /\ i + 2 \in 1 .. (BufferSize - 1)
        /\ i \in 2 .. Room(fn)
    BY <1>2, <1>3, <1>4, <2>1, <2>2
  <2>8. QED  BY <1>6, <1>10, <1>13, <1>16, <2>1, <2>3, <2>5, <2>6, <2>7
<1>17. CASE fn # "hex2str"
  <2>1. i > 0 /\ i' = i - 1 /\ Len(text) = 1
    BY <1>1, <1>3, <1>7, <1>11, <1>12, <1>17
  <2>2. buffer'[fn][i] = Nul
    <3>1. i - i + 1 = 1 /\ i <= i /\ i < i + 1
      BY <1>3
    <3>2. buffer'[fn][i] = text[i - i + 1]
      BY <1>3, <1>13, <2>1, <3>1
    <3>3. QED  BY <1>11, <1>17, <3>1, <3>2
  <2>3. \A k \in 0 .. (i - 1) : buffer'[fn][k] = Backwards(k, i)
    BY <1>3, <1>14 DEF Backwards
  <2>4. i' + 1 = i
    BY <1>3, <2>1
  <2>5. /\ i' \in 0 .. (BufferSize - 1) /\ i \in 1 .. (BufferSize - 1)
        /\ i \in 1 .. Room(fn)
    BY <1>2, <1>3, <1>4, <1>17, <2>1, <2>4
  <2>6. QED  BY <1>6, <1>10, <1>13, <1>17, <2>2, <2>3, <2>4, <2>5
<1>18. QED  BY <1>15, <1>16, <1>17

\* The text stands there, last character first.
LEMMA TerminateStep == IInv /\ Terminate => IInv'
<1> SUFFICES ASSUME IInv, Terminate PROVE IInv'
  OBVIOUS
<1> USE DEF IInv
<1>1. /\ UNCHANGED <<fn, arg, number, j, faults>> /\ pc = "digits" /\ pc' = "reverse"
  BY DEF Terminate
<1>2. arg \in Numbers /\ j = 0
  BY <1>1 DEF DigitsInv
<1> DEFINE L == i' + 1
           D == IF fn = "hex2str" THEN L - 2 ELSE L
           least == IF fn = "hex2str" THEN 2 ELSE 1
<1>3. /\ i' \in 0 .. (BufferSize - 1) /\ L \in 1 .. (BufferSize - 1)
      /\ D \in least .. Room(fn)
      /\ Left(fn, arg)[D] = 0
      /\ D > least => Left(fn, arg)[D - 1] > 0
      /\ buffer' \in [Converters -> [0 .. (BufferSize - 1) -> 0 .. Nul]]
      /\ buffer'[fn][L] = Nul
      /\ \A k \in 0 .. (L - 1) : buffer'[fn][k] = Backwards(k, D)
  BY TerminateEffect
<1>4. TypeOK'
  BY <1>1, <1>3 DEF TypeOK
<1>5. DigitsInv'
  BY <1>1 DEF DigitsInv
<1>6. i' + j' + 1 = L
  <2>1. i' \in Int /\ j' = 0
    <3>1. i' \in 0 .. (BufferSize - 1)
      BY <1>3
    <3>2. QED  BY <1>1, <1>2, <3>1
  <2>2. QED  BY <2>1
<1>7. ASSUME NEW k \in 0 .. (L - 1)
      PROVE  /\ j' <= k /\ k <= i'
             /\ buffer'[fn][k] = CASE k < D -> Left(fn, arg)[k] % Base(fn)
                                   [] k = D -> X [] k = D + 1 -> 0
  BY <1>1, <1>2, <1>3 DEF Backwards
<1>8. ReverseInv'
  <2>1. Room(fn)' = Room(fn)
    BY <1>1 DEF Room
  <2>2. j' <= i' + 1
    <3>1. i' \in 0 .. (BufferSize - 1) /\ j' = 0
      BY <1>1, <1>2, <1>3
    <3>2. \A n \in 0 .. (BufferSize - 1) : 0 <= n + 1
      OBVIOUS
    <3>3. 0 <= i' + 1
      BY <3>1, <3>2
    <3>4. QED  BY <3>1, <3>3
  <2> HIDE DEF L
  <2>3. QED
    BY <1>1, <1>2, <1>3, <1>6, <1>7, <2>1, <2>2, PrimedText DEF ReverseInv
<1>9. QED  BY <1>4, <1>5, <1>8

\* Two characters more have changed places: i + j, and with it the length of the
\* text, is as before.
LEMMA SwapStep == IInv /\ Swap => IInv'
<1> SUFFICES ASSUME IInv, Swap PROVE IInv'
  OBVIOUS
<1> USE DEF IInv
<1>1. /\ UNCHANGED <<pc, fn, arg, number, faults>> /\ pc = "reverse" /\ j < i
      /\ buffer' = [buffer EXCEPT ![fn] = [@ EXCEPT ![j] = buffer[fn][i], ![i] = buffer[fn][j]]]
      /\ j' = j + 1 /\ i' = i - 1
  BY DEF Swap
<1>2. /\ fn \in Converters
      /\ buffer \in [Converters -> [0 .. (BufferSize - 1) -> 0 .. Nul]]
      /\ i \in 0 .. (BufferSize - 1) /\ j \in 0 .. (BufferSize - 1)
  BY DEF TypeOK
<1>3. BufferSize \in Nat
  BY <1>2, ConverterFacts
<1> DEFINE L == i + j + 1
           D == IF fn = "hex2str" THEN L - 2 ELSE L
           least == IF fn = "hex2str" THEN 2 ELSE 1
<1>4. /\ arg \in Numbers /\ D \in least .. Room(fn)
      /\ Left(fn, arg)[D] = 0
      /\ D > least => Left(fn, arg)[D - 1] > 0
      /\ buffer[fn][L] = Nul
      /\ \A k \in 0 .. (L - 1) :
           buffer[fn][k] = Backwards(IF j <= k /\ k <= i THEN k ELSE L - 1 - k, D)
  BY <1>1 DEF ReverseInv
<1>5. L <= BufferSize - 1
  BY <1>2, <1>4, ConverterFacts
<1>6. /\ i' \in 0 .. (BufferSize - 1) /\ j' \in 0 .. (BufferSize - 1)
      /\ i' + j' + 1 = L /\ j' <= i' + 1
  BY <1>1, <1>2, <1>3
<1>7. /\ \A k \in 0 .. (BufferSize - 1) :
           buffer'[fn][k] = IF k = i THEN buffer[fn][j]
                            ELSE IF k = j THEN buffer[fn][i] ELSE buffer[fn][k]
      /\ buffer' \in [Converters -> [0 .. (BufferSize - 1) -> 0 .. Nul]]
  <2> DEFINE line == [buffer[fn] EXCEPT ![j] = buffer[fn][i], ![i] = buffer[fn][j]]
  <2>1. buffer' = [buffer EXCEPT ![fn] = line]
    BY <1>1, <1>2
  <2>2. /\ line \in [0 .. (BufferSize - 1) -> 0 .. Nul]
        /\ \A k \in 0 .. (BufferSize - 1) :
             line[k] = IF k = i THEN buffer[fn][j]
                       ELSE IF k = j THEN buffer[fn][i] ELSE buffer[fn][k]
    BY <1>2
  <2> HIDE DEF line
  <2>3. buffer'[fn] = line /\ buffer' \in [Converters -> [0 .. (BufferSize - 1) -> 0 .. Nul]]
    BY <1>2, <2>1, <2>2
  <2>4. QED  BY <2>2, <2>3
<1>8. TypeOK'
  BY <1>1, <1>6, <1>7 DEF TypeOK
<1>9. DigitsInv'
  BY <1>1 DEF DigitsInv
<1>10. buffer'[fn][L] = Nul
  <2>1. L \in 0 .. (BufferSize - 1) /\ L # i /\ L # j
    BY <1>1, <1>2, <1>5
  <2>2. QED  BY <1>4, <1>7, <2>1
<1>11. ASSUME NEW k \in 0 .. (L - 1)
       PROVE  buffer'[fn][k] = Backwards(IF j' <= k /\ k <= i' THEN k ELSE L - 1 - k, D)
  <2>1. /\ k \in 0 .. (BufferSize - 1) /\ i \in 0 .. (L - 1) /\ j \in 0 .. (L - 1)
        /\ L - 1 - i = j /\ L - 1 - j = i /\ j <= i
    BY <1>1, <1>2, <1>3, <1>5
  <2>2. buffer[fn][i] = Backwards(i, D) /\ buffer[fn][j] = Backwards(j, D)
    BY <1>2, <1>4, <2>1
  <2> HIDE DEF L, D
  <2>3. CASE k = i
    <3>1. ~(k <= i')
      BY <1>1, <1>2, <2>3
    <3>2. QED  BY <1>7, <2>1, <2>2, <2>3, <3>1
  <2>4. CASE k = j
    <3>1. ~(j' <= k) /\ k # i
      BY <1>1, <1>2, <2>4
    <3>2. QED  BY <1>7, <2>1, <2>2, <2>4, <3>1
  <2>5. CASE k # i /\ k # j
    <3>1. (j' <= k /\ k <= i') <=> (j <= k /\ k <= i)
      BY <1>1, <1>2, <2>1, <2>5
    <3>2. buffer'[fn][k] = buffer[fn][k]
      BY <1>7, <2>1, <2>5
    <3>3. QED  BY <1>4, <3>1, <3>2
  <2>6. QED  BY <2>3, <2>4, <2>5
<1>12. ReverseInv'
  <2>1. Room(fn)' = Room(fn)
    BY <1>1 DEF Room
  <2>2. \A k \in 0 .. (L - 1) :
          buffer'[fn][k] = Backwards(IF j <= k /\ k <= i THEN k ELSE L - 1 - k, D)'
    BY <1>1, <1>6, <1>11, PrimedText DEF Backwards
  <2>3. QED
    BY <1>1, <1>4, <1>6, <1>10, <2>1, <2>2, PrimedText DEF ReverseInv
<1>13. QED  BY <1>8, <1>9, <1>12

LEMMA ReversedStep == IInv /\ Reversed => IInv'
<1> SUFFICES ASSUME IInv, Reversed PROVE IInv'
  OBVIOUS
<1>1. /\ UNCHANGED <<fn, arg, number, buffer, i, j, faults>>
      /\ pc = "reverse" /\ pc' = "done" /\ j >= i
  BY DEF Reversed
<1>2. TypeOK'
  BY <1>1 DEF IInv, TypeOK
<1>3. DigitsInv'
  BY <1>1 DEF DigitsInv
<1>4. ReverseInv'
  <2>1. ReverseInv
    BY DEF IInv
  <2>2. Room(fn)' = Room(fn) /\ Left(fn, arg)' = Left(fn, arg)
    BY <1>1 DEF Room, Left, Base
  <2>3. \A k, D : Backwards(k, D)' = Backwards(k, D)
    BY <1>1, PrimedText DEF Backwards
  <2>4. QED  BY <1>1, <2>1, <2>2, <2>3 DEF ReverseInv
<1>5. QED  BY <1>2, <1>3, <1>4 DEF IInv

\* The text is given up, or what there is of it: the buffers stay as they are.
LEMMA PrintedStep == IInv /\ Printed => IInv'
BY DEF IInv, Printed, TypeOK, DigitsInv, ReverseInv

LEMMA ExceptionStep == IInv /\ Exception => IInv'
<1> SUFFICES ASSUME IInv, Exception PROVE IInv'
  OBVIOUS
<1>1. /\ UNCHANGED <<fn, arg, buffer>> /\ pc' = "idle"
      /\ number' = 0 /\ i' = 0 /\ j' = 0
  BY DEF Exception
<1>2. arg \in Nat /\ 0 \in 0 .. (BufferSize - 1)
  BY BufferAssumption DEF IInv, TypeOK
<1>3. 0 \in 0 .. arg
  BY <1>2
<1>4. TypeOK'
  BY <1>1, <1>2, <1>3 DEF IInv, TypeOK
<1>5. QED  BY <1>1, <1>4 DEF IInv, DigitsInv, ReverseInv

LEMMA UnchangedStep == IInv /\ UNCHANGED vars => IInv'
<1> SUFFICES ASSUME IInv, UNCHANGED vars PROVE IInv'
  OBVIOUS
<1>1. UNCHANGED <<pc, fn, arg, number, buffer, i, j>>
  BY DEF vars
<1>2. Room(fn)' = Room(fn) /\ Left(fn, arg)' = Left(fn, arg)
  BY <1>1 DEF Room, Left, Base
<1>3. \A k, D : Backwards(k, D)' = Backwards(k, D)
  BY <1>1, PrimedText DEF Backwards
<1>4. TypeOK'
  BY <1>1 DEF IInv, TypeOK
<1>5. DigitsInv'
  <2>1. DigitsInv
    BY DEF IInv
  <2>2. Base(fn)' = Base(fn)
    BY <1>1 DEF Base
  <2>3. QED  BY <1>1, <1>2, <2>1, <2>2 DEF DigitsInv
<1>6. ReverseInv'
  <2>1. ReverseInv
    BY DEF IInv
  <2>2. QED  BY <1>1, <1>2, <1>3, <2>1 DEF ReverseInv
<1>7. QED  BY <1>4, <1>5, <1>6 DEF IInv

LEMMA Inductive == Spec => []IInv
<1>1. IInv /\ [Next]_vars => IInv'
  <2> SUFFICES ASSUME IInv, [Next]_vars PROVE IInv'
    OBVIOUS
  <2>1. CASE \E f \in Converters, v \in Numbers : Call(f, v)
    BY <2>1, CallStep
  <2>2. CASE Exception
    BY <2>2, ExceptionStep
  <2>3. CASE Digit
    BY <2>3, DigitStep
  <2>4. CASE Terminate
    BY <2>4, TerminateStep
  <2>5. CASE Swap
    BY <2>5, SwapStep
  <2>6. CASE Reversed
    BY <2>6, ReversedStep
  <2>7. CASE Printed
    BY <2>7, PrintedStep
  <2>8. CASE UNCHANGED vars
    BY <2>8, UnchangedStep
  <2>9. QED  BY <2>1, <2>2, <2>3, <2>4, <2>5, <2>6, <2>7, <2>8 DEF Next
<1>2. QED  BY <1>1, InitInv, PTL DEF Spec

\* The types of printk.c:36-123, and with them the bounds of hex_string and
\* dec_string: i and j never leave the buffer, and what is written fits it.
THEOREM TypeCorrect == Spec => []TypeOK
<1>1. IInv => TypeOK
  BY DEF IInv
<1>2. QED  BY <1>1, Inductive, PTL

------------------------------------------------------------------------------

\* A function on 1 .. n is a sequence.
LEMMA IsSequence ==
  ASSUME NEW S, NEW n \in Nat, NEW f, f \in [1 .. n -> S]
  PROVE  f \in Seq(S) /\ Len(f) = n
OBVIOUS

\* A sequence without its first two elements.
LEMMA BehindTwo ==
  ASSUME NEW S, NEW f, f \in Seq(S), NEW n \in Nat, Len(f) = n + 2
  PROVE  SubSeq(f, 3, Len(f)) \in Seq(S)
OBVIOUS

\* Its first two elements.
LEMMA FirstTwo ==
  ASSUME NEW S, NEW f \in Seq(S), Len(f) >= 2
  PROVE  SubSeq(f, 1, 2) = <<f[1], f[2]>>
<1>1. \A k \in 1 .. 2 : f[k] \in S
  BY ElementOfSeq
<1>2. SubSeq(f, 1, 2) \in Seq(S) /\ Len(SubSeq(f, 1, 2)) = 2
      /\ \A k \in 1 .. 2 : SubSeq(f, 1, 2)[k] = f[k]
  BY <1>1
<1>3. f[1] \in S /\ f[2] \in S
  BY <1>1
<1>4. <<f[1], f[2]>> \in Seq(S) /\ Len(<<f[1], f[2]>>) = 2
      /\ \A k \in 1 .. 2 : <<f[1], f[2]>>[k] = f[k]
  BY <1>3
<1> DEFINE front == SubSeq(f, 1, 2)
           pair == <<f[1], f[2]>>
<1>5. front \in Seq(S) /\ pair \in Seq(S) /\ Len(front) = Len(pair)
      /\ \A k \in 1 .. Len(front) : front[k] = pair[k]
  BY <1>2, <1>4
<1> HIDE DEF front, pair
<1>6. front = pair
  BY <1>5, SeqEqual
<1>7. QED  BY <1>6 DEF front, pair

\* The text a call returns ends at the one terminator there is before its end,
\* and its characters are those written, first one last.
LEMMA TextIs ==
  ASSUME IInv, pc = "done"
  PROVE  LET L == i + j + 1
             D == IF fn = "hex2str" THEN L - 2 ELSE L
             least == IF fn = "hex2str" THEN 2 ELSE 1
         IN  /\ fn \in Converters /\ arg \in Numbers /\ L \in Nat
             /\ D \in least .. Room(fn) /\ Left(fn, arg)[D] = 0
             /\ D > least => Left(fn, arg)[D - 1] > 0
             /\ Text \in Seq(0 .. X) /\ Len(Text) = L
             /\ \A k \in 1 .. L : Text[k] = Backwards(L - k, D)
<1> DEFINE L == i + j + 1
           D == IF fn = "hex2str" THEN L - 2 ELSE L
           least == IF fn = "hex2str" THEN 2 ELSE 1
<1>1. /\ fn \in Converters /\ i \in Nat /\ j \in Nat
      /\ buffer \in [Converters -> [0 .. (BufferSize - 1) -> 0 .. Nul]]
  BY BufferAssumption DEF IInv, TypeOK
<1>2. /\ arg \in Numbers /\ j <= i + 1 /\ D \in least .. Room(fn)
      /\ Left(fn, arg)[D] = 0
      /\ D > least => Left(fn, arg)[D - 1] > 0
      /\ buffer[fn][L] = Nul
      /\ \A k \in 0 .. (L - 1) :
           buffer[fn][k] = Backwards(IF j <= k /\ k <= i THEN k ELSE L - 1 - k, D)
      /\ j >= i
  BY DEF IInv, ReverseInv
<1>3. BufferSize \in Nat /\ L \in Nat /\ L <= BufferSize - 1 /\ D \in Nat /\ D + 2 >= L
  BY <1>1, <1>2, ConverterFacts
<1>4. ASSUME NEW k \in 0 .. (L - 1)
      PROVE  buffer[fn][k] = Backwards(L - 1 - k, D)
  <2>1. j <= k /\ k <= i => k = L - 1 - k
    BY <1>1, <1>2
  <2>2. QED  BY <1>2, <2>1
<1>5. ASSUME NEW k \in 0 .. (L - 1)
      PROVE  Backwards(k, D) \in 0 .. X
  <2>1. k < D => Left(fn, arg)[k] % Base(fn) \in 0 .. 15
    <3> SUFFICES ASSUME k < D PROVE Left(fn, arg)[k] % Base(fn) \in 0 .. 15
      OBVIOUS
    <3>1. k \in 0 .. BufferSize
      BY <1>3
    <3>2. Left(fn, arg)[k] \in Nat
      BY <1>1, <1>2, <3>1, LeftFacts
    <3>3. /\ Left(fn, arg)[k] % Base(fn) \in 0 .. (Base(fn) - 1) /\ Base(fn) - 1 \in 0 .. 15
      BY <1>1, <3>2, BaseDivides
    <3>4. QED  BY <3>3
  <2>2. k < D \/ k = D \/ k = D + 1
    BY <1>3
  <2> HIDE DEF L, D
  <2>3. QED  BY <1>3, <2>1, <2>2 DEF Backwards, X
<1> HIDE DEF L, D, least
<1>6. ASSUME NEW k \in 0 .. (L - 1)
      PROVE  buffer[fn][k] \in 0 .. X
  <2>1. L - 1 - k \in 0 .. (L - 1)
    BY <1>3
  <2>2. QED  BY <1>4, <1>5, <2>1
<1>7. TextLength = L
  <2> DEFINE Ends(n) == buffer[fn][n] = Nul /\ \A k \in 0 .. (n - 1) : buffer[fn][k] # Nul
  <2>1. L \in 0 .. (BufferSize - 1) /\ Ends(L)
    BY <1>2, <1>3, <1>6 DEF X, Nul
  <2>2. ASSUME NEW n \in 0 .. (BufferSize - 1), Ends(n) PROVE n = L
    <3>1. n < L => n \in 0 .. (L - 1)
      BY <1>3
    <3>2. n < L => buffer[fn][n] # Nul
      BY <1>6, <3>1 DEF X, Nul
    <3>3. n > L => L \in 0 .. (n - 1)
      BY <1>3
    <3>4. QED  BY <1>2, <1>3, <2>2, <3>2, <3>3
  <2>3. TextLength = CHOOSE n \in 0 .. (BufferSize - 1) : Ends(n)
    BY DEF TextLength
  <2> HIDE DEF Ends
  <2>4. QED  BY <2>1, <2>2, <2>3
<1>8. Text = [k \in 1 .. L |-> buffer[fn][k - 1]]
  BY <1>7 DEF Text
<1>9. ASSUME NEW k \in 1 .. L
      PROVE  buffer[fn][k - 1] = Backwards(L - k, D) /\ buffer[fn][k - 1] \in 0 .. X
  <2>1. k - 1 \in 0 .. (L - 1) /\ L - 1 - (k - 1) = L - k
    BY <1>3
  <2>2. QED  BY <1>4, <1>6, <2>1
<1>10. Text \in [1 .. L -> 0 .. X]
  BY <1>8, <1>9
<1>11. Text \in Seq(0 .. X) /\ Len(Text) = L
  BY <1>3, <1>10, IsSequence
<1>12. \A k \in 1 .. L : Text[k] = Backwards(L - k, D)
  BY <1>8, <1>9
<1>13. QED  BY <1>1, <1>2, <1>3, <1>11, <1>12 DEF L, D, least

\* The digits among them.
LEMMA DigitsAre ==
  ASSUME IInv, pc = "done"
  PROVE  \E D \in Nat :
           /\ D <= BufferSize - 1
           /\ fn \in Converters /\ arg \in Numbers
           /\ fn = "hex2str" => Len(Text) = D + 2 /\ Text[1] = 0 /\ Text[2] = X
           /\ Text \in Seq(0 .. X)
           /\ D >= (IF fn = "hex2str" THEN 2 ELSE 1)
           /\ Left(fn, arg)[D] = 0
           /\ D > (IF fn = "hex2str" THEN 2 ELSE 1) => Left(fn, arg)[D - 1] > 0
           /\ Len(Digits) = D
           /\ \A k \in 1 .. D : Digits[k] = Left(fn, arg)[D - k] % Base(fn)
           /\ Digits \in Seq(0 .. (Base(fn) - 1))
<1> DEFINE L == i + j + 1
           D == IF fn = "hex2str" THEN L - 2 ELSE L
           least == IF fn = "hex2str" THEN 2 ELSE 1
<1>1. /\ fn \in Converters /\ arg \in Numbers /\ L \in Nat
      /\ D \in least .. Room(fn) /\ Left(fn, arg)[D] = 0
      /\ D > least => Left(fn, arg)[D - 1] > 0
      /\ Text \in Seq(0 .. X) /\ Len(Text) = L
      /\ \A k \in 1 .. L : Text[k] = Backwards(L - k, D)
  BY TextIs
<1>2. /\ BufferSize \in Nat /\ D \in Nat /\ D <= BufferSize - 1
      /\ fn = "hex2str" => L = D + 2
      /\ fn # "hex2str" => L = D
  BY <1>1, ConverterFacts
<1>3. ASSUME NEW k \in 1 .. D
      PROVE  /\ Left(fn, arg)[D - k] % Base(fn) = Backwards(D - k, D)
             /\ Left(fn, arg)[D - k] % Base(fn) \in 0 .. (Base(fn) - 1)
  <2>1. D - k < D /\ D - k \in 0 .. BufferSize
    BY <1>2
  <2>2. Left(fn, arg)[D - k] \in Nat
    BY <1>1, <2>1, LeftFacts
  <2>3. QED  BY <1>1, <2>1, <2>2, BaseDivides DEF Backwards
<1> HIDE DEF L, D
<1>4. fn = "hex2str" => Text[1] = 0 /\ Text[2] = X
  <2> SUFFICES ASSUME fn = "hex2str" PROVE Text[1] = 0 /\ Text[2] = X
    OBVIOUS
  <2>1. 1 \in 1 .. L /\ 2 \in 1 .. L /\ L - 1 = D + 1 /\ L - 2 = D
    BY <1>1, <1>2
  <2>2. Text[1] = Backwards(D + 1, D) /\ Text[2] = Backwards(D, D)
    BY <1>1, <2>1
  <2>3. ~(D + 1 < D) /\ D + 1 # D /\ ~(D < D)
    BY <1>2
  <2>4. QED  BY <2>2, <2>3 DEF Backwards
<1>5. Len(Digits) = D /\ \A k \in 1 .. D : Digits[k] = Backwards(D - k, D)
  <2>1. CASE fn = "hex2str"
    <3>1. Digits = SubSeq(Text, 3, Len(Text)) /\ Len(Text) = D + 2
      BY <1>1, <1>2, <2>1 DEF Digits
    <3>2. Len(SubSeq(Text, 3, Len(Text))) = D
          /\ \A k \in 1 .. D : SubSeq(Text, 3, Len(Text))[k] = Text[k + 2]
      BY <1>1, <1>2, <3>1
    <3>3. \A k \in 1 .. D : k + 2 \in 1 .. L /\ L - (k + 2) = D - k
      BY <1>2, <2>1
    <3>4. QED  BY <1>1, <3>1, <3>2, <3>3
  <2>2. CASE fn # "hex2str"
    <3>1. Digits = Text /\ L = D
      BY <1>2, <2>2 DEF Digits
    <3>2. QED  BY <1>1, <3>1
  <2>3. QED  BY <2>1, <2>2
<1>6. Digits \in Seq(0 .. X)
  <2>1. Text \in Seq(0 .. X) /\ (fn = "hex2str" => Len(Text) = D + 2)
    BY <1>1, <1>2
  <2>2. fn = "hex2str" => SubSeq(Text, 3, Len(Text)) \in Seq(0 .. X)
    BY <1>2, <2>1, BehindTwo
  <2>3. QED  BY <2>1, <2>2 DEF Digits
<1>7. \A k \in 1 .. D : Digits[k] = Left(fn, arg)[D - k] % Base(fn)
                        /\ Digits[k] \in 0 .. (Base(fn) - 1)
  BY <1>3, <1>5
<1>8. Digits \in Seq(0 .. (Base(fn) - 1))
  <2>1. Digits \in [1 .. Len(Digits) -> 0 .. X] /\ Len(Digits) = D
    BY <1>5, <1>6, LenProperties
  <2>2. Digits \in [1 .. D -> 0 .. (Base(fn) - 1)]
    BY <1>7, <2>1
  <2>3. QED  BY <1>2, <2>2, IsSequence
<1>9. D >= (IF fn = "hex2str" THEN 2 ELSE 1)
  BY <1>1, <1>2
<1>10. QED  BY <1>1, <1>2, <1>4, <1>5, <1>7, <1>8, <1>9

\* What digits spell is computed digit by digit.
Spells(value, s, n) ==
  /\ value \in [0 .. n -> Nat] /\ value[0] = 0
  /\ \A k \in 1 .. n : value[k] = value[k - 1] * Base(fn) + s[k]
  /\ Value(s) = value[n]

LEMMA ValueIs ==
  ASSUME fn \in Converters, NEW s, s \in Seq(0 .. (Base(fn) - 1)),
         NEW n \in Nat, Len(s) = n
  PROVE  \E value : Spells(value, s, n)
<1> DEFINE step == [k \in 1 .. n |-> [a \in Nat |-> a * Base(fn) + s[k]]]
<1>1. Base(fn) \in Nat /\ (Base(fn) = 16 \/ Base(fn) = 10)
  BY DEF Base
<1>2. \A k \in 1 .. n : s[k] \in Nat
  <2>1. \A k \in 1 .. n : s[k] \in 0 .. (Base(fn) - 1)
    BY ElementOfSeq
  <2>2. QED  BY <1>1, <2>1
<1>3. \A k \in 1 .. n, a \in Nat : a * Base(fn) + s[k] \in Nat
  BY <1>1, <1>2
<1>4. /\ step \in [1 .. n -> [Nat -> Nat]]
      /\ \A k \in 1 .. n, a \in Nat : step[k][a] = a * Base(fn) + s[k]
  BY <1>3
<1>5. StepsIn(Nat, n, step)
  BY <1>4 DEF StepsIn
<1> HIDE DEF step
<1>6. PICK g : Follows(g, Nat, n, 0, step)
  BY <1>5, Recursion
<1>7. /\ g \in [0 .. n -> Nat] /\ g[0] = 0
      /\ \A k \in 1 .. n : g[k] = step[k][g[k - 1]]
  BY <1>6 DEF Follows
<1>8. ASSUME NEW k \in 1 .. n
      PROVE  g[k] = g[k - 1] * Base(fn) + s[k]
  <2>1. g[k - 1] \in Nat
    BY <1>7
  <2>2. QED  BY <1>4, <1>7, <2>1
<1> DEFINE Is(h) == h = [k \in 0 .. n |-> IF k = 0 THEN 0 ELSE h[k - 1] * Base(fn) + s[k]]
<1>9. \E h : Is(h)
  <2>1. \A k \in 0 .. n : g[k] = IF k = 0 THEN 0 ELSE g[k - 1] * Base(fn) + s[k]
    BY <1>7, <1>8
  <2>2. Is(g)
    BY <1>7, <2>1
  <2>3. QED  BY <2>2
<1> DEFINE v == CHOOSE h : Is(h)
<1>10. Value(s) = v[n]
  BY DEF Value
<1> HIDE DEF Is
<1>11. Is(v)
  BY <1>9
<1>12. v = [k \in 0 .. n |-> IF k = 0 THEN 0 ELSE v[k - 1] * Base(fn) + s[k]]
  BY <1>11 DEF Is
<1> HIDE DEF v
<1>13. v[0] = 0 /\ \A k \in 1 .. n : v[k] = v[k - 1] * Base(fn) + s[k]
  BY <1>12
<1>14. \A k \in 0 .. n : v[k] \in Nat
  <2> DEFINE Bad == {k \in 0 .. n : v[k] \notin Nat}
  <2> SUFFICES ASSUME Bad # {} PROVE FALSE
    OBVIOUS
  <2>1. Bad \in SUBSET Nat
    OBVIOUS
  <2>2. PICK k \in Bad : \A m \in Bad : k <= m
    BY <2>1, LeastNatural
  <2>3. k # 0 /\ k \in 1 .. n /\ k - 1 \in 0 .. n /\ k - 1 \notin Bad
    BY <1>13, <2>2
  <2>4. v[k - 1] \in Nat
    BY <2>3
  <2>5. v[k] \in Nat
    <3>1. v[k] = v[k - 1] * Base(fn) + s[k]
      BY <1>13, <2>3
    <3>2. QED  BY <1>3, <2>3, <2>4, <3>1
  <2>6. QED  BY <2>2, <2>5
<1>15. v \in [0 .. n -> Nat]
  BY <1>12, <1>14
<1>16. QED  BY <1>10, <1>13, <1>15 DEF Spells

\* Reading the digits from the front goes back through what was left of the
\* number, up to the number itself.
LEMMA SpellsArg ==
  ASSUME IInv, pc = "done"
  PROVE  Value(Digits) = arg
<1>1. PICK D \in Nat :
        /\ D <= BufferSize - 1 /\ fn \in Converters /\ arg \in Numbers
        /\ Left(fn, arg)[D] = 0 /\ Len(Digits) = D
        /\ \A k \in 1 .. D : Digits[k] = Left(fn, arg)[D - k] % Base(fn)
        /\ Digits \in Seq(0 .. (Base(fn) - 1))
  BY DigitsAre
<1>2. PICK value \in [0 .. D -> Nat] :
        /\ value[0] = 0
        /\ \A k \in 1 .. D : value[k] = value[k - 1] * Base(fn) + Digits[k]
        /\ Value(Digits) = value[D]
  <2>1. \E v : Spells(v, Digits, D)
    BY <1>1, ValueIs
  <2>2. QED  BY <2>1 DEF Spells
<1>3. BufferSize \in Nat /\ Left(fn, arg)[0] = arg
  BY <1>1, ConverterFacts, LeftFacts
<1> DEFINE Bad == {k \in 0 .. D : value[k] # Left(fn, arg)[D - k]}
<1>4. Bad = {}
  <2> SUFFICES ASSUME Bad # {} PROVE FALSE
    OBVIOUS
  <2>1. Bad \in SUBSET Nat
    OBVIOUS
  <2>2. PICK k \in Bad : \A m \in Bad : k <= m
    BY <2>1, LeastNatural
  <2>3. k \in 0 .. D /\ k # 0
    BY <1>1, <1>2
  <2>4. k \in 1 .. D /\ k - 1 \in 0 .. D /\ k - 1 \notin Bad /\ D - (k - 1) = (D - k) + 1
    BY <2>2, <2>3
  <2>5. value[k - 1] = Left(fn, arg)[(D - k) + 1]
    BY <2>4
  <2>6. D - k \in 0 .. (BufferSize - 1) /\ D - k \in 0 .. BufferSize
    BY <1>1, <1>3, <2>4
  <2> DEFINE a == Left(fn, arg)[D - k]
  <2>7. a \in Nat /\ Left(fn, arg)[(D - k) + 1] = a \div Base(fn)
    BY <1>1, <2>6, LeftFacts
  <2>8. Digits[k] = a % Base(fn)
    BY <1>1, <2>4
  <2> HIDE DEF a
  <2>9. value[k] = (a \div Base(fn)) * Base(fn) + (a % Base(fn))
    BY <1>2, <2>4, <2>5, <2>7, <2>8
  <2>10. (a \div Base(fn)) * Base(fn) + (a % Base(fn)) = a
    <3>1. a = Base(fn) * (a \div Base(fn)) + (a % Base(fn)) /\ a \div Base(fn) \in Nat
      BY <1>1, <2>7, BaseDivides
    <3>2. CASE Base(fn) = 16
      BY <2>7, <3>1, <3>2
    <3>3. CASE Base(fn) = 10
      BY <2>7, <3>1, <3>3
    <3>4. QED  BY <3>2, <3>3 DEF Base
  <2>11. value[k] = Left(fn, arg)[D - k]
    BY <2>9, <2>10 DEF a
  <2>12. QED  BY <2>2, <2>11
<1>5. value[D] = Left(fn, arg)[0]
  BY <1>4
<1>6. QED  BY <1>2, <1>3, <1>5

\* No zero stands in front that need not be there.
LEMMA FirstDigit ==
  ASSUME IInv, pc = "done", Len(Digits) > (IF fn = "hex2str" THEN 2 ELSE 1)
  PROVE  Digits[1] # 0
<1>1. PICK D \in Nat :
        /\ D <= BufferSize - 1 /\ fn \in Converters /\ arg \in Numbers
        /\ Left(fn, arg)[D] = 0 /\ Len(Digits) = D
        /\ D > (IF fn = "hex2str" THEN 2 ELSE 1) => Left(fn, arg)[D - 1] > 0
        /\ \A k \in 1 .. D : Digits[k] = Left(fn, arg)[D - k] % Base(fn)
  BY DigitsAre
<1>2. D > 1 /\ 1 \in 1 .. D /\ Left(fn, arg)[D - 1] > 0
  BY <1>1
<1>3. BufferSize \in Nat /\ D - 1 \in 0 .. (BufferSize - 1) /\ D - 1 \in 0 .. BufferSize
      /\ (D - 1) + 1 = D
  BY <1>1, <1>2, ConverterFacts
<1> DEFINE a == Left(fn, arg)[D - 1]
<1>4. a \in Nat /\ Left(fn, arg)[D] = a \div Base(fn)
  BY <1>1, <1>3, LeftFacts
<1>5. Digits[1] = a % Base(fn) /\ a > 0 /\ a \div Base(fn) = 0
  BY <1>1, <1>2, <1>4
<1> HIDE DEF a
<1>6. CASE Base(fn) = 16
  BY <1>4, <1>5, <1>6
<1>7. CASE Base(fn) = 10
  BY <1>4, <1>5, <1>7
<1>8. QED  BY <1>6, <1>7 DEF Base

\* What hex2str and dec2str return reads back as their argument (printk.c:36-123),
\* whatever the calls before left in the buffers, and with no zero in front that
\* need not be there.
THEOREM Readable == Spec => []ReadsBack
<1>1. IInv => ReadsBack
  <2> SUFFICES ASSUME IInv, pc = "done"
               PROVE  /\ fn = "hex2str" => SubSeq(Text, 1, 2) = <<0, X>>
                      /\ \A k \in DOMAIN Digits : Digits[k] \in 0 .. (Base(fn) - 1)
                      /\ Value(Digits) = arg
                      /\ Len(Digits) >= (IF fn = "hex2str" THEN 2 ELSE 1)
                      /\ Len(Digits) > (IF fn = "hex2str" THEN 2 ELSE 1) => Digits[1] # 0
    BY DEF ReadsBack
  <2>1. PICK D \in Nat :
          /\ fn = "hex2str" => Len(Text) = D + 2 /\ Text[1] = 0 /\ Text[2] = X
          /\ Text \in Seq(0 .. X)
          /\ D >= (IF fn = "hex2str" THEN 2 ELSE 1) /\ Len(Digits) = D
          /\ Digits \in Seq(0 .. (Base(fn) - 1))
    BY DigitsAre
  <2>2. fn = "hex2str" => SubSeq(Text, 1, 2) = <<0, X>>
    <3>1. fn = "hex2str" => Text \in Seq(0 .. X) /\ Len(Text) >= 2
      BY <2>1
    <3>2. fn = "hex2str" => SubSeq(Text, 1, 2) = <<Text[1], Text[2]>>
      BY <3>1, FirstTwo
    <3>3. QED  BY <2>1, <3>2
  <2>3. DOMAIN Digits = 1 .. Len(Digits)
        /\ \A k \in 1 .. Len(Digits) : Digits[k] \in 0 .. (Base(fn) - 1)
    BY <2>1, LenProperties, ElementOfSeq
  <2>4. QED  BY <2>1, <2>2, <2>3, SpellsArg, FirstDigit
<1>2. QED  BY <1>1, Inductive, PTL
==============================================================================
