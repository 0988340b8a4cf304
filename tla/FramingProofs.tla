--------------------------- MODULE FramingProofs ---------------------------
(***************************************************************************)
(* Proofs about Framing, for headers of any size, any base and any frames: *)
(* whatever reads time out, and wherever, what _recv_frame returns is a    *)
(* whole frame, and the reader keeps to FrameChannel, which is what the    *)
(* rest of the project assumes of a connection.                            *)
(***************************************************************************)
EXTENDS Framing, Integers, SequenceTheorems, WellFoundedInduction, TLAPS

-----------------------------------------------------------------------------
(* Induction over the digits of a header *)

\* A set that holds 0, and with each number below n the next one, holds all
\* of 0 .. n: otherwise it would miss a least one.
LEMMA UpTo ==
  ASSUME NEW n \in Nat, NEW T, 0 \in T, \A i \in 0 .. n - 1 : i \in T => i + 1 \in T
  PROVE  \A i \in 0 .. n : i \in T
<1> DEFINE R == {ss \in Nat \X Nat : ss[1] < ss[2]}
           Missed == (0 .. n) \ T
<1> SUFFICES ASSUME Missed # {} PROVE FALSE
  OBVIOUS
<1>1. IsWellFoundedOn(R, Nat)
  BY NatLessThanWellFounded DEF OpToRel
<1> HIDE DEF R
<1>2. Missed \subseteq Nat
  OBVIOUS
<1>3. PICK x \in Missed : \A y \in Missed : ~(<<y, x>> \in R)
  BY <1>1, <1>2, WFMin
<1>4. x - 1 \in 0 .. n - 1 /\ x - 1 \notin T /\ x \in Nat
  OBVIOUS
<1>5. x - 1 \in Missed /\ <<x - 1, x>> \in Nat \X Nat
  BY <1>4
<1>6. <<x - 1, x>> \in R
  BY <1>4, <1>5 DEF R
<1> QED
  BY <1>3, <1>5, <1>6

\* One digit more.
Shift(x, d) == Base * x + d

\* Which stays a number.
LEMMA ShiftNat == \A x, d \in Nat : Shift(x, d) \in Nat
<1> TAKE x, d \in Nat
<1>1. Base \in Nat
  BY FramingAssumption
<1>2. Base * x \in Nat
  BY <1>1
<1> QED
  BY <1>2 DEF Shift

\* p starts with a and adds the digits of v, one at a time, up to the n-th.
Recurs(n, p, a, v) ==
  /\ p \in [0 .. n -> Nat]
  /\ p[0] = a
  /\ \A i \in 1 .. n : p[i] = Shift(p[i - 1], v[i])

\* A recurrence in the base has a solution.
LEMMA Recurrence ==
  ASSUME NEW a \in Nat, NEW v \in [1 .. HeaderSize -> Nat]
  PROVE  \E p : Recurs(HeaderSize, p, a, v)
<1> DEFINE T == {n \in 0 .. HeaderSize : \E p : Recurs(n, p, a, v)}
<1>1. HeaderSize \in Nat
  BY FramingAssumption
<1>2. 0 \in T
  <2>1. Recurs(0, [i \in 0 .. 0 |-> a], a, v)
    BY DEF Recurs
  <2> QED
    BY <1>1, <2>1
<1>3. ASSUME NEW n \in 0 .. HeaderSize - 1, n \in T PROVE n + 1 \in T
  <2>1. PICK p : Recurs(n, p, a, v)
    BY <1>3
  <2> DEFINE last == Shift(p[n], v[n + 1])
             q == [i \in 0 .. n + 1 |-> IF i = n + 1 THEN last ELSE p[i]]
  <2>2. n \in Nat /\ n + 1 \in 1 .. HeaderSize /\ n + 1 \in 0 .. HeaderSize
    BY <1>1
  <2>3. /\ p \in [0 .. n -> Nat] /\ p[0] = a
        /\ \A i \in 1 .. n : p[i] = Shift(p[i - 1], v[i])
    BY <2>1 DEF Recurs
  <2>4. last \in Nat
    <3>1. p[n] \in Nat /\ v[n + 1] \in Nat
      BY <2>2, <2>3
    <3> HIDE DEF last
    <3> QED
      BY <3>1, ShiftNat DEF last
  <2>5. last = Shift(p[n], v[n + 1])
    OBVIOUS
  <2> HIDE DEF last
  <2>6. q \in [0 .. n + 1 -> Nat] /\ q[0] = a
    BY <2>2, <2>3, <2>4
  <2>7. ASSUME NEW i \in 1 .. n + 1 PROVE q[i] = Shift(q[i - 1], v[i])
    <3>1. CASE i = n + 1
      <4>1. q[i] = last /\ q[i - 1] = p[n] /\ i = n + 1
        BY <2>2, <3>1
      <4> HIDE DEF q
      <4> QED
        BY <2>5, <4>1
    <3>2. CASE i # n + 1
      <4>1. q[i] = p[i] /\ q[i - 1] = p[i - 1] /\ i \in 1 .. n
        BY <2>2, <3>2
      <4> HIDE DEF q
      <4> QED
        BY <2>3, <4>1
    <3> QED
      BY <3>1, <3>2
  <2> HIDE DEF q
  <2>8. Recurs(n + 1, q, a, v)
    BY <2>6, <2>7 DEF Recurs
  <2> QED
    BY <2>2, <2>8
<1> HIDE DEF T
<1>4. \A n \in 0 .. HeaderSize - 1 : n \in T => n + 1 \in T
  BY <1>3
<1>5. \A n \in 0 .. HeaderSize : n \in T
  BY <1>1, <1>2, <1>4, UpTo
<1>6. HeaderSize \in T
  BY <1>1, <1>5
<1> QED
  BY <1>6 DEF T

\* Weight is that of the digits: each is worth Base times the next.
LEMMA WeightIs ==
  /\ \A k \in 0 .. HeaderSize : Weight[k] \in Nat \ {0}
  /\ Weight[0] = 1
  /\ \A k \in 1 .. HeaderSize : Weight[k] = Base * Weight[k - 1]
<1> DEFINE F(g) == [k \in 0 .. HeaderSize |-> IF k = 0 THEN 1 ELSE Base * g[k - 1]]
           Is(g) == g = F(g)
           T == {k \in 0 .. HeaderSize : Weight[k] \in Nat \ {0}}
           v == [i \in 1 .. HeaderSize |-> 0]
<1>1. HeaderSize \in Nat /\ Base \in Nat \ {0}
  BY FramingAssumption
<1>2. v \in [1 .. HeaderSize -> Nat] /\ \A i \in 1 .. HeaderSize : v[i] = 0
  OBVIOUS
<1> HIDE DEF v
<1>3. PICK p : Recurs(HeaderSize, p, 1, v)
  BY <1>2, Recurrence
<1>4. p = F(p)
  <2>1. /\ p \in [0 .. HeaderSize -> Nat] /\ p[0] = 1
        /\ \A i \in 1 .. HeaderSize : p[i] = Base * p[i - 1]
    BY <1>1, <1>2, <1>3 DEF Recurs, Shift
  <2> QED
    BY <1>1, <2>1
<1>5. Weight = CHOOSE g : Is(g)
  BY DEF Weight
<1> HIDE DEF F
<1>6. Weight = F(Weight)
  <2>1. Is(p)
    BY <1>4
  <2> HIDE DEF Is
  <2>2. Is(Weight)
    BY <1>5, <2>1
  <2> QED
    BY <2>2, Zenon DEF Is
<1>7. /\ F(Weight)[0] = 1
      /\ \A k \in 1 .. HeaderSize : F(Weight)[k] = Base * Weight[k - 1]
  <2>1. F(Weight)[0] = 1
    BY <1>1 DEF F
  <2>2. ASSUME NEW k \in 1 .. HeaderSize PROVE F(Weight)[k] = Base * Weight[k - 1]
    BY <1>1 DEF F
  <2> QED
    BY <2>1, <2>2
<1>8. /\ Weight[0] = 1
      /\ \A k \in 1 .. HeaderSize : Weight[k] = Base * Weight[k - 1]
  BY <1>6, <1>7, Zenon
<1>9. 0 \in T
  BY <1>1, <1>8
<1>10. ASSUME NEW k \in 0 .. HeaderSize - 1, k \in T PROVE k + 1 \in T
  <2>1. k + 1 \in 1 .. HeaderSize /\ Weight[k] \in Nat \ {0} /\ (k + 1) - 1 = k
    BY <1>1, <1>10
  <2>2. Weight[k + 1] = Base * Weight[k]
    BY <1>8, <2>1
  <2>3. Base * Weight[k] \in Nat \ {0}
    BY <1>1, <2>1
  <2> QED
    BY <1>1, <2>1, <2>2, <2>3
<1> HIDE DEF T
<1>11. \A k \in 0 .. HeaderSize : k \in T
  BY <1>1, <1>9, <1>10, UpTo
<1> QED
  BY <1>8, <1>11 DEF T

\* What the first digits of a header make, digit by digit.
LEMMA PartsRecur ==
  ASSUME NEW h, \A i \in 1 .. HeaderSize : Value(h[i]) \in Nat
  PROVE  /\ Parts(h)[0] = 0
         /\ \A i \in 1 .. HeaderSize : Parts(h)[i] = Shift(Parts(h)[i - 1], Value(h[i]))
<1> DEFINE v == [i \in 1 .. HeaderSize |-> Value(h[i])]
           F(g) == [i \in 0 .. HeaderSize |->
                      IF i = 0 THEN 0 ELSE Base * g[i - 1] + Value(h[i])]
           Is(g) == g = F(g)
<1>1. HeaderSize \in Nat /\ v \in [1 .. HeaderSize -> Nat]
  BY FramingAssumption
<1>2. \A i \in 1 .. HeaderSize : v[i] = Value(h[i])
  OBVIOUS
<1> HIDE DEF v
<1>3. PICK p : Recurs(HeaderSize, p, 0, v)
  BY <1>1, Recurrence
<1>4. p = F(p)
  <2>1. /\ p \in [0 .. HeaderSize -> Nat] /\ p[0] = 0
        /\ \A i \in 1 .. HeaderSize : p[i] = Base * p[i - 1] + Value(h[i])
    BY <1>1, <1>2, <1>3 DEF Recurs, Shift
  <2> QED
    BY <1>1, <2>1
<1>5. Parts(h) = CHOOSE g : Is(g)
  BY DEF Parts
<1>6. \A g : /\ F(g)[0] = 0
             /\ \A i \in 1 .. HeaderSize : F(g)[i] = Shift(g[i - 1], Value(h[i]))
  <2> SUFFICES ASSUME NEW g
               PROVE  /\ F(g)[0] = 0
                      /\ \A i \in 1 .. HeaderSize : F(g)[i] = Shift(g[i - 1], Value(h[i]))
    OBVIOUS
  <2>1. F(g)[0] = 0
    BY <1>1
  <2>2. ASSUME NEW i \in 1 .. HeaderSize PROVE F(g)[i] = Shift(g[i - 1], Value(h[i]))
    BY <1>1 DEF Shift
  <2> QED
    BY <2>1, <2>2
<1> HIDE DEF F
<1>7. Parts(h) = F(Parts(h))
  <2>1. Is(p)
    BY <1>4
  <2> HIDE DEF Is
  <2>2. Is(Parts(h))
    BY <1>5, <2>1
  <2> QED
    BY <2>2, Zenon DEF Is
<1> QED
  BY <1>6, <1>7, Zenon

\* The same of its digits as they are after a step.
LEMMA PartsRecurNext ==
  ASSUME NEW h, \A i \in 1 .. HeaderSize : Value(h[i])' \in Nat
  PROVE  /\ Parts(h)'[0] = 0
         /\ \A i \in 1 .. HeaderSize : Parts(h)'[i] = Shift(Parts(h)'[i - 1], Value(h[i])')
<1> DEFINE v == [i \in 1 .. HeaderSize |-> Value(h[i])']
           F(g) == [i \in 0 .. HeaderSize |->
                      IF i = 0 THEN 0 ELSE Base * g[i - 1] + Value(h[i])']
           Is(g) == g = F(g)
<1>1. HeaderSize \in Nat /\ v \in [1 .. HeaderSize -> Nat]
  BY FramingAssumption
<1>2. \A i \in 1 .. HeaderSize : v[i] = Value(h[i])'
  OBVIOUS
<1> HIDE DEF v
<1>3. PICK p : Recurs(HeaderSize, p, 0, v)
  BY <1>1, Recurrence
<1>4. p = F(p)
  <2>1. /\ p \in [0 .. HeaderSize -> Nat] /\ p[0] = 0
        /\ \A i \in 1 .. HeaderSize : p[i] = Base * p[i - 1] + Value(h[i])'
    BY <1>1, <1>2, <1>3 DEF Recurs, Shift
  <2> QED
    BY <1>1, <2>1
<1>5. Parts(h)' = CHOOSE g : Is(g)
  BY DEF Parts
<1>6. \A g : /\ F(g)[0] = 0
             /\ \A i \in 1 .. HeaderSize : F(g)[i] = Shift(g[i - 1], Value(h[i])')
  <2> SUFFICES ASSUME NEW g
               PROVE  /\ F(g)[0] = 0
                      /\ \A i \in 1 .. HeaderSize : F(g)[i] = Shift(g[i - 1], Value(h[i])')
    OBVIOUS
  <2>1. F(g)[0] = 0
    BY <1>1
  <2>2. ASSUME NEW i \in 1 .. HeaderSize PROVE F(g)[i] = Shift(g[i - 1], Value(h[i])')
    BY <1>1 DEF Shift
  <2> QED
    BY <2>1, <2>2
<1> HIDE DEF F
<1>7. Parts(h)' = F(Parts(h)')
  <2>1. Is(p)
    BY <1>4
  <2> HIDE DEF Is
  <2>2. Is(Parts(h)')
    BY <1>5, <2>1
  <2> QED
    BY <2>2, Zenon DEF Is
<1> QED
  BY <1>6, <1>7, Zenon

-----------------------------------------------------------------------------
(* What a header says *)

\* n div q is made of n div (b * q) and one more digit.
LEMMA OneMoreDigit ==
  ASSUME NEW n \in Nat, NEW b \in Nat \ {0}, NEW q \in Nat \ {0}
  PROVE  n \div q = b * (n \div (b * q)) + ((n \div q) % b)
<1> DEFINE a == n \div q
           c == a \div b
           m == b * q
           e == n \div m
<1>1. a \in Nat /\ q * a <= n /\ n < q * a + q
  OBVIOUS
<1>2. c \in Nat /\ a = b * c + (a % b) /\ a % b \in 0 .. b - 1
  BY <1>1
<1>3. m \in Nat \ {0}
  OBVIOUS
<1>4. e \in Nat /\ m * e <= n /\ n < m * e + m
  BY <1>3
<1> HIDE DEF a, c, e
<1>5. c = e
  <2> DEFINE d == a % b
  <2>a. d \in 0 .. b - 1 /\ a = b * c + d
    BY <1>2
  <2> HIDE DEF d
  <2>1. q * a = m * c + q * d
    <3>1. q * (b * c + d) = q * (b * c) + q * d
      BY <1>1, <1>2, <2>a
    <3>2. q * (b * c) = (b * q) * c
      BY <1>2
    <3> QED
      BY <2>a, <3>1, <3>2
  <2>2. q * d >= 0 /\ q * d + q <= m
    <3>1. q * (d + 1) <= q * b
      BY <2>a
    <3>2. q * d >= 0 /\ q * (d + 1) = q * d + q /\ q * b = m
      BY <2>a
    <3> QED
      BY <2>a, <3>1, <3>2
  <2>3. m * c <= n /\ n < m * c + m
    <3>1. q * d \in Int /\ m * c \in Int /\ q * a \in Int
      BY <1>1, <1>2, <2>a
    <3> QED
      BY <1>1, <2>1, <2>2, <3>1
  <2>4. ~(c < e)
    <3> SUFFICES ASSUME c + 1 <= e PROVE FALSE
      BY <1>2, <1>4
    <3>1. m * (c + 1) <= m * e
      BY <1>2, <1>3, <1>4
    <3> QED
      BY <1>2, <1>3, <1>4, <2>3, <3>1
  <2>5. ~(e < c)
    <3> SUFFICES ASSUME e + 1 <= c PROVE FALSE
      BY <1>2, <1>4
    <3>1. m * (e + 1) <= m * c
      BY <1>2, <1>3, <1>4
    <3> QED
      BY <1>2, <1>3, <1>4, <2>3, <3>1
  <2> QED
    BY <1>2, <1>4, <2>4, <2>5
<1> QED
  BY <1>2, <1>5 DEF a, e

\* A quotient is a number, and 0 of what is less than the divisor.
LEMMA Quotient ==
  ASSUME NEW n \in Nat, NEW q \in Nat \ {0}
  PROVE  n \div q \in Nat /\ (n < q => n \div q = 0)
OBVIOUS

\* The sizes are those of bodies that the code sends, and have no more digits
\* than a header but one.
LEMMA SizesFit ==
  /\ Weight[HeaderSize - 1] \in Nat \ {0} /\ MaxFrame \in Nat \ {0}
  /\ MaxFrame < Weight[HeaderSize - 1]
  /\ \A n \in Sizes : n \in Nat \ {0} /\ n <= MaxFrame
<1>1. HeaderSize - 1 \in 0 .. HeaderSize
  BY FramingAssumption
<1> DEFINE w == Weight[HeaderSize - 1]
<1>2. w \in Nat \ {0}
  BY <1>1, WeightIs
<1>3. MaxFrame \in 1 .. w - 1 /\ Sizes \subseteq 1 .. MaxFrame
  BY FramingAssumption
<1> HIDE DEF w
<1>4. MaxFrame \in Nat \ {0} /\ MaxFrame < w
  BY <1>2, <1>3
<1>5. \A n \in Sizes : n \in Nat \ {0} /\ n <= MaxFrame
  BY <1>3, <1>4
<1> QED
  BY <1>2, <1>4, <1>5 DEF w

\* A byte of frame f, of a stream of frames of the sizes z.
IsByte(b, z) == b[1] \in 1 .. Len(z) /\ b[2] \in 1 .. HeaderSize + z[b[1]]

\* The digits are numbers, and the sizes leave the first one 0.
LEMMA ValueNat ==
  ASSUME sizes \in Seq(Sizes), NEW b \in Nat \X Nat, IsByte(b, sizes)
  PROVE  Value(b) \in Nat
<1>1. CASE b[2] > HeaderSize
  BY <1>1, FramingAssumption DEF Value
<1>2. CASE ~(b[2] > HeaderSize)
  <2>1. /\ HeaderSize - b[2] \in 0 .. HeaderSize /\ HeaderSize \in Nat
        /\ Base \in Nat \ {0}
    BY <1>2, FramingAssumption DEF IsByte
  <2>2. Weight[HeaderSize - b[2]] \in Nat \ {0}
    BY <2>1, WeightIs
  <2>3. sizes[b[1]] \in Nat
    <3>1. sizes[b[1]] \in Sizes
      BY DEF IsByte
    <3> QED
      BY <3>1, SizesFit
  <2> DEFINE d == sizes[b[1]] \div Weight[HeaderSize - b[2]]
  <2>4. d \in Nat
    BY <2>2, <2>3, Quotient
  <2>5. Value(b) = d % Base
    BY <1>2 DEF Value
  <2> HIDE DEF d
  <2> QED
    BY <2>1, <2>4, <2>5
<1> QED
  BY <1>1, <1>2

\* As many bytes as a header has, whichever they are.
Headers ==
  {h \in Seq(Nat \X Nat) :
     Len(h) = HeaderSize /\ \A i \in 1 .. HeaderSize : IsByte(h[i], sizes)}

\* The digits of a header, and what the first of them make, are numbers.
LEMMA HeaderParts ==
  ASSUME sizes \in Seq(Sizes), NEW h \in Headers
  PROVE  /\ \A i \in 1 .. HeaderSize : Value(h[i]) \in Nat
         /\ Parts(h)[0] = 0
         /\ \A i \in 1 .. HeaderSize : Parts(h)[i] = Shift(Parts(h)[i - 1], Value(h[i]))
         /\ \A i \in 0 .. HeaderSize : Parts(h)[i] \in Nat
<1> DEFINE T == {i \in 0 .. HeaderSize : Parts(h)[i] \in Nat}
<1>1. HeaderSize \in Nat
  BY FramingAssumption
<1>2. \A i \in 1 .. HeaderSize : Value(h[i]) \in Nat
  <2> SUFFICES ASSUME NEW i \in 1 .. HeaderSize PROVE Value(h[i]) \in Nat
    OBVIOUS
  <2>1. h[i] \in Nat \X Nat /\ IsByte(h[i], sizes)
    BY <1>1 DEF Headers
  <2> QED
    BY <2>1, ValueNat
<1>3. /\ Parts(h)[0] = 0
      /\ \A i \in 1 .. HeaderSize : Parts(h)[i] = Shift(Parts(h)[i - 1], Value(h[i]))
  BY <1>2, PartsRecur
<1>4. 0 \in T
  BY <1>1, <1>3
<1>5. ASSUME NEW i \in 0 .. HeaderSize - 1, i \in T PROVE i + 1 \in T
  <2>1. i + 1 \in 1 .. HeaderSize /\ (i + 1) - 1 = i /\ i + 1 \in 0 .. HeaderSize
    BY <1>1
  <2>2. Parts(h)[i + 1] = Shift(Parts(h)[i], Value(h[i + 1]))
    BY <1>3, <2>1
  <2>3. Parts(h)[i] \in Nat /\ Value(h[i + 1]) \in Nat
    BY <1>2, <1>5, <2>1
  <2>4. Parts(h)[i + 1] \in Nat
    BY <2>2, <2>3, ShiftNat
  <2> QED
    BY <2>1, <2>4
<1> HIDE DEF T
<1>6. \A i \in 0 .. HeaderSize : i \in T
  BY <1>1, <1>4, <1>5, UpTo
<1> QED
  BY <1>2, <1>3, <1>6 DEF T

\* unpack undoes pack: the header of a frame, read whole, is its size.
LEMMA HeaderIsSize ==
  ASSUME sizes \in Seq(Sizes), NEW h \in Headers, NEW f \in 1 .. Len(sizes),
         \A i \in 1 .. HeaderSize : h[i] = <<f, i>>
  PROVE  Length(h) = sizes[f]
<1> DEFINE n == sizes[f]
           T == {i \in 0 .. HeaderSize : Parts(h)[i] = n \div Weight[HeaderSize - i]}
<1>1. /\ HeaderSize \in Nat \ {0} /\ Base \in Nat \ {0, 1}
      /\ n \in Nat /\ n <= MaxFrame /\ MaxFrame < Weight[HeaderSize - 1]
      /\ MaxFrame \in Nat
  <2>1. n \in Sizes
    OBVIOUS
  <2> HIDE DEF n
  <2> QED
    BY <2>1, SizesFit, FramingAssumption
<1> HIDE DEF n
<1>2. 0 \in T
  <2>1. HeaderSize \in 1 .. HeaderSize /\ HeaderSize - 1 \in 0 .. HeaderSize
        /\ HeaderSize \in 0 .. HeaderSize
    BY <1>1
  <2>2. /\ Weight[HeaderSize] \in Nat \ {0} /\ Weight[HeaderSize - 1] \in Nat \ {0}
        /\ Weight[HeaderSize] = Base * Weight[HeaderSize - 1]
    BY <2>1, WeightIs
  <2>3. n < Weight[HeaderSize]
    <3> DEFINE w == Weight[HeaderSize - 1]
               u == Weight[HeaderSize]
    <3>1. w \in Nat \ {0} /\ u \in Nat /\ u = Base * w /\ n < w
      BY <1>1, <2>2
    <3> HIDE DEF w, u
    <3>2. Base * w >= w
      BY <1>1, <3>1
    <3>3. n < u
      BY <1>1, <3>1, <3>2
    <3> QED
      BY <3>3 DEF u
  <2>5. n \div Weight[HeaderSize] = 0
    BY <1>1, <2>2, <2>3, Quotient
  <2>6. Parts(h)[0] = 0 /\ HeaderSize - 0 = HeaderSize
    BY <1>1, HeaderParts
  <2> QED
    BY <2>5, <2>6, <1>1
<1>3. ASSUME NEW i \in 0 .. HeaderSize - 1, i \in T PROVE i + 1 \in T
  <2>1. /\ i + 1 \in 1 .. HeaderSize /\ (i + 1) - 1 = i /\ i + 1 \in 0 .. HeaderSize
        /\ HeaderSize - i \in 1 .. HeaderSize
        /\ HeaderSize - (i + 1) \in 0 .. HeaderSize
        /\ (HeaderSize - i) - 1 = HeaderSize - (i + 1)
    BY <1>1
  <2> DEFINE q == Weight[HeaderSize - (i + 1)]
  <2>2. q \in Nat \ {0} /\ Weight[HeaderSize - i] = Base * q
    BY <2>1, WeightIs
  <2>3. Value(h[i + 1]) = (n \div q) % Base
    <3>1. h[i + 1] = <<f, i + 1>> /\ ~(i + 1 > HeaderSize)
      BY <1>1, <2>1
    <3> QED
      BY <3>1 DEF Value, n
  <2>4. Parts(h)[i + 1] = Shift(Parts(h)[i], Value(h[i + 1]))
    BY <2>1, HeaderParts
  <2>5. Parts(h)[i] = n \div (Base * q)
    BY <1>3, <2>2
  <2>6. Parts(h)[i + 1] = Base * (n \div (Base * q)) + ((n \div q) % Base)
    BY <2>3, <2>4, <2>5 DEF Shift
  <2> HIDE DEF q
  <2>7. n \div q = Base * (n \div (Base * q)) + ((n \div q) % Base)
    BY <1>1, <2>2, OneMoreDigit
  <2>8. Parts(h)[i + 1] = n \div q
    BY <2>6, <2>7
  <2> QED
    BY <2>1, <2>8 DEF q
<1> HIDE DEF T
<1>4. \A i \in 0 .. HeaderSize - 1 : i \in T => i + 1 \in T
  BY <1>3
<1>5. \A i \in 0 .. HeaderSize : i \in T
  BY <1>1, <1>2, <1>4, UpTo
<1>6. HeaderSize \in 0 .. HeaderSize /\ HeaderSize - HeaderSize = 0
  BY <1>1
<1>7. Parts(h)[HeaderSize] = n \div Weight[0]
  BY <1>5, <1>6 DEF T
<1> QED
  BY <1>1, <1>7, WeightIs DEF Length, n

\* What does not start with the digit 0 is too large for a length: the first of
\* the bytes that were taken for a header is in a header.
LEMMA ValidStartsInHeader ==
  ASSUME sizes \in Seq(Sizes), NEW h \in Headers, ValidLength(Length(h))
  PROVE  h[1][2] <= HeaderSize
<1> SUFFICES ASSUME ~(h[1][2] <= HeaderSize) PROVE FALSE
  OBVIOUS
<1> DEFINE T == {i \in 0 .. HeaderSize : i = 0 \/ Parts(h)[i] >= Weight[i - 1]}
<1>1. /\ HeaderSize \in Nat \ {0} /\ Base \in Nat \ {0, 1}
      /\ 1 \in 1 .. HeaderSize /\ HeaderSize \in 0 .. HeaderSize
      /\ HeaderSize - 1 \in 0 .. HeaderSize
  BY FramingAssumption
<1>2. h[1] \in Nat \X Nat
  BY <1>1 DEF Headers
<1>3. Value(h[1]) >= 1
  <2>1. h[1][2] > HeaderSize
    BY <1>1, <1>2
  <2> QED
    BY <2>1, FramingAssumption DEF Value
<1>4. 0 \in T
  BY <1>1
<1>5. ASSUME NEW i \in 0 .. HeaderSize - 1, i \in T PROVE i + 1 \in T
  <2>1. /\ i + 1 \in 1 .. HeaderSize /\ (i + 1) - 1 = i /\ i + 1 \in 0 .. HeaderSize
        /\ i \in 0 .. HeaderSize
    BY <1>1
  <2> DEFINE x == Parts(h)[i]
             d == Value(h[i + 1])
  <2>2. Parts(h)[i + 1] = Base * x + d /\ x \in Nat /\ d \in Nat
    BY <2>1, HeaderParts DEF Shift
  <2>3. Base * x \in Nat
    BY <1>1, <2>2
  <2>4. CASE i = 0
    <3>1. d >= 1 /\ Weight[i] = 1
      BY <1>3, <2>4, WeightIs
    <3> QED
      BY <2>1, <2>2, <2>3, <3>1
  <2>5. CASE i # 0
    <3>1. i \in 1 .. HeaderSize /\ i - 1 \in 0 .. HeaderSize
      BY <1>1, <2>1, <2>5
    <3> DEFINE w == Weight[i - 1]
    <3>2. x >= w /\ Weight[i] = Base * w /\ w \in Nat
      BY <1>5, <2>5, <3>1, WeightIs
    <3> HIDE DEF w, x, d
    <3>3. Base * x >= Base * w /\ Base * w \in Nat
      BY <1>1, <2>2, <3>2
    <3>4. Parts(h)[i + 1] >= Weight[i]
      BY <2>2, <2>3, <3>2, <3>3
    <3> QED
      BY <2>1, <3>4
  <2> QED
    BY <2>4, <2>5
<1> HIDE DEF T
<1>6. \A i \in 0 .. HeaderSize - 1 : i \in T => i + 1 \in T
  BY <1>5
<1>7. \A i \in 0 .. HeaderSize : i \in T
  BY <1>1, <1>4, <1>6, UpTo
<1>8. Parts(h)[HeaderSize] >= Weight[HeaderSize - 1]
  BY <1>1, <1>7 DEF T
<1>9. Weight[HeaderSize - 1] \in Nat /\ Length(h) \in Nat
  BY <1>1, WeightIs, HeaderParts DEF Length
<1> QED
  BY <1>8, <1>9, FramingAssumption DEF ValidLength, Length

\* A frame that is sent later does not change what a header says.
LEMMA LengthRests ==
  ASSUME sizes \in Seq(Sizes), NEW h \in Headers, NEW n \in Sizes,
         sizes' = Append(sizes, n)
  PROVE  Length(h)' = Length(h)
<1> DEFINE T == {i \in 0 .. HeaderSize : Parts(h)'[i] = Parts(h)[i]}
<1>1. HeaderSize \in Nat \ {0} /\ HeaderSize \in 0 .. HeaderSize
  BY FramingAssumption
<1>2. \A i \in 1 .. HeaderSize : Value(h[i])' = Value(h[i]) /\ Value(h[i]) \in Nat
  <2> SUFFICES ASSUME NEW i \in 1 .. HeaderSize PROVE Value(h[i])' = Value(h[i])
    BY HeaderParts
  <2>1. h[i] \in Nat \X Nat /\ IsByte(h[i], sizes)
    BY <1>1 DEF Headers
  <2>2. sizes'[h[i][1]] = sizes[h[i][1]]
    BY <2>1, AppendProperties DEF IsByte
  <2> QED
    BY <2>2 DEF Value
<1>3. /\ Parts(h)'[0] = 0
      /\ \A i \in 1 .. HeaderSize : Parts(h)'[i] = Shift(Parts(h)'[i - 1], Value(h[i])')
  BY <1>2, PartsRecurNext
<1>4. /\ Parts(h)[0] = 0
      /\ \A i \in 1 .. HeaderSize : Parts(h)[i] = Shift(Parts(h)[i - 1], Value(h[i]))
  BY HeaderParts
<1>5. 0 \in T
  BY <1>1, <1>3, <1>4
<1>6. ASSUME NEW i \in 0 .. HeaderSize - 1, i \in T PROVE i + 1 \in T
  <2>1. i + 1 \in 1 .. HeaderSize /\ (i + 1) - 1 = i /\ i + 1 \in 0 .. HeaderSize
    BY <1>1
  <2>2. /\ Parts(h)'[i + 1] = Shift(Parts(h)'[i], Value(h[i + 1])')
        /\ Parts(h)[i + 1] = Shift(Parts(h)[i], Value(h[i + 1]))
    BY <1>3, <1>4, <2>1
  <2>3. Parts(h)'[i] = Parts(h)[i] /\ Value(h[i + 1])' = Value(h[i + 1])
    BY <1>2, <1>6, <2>1
  <2> QED
    BY <2>1, <2>2, <2>3
<1> HIDE DEF T
<1>7. \A i \in 0 .. HeaderSize - 1 : i \in T => i + 1 \in T
  BY <1>6
<1>8. \A i \in 0 .. HeaderSize : i \in T
  BY <1>1, <1>5, <1>7, UpTo
<1>9. Parts(h)'[HeaderSize] = Parts(h)[HeaderSize]
  BY <1>1, <1>8 DEF T
<1> QED
  BY <1>9 DEF Length

-----------------------------------------------------------------------------
(* What is left of the frames, from some byte on *)

Bytes == Nat \X Nat

\* s is the end of a stream of frames of the sizes z: within a frame the bytes
\* follow one another up to its last, and after that comes the next frame, up
\* to the last frame.
Suffix(s, z) ==
  /\ s \in Seq(Bytes)
  /\ \A i \in 1 .. Len(s) : IsByte(s[i], z)
  /\ \A i \in 1 .. Len(s), k \in Nat :
       s[i][2] + k <= HeaderSize + z[s[i][1]] =>
         i + k <= Len(s) /\ s[i + k] = <<s[i][1], s[i][2] + k>>
  /\ \A i \in 1 .. Len(s) :
       i < Len(s) /\ s[i][2] = HeaderSize + z[s[i][1]] => s[i + 1] = <<s[i][1] + 1, 1>>
  /\ \A i, j \in 1 .. Len(s) : i <= j => s[i][1] <= s[j][1]
  /\ s # <<>> => s[Len(s)][1] = Len(z)

\* A later start leaves such an end, too.
LEMMA SuffixDrop ==
  ASSUME NEW z \in Seq(Sizes), NEW s, Suffix(s, z), NEW t \in Seq(Bytes),
         NEW c \in Nat, Len(s) = c + Len(t),
         \A i \in 1 .. Len(t) : t[i] = s[c + i]
  PROVE  Suffix(t, z)
<1>1. s \in Seq(Bytes) /\ Len(s) \in Nat /\ Len(t) \in Nat
  BY DEF Suffix
<1>2. \A i \in 1 .. Len(t) : c + i \in 1 .. Len(s) /\ t[i] = s[c + i]
  BY <1>1
<1>3. \A i \in 1 .. Len(t) : IsByte(t[i], z)
  BY <1>2 DEF Suffix
<1>4. ASSUME NEW i \in 1 .. Len(t), NEW k \in Nat,
             t[i][2] + k <= HeaderSize + z[t[i][1]]
      PROVE  i + k <= Len(t) /\ t[i + k] = <<t[i][1], t[i][2] + k>>
  <2>1. (c + i) + k <= Len(s) /\ s[(c + i) + k] = <<t[i][1], t[i][2] + k>>
    BY <1>2, <1>4 DEF Suffix
  <2>2. i + k <= Len(t) /\ i + k \in 1 .. Len(t) /\ c + (i + k) = (c + i) + k
    BY <1>1, <2>1
  <2> QED
    BY <1>2, <2>1, <2>2
<1>5. ASSUME NEW i \in 1 .. Len(t), i < Len(t), t[i][2] = HeaderSize + z[t[i][1]]
      PROVE  t[i + 1] = <<t[i][1] + 1, 1>>
  <2>1. i + 1 \in 1 .. Len(t) /\ c + i < Len(s) /\ c + (i + 1) = (c + i) + 1
    BY <1>1, <1>5
  <2>2. s[(c + i) + 1] = <<t[i][1] + 1, 1>>
    BY <1>2, <1>5, <2>1 DEF Suffix
  <2> QED
    BY <1>2, <2>1, <2>2
<1>6. ASSUME NEW i \in 1 .. Len(t), NEW j \in 1 .. Len(t), i <= j
      PROVE  t[i][1] <= t[j][1]
  <2>1. c + i <= c + j
    BY <1>1, <1>6
  <2> QED
    BY <1>2, <2>1 DEF Suffix
<1>7. t # <<>> => t[Len(t)][1] = Len(z)
  <2> SUFFICES ASSUME t # <<>> PROVE t[Len(t)][1] = Len(z)
    OBVIOUS
  <2>1. Len(t) \in 1 .. Len(t) /\ s # <<>>
    BY <1>1, EmptySeq
  <2> QED
    BY <1>2, <2>1 DEF Suffix
<1> QED
  BY <1>3, <1>4, <1>5, <1>6, <1>7 DEF Suffix

\* One frame more.
LEMMA SuffixGrows ==
  ASSUME NEW z \in Seq(Sizes), NEW s, Suffix(s, z), NEW n \in Sizes
  PROVE  Suffix(s \o FrameBytes(Len(z) + 1, n), Append(z, n))
<1> DEFINE m == Len(z) + 1
           F == FrameBytes(m, n)
           t == s \o F
           y == Append(z, n)
<1>1. /\ s \in Seq(Bytes) /\ Len(s) \in Nat /\ Len(z) \in Nat /\ n \in Nat \ {0}
      /\ HeaderSize \in Nat \ {0}
  BY SizesFit, FramingAssumption DEF Suffix
<1>2. /\ F \in Seq(Bytes) /\ Len(F) = HeaderSize + n
      /\ \A i \in 1 .. HeaderSize + n : F[i] = <<m, i>>
  BY <1>1 DEF FrameBytes, Bytes
<1>3. y \in Seq(Sizes) /\ Len(y) = m /\ y[m] = n /\ \A f \in 1 .. Len(z) : y[f] = z[f]
  BY AppendProperties
<1> HIDE DEF F, y
<1>4. /\ t \in Seq(Bytes) /\ Len(t) = Len(s) + HeaderSize + n
      /\ \A i \in 1 .. Len(s) : t[i] = s[i]
      /\ \A i \in Len(s) + 1 .. Len(t) : t[i] = <<m, i - Len(s)>>
  <2>1. /\ t \in Seq(Bytes) /\ Len(t) = Len(s) + Len(F)
        /\ \A i \in 1 .. Len(s) + Len(F) : t[i] = IF i <= Len(s) THEN s[i] ELSE F[i - Len(s)]
    BY <1>1, <1>2, ConcatProperties
  <2> HIDE DEF t
  <2>2. ASSUME NEW i \in Len(s) + 1 .. Len(t) PROVE t[i] = <<m, i - Len(s)>>
    <3>1. /\ i - Len(s) \in 1 .. HeaderSize + n /\ ~(i <= Len(s))
          /\ i \in 1 .. Len(s) + Len(F)
      BY <1>1, <1>2, <2>1
    <3> QED
      BY <1>2, <2>1, <3>1
  <2>3. \A i \in 1 .. Len(s) : t[i] = s[i]
    BY <1>1, <1>2, <2>1
  <2> QED
    BY <1>1, <1>2, <2>1, <2>2, <2>3
<1> HIDE DEF t
<1>5. ASSUME NEW i \in 1 .. Len(s)
      PROVE  /\ i \in 1 .. Len(t) /\ t[i] = s[i] /\ IsByte(s[i], z)
             /\ s[i][1] \in 1 .. Len(z) /\ s[i][1] \in Nat /\ s[i][2] \in Nat
             /\ y[s[i][1]] = z[s[i][1]]
             /\ IsByte(t[i], y)
  <2>1. IsByte(s[i], z) /\ s[i] \in Bytes
    BY DEF Suffix
  <2>2. s[i][1] \in 1 .. Len(z) /\ s[i][2] \in Nat /\ y[s[i][1]] = z[s[i][1]]
    BY <1>3, <2>1 DEF IsByte, Bytes
  <2>3. i \in 1 .. Len(t) /\ t[i] = s[i] /\ s[i][1] \in 1 .. m
    BY <1>1, <1>4, <2>2
  <2> QED
    BY <1>3, <2>1, <2>2, <2>3 DEF IsByte
<1>6. ASSUME NEW i \in 1 .. Len(t), ~(i \in 1 .. Len(s))
      PROVE  /\ i \in Len(s) + 1 .. Len(t)
             /\ t[i] = <<m, i - Len(s)>> /\ t[i][1] = m /\ t[i][2] = i - Len(s)
             /\ IsByte(t[i], y)
  <2>1. i \in Len(s) + 1 .. Len(t) /\ i - Len(s) \in 1 .. HeaderSize + n
    BY <1>1, <1>4, <1>6
  <2> QED
    BY <1>1, <1>3, <1>4, <2>1 DEF IsByte
<1>7. \A i \in 1 .. Len(t) : IsByte(t[i], y)
  BY <1>5, <1>6
<1>8. ASSUME NEW i \in 1 .. Len(t), NEW k \in Nat, t[i][2] + k <= HeaderSize + y[t[i][1]]
      PROVE  i + k <= Len(t) /\ t[i + k] = <<t[i][1], t[i][2] + k>>
  <2>1. CASE i \in 1 .. Len(s)
    <3>1. i + k <= Len(s) /\ s[i + k] = <<s[i][1], s[i][2] + k>>
      BY <1>5, <1>8, <2>1 DEF Suffix
    <3>2. i + k \in 1 .. Len(s)
      BY <1>1, <2>1, <3>1
    <3> QED
      BY <1>1, <1>4, <1>5, <2>1, <3>1, <3>2
  <2>2. CASE ~(i \in 1 .. Len(s))
    <3>1. /\ i \in Len(s) + 1 .. Len(t) /\ t[i][1] = m /\ t[i][2] = i - Len(s)
      BY <1>6, <2>2
    <3>2. (i - Len(s)) + k <= HeaderSize + n
      BY <1>3, <1>8, <3>1
    <3>3. i + k \in Len(s) + 1 .. Len(t) /\ (i + k) - Len(s) = (i - Len(s)) + k
      BY <1>1, <1>4, <3>1, <3>2
    <3>4. t[i + k] = <<m, (i + k) - Len(s)>>
      BY <1>4, <3>3
    <3> QED
      BY <3>1, <3>3, <3>4
  <2> QED
    BY <2>1, <2>2
<1>9. ASSUME NEW i \in 1 .. Len(t), i < Len(t), t[i][2] = HeaderSize + y[t[i][1]]
      PROVE  t[i + 1] = <<t[i][1] + 1, 1>>
  <2>1. CASE i \in 1 .. Len(s) /\ i < Len(s)
    <3>1. s[i + 1] = <<s[i][1] + 1, 1>> /\ i + 1 \in 1 .. Len(s)
      BY <1>1, <1>5, <1>9, <2>1 DEF Suffix
    <3> QED
      BY <1>4, <2>1, <3>1
  <2>2. CASE i \in 1 .. Len(s) /\ ~(i < Len(s))
    <3>1. i = Len(s) /\ s # <<>>
      BY <1>1, <2>2
    <3>2. s[i][1] = Len(z)
      BY <3>1 DEF Suffix
    <3>3. i + 1 \in Len(s) + 1 .. Len(t) /\ (i + 1) - Len(s) = 1
      BY <1>1, <1>4, <3>1
    <3> QED
      BY <1>4, <2>2, <3>2, <3>3
  <2>3. CASE ~(i \in 1 .. Len(s))
    <3>1. /\ i \in Len(s) + 1 .. Len(t) /\ t[i][1] = m /\ t[i][2] = i - Len(s)
      BY <1>6, <2>3
    <3> QED
      BY <1>1, <1>3, <1>4, <1>9, <3>1
  <2> QED
    BY <2>1, <2>2, <2>3
<1>10. ASSUME NEW i \in 1 .. Len(t), NEW j \in 1 .. Len(t), i <= j
       PROVE  t[i][1] <= t[j][1]
  <2>1. CASE j \in 1 .. Len(s)
    <3>1. i \in 1 .. Len(s)
      BY <1>1, <1>10, <2>1
    <3> QED
      BY <1>4, <1>10, <2>1, <3>1 DEF Suffix
  <2>2. CASE ~(j \in 1 .. Len(s))
    <3>1. t[j][1] = m
      BY <1>6, <2>2
    <3>2. t[i][1] \in 1 .. m
      BY <1>3, <1>7 DEF IsByte
    <3> QED
      BY <1>1, <3>1, <3>2
  <2> QED
    BY <2>1, <2>2
<1>11. t[Len(t)][1] = Len(y)
  <2>1. Len(t) \in Len(s) + 1 .. Len(t)
    BY <1>1, <1>4
  <2> QED
    BY <1>3, <1>4, <2>1
<1>12. Suffix(t, y)
  BY <1>4, <1>7, <1>8, <1>9, <1>10, <1>11 DEF Suffix
<1> QED
  BY <1>12 DEF t, y, F

\* The stream goes on with the whole of frame f, and the next one after it.
Leads(f, s, z) ==
  /\ f \in 1 .. Len(z) /\ z[f] \in Sizes
  /\ HeaderSize + z[f] <= Len(s)
  /\ \A i \in 1 .. HeaderSize + z[f] : s[i] = <<f, i>>
  /\ HeaderSize + z[f] < Len(s) => s[HeaderSize + z[f] + 1] = <<f + 1, 1>>
  /\ HeaderSize + z[f] = Len(s) => f = Len(z)

\* In step, it does.
LEMMA FirstFrame ==
  ASSUME NEW z \in Seq(Sizes), NEW s, Suffix(s, z), s # <<>>, s[1][2] = 1,
         NEW f, f = s[1][1]
  PROVE  Leads(f, s, z)
<1>1. /\ s \in Seq(Bytes) /\ Len(s) \in Nat \ {0} /\ 1 \in 1 .. Len(s)
      /\ HeaderSize \in Nat \ {0}
  BY EmptySeq, FramingAssumption DEF Suffix
<1>2. f \in 1 .. Len(z) /\ z[f] \in Sizes /\ z[f] \in Nat \ {0}
  BY <1>1, SizesFit DEF Suffix, IsByte
<1> DEFINE e == HeaderSize + z[f]
<1>3. e \in Nat \ {0}
  BY <1>1, <1>2
<1>4. \A k \in Nat : 1 + k <= e => 1 + k <= Len(s) /\ s[1 + k] = <<f, 1 + k>>
  BY <1>1 DEF Suffix
<1> HIDE DEF e
<1>5. ASSUME NEW i \in 1 .. e PROVE i <= Len(s) /\ s[i] = <<f, i>>
  <2> DEFINE k == i - 1
  <2>1. k \in Nat /\ 1 + k = i /\ i <= e
    BY <1>3
  <2> HIDE DEF k
  <2>2. 1 + k <= Len(s) /\ s[1 + k] = <<f, 1 + k>>
    BY <1>4, <2>1
  <2> QED
    BY <2>1, <2>2
<1>6. e \in 1 .. e /\ e <= Len(s) /\ e \in 1 .. Len(s) /\ s[e] = <<f, e>>
  BY <1>1, <1>3, <1>5
<1>7. e < Len(s) => s[e + 1] = <<f + 1, 1>>
  <2>1. s[e][1] = f /\ s[e][2] = HeaderSize + z[s[e][1]]
    BY <1>6 DEF e
  <2> QED
    BY <1>6, <2>1 DEF Suffix
<1>8. e = Len(s) => f = Len(z)
  BY <1>6 DEF Suffix
<1> QED
  BY <1>2, <1>5, <1>6, <1>7, <1>8 DEF e, Leads

\* Out of step within a header: what follows what is taken for a header is
\* neither the start of a body nor past the first key of one.
LEMMA OffBody ==
  ASSUME NEW z \in Seq(Sizes), NEW s, Suffix(s, z), HeaderSize < Len(s),
         s[1][2] \in 2 .. HeaderSize
  PROVE  s[HeaderSize + 1][2] # HeaderSize + 1 /\ s[HeaderSize + 1][2] <= 2 * HeaderSize
<1> DEFINE f == s[1][1]
           j == s[1][2]
<1>1. /\ s \in Seq(Bytes) /\ Len(s) \in Nat \ {0} /\ 1 \in 1 .. Len(s)
      /\ HeaderSize \in Nat \ {0, 1}
  BY FramingAssumption DEF Suffix
<1>2. f \in 1 .. Len(z) /\ z[f] \in Nat \ {0} /\ j \in 2 .. HeaderSize
  BY <1>1, SizesFit DEF Suffix, IsByte
<1>3. \A k \in Nat : j + k <= HeaderSize + z[f] =>
                        1 + k <= Len(s) /\ s[1 + k] = <<f, j + k>>
  BY <1>1 DEF Suffix
<1>4. CASE j <= z[f]
  <2>1. s[1 + HeaderSize] = <<f, j + HeaderSize>>
    BY <1>1, <1>2, <1>3, <1>4
  <2>2. s[HeaderSize + 1][2] = j + HeaderSize
    BY <1>1, <2>1
  <2> QED
    BY <1>1, <1>2, <2>2
<1>5. CASE ~(j <= z[f])
  <2> DEFINE k == HeaderSize + z[f] - j
             e == 1 + k
  <2>1. k \in Nat /\ e \in 1 .. HeaderSize /\ j + k = HeaderSize + z[f]
    BY <1>1, <1>2, <1>5
  <2>2. e \in 1 .. Len(s) /\ e < Len(s) /\ s[e] = <<f, HeaderSize + z[f]>>
    BY <1>1, <1>3, <2>1
  <2> HIDE DEF e
  <2>3. s[e + 1] = <<f + 1, 1>> /\ e + 1 \in 1 .. Len(s)
    BY <1>1, <2>1, <2>2 DEF Suffix
  <2>4. f + 1 \in 1 .. Len(z) /\ z[f + 1] \in Nat
    BY <1>2, <2>3, SizesFit DEF Suffix, IsByte
  <2> DEFINE d == HeaderSize - e
  <2>5. d \in Nat /\ 1 + d <= HeaderSize /\ (e + 1) + d = HeaderSize + 1
    BY <1>1, <2>1
  <2> HIDE DEF d
  <2>6. s[(e + 1) + d] = <<f + 1, 1 + d>>
    <3>1. 1 + d <= HeaderSize + z[f + 1]
      BY <1>1, <2>4, <2>5
    <3> QED
      BY <2>3, <2>5, <3>1 DEF Suffix
  <2>7. s[HeaderSize + 1][2] = 1 + d
    BY <2>5, <2>6
  <2> QED
    BY <1>1, <2>5, <2>7
<1> QED
  BY <1>4, <1>5

-----------------------------------------------------------------------------
(* The reader *)

\* What was read of a frame and what is left of the stream are consecutive, a
\* header that was accepted is one that _recv_frame accepts, and what was
\* returned is a whole body.
FrInv ==
  /\ sizes \in Seq(Sizes)
  /\ state \in {"idle", "reading", "closed"}
  /\ header \in Seq(Bytes) /\ buf \in Seq(Bytes) /\ stream \in Seq(Bytes)
  /\ Suffix(Rest, sizes)
  /\ header # <<>> => header \in Headers /\ ValidLength(Length(header))
  /\ Len(buf) <= Wanted
  /\ state = "reading" => Len(buf) < Wanted
  /\ state = "idle" => header = <<>> /\ buf = <<>>
  /\ got \in Seq(Seq(Bytes))
  /\ \A i \in 1 .. Len(got) : \E f \in 1 .. Len(sizes) : got[i] = Body(f, sizes[f])

\* t is a, b and c, one after the other.
Joins(t, a, b, c) ==
  /\ t \in Seq(Bytes) /\ Len(t) = Len(a) + Len(b) + Len(c)
  /\ \A i \in 1 .. Len(a) : t[i] = a[i]
  /\ \A i \in 1 .. Len(b) : t[Len(a) + i] = b[i]
  /\ \A i \in 1 .. Len(c) : t[Len(a) + Len(b) + i] = c[i]

\* What concatenation gives is that.
LEMMA ThreeParts == \A a, b, c \in Seq(Bytes) : Joins(a \o b \o c, a, b, c)
<1> SUFFICES ASSUME NEW a \in Seq(Bytes), NEW b \in Seq(Bytes), NEW c \in Seq(Bytes),
                    NEW t, t = a \o b \o c
             PROVE  Joins(t, a, b, c)
  OBVIOUS
<1> DEFINE u == a \o b
<1>1. Len(a) \in Nat /\ Len(b) \in Nat /\ Len(c) \in Nat
  OBVIOUS
<1>2. /\ u \in Seq(Bytes) /\ Len(u) = Len(a) + Len(b)
      /\ \A i \in 1 .. Len(a) + Len(b) : u[i] = IF i <= Len(a) THEN a[i] ELSE b[i - Len(a)]
  BY ConcatProperties
<1>3. t = u \o c /\ u \in Seq(Bytes)
  BY <1>2
<1> HIDE DEF u
<1>4. /\ t \in Seq(Bytes) /\ Len(t) = Len(u) + Len(c)
      /\ \A i \in 1 .. Len(u) + Len(c) : t[i] = IF i <= Len(u) THEN u[i] ELSE c[i - Len(u)]
  <2> HIDE <1>2
  <2> QED
    BY <1>3, ConcatProperties, Zenon
<1>5. ASSUME NEW i \in 1 .. Len(a) PROVE t[i] = a[i]
  BY <1>1, <1>2, <1>4
<1>6. ASSUME NEW i \in 1 .. Len(b) PROVE t[Len(a) + i] = b[i]
  <2>1. /\ Len(a) + i \in 1 .. Len(a) + Len(b) /\ ~(Len(a) + i <= Len(a))
        /\ (Len(a) + i) - Len(a) = i
        /\ Len(a) + i \in 1 .. Len(u) + Len(c) /\ Len(a) + i <= Len(u)
    BY <1>1, <1>2
  <2> QED
    BY <1>2, <1>4, <2>1
<1>7. ASSUME NEW i \in 1 .. Len(c) PROVE t[Len(a) + Len(b) + i] = c[i]
  <2>1. /\ Len(u) + i \in 1 .. Len(u) + Len(c) /\ ~(Len(u) + i <= Len(u))
        /\ (Len(u) + i) - Len(u) = i
    BY <1>1, <1>2
  <2> QED
    BY <1>2, <1>4, <2>1
<1> QED
  BY <1>1, <1>2, <1>4, <1>5, <1>6, <1>7 DEF Joins

\* The order in which bytes are put together does not matter.
LEMMA Associates == \A a, b, c \in Seq(Bytes) : a \o b \o c = a \o (b \o c)
BY ConcatAssociative

\* The bytes of a body.
LEMMA BodyIs ==
  ASSUME NEW f \in Nat, NEW n \in Nat
  PROVE  /\ Body(f, n) \in Seq(Bytes) /\ Len(Body(f, n)) = n
         /\ \A i \in 1 .. n : Body(f, n)[i] = <<f, HeaderSize + i>>
<1>1. HeaderSize \in Nat
  BY FramingAssumption
<1> DEFINE byte(i) == <<f, HeaderSize + i>>
           b == [i \in 1 .. n |-> byte(i)]
<1>2. \A i \in 1 .. n : byte(i) \in Bytes
  BY <1>1 DEF Bytes
<1>3. Body(f, n) = b
  BY DEF Body
<1>4. \A i : byte(i) = <<f, HeaderSize + i>>
  OBVIOUS
<1> HIDE DEF byte
<1>5. b \in Seq(Bytes) /\ Len(b) = n /\ \A i \in 1 .. n : b[i] = byte(i)
  BY <1>2
<1> HIDE DEF b
<1> QED
  BY <1>3, <1>4, <1>5, Zenon

\* What _recv_exact is asked for is never nothing.
LEMMA WantedNat ==
  ASSUME FrInv
  PROVE  /\ Wanted \in Nat \ {0}
         /\ header = <<>> => Wanted = HeaderSize
         /\ header # <<>> => Wanted = Length(header) /\ Len(header) = HeaderSize
<1>1. CASE header = <<>>
  BY <1>1, FramingAssumption DEF Wanted
<1>2. CASE header # <<>>
  <2>1. header \in Headers /\ ValidLength(Length(header)) /\ sizes \in Seq(Sizes)
    BY <1>2 DEF FrInv
  <2>2. HeaderSize \in 0 .. HeaderSize
    BY FramingAssumption
  <2>3. Length(header) \in Nat
    BY <2>1, <2>2, HeaderParts DEF Length
  <2> QED
    BY <1>2, <2>1, <2>3 DEF Wanted, ValidLength, Headers
<1> QED
  BY <1>1, <1>2

\* What one sock.recv does: it takes a few more bytes of the stream.
LEMMA RecvTakes ==
  ASSUME FrInv, RecvBytes
  PROVE  \E b \in Seq(Bytes) :
           /\ state = "reading" /\ sizes' = sizes /\ stream' \in Seq(Bytes)
           /\ Len(b) > 0 /\ Len(b) <= Wanted
           /\ header \o b \o stream' = Rest
           /\ \/ Len(b) < Wanted /\ buf' = b /\ UNCHANGED <<header, state, got>>
              \/ Len(b) = Wanted /\ header = <<>> /\ HeaderDone(b)
              \/ Len(b) = Wanted /\ header # <<>> /\ BodyDone(b)
<1>1. /\ header \in Seq(Bytes) /\ buf \in Seq(Bytes) /\ stream \in Seq(Bytes)
      /\ Wanted \in Nat /\ Len(buf) \in Nat /\ Len(stream) \in Nat
  BY WantedNat DEF FrInv
<1> DEFINE q(k) == SubSeq(stream, k + 1, Len(stream))
           p(k) == SubSeq(stream, 1, k)
           step(b) == IF Len(b) < Wanted
                      THEN buf' = b /\ UNCHANGED <<header, state, got>>
                      ELSE IF header = <<>> THEN HeaderDone(b) ELSE BodyDone(b)
<1>2. PICK k \in 1 .. Wanted - Len(buf) :
        k <= Len(stream) /\ stream' = q(k) /\ step(buf \o p(k))
  BY DEF RecvBytes
<1>3. state = "reading" /\ sizes' = sizes
  BY DEF RecvBytes
<1> HIDE DEF step
<1>4. k \in Nat /\ k >= 1 /\ k + Len(buf) <= Wanted
  BY <1>1
<1>5. /\ p(k) \in Seq(Bytes) /\ Len(p(k)) = k /\ q(k) \in Seq(Bytes)
      /\ p(k) \o q(k) = stream
  <2>1. \A i \in 1 .. Len(stream) : stream[i] \in Bytes
    BY <1>1
  <2>2. p(k) \in Seq(Bytes) /\ Len(p(k)) = k
    BY <1>1, <1>2, <1>4, <2>1, SubSeqProperties
  <2>3. q(k) \in Seq(Bytes)
    BY <1>1, <1>2, <1>4, <2>1, SubSeqProperties
  <2>4. /\ 1 \in 1 .. Len(stream) + 1 /\ k \in 1 - 1 .. Len(stream)
        /\ Len(stream) \in k .. Len(stream)
    BY <1>1, <1>2, <1>4
  <2>5. p(k) \o q(k) = SubSeq(stream, 1, Len(stream))
    BY <1>1, <2>4, ConcatAdjacentSubSeq
  <2>6. SubSeq(stream, 1, Len(stream)) = stream
    BY <1>1, SubSeqFull
  <2> QED
    BY <2>2, <2>3, <2>5, <2>6
<1> DEFINE x == p(k)
           y == q(k)
           b == buf \o x
<1>6. /\ x \in Seq(Bytes) /\ Len(x) = k /\ y \in Seq(Bytes) /\ x \o y = stream
      /\ stream' = y
  BY <1>2, <1>5
<1>7. step(b)
  BY <1>2
<1> HIDE DEF x, y, p, q
<1>8. b \in Seq(Bytes) /\ Len(b) = Len(buf) + k
  BY <1>1, <1>6, ConcatProperties
<1>9. Len(b) > 0 /\ Len(b) <= Wanted /\ Len(b) \in Nat
  BY <1>1, <1>4, <1>8
<1>10. header \o b \o stream' = Rest
  <2>1. b = buf \o x
    OBVIOUS
  <2> HIDE DEF b
  <2>2. header \o b \o y = header \o (b \o y)
    BY <1>1, <1>6, <1>8, Associates, Zenon
  <2>3. buf \o x \o y = buf \o (x \o y)
    BY <1>1, <1>6, Associates, Zenon
  <2>4. header \o buf \o stream = header \o (buf \o stream)
    BY <1>1, Associates, Zenon
  <2> QED
    BY <1>6, <2>1, <2>2, <2>3, <2>4, Zenon DEF Rest
<1> HIDE DEF b
<1>11. \/ Len(b) < Wanted /\ buf' = b /\ UNCHANGED <<header, state, got>>
       \/ Len(b) = Wanted /\ header = <<>> /\ HeaderDone(b)
       \/ Len(b) = Wanted /\ header # <<>> /\ BodyDone(b)
  BY <1>1, <1>7, <1>9 DEF step
<1> QED
  BY <1>3, <1>6, <1>8, <1>9, <1>10, <1>11

\* The first bytes of what is left are a header, in step or not.
LEMMA FirstIsHeader ==
  ASSUME FrInv, NEW b \in Seq(Bytes), Len(b) = HeaderSize,
         \A i \in 1 .. HeaderSize : b[i] = Rest[i], HeaderSize <= Len(Rest)
  PROVE  b \in Headers
<1>1. Rest \in Seq(Bytes) /\ Len(Rest) \in Nat /\ HeaderSize \in Nat
  BY FramingAssumption DEF FrInv, Suffix
<1>2. ASSUME NEW i \in 1 .. HeaderSize PROVE IsByte(b[i], sizes)
  <2>1. i \in 1 .. Len(Rest)
    BY <1>1
  <2> QED
    BY <2>1 DEF FrInv, Suffix
<1> QED
  BY <1>2 DEF Headers, Bytes

\* In step, it is accepted, and says the size of the frame at hand.
LEMMA InStepHeader ==
  ASSUME FrInv, InStep, NEW h \in Seq(Bytes), Len(h) = HeaderSize,
         \A i \in 1 .. HeaderSize : h[i] = Rest[i], HeaderSize <= Len(Rest),
         NEW f, f = Rest[1][1]
  PROVE  /\ f \in 1 .. Len(sizes) /\ Length(h) = sizes[f] /\ ValidLength(Length(h))
         /\ Rest # <<>> /\ Rest[1][2] = 1
<1>1. HeaderSize \in Nat \ {0} /\ Rest \in Seq(Bytes) /\ sizes \in Seq(Sizes)
  BY FramingAssumption DEF FrInv, Suffix
<1>2. Rest # <<>> /\ Rest[1][2] = 1
  BY <1>1 DEF InStep
<1>a. Suffix(Rest, sizes)
  BY DEF FrInv
<1>3. /\ f \in 1 .. Len(sizes) /\ sizes[f] \in Sizes
      /\ \A i \in 1 .. HeaderSize + sizes[f] : Rest[i] = <<f, i>>
  BY <1>1, <1>2, <1>a, FirstFrame DEF Leads
<1>4. sizes[f] \in Nat \ {0} /\ sizes[f] <= MaxFrame
  BY <1>3, SizesFit
<1>5. \A i \in 1 .. HeaderSize : h[i] = <<f, i>>
  <2> SUFFICES ASSUME NEW i \in 1 .. HeaderSize PROVE h[i] = <<f, i>>
    OBVIOUS
  <2>1. i \in 1 .. HeaderSize + sizes[f]
    BY <1>1, <1>4
  <2> QED
    BY <1>3, <2>1
<1>6. h \in Headers
  BY FirstIsHeader
<1>7. Length(h) = sizes[f]
  BY <1>1, <1>3, <1>5, <1>6, HeaderIsSize
<1> QED
  BY <1>2, <1>3, <1>4, <1>7 DEF ValidLength

\* In step, what follows the header is the whole body, and then the next frame.
LEMMA InStepBody ==
  ASSUME FrInv, InStep, header # <<>>, NEW b \in Seq(Bytes), Len(b) = Wanted,
         NEW q \in Seq(Bytes), header \o b \o q = Rest, NEW f, f = Rest[1][1]
  PROVE  /\ f \in 1 .. Len(sizes) /\ b = Body(f, sizes[f]) /\ b[1][1] = f
         /\ Rest # <<>> /\ Rest[1][2] = 1
         /\ q # <<>> => q[1] = <<f + 1, 1>>
         /\ q = <<>> => f = Len(sizes)
<1>1. /\ HeaderSize \in Nat \ {0} /\ Rest \in Seq(Bytes) /\ sizes \in Seq(Sizes)
      /\ header \in Seq(Bytes) /\ Len(header) = HeaderSize /\ Len(b) = Length(header)
      /\ Len(b) \in Nat \ {0} /\ Len(q) \in Nat
  BY FramingAssumption, WantedNat DEF FrInv, Suffix
<1>2. /\ Len(Rest) = HeaderSize + Len(b) + Len(q)
      /\ \A i \in 1 .. HeaderSize : Rest[i] = header[i]
      /\ \A i \in 1 .. Len(b) : Rest[HeaderSize + i] = b[i]
      /\ \A i \in 1 .. Len(q) : Rest[HeaderSize + Len(b) + i] = q[i]
  <2>1. Joins(Rest, header, b, q)
    BY <1>1, ThreeParts, Zenon
  <2> QED
    BY <1>1, <2>1 DEF Joins
<1>3. HeaderSize <= Len(Rest)
  BY <1>1, <1>2
<1>4. /\ f \in 1 .. Len(sizes) /\ Len(b) = sizes[f]
      /\ Rest # <<>> /\ Rest[1][2] = 1
  BY <1>1, <1>2, <1>3, InStepHeader
<1>5. /\ \A i \in 1 .. HeaderSize + sizes[f] : Rest[i] = <<f, i>>
      /\ HeaderSize + sizes[f] < Len(Rest) => Rest[HeaderSize + sizes[f] + 1] = <<f + 1, 1>>
      /\ HeaderSize + sizes[f] = Len(Rest) => f = Len(sizes)
  <2>1. Suffix(Rest, sizes)
    BY DEF FrInv
  <2>2. Leads(f, Rest, sizes)
    BY <1>1, <1>4, <2>1, FirstFrame
  <2> QED
    BY <2>2 DEF Leads
<1>6. b = Body(f, sizes[f])
  <2> DEFINE n == sizes[f]
             body == Body(f, n)
  <2>a. f \in Nat /\ n \in Nat /\ n = Len(b)
    BY <1>1, <1>4
  <2> HIDE DEF n
  <2>1. /\ body \in Seq(Bytes) /\ Len(body) = n
        /\ \A i \in 1 .. n : body[i] = <<f, HeaderSize + i>>
    BY <2>a, BodyIs
  <2>2. ASSUME NEW i \in 1 .. Len(b) PROVE b[i] = <<f, HeaderSize + i>>
    <3>1. HeaderSize + i \in 1 .. HeaderSize + sizes[f]
      BY <1>1, <1>4
    <3> QED
      BY <1>2, <1>5, <3>1
  <2> HIDE DEF body
  <2>3. Len(b) = Len(body) /\ \A i \in 1 .. Len(b) : b[i] = body[i]
    BY <2>a, <2>1, <2>2
  <2>4. b = body
    BY <2>1, <2>3, SeqEqual, Zenon
  <2> QED
    BY <2>4 DEF body, n
<1>7. b[1][1] = f
  <2>1. 1 \in 1 .. Len(b) /\ HeaderSize + 1 \in 1 .. HeaderSize + sizes[f]
    BY <1>1, <1>4
  <2>2. b[1] = <<f, HeaderSize + 1>>
    BY <1>2, <1>5, <2>1
  <2> QED
    BY <2>2
<1>8. q # <<>> => q[1] = <<f + 1, 1>>
  <2> SUFFICES ASSUME q # <<>> PROVE q[1] = <<f + 1, 1>>
    OBVIOUS
  <2>1. 1 \in 1 .. Len(q) /\ HeaderSize + Len(b) < Len(Rest)
    BY <1>1, <1>2, EmptySeq
  <2> QED
    BY <1>2, <1>4, <1>5, <2>1
<1>9. q = <<>> => f = Len(sizes)
  <2> SUFFICES ASSUME q = <<>> PROVE f = Len(sizes)
    OBVIOUS
  <2>1. Len(q) = 0
    BY EmptySeq
  <2> QED
    BY <1>1, <1>2, <1>4, <1>5, <2>1
<1> QED
  BY <1>4, <1>6, <1>7, <1>8, <1>9

\* Out of step, nothing decodes: the accepted header starts in a header.
LEMMA OutOfStep ==
  ASSUME FrInv, ~InStep, header # <<>>, NEW b \in Seq(Bytes), Len(b) > 0,
         NEW q \in Seq(Bytes), header \o b \o q = Rest
  PROVE  ~MayDecode(b)
<1>1. /\ HeaderSize \in Nat \ {0} /\ Rest \in Seq(Bytes) /\ sizes \in Seq(Sizes)
      /\ header \in Seq(Bytes) /\ Len(header) = HeaderSize
      /\ header \in Headers /\ ValidLength(Length(header))
      /\ Len(b) \in Nat \ {0} /\ Len(q) \in Nat
  BY FramingAssumption, WantedNat DEF FrInv, Suffix
<1>2. /\ Len(Rest) = HeaderSize + Len(b) + Len(q)
      /\ \A i \in 1 .. HeaderSize : Rest[i] = header[i]
      /\ \A i \in 1 .. Len(b) : Rest[HeaderSize + i] = b[i]
  <2>1. Joins(Rest, header, b, q)
    BY <1>1, ThreeParts, Zenon
  <2> QED
    BY <1>1, <2>1 DEF Joins
<1>3. /\ HeaderSize < Len(Rest) /\ 1 \in 1 .. Len(b) /\ 1 \in 1 .. HeaderSize
      /\ 1 \in 1 .. Len(Rest)
  BY <1>1, <1>2
<1>4. Rest[1][2] <= HeaderSize
  BY <1>1, <1>2, <1>3, ValidStartsInHeader
<1>5. Rest[1][2] # 1 /\ Rest[1][2] \in Nat /\ Rest[1][2] >= 1
  <2>1. Rest[1] \in Bytes /\ IsByte(Rest[1], sizes)
    BY <1>3 DEF FrInv, Suffix
  <2> QED
    BY <2>1 DEF InStep, Bytes, IsByte
<1>6. Rest[1][2] \in 2 .. HeaderSize
  BY <1>1, <1>4, <1>5
<1>7. b[1][2] # HeaderSize + 1 /\ b[1][2] <= 2 * HeaderSize
  <2>1. Suffix(Rest, sizes)
    BY DEF FrInv
  <2>2. /\ Rest[HeaderSize + 1][2] # HeaderSize + 1
        /\ Rest[HeaderSize + 1][2] <= 2 * HeaderSize
    BY <1>1, <1>3, <1>6, <2>1, OffBody
  <2>3. Rest[HeaderSize + 1] = b[1]
    BY <1>2, <1>3
  <2> QED
    BY <2>2, <2>3
<1>8. b[1] \in Bytes /\ IsByte(b[1], sizes)
  <2>1. HeaderSize + 1 \in 1 .. Len(Rest) /\ Rest[HeaderSize + 1] = b[1]
    BY <1>1, <1>2, <1>3
  <2> QED
    BY <2>1 DEF FrInv, Suffix
<1>9. ~IsWhole(b)
  <2> SUFFICES ASSUME IsWhole(b) PROVE FALSE
    OBVIOUS
  <2> DEFINE f == b[1][1]
  <2>a. f \in 1 .. Len(sizes) /\ sizes[f] \in Sizes
    BY <1>1, <1>8 DEF IsByte
  <2>b. b = Body(f, sizes[f])
    BY DEF IsWhole
  <2> HIDE DEF f
  <2>1. b = Body(f, sizes[f]) /\ f \in Nat /\ sizes[f] \in Nat
    BY <1>1, <2>a, <2>b, SizesFit
  <2>2. Len(b) = sizes[f] /\ \A i \in 1 .. sizes[f] : b[i] = <<f, HeaderSize + i>>
    BY <2>1, BodyIs
  <2>3. b[1] = <<f, HeaderSize + 1>>
    BY <1>3, <2>2
  <2> QED
    BY <1>7, <2>3
<1>10. ~(b[1][2] > 2 * HeaderSize)
  <2> DEFINE i == b[1][2]
  <2>1. i \in Nat /\ i <= 2 * HeaderSize
    BY <1>7, <1>8 DEF Bytes
  <2> HIDE DEF i
  <2>2. ~(i > 2 * HeaderSize)
    BY <1>1, <2>1
  <2> QED
    BY <2>2 DEF i
<1> QED
  BY <1>1, <1>3, <1>9, <1>10 DEF MayDecode

\* Nothing is left at the end.
LEMMA EmptyEnd == ASSUME NEW z PROVE Suffix(<<>>, z)
<1>1. <<>> \in Seq(Bytes) /\ Len(<<>>) = 0 /\ 1 .. 0 = {}
  BY EmptySeq
<1> QED
  BY <1>1 DEF Suffix

\* A connection starts so.
LEMMA FrInvInit == FrInit => FrInv
<1> SUFFICES ASSUME FrInit PROVE FrInv
  OBVIOUS
<1>1. /\ sizes = <<>> /\ stream = <<>> /\ header = <<>> /\ buf = <<>> /\ got = <<>>
      /\ state = "idle"
  BY DEF FrInit
<1>2. Rest = <<>>
  <2>1. <<>> \o <<>> = <<>>
    BY ConcatEmptySeq, EmptySeq
  <2> QED
    BY <1>1, <2>1, Zenon DEF Rest
<1>3. Suffix(Rest, sizes)
  BY <1>2, EmptyEnd
<1>4. Wanted = HeaderSize /\ HeaderSize \in Nat /\ Len(<<>>) = 0 /\ 1 .. 0 = {}
  BY <1>1, FramingAssumption DEF Wanted
<1> QED
  BY <1>1, <1>3, <1>4 DEF FrInv

\* What a header says is the same with the same frames.
LEMMA SameSizes ==
  ASSUME sizes' = sizes
  PROVE  Headers' = Headers /\ \A h : Length(h)' = Length(h)
<1>1. Headers' = Headers
  BY DEF Headers
<1>2. ASSUME NEW h PROVE Length(h)' = Length(h)
  BY DEF Length, Parts, Value
<1> QED
  BY <1>1, <1>2

\* A frame sent at any time leaves what was read of the earlier ones, and what
\* the header said, as it was.
LEMMA SendKeeps ==
  ASSUME FrInv, SendFrame
  PROVE  FrInv'
<1>1. PICK n \in Sizes : /\ sizes' = Append(sizes, n)
                         /\ stream' = stream \o FrameBytes(Len(sizes'), n)
  BY DEF SendFrame
<1>2. UNCHANGED <<header, buf, state, got>>
  BY DEF SendFrame
<1>3. /\ sizes \in Seq(Sizes) /\ header \in Seq(Bytes) /\ buf \in Seq(Bytes)
      /\ stream \in Seq(Bytes) /\ Suffix(Rest, sizes) /\ Len(sizes) \in Nat
  BY DEF FrInv
<1>4. /\ sizes' \in Seq(Sizes) /\ Len(sizes') = Len(sizes) + 1
      /\ \A f \in 1 .. Len(sizes) : sizes'[f] = sizes[f] /\ f \in 1 .. Len(sizes')
  BY <1>1, <1>3, AppendProperties
<1> DEFINE F == FrameBytes(Len(sizes) + 1, n)
<1>5. F \in Seq(Bytes)
  <2>1. n \in Nat /\ HeaderSize \in Nat
    BY SizesFit, FramingAssumption
  <2> QED
    BY <1>3, <2>1 DEF FrameBytes, Bytes
<1>6. stream' = stream \o F
  BY <1>1, <1>4
<1>7. Suffix(Rest \o F, Append(sizes, n))
  BY <1>3, SuffixGrows
<1> HIDE DEF F
<1>8. Rest' = Rest \o F
  <2> DEFINE a == header \o buf
  <2>1. a \in Seq(Bytes)
    BY <1>3, ConcatProperties
  <2>2. Rest = a \o stream /\ Rest' = a \o stream'
    BY <1>2 DEF Rest
  <2> HIDE DEF a
  <2>3. a \o stream \o F = a \o (stream \o F)
    BY <1>3, <1>5, <2>1, Associates, Zenon
  <2> QED
    BY <1>6, <2>2, <2>3, Zenon
<1>9. stream' \in Seq(Bytes)
  BY <1>3, <1>5, <1>6, ConcatProperties
<1>10. header # <<>> => /\ header \in Headers' /\ Length(header)' = Length(header)
                        /\ ValidLength(Length(header))
  <2> SUFFICES ASSUME header # <<>>
               PROVE  /\ header \in Headers' /\ Length(header)' = Length(header)
                      /\ ValidLength(Length(header))
    OBVIOUS
  <2>1. PICK h \in Headers : h = header
    BY DEF FrInv
  <2>2. Length(h)' = Length(h)
    BY <1>1, <1>3, LengthRests
  <2>3. h \in Headers'
    <3>1. ASSUME NEW i \in 1 .. HeaderSize PROVE IsByte(h[i], sizes')
      <4>1. IsByte(h[i], sizes) /\ h[i] \in Bytes
        BY FramingAssumption DEF Headers, Bytes
      <4>2. h[i][1] \in 1 .. Len(sizes)
        BY <4>1 DEF IsByte
      <4> QED
        BY <1>4, <4>1, <4>2 DEF IsByte
    <3> QED
      BY <3>1 DEF Headers
  <2>4. ValidLength(Length(header))
    BY DEF FrInv
  <2>5. header' = h
    BY <1>2, <2>1
  <2>6. Length(header)' = Length(h)'
    BY <2>5 DEF Length, Parts, Value
  <2> QED
    BY <1>2, <2>1, <2>2, <2>3, <2>4, <2>6
<1>11. Wanted' = Wanted
  BY <1>2, <1>10 DEF Wanted
<1>12. \A i \in 1 .. Len(got) : \E f \in 1 .. Len(sizes') : got[i] = Body(f, sizes'[f])
  BY <1>4 DEF FrInv
<1>13. ValidLength(Length(header))' = ValidLength(Length(header)')
  BY DEF ValidLength
<1> QED
  BY <1>1, <1>2, <1>3, <1>4, <1>7, <1>8, <1>9, <1>10, <1>11, <1>12, <1>13 DEF FrInv

\* A timeout drops what was read of a frame, and leaves the end of the stream
\* after it.
LEMMA TimeOutKeeps ==
  ASSUME FrInv, TimeOut
  PROVE  FrInv' /\ Rest' = stream
<1>1. /\ header' = <<>> /\ buf' = <<>> /\ state' = "idle"
      /\ sizes' = sizes /\ stream' = stream /\ got' = got
  BY DEF TimeOut
<1>2. /\ sizes \in Seq(Sizes) /\ header \in Seq(Bytes) /\ buf \in Seq(Bytes)
      /\ stream \in Seq(Bytes) /\ Suffix(Rest, sizes)
  BY DEF FrInv
<1>3. Rest' = stream
  <2>1. <<>> \o <<>> \o stream = stream
    BY <1>2, ConcatEmptySeq, EmptySeq
  <2> QED
    BY <1>1, <2>1, Zenon DEF Rest
<1>4. Joins(Rest, header, buf, stream)
  BY <1>2, ThreeParts DEF Rest
<1>5. Suffix(stream, sizes)
  <2> DEFINE c == Len(header) + Len(buf)
  <2>1. c \in Nat
    BY <1>2
  <2>2. /\ Len(Rest) = c + Len(stream)
        /\ \A i \in 1 .. Len(stream) : stream[i] = Rest[c + i]
    BY <1>4 DEF Joins
  <2> HIDE DEF c
  <2> QED
    BY <1>2, <2>1, <2>2, SuffixDrop
<1>6. Wanted' = HeaderSize /\ HeaderSize \in Nat /\ Len(<<>>) = 0
  BY <1>1, FramingAssumption DEF Wanted
<1>7. FrInv'
  BY <1>1, <1>2, <1>3, <1>5, <1>6 DEF FrInv
<1> QED
  BY <1>3, <1>7

\* Whatever a read takes, the rest is an end of the stream, and what it returns
\* is a whole body.
LEMMA RecvKeeps ==
  ASSUME FrInv, RecvBytes
  PROVE  FrInv'
<1>1. PICK b \in Seq(Bytes) :
        /\ state = "reading" /\ sizes' = sizes /\ stream' \in Seq(Bytes)
        /\ Len(b) > 0 /\ Len(b) <= Wanted
        /\ header \o b \o stream' = Rest
        /\ \/ Len(b) < Wanted /\ buf' = b /\ UNCHANGED <<header, state, got>>
           \/ Len(b) = Wanted /\ header = <<>> /\ HeaderDone(b)
           \/ Len(b) = Wanted /\ header # <<>> /\ BodyDone(b)
  BY RecvTakes
<1>2. /\ sizes \in Seq(Sizes) /\ header \in Seq(Bytes) /\ Suffix(Rest, sizes)
      /\ header # <<>> => header \in Headers /\ ValidLength(Length(header))
      /\ got \in Seq(Seq(Bytes)) /\ Len(b) \in Nat /\ Len(<<>>) = 0
      /\ \A i \in 1 .. Len(got) : \E f \in 1 .. Len(sizes) : got[i] = Body(f, sizes[f])
  BY DEF FrInv
<1>3. /\ Headers' = Headers
      /\ \A h : Length(h)' = Length(h)
  BY <1>1, SameSizes
<1>4. Joins(Rest, header, b, stream')
  BY <1>1, <1>2, ThreeParts, Zenon
\* Whatever was read and is kept in buf.
<1>5. ASSUME buf' = b, header' = header, got' = got, state' \in {"reading", "closed"},
             state' = "reading" => Len(b) < Wanted
      PROVE  FrInv'
  <2>1. Rest' = Rest
    BY <1>1, <1>5 DEF Rest
  <2>2. Wanted' = Wanted
    BY <1>3, <1>5 DEF Wanted
  <2>3. ValidLength(Length(header))' = ValidLength(Length(header))
    BY <1>3, <1>5 DEF ValidLength
  <2> QED
    BY <1>1, <1>2, <1>3, <1>5, <2>1, <2>2, <2>3 DEF FrInv
<1>6. CASE Len(b) < Wanted /\ buf' = b /\ UNCHANGED <<header, state, got>>
  BY <1>1, <1>5, <1>6
<1>7. CASE Len(b) = Wanted /\ header = <<>> /\ HeaderDone(b)
  <2>1. CASE Refuse /\ buf' = b
    BY <1>5, <2>1 DEF Refuse
  <2>2. CASE /\ ValidLength(Length(b)) /\ header' = b /\ buf' = <<>>
             /\ UNCHANGED <<state, got>>
    <3>1. b \in Headers
      <4>1. /\ Len(b) = HeaderSize /\ HeaderSize \in Nat /\ Len(stream') \in Nat
            /\ Len(header) = 0
        BY <1>1, <1>7, WantedNat, FramingAssumption
      <4>2. HeaderSize <= Len(Rest) /\ \A i \in 1 .. HeaderSize : b[i] = Rest[i]
        BY <1>4, <4>1 DEF Joins
      <4> QED
        BY <4>1, <4>2, FirstIsHeader
    <3>2. Rest' = Rest
      <4>1. b \o <<>> = b /\ <<>> \o b = b
        BY ConcatEmptySeq
      <4> QED
        BY <1>1, <1>7, <2>2, <4>1, Zenon DEF Rest
    <3>3. Length(b) \in Nat /\ Length(b) > 0
      <4>1. HeaderSize \in 0 .. HeaderSize
        BY FramingAssumption
      <4> QED
        BY <1>2, <2>2, <3>1, <4>1, HeaderParts DEF ValidLength, Length
    <3>4. b # <<>>
      BY <1>1, <1>2
    <3>5. Wanted' = Length(b)
      BY <1>3, <2>2, <3>4 DEF Wanted
    <3>6. ValidLength(Length(header))' = ValidLength(Length(b))
      BY <1>3, <2>2 DEF ValidLength
    <3> QED
      BY <1>1, <1>2, <1>3, <2>2, <3>1, <3>2, <3>3, <3>5, <3>6 DEF FrInv
  <2> QED
    BY <1>7, <2>1, <2>2 DEF HeaderDone
<1>8. CASE Len(b) = Wanted /\ header # <<>> /\ BodyDone(b)
  <2>1. CASE Refuse /\ buf' = b
    BY <1>5, <2>1 DEF Refuse
  <2>2. CASE /\ MayDecode(b) /\ got' = Append(got, b)
             /\ header' = <<>> /\ buf' = <<>> /\ state' = "idle"
    <3>1. InStep
      BY <1>1, <1>8, <2>2, OutOfStep
    <3>2. PICK f \in 1 .. Len(sizes) : b = Body(f, sizes[f])
      BY <1>1, <1>8, <3>1, InStepBody
    <3>3. Rest' = stream'
      <4>1. <<>> \o <<>> \o stream' = stream'
        BY <1>1, ConcatEmptySeq, EmptySeq
      <4> QED
        BY <2>2, <4>1, Zenon DEF Rest
    <3>4. Suffix(stream', sizes)
      <4> DEFINE c == Len(header) + Len(b)
      <4>1. c \in Nat
        BY <1>2
      <4>2. /\ Len(Rest) = c + Len(stream')
            /\ \A i \in 1 .. Len(stream') : stream'[i] = Rest[c + i]
        BY <1>4 DEF Joins
      <4> HIDE DEF c
      <4> QED
        BY <1>1, <1>2, <4>1, <4>2, SuffixDrop
    <3>5. /\ got' \in Seq(Seq(Bytes))
          /\ \A i \in 1 .. Len(got') : \E g \in 1 .. Len(sizes) : got'[i] = Body(g, sizes[g])
      <4>1. /\ got' \in Seq(Seq(Bytes)) /\ Len(got') = Len(got) + 1
            /\ \A i \in 1 .. Len(got) : got'[i] = got[i]
            /\ got'[Len(got) + 1] = b
        BY <1>2, <2>2, AppendProperties
      <4>2. ASSUME NEW i \in 1 .. Len(got')
            PROVE  \E g \in 1 .. Len(sizes) : got'[i] = Body(g, sizes[g])
        <5>1. CASE i \in 1 .. Len(got)
          BY <1>2, <4>1, <5>1
        <5>2. CASE i = Len(got) + 1
          BY <3>2, <4>1, <5>2
        <5>3. i \in 1 .. Len(got) \/ i = Len(got) + 1
          <6>1. Len(got) \in Nat
            BY <1>2
          <6> QED
            BY <4>1, <6>1
        <5> QED
          BY <5>1, <5>2, <5>3
      <4> QED
        BY <4>1, <4>2
    <3>6. Wanted' = HeaderSize /\ HeaderSize \in Nat
      BY <2>2, FramingAssumption DEF Wanted
    <3>7. (\A i \in 1 .. Len(got) : \E g \in 1 .. Len(sizes) : got[i] = Body(g, sizes[g]))'
      BY <1>1, <3>5 DEF Body
    <3>8. /\ sizes' \in Seq(Sizes) /\ header' \in Seq(Bytes) /\ buf' \in Seq(Bytes)
          /\ Suffix(Rest', sizes') /\ Len(buf') <= Wanted'
      BY <1>1, <1>2, <2>2, <3>3, <3>4, <3>6
    <3>9. got' \in Seq(Seq(Bytes))
      BY <3>5
    <3>10. stream' \in Seq(Bytes)
      BY <1>1
    <3> QED
      BY <2>2, <3>7, <3>8, <3>9, <3>10 DEF FrInv
  <2> QED
    BY <1>8, <2>1, <2>2 DEF BodyDone
<1> QED
  BY <1>1, <1>6, <1>7, <1>8

\* The invariant is inductive.
LEMMA FrInvNext == FrInv /\ [FrNext]_frVars => FrInv'
<1> SUFFICES ASSUME FrInv, [FrNext]_frVars PROVE FrInv'
  OBVIOUS
<1>1. CASE SendFrame
  BY <1>1, SendKeeps
<1>2. CASE BeginRecv
  <2>1. /\ state' = "reading" /\ header = <<>> /\ buf = <<>>
        /\ UNCHANGED <<sizes, stream, header, buf, got>>
    BY <1>2 DEF BeginRecv, FrInv
  <2>2. /\ Headers' = Headers /\ Length(header)' = Length(header) /\ Rest' = Rest
        /\ Wanted' = Wanted
    BY <2>1 DEF Headers, Length, Parts, Value, Rest, Wanted
  <2>3. Wanted = HeaderSize /\ HeaderSize \in Nat \ {0} /\ Len(buf) = 0
    BY <2>1, FramingAssumption DEF Wanted
  <2> QED
    BY <2>1, <2>2, <2>3 DEF FrInv
<1>3. CASE RecvBytes
  BY <1>3, RecvKeeps
<1>4. CASE TimeOut
  BY <1>4, TimeOutKeeps
<1>5. CASE UNCHANGED frVars
  <2>1. /\ Headers' = Headers
        /\ ValidLength(Length(header))' = ValidLength(Length(header))
        /\ Rest' = Rest /\ Wanted' = Wanted
    BY <1>5 DEF frVars, Headers, ValidLength, Length, Parts, Value, Rest, Wanted
  <2> QED
    BY <1>5, <2>1 DEF frVars, FrInv
<1> QED
  BY <1>1, <1>2, <1>3, <1>4, <1>5 DEF FrNext, Ended

-----------------------------------------------------------------------------
(* The channel *)

\* What is left is the header, what was read after it, and the stream.
LEMMA RestJoins ==
  ASSUME FrInv
  PROVE  /\ Joins(Rest, header, buf, stream) /\ Suffix(Rest, sizes)
         /\ Rest \in Seq(Bytes) /\ sizes \in Seq(Sizes)
<1>1. header \in Seq(Bytes) /\ buf \in Seq(Bytes) /\ stream \in Seq(Bytes)
  BY DEF FrInv
<1>2. Joins(Rest, header, buf, stream)
  BY <1>1, ThreeParts DEF Rest
<1> QED
  BY <1>2 DEF FrInv, Suffix

\* A frame of the stream is whole, and named by its first byte.
LEMMA WholeBody ==
  ASSUME sizes \in Seq(Sizes), NEW f \in 1 .. Len(sizes), NEW b, b = Body(f, sizes[f])
  PROVE  b[1][1] = f /\ IsWhole(b)
<1> DEFINE n == sizes[f]
<1>1. n \in Sizes /\ f \in Nat
  OBVIOUS
<1>2. b = Body(f, n)
  OBVIOUS
<1> HIDE DEF n
<1>3. n \in Nat \ {0}
  BY <1>1, SizesFit
<1>4. \A i \in 1 .. n : b[i] = <<f, HeaderSize + i>>
  BY <1>1, <1>2, <1>3, BodyIs
<1>5. b[1][1] = f
  <2>1. 1 \in 1 .. n
    BY <1>3
  <2>2. b[1] = <<f, HeaderSize + 1>>
    BY <1>4, <2>1
  <2> QED
    BY <2>2
<1> QED
  BY <1>5 DEF IsWhole

\* It gives OnlyWholeFrames.
LEMMA WholeFrames == FrInv => OnlyWholeFrames
<1> SUFFICES ASSUME FrInv, NEW i \in DOMAIN got PROVE IsWhole(got[i])
  BY DEF OnlyWholeFrames
<1>1. DOMAIN got = 1 .. Len(got)
  BY DEF FrInv
<1>2. PICK f \in 1 .. Len(sizes) : got[i] = Body(f, sizes[f])
  BY <1>1 DEF FrInv
<1>3. sizes \in Seq(Sizes)
  BY DEF FrInv
<1> QED
  BY <1>2, <1>3, WholeBody

\* It gives the types: every byte at hand is a byte of a frame that was sent.
LEMMA TypesHold == FrInv => FrTypeOK
<1> SUFFICES ASSUME FrInv PROVE FrTypeOK
  OBVIOUS
<1>1. Joins(Rest, header, buf, stream) /\ Suffix(Rest, sizes) /\ sizes \in Seq(Sizes)
  BY RestJoins
<1>2. /\ header \in Seq(Bytes) /\ buf \in Seq(Bytes) /\ stream \in Seq(Bytes)
      /\ state \in {"idle", "reading", "closed"}
      /\ Len(buf) <= Wanted
  BY DEF FrInv
<1>3. Len(header) \in {0, HeaderSize}
  BY <1>2, WantedNat, EmptySeq
<1>4. ASSUME NEW s \in {stream, header, buf}, NEW i \in DOMAIN s
      PROVE  IsByte(s[i], sizes)
  <2>1. s \in Seq(Bytes) /\ i \in 1 .. Len(s)
    BY <1>2
  <2>2. PICK c \in Nat :
          c + Len(s) <= Len(Rest) /\ \A k \in 1 .. Len(s) : Rest[c + k] = s[k]
    <3>1. Len(header) \in Nat /\ Len(buf) \in Nat /\ Len(stream) \in Nat
      BY <1>2
    <3>2. CASE s = stream
      <4> DEFINE c == Len(header) + Len(buf)
      <4>1. /\ c \in Nat /\ c + Len(stream) = Len(Rest)
            /\ \A k \in 1 .. Len(stream) : Rest[c + k] = stream[k]
        BY <1>1, <3>1 DEF Joins
      <4> HIDE DEF c
      <4>2. c + Len(stream) <= Len(Rest)
        BY <3>1, <4>1
      <4> QED
        BY <3>2, <4>1, <4>2
    <3>3. CASE s = header
      <4>1. \A k \in 1 .. Len(header) : Rest[0 + k] = header[k]
        BY <1>1, <3>1 DEF Joins
      <4> QED
        BY <1>1, <3>1, <3>3, <4>1 DEF Joins
    <3>4. CASE s = buf
      <4> DEFINE c == Len(header)
      <4>1. c + Len(buf) <= Len(Rest) /\ \A k \in 1 .. Len(buf) : Rest[c + k] = buf[k]
        BY <1>1, <3>1 DEF Joins
      <4>2. c \in Nat
        BY <3>1
      <4> HIDE DEF c
      <4> QED
        BY <3>4, <4>1, <4>2
    <3> QED
      BY <3>2, <3>3, <3>4
  <2>3. c + i \in 1 .. Len(Rest) /\ Rest[c + i] = s[i]
    <3>1. Len(s) \in Nat /\ Len(Rest) \in Nat
      BY <2>1, RestJoins
    <3> QED
      BY <2>1, <2>2, <3>1
  <2> QED
    BY <1>1, <2>3 DEF Suffix
<1> QED
  BY <1>1, <1>2, <1>3, <1>4 DEF FrTypeOK, IsByte

\* The frames from a on, of n.
Ints(a, n) == [i \in 1 .. n + 1 - a |-> a + i - 1]

\* There are as many as that, and none only if a is past the last.
LEMMA IntsAre ==
  ASSUME NEW n \in Nat, NEW a \in 1 .. n + 1
  PROVE  /\ Ints(a, n) \in Seq(Nat) /\ Len(Ints(a, n)) = n + 1 - a
         /\ \A i \in 1 .. n + 1 - a : Ints(a, n)[i] = a + i - 1
         /\ Ints(a, n) = <<>> <=> a = n + 1
<1>1. n + 1 - a \in Nat /\ \A i \in 1 .. n + 1 - a : a + i - 1 \in Nat
  OBVIOUS
<1>2. /\ Ints(a, n) \in Seq(Nat) /\ Len(Ints(a, n)) = n + 1 - a
      /\ \A i \in 1 .. n + 1 - a : Ints(a, n)[i] = a + i - 1
  BY <1>1 DEF Ints
<1>3. Ints(a, n) = <<>> <=> Len(Ints(a, n)) = 0
  BY <1>2, EmptySeq
<1> QED
  BY <1>2, <1>3

\* One more frame is one more at the end.
LEMMA OneIntMore ==
  ASSUME NEW n \in Nat, NEW a \in 1 .. n + 1
  PROVE  Ints(a, n + 1) = Append(Ints(a, n), n + 1)
<1> DEFINE s == Ints(a, n)
           t == Ints(a, n + 1)
           u == Append(s, n + 1)
<1>1. /\ s \in Seq(Nat) /\ Len(s) = n + 1 - a
      /\ \A i \in 1 .. n + 1 - a : s[i] = a + i - 1
  BY IntsAre
<1>2. /\ t \in Seq(Nat) /\ Len(t) = (n + 1) + 1 - a
      /\ \A i \in 1 .. (n + 1) + 1 - a : t[i] = a + i - 1
  BY IntsAre
<1> HIDE DEF s, t
<1>3. /\ u \in Seq(Nat) /\ Len(u) = Len(s) + 1
      /\ \A i \in 1 .. Len(s) : u[i] = s[i]
      /\ u[Len(s) + 1] = n + 1
  BY <1>1, AppendProperties
<1> HIDE DEF u
<1>4. Len(t) = Len(u)
  BY <1>1, <1>2, <1>3
<1>5. ASSUME NEW i \in 1 .. Len(t) PROVE t[i] = u[i]
  <2>1. t[i] = a + i - 1 /\ i \in Nat
    BY <1>2
  <2>2. CASE i \in 1 .. Len(s)
    <3>1. i \in 1 .. n + 1 - a
      BY <1>1, <2>2
    <3> QED
      BY <1>1, <1>3, <2>1, <2>2, <3>1
  <2>3. CASE i = Len(s) + 1
    BY <1>1, <1>3, <2>1, <2>3
  <2>4. i \in 1 .. Len(s) + 1
    BY <1>1, <1>2
  <2> QED
    BY <1>1, <2>2, <2>3, <2>4
<1>6. t = u
  BY <1>2, <1>3, <1>4, <1>5, SeqEqual
<1> QED
  BY <1>6 DEF s, t, u

\* Those from a later frame on are what is left when the first are taken away.
LEMMA FewerInts ==
  ASSUME NEW n \in Nat, NEW a \in 1 .. n + 1, NEW k \in 0 .. n + 1 - a
  PROVE  Ints(a + k, n) = SubSeq(Ints(a, n), k + 1, Len(Ints(a, n)))
<1> DEFINE s == Ints(a, n)
           t == Ints(a + k, n)
           u == SubSeq(s, k + 1, Len(s))
<1>1. /\ s \in Seq(Nat) /\ Len(s) = n + 1 - a
      /\ \A i \in 1 .. n + 1 - a : s[i] = a + i - 1
  BY IntsAre
<1>2. /\ t \in Seq(Nat) /\ Len(t) = n + 1 - (a + k)
      /\ \A i \in 1 .. n + 1 - (a + k) : t[i] = (a + k) + i - 1
  <2> DEFINE c == a + k
  <2>1. c \in 1 .. n + 1
    OBVIOUS
  <2> HIDE DEF c
  <2>2. /\ Ints(c, n) \in Seq(Nat) /\ Len(Ints(c, n)) = n + 1 - c
        /\ \A i \in 1 .. n + 1 - c : Ints(c, n)[i] = c + i - 1
    BY <2>1, IntsAre
  <2> QED
    BY <2>2 DEF c
<1> HIDE DEF s, t
<1>3. /\ u \in Seq(Nat) /\ Len(u) = Len(s) - k
      /\ \A i \in 1 .. Len(s) - k : u[i] = s[k + i]
  <2>1. \A i \in k + 1 .. Len(s) : s[i] \in Nat
    BY <1>1
  <2>2. u \in Seq(Nat) /\ Len(u) = Len(s) - k
    BY <1>1, <2>1, SubSeqProperties
  <2>3. \A i \in 1 .. Len(s) - k : u[i] = s[k + i]
    BY <1>1, SubSeqProperties
  <2> QED
    BY <2>2, <2>3
<1> HIDE DEF u
<1>4. Len(t) = Len(u)
  BY <1>1, <1>2, <1>3
<1>5. ASSUME NEW i \in 1 .. Len(t) PROVE t[i] = u[i]
  <2>1. i \in 1 .. Len(s) - k /\ k + i \in 1 .. n + 1 - a
    BY <1>1, <1>2
  <2> QED
    BY <1>1, <1>2, <1>3, <2>1
<1>6. t = u
  BY <1>2, <1>3, <1>4, <1>5, SeqEqual
<1> QED
  BY <1>6 DEF s, t, u

\* The frame that s starts within, of n frames; those from it on; and whether s
\* starts where it does.
At(s, n) == IF s = <<>> THEN n + 1 ELSE s[1][1]
QueueOf(s, n) ==
  IF s = <<>> THEN <<>> ELSE [i \in 1 .. n + 1 - s[1][1] |-> s[1][1] + i - 1]
Starts(s) == s = <<>> \/ s[1][2] = 1

\* They are frames that were sent, and there are some unless nothing is left.
LEMMA QueueIs ==
  ASSUME NEW z \in Seq(Sizes), NEW s, Suffix(s, z)
  PROVE  /\ At(s, Len(z)) \in 1 .. Len(z) + 1 /\ Len(z) \in Nat
         /\ QueueOf(s, Len(z)) = Ints(At(s, Len(z)), Len(z))
         /\ Len(QueueOf(s, Len(z))) = Len(z) + 1 - At(s, Len(z))
         /\ QueueOf(s, Len(z)) = <<>> <=> s = <<>>
         /\ s # <<>> => At(s, Len(z)) = s[1][1] /\ At(s, Len(z)) \in 1 .. Len(z)
<1> DEFINE n == Len(z)
           a == At(s, n)
<1>1. n \in Nat
  OBVIOUS
<1>2. CASE s = <<>>
  <2>1. a = n + 1 /\ QueueOf(s, n) = <<>>
    BY <1>2 DEF At, QueueOf
  <2> HIDE DEF n, a
  <2>2. Ints(n + 1, n) = <<>> /\ Len(<<>>) = 0
    BY <1>1, IntsAre, EmptySeq
  <2>3. a \in 1 .. n + 1 /\ n + 1 - a = 0
    BY <1>1, <2>1
  <2> QED
    BY <1>1, <1>2, <2>1, <2>2, <2>3 DEF n, a
<1>3. CASE s # <<>>
  <2>1. 1 \in 1 .. Len(s)
    BY <1>3, EmptySeq DEF Suffix
  <2>2. s[1][1] \in 1 .. n /\ a = s[1][1]
    BY <1>3, <2>1 DEF Suffix, IsByte, At
  <2>3. QueueOf(s, n) = Ints(a, n)
    BY <1>3, <2>2 DEF QueueOf, Ints
  <2> HIDE DEF n, a
  <2>4. a \in 1 .. n /\ a \in 1 .. n + 1 /\ a # n + 1
    BY <1>1, <2>2
  <2>5. Len(Ints(a, n)) = n + 1 - a /\ Ints(a, n) # <<>>
    BY <1>1, <2>4, IntsAre
  <2> QED
    BY <1>1, <1>3, <2>2, <2>3, <2>4, <2>5 DEF n, a
<1> QED
  BY <1>2, <1>3

\* Within one frame, the bytes are those from the first on.
LEMMA SameFrame ==
  ASSUME NEW z \in Seq(Sizes), NEW s, Suffix(s, z), NEW c \in Nat, c + 1 <= Len(s),
         s[c + 1][1] = s[1][1]
  PROVE  s[c + 1][2] = s[1][2] + c
<1> DEFINE f == s[1][1]
           j == s[1][2]
<1>1. /\ s \in Seq(Bytes) /\ Len(s) \in Nat \ {0} /\ 1 \in 1 .. Len(s)
      /\ HeaderSize \in Nat \ {0}
  BY FramingAssumption DEF Suffix
<1>2. /\ f \in 1 .. Len(z) /\ z[f] \in Nat \ {0}
      /\ j \in 1 .. HeaderSize + z[f]
  BY <1>1, SizesFit DEF Suffix, IsByte
<1>3. \A k \in Nat : j + k <= HeaderSize + z[f] =>
                        1 + k <= Len(s) /\ s[1 + k] = <<f, j + k>>
  BY <1>1 DEF Suffix
<1>4. CASE j + c <= HeaderSize + z[f]
  <2>1. s[1 + c] = <<f, j + c>> /\ 1 + c = c + 1
    BY <1>3, <1>4
  <2>2. s[c + 1][2] = j + c
    BY <2>1
  <2> QED
    BY <2>2
<1>5. CASE ~(j + c <= HeaderSize + z[f])
  <2> DEFINE m == HeaderSize + z[f]
             k == m - j
             e == 1 + k
  <2>a. m \in Nat /\ j \in 1 .. m /\ ~(j + c <= m)
    BY <1>1, <1>2, <1>5
  <2>b. \A i \in Nat : j + i <= m => 1 + i <= Len(s) /\ s[1 + i] = <<f, j + i>>
    BY <1>3
  <2> HIDE DEF m, j, f
  <2>1. k \in Nat /\ j + k = m /\ e <= c /\ e \in Nat \ {0}
    BY <2>a
  <2> HIDE DEF k
  <2>c. e <= Len(s) /\ s[e] = <<f, j + k>>
    BY <2>a, <2>b, <2>1
  <2>2. e \in 1 .. Len(s) /\ e < Len(s) /\ s[e] = <<f, HeaderSize + z[f]>>
    BY <1>1, <2>1, <2>c DEF m
  <2> HIDE DEF e
  <2>3. s[e + 1] = <<f + 1, 1>> /\ e + 1 \in 1 .. Len(s)
    BY <1>1, <2>1, <2>2 DEF Suffix
  <2>4. s[e + 1][1] <= s[c + 1][1]
    <3>1. e + 1 <= c + 1 /\ c + 1 \in 1 .. Len(s)
      BY <1>1, <2>1
    <3> QED
      BY <2>3, <3>1 DEF Suffix
  <2>5. f + 1 <= f
    BY <2>3, <2>4 DEF f
  <2> QED
    BY <1>2, <2>5
<1> QED
  BY <1>4, <1>5

\* The channel's variables, and each of its steps in terms of them.
Queue == QueueOf(Rest, Len(sizes))
Seen == [i \in DOMAIN got |-> got[i][1][1]]

\* The queue grows by a frame.
LEMMA ChannelPut ==
  ASSUME NEW f \in 1 .. MaxFrames, Queue' = Append(Queue, f),
         InStep' = InStep, Seen' = Seen, state' = state
  PROVE  Channel!Put
BY DEF Channel!Put, Queue, QueueOf, Seen

\* In step, the first frame moves to what was delivered.
LEMMA ChannelDeliver ==
  ASSUME InStep, InStep', state # "closed", state' # "closed", Queue # <<>>,
         Seen' = Append(Seen, Head(Queue)), Queue' = Tail(Queue)
  PROVE  Channel!Deliver
BY DEF Channel!Deliver, Queue, QueueOf, Seen

\* The reader falls out of step.
LEMMA ChannelTear ==
  ASSUME InStep, ~InStep', state # "closed", state' # "closed", Queue # <<>>,
         Queue' = Queue, Seen' = Seen
  PROVE  Channel!Tear
BY DEF Channel!Tear, Queue, QueueOf, Seen

\* Out of step, it loses frames.
LEMMA ChannelLose ==
  ASSUME ~InStep, state # "closed", state' # "closed", NEW k \in 1 .. Len(Queue),
         Queue' = SubSeq(Queue, k + 1, Len(Queue)), InStep' \/ Queue' # <<>>,
         Seen' = Seen
  PROVE  Channel!Lose
BY DEF Channel!Lose, Queue, QueueOf, Seen

\* Out of step, it gives up.
LEMMA ChannelNotice ==
  ASSUME ~InStep, ~InStep', state # "closed", state' = "closed",
         Queue' = Queue, Seen' = Seen
  PROVE  Channel!Notice
BY DEF Channel!Notice, Queue, QueueOf, Seen

\* Nothing that the channel knows of changes.
LEMMA ChannelStutter ==
  ASSUME InStep' = InStep, (state' = "closed") = (state = "closed"),
         Queue' = Queue, Seen' = Seen
  PROVE  UNCHANGED Channel!vars
BY DEF Channel!vars, Queue, QueueOf, Seen

\* A connection starts as an empty channel in step.
LEMMA ChannelInit == FrInit => Channel!Init
<1> SUFFICES ASSUME FrInit PROVE Channel!Init
  OBVIOUS
<1>1. /\ sizes = <<>> /\ stream = <<>> /\ header = <<>> /\ buf = <<>> /\ got = <<>>
      /\ state = "idle"
  BY DEF FrInit
<1>2. Rest = <<>>
  <2>1. <<>> \o <<>> = <<>>
    BY ConcatEmptySeq, EmptySeq
  <2> QED
    BY <1>1, <2>1, Zenon DEF Rest
<1>3. [i \in DOMAIN got |-> got[i][1][1]] = <<>>
  BY <1>1
<1> QED
  BY <1>1, <1>2, <1>3 DEF Channel!Init, InStep

\* Sending a frame puts it into the channel.
LEMMA SendMaps ==
  ASSUME FrInv, FrInv', SendFrame
  PROVE  Channel!Put
<1>1. PICK n \in Sizes : /\ sizes' = Append(sizes, n)
                         /\ stream' = stream \o FrameBytes(Len(sizes'), n)
  BY DEF SendFrame
<1>2. UNCHANGED <<header, buf, state, got>> /\ Len(sizes) < MaxFrames
  BY DEF SendFrame
<1>3. /\ sizes \in Seq(Sizes) /\ Suffix(Rest, sizes) /\ Rest \in Seq(Bytes)
      /\ header \in Seq(Bytes) /\ buf \in Seq(Bytes) /\ stream \in Seq(Bytes)
      /\ sizes' \in Seq(Sizes) /\ Suffix(Rest', sizes')
  BY DEF FrInv, Suffix
<1> DEFINE m == Len(sizes) + 1
           F == FrameBytes(m, n)
<1>4. Len(sizes') = m /\ Len(sizes) \in Nat /\ m \in 1 .. MaxFrames
  BY <1>1, <1>2, <1>3, FramingAssumption, AppendProperties
<1>5. F \in Seq(Bytes) /\ Len(F) \in Nat \ {0} /\ F[1] = <<m, 1>>
  <2>1. n \in Nat /\ HeaderSize \in Nat \ {0}
    BY SizesFit, FramingAssumption
  <2> QED
    BY <1>4, <2>1 DEF FrameBytes, Bytes
<1>6. stream' = stream \o F
  BY <1>1, <1>4
<1> HIDE DEF F
<1>7. Rest' = Rest \o F
  <2> DEFINE a == header \o buf
  <2>1. a \in Seq(Bytes)
    BY <1>3, ConcatProperties
  <2>2. Rest = a \o stream /\ Rest' = a \o stream'
    BY <1>2 DEF Rest
  <2> HIDE DEF a
  <2>3. a \o stream \o F = a \o (stream \o F)
    BY <1>3, <1>5, <2>1, Associates, Zenon
  <2> QED
    BY <1>6, <2>2, <2>3, Zenon
<1>8. /\ Len(Rest') = Len(Rest) + Len(F) /\ Len(Rest) \in Nat /\ Rest' \in Seq(Bytes)
      /\ \A i \in 1 .. Len(Rest) + Len(F) :
           Rest'[i] = IF i <= Len(Rest) THEN Rest[i] ELSE F[i - Len(Rest)]
  BY <1>3, <1>5, <1>7, ConcatProperties
<1>9. Rest' # <<>>
  BY <1>5, <1>8, EmptySeq
<1>10. At(Rest', m) = At(Rest, Len(sizes)) /\ InStep' = InStep
  <2>1. CASE Rest = <<>>
    <3>1. Rest'[1] = F[1]
      BY <1>5, <1>8, <2>1, EmptySeq
    <3> QED
      BY <1>5, <1>9, <2>1, <3>1 DEF At, InStep
  <2>2. CASE Rest # <<>>
    <3>1. Rest'[1] = Rest[1]
      BY <1>3, <1>5, <1>8, <2>2, EmptySeq
    <3> QED
      BY <1>9, <2>2, <3>1 DEF At, InStep
  <2> QED
    BY <2>1, <2>2
<1>11. Queue' = Append(Queue, m)
  <2> DEFINE a == At(Rest, Len(sizes))
             l == Len(sizes)
  <2>1. Queue' = Ints(At(Rest', m), m)
    BY <1>3, <1>4, QueueIs DEF Queue
  <2>2. Queue = Ints(a, l) /\ a \in 1 .. l + 1 /\ l \in Nat
    BY <1>3, QueueIs DEF Queue
  <2>3. Queue' = Ints(a, l + 1)
    BY <1>10, <2>1
  <2> HIDE DEF a, l
  <2>4. Ints(a, l + 1) = Append(Ints(a, l), l + 1)
    BY <2>2, OneIntMore
  <2> QED
    BY <2>2, <2>3, <2>4, Zenon DEF l
<1>12. Seen' = Seen /\ state' = state
  BY <1>2 DEF Seen
<1> HIDE DEF m
<1> QED
  BY <1>4, <1>10, <1>11, <1>12, ChannelPut

\* A timeout before the first byte of a frame changes nothing; one after it puts
\* a reader in step out of step, and makes one out of step drop what it read:
\* frames, some or none, of the channel.
LEMMA TimeOutMaps ==
  ASSUME FrInv, FrInv', TimeOut
  PROVE  [Channel!Next]_Channel!vars
<1>1. /\ state = "reading" /\ state' = "idle" /\ header' = <<>> /\ buf' = <<>>
      /\ sizes' = sizes /\ stream' = stream /\ got' = got
  BY DEF TimeOut
<1>2. Seen' = Seen /\ state # "closed" /\ state' # "closed"
      /\ (state' = "closed") = (state = "closed")
  BY <1>1 DEF Seen
<1>3. Rest' = stream
  BY TimeOutKeeps
<1>4. /\ Joins(Rest, header, buf, stream) /\ Suffix(Rest, sizes)
      /\ Suffix(stream, sizes)
      /\ Rest \in Seq(Bytes) /\ sizes \in Seq(Sizes)
      /\ header \in Seq(Bytes) /\ buf \in Seq(Bytes) /\ stream \in Seq(Bytes)
      /\ Len(buf) < Wanted /\ HeaderSize \in Nat \ {0}
  BY <1>1, <1>3, RestJoins, FramingAssumption DEF FrInv
<1> DEFINE c == Len(header) + Len(buf)
<1>5. /\ c \in Nat /\ Len(Rest) = c + Len(stream) /\ Len(Rest) \in Nat
      /\ Len(stream) \in Nat
      /\ \A i \in 1 .. Len(stream) : stream[i] = Rest[c + i]
      /\ c = 0 => header = <<>> /\ buf = <<>>
  BY <1>4, EmptySeq DEF Joins
\* The byte at hand after the timeout, and its frame.
<1> DEFINE l == Len(sizes)
           a == At(Rest, l)
           e == At(stream, l)
<1>6. /\ l \in Nat /\ a \in 1 .. l + 1 /\ e \in 1 .. l + 1
      /\ Queue = Ints(a, l) /\ Queue' = Ints(e, l) /\ Len(Queue) = l + 1 - a
      /\ (Queue = <<>> <=> Rest = <<>>) /\ (Queue' = <<>> <=> stream = <<>>)
      /\ (Rest # <<>> => a = Rest[1][1] /\ a \in 1 .. l)
      /\ (stream # <<>> => e = stream[1][1])
      /\ (stream = <<>> => e = l + 1)
  BY <1>1, <1>3, <1>4, QueueIs DEF Queue, At
<1>7. stream # <<>> =>
        c + 1 \in 1 .. Len(Rest) /\ 1 \in 1 .. Len(Rest) /\ stream[1] = Rest[c + 1]
  BY <1>4, <1>5, EmptySeq
<1> HIDE DEF c, a, e, l
<1>8. CASE c = 0
  <2>1. stream = Rest
    <3>1. <<>> \o <<>> \o stream = stream
      BY <1>4, ConcatEmptySeq, EmptySeq
    <3> QED
      BY <1>5, <1>8, <3>1, Zenon DEF Rest
  <2>2. Rest' = Rest /\ Queue' = Queue /\ InStep' = InStep
    BY <1>1, <1>3, <2>1 DEF Queue, InStep
  <2> QED
    BY <1>2, <2>2, ChannelStutter
<1>9. CASE c # 0 /\ InStep
  <2>1. Rest # <<>> /\ Rest[1][2] = 1
    BY <1>5, <1>9, EmptySeq DEF InStep
  <2>2. Leads(a, Rest, sizes)
    BY <1>4, <1>6, <2>1, FirstFrame
  <2> DEFINE n == sizes[a]
  <2>3. /\ n \in Nat /\ HeaderSize + n <= Len(Rest)
        /\ \A i \in 1 .. HeaderSize + n : Rest[i] = <<a, i>>
    BY <2>2, SizesFit DEF Leads
  <2>4. c < HeaderSize + n
    <3>1. CASE header = <<>>
      BY <1>4, <2>3, <3>1, WantedNat, EmptySeq DEF c
    <3>2. CASE header # <<>>
      <4>1. Len(header) = HeaderSize /\ Wanted = Length(header)
        BY <3>2, WantedNat
      <4>2. HeaderSize <= Len(Rest) /\ \A i \in 1 .. HeaderSize : header[i] = Rest[i]
        BY <1>4, <1>5, <2>3, <4>1 DEF Joins
      <4>3. Length(header) = n
        BY <1>4, <1>6, <1>9, <2>1, <4>1, <4>2, InStepHeader
      <4> HIDE DEF n
      <4> QED
        BY <1>4, <2>3, <4>1, <4>3 DEF c
    <3> QED
      BY <3>1, <3>2
  <2> HIDE DEF n
  <2>5. Rest[c + 1] = <<a, c + 1>> /\ c < Len(Rest)
    BY <1>4, <1>5, <2>3, <2>4
  <2>6. stream # <<>>
    BY <1>5, <2>5, EmptySeq
  <2>7. stream[1] = <<a, c + 1>>
    BY <1>7, <2>5, <2>6
  <2>8. ~InStep' /\ e = a
    BY <1>3, <1>5, <1>6, <1>9, <2>6, <2>7 DEF InStep
  <2>9. Queue' = Queue /\ Queue # <<>>
    BY <1>6, <2>1, <2>8
  <2> QED
    BY <1>2, <1>9, <2>8, <2>9, ChannelTear DEF Channel!Next
<1>10. CASE ~InStep
  <2>1. Rest # <<>> /\ Rest[1][2] # 1
    BY <1>10 DEF InStep
  <2>2. a <= e
    <3>1. CASE stream = <<>>
      BY <1>6, <3>1
    <3>2. CASE stream # <<>>
      <4>1. Rest[1][1] <= Rest[c + 1][1]
        BY <1>4, <1>5, <1>7, <3>2 DEF Suffix
      <4> QED
        BY <1>6, <1>7, <2>1, <3>2, <4>1
    <3> QED
      BY <3>1, <3>2
  <2> DEFINE k == e - a
  <2>3. k \in 0 .. l + 1 - a /\ a + k = e
    BY <1>6, <2>2
  <2>4. Queue' = SubSeq(Queue, k + 1, Len(Queue))
    <3> HIDE DEF k
    <3>1. Ints(a + k, l) = SubSeq(Ints(a, l), k + 1, Len(Ints(a, l)))
      BY <1>6, <2>3, FewerInts
    <3> QED
      BY <1>6, <2>3, <3>1
  <2>5. CASE k = 0
    <3>1. e = a /\ stream # <<>>
      BY <1>6, <2>1, <2>3, <2>5
    <3>2. Rest[c + 1][1] = Rest[1][1] /\ c + 1 <= Len(Rest)
      BY <1>5, <1>6, <1>7, <2>1, <3>1
    <3>3. Rest[c + 1][2] = Rest[1][2] + c
      BY <1>4, <1>5, <3>2, SameFrame
    <3>4. Rest[1][2] \in Nat \ {0, 1}
      <4>1. Rest[1] \in Bytes /\ IsByte(Rest[1], sizes)
        BY <1>4, <1>7, <3>1 DEF Suffix
      <4> QED
        BY <2>1, <4>1 DEF Bytes, IsByte
    <3>5. ~InStep'
      BY <1>3, <1>5, <1>7, <3>1, <3>3, <3>4 DEF InStep
    <3>6. InStep' = InStep
      BY <1>10, <3>5 DEF InStep
    <3> QED
      BY <1>2, <1>6, <3>1, <3>6, ChannelStutter
  <2>6. CASE k # 0
    <3>1. k \in 1 .. Len(Queue)
      BY <1>6, <2>3, <2>6
    <3>2. InStep' \/ Queue' # <<>>
      BY <1>3, <1>6 DEF InStep
    <3> HIDE DEF k
    <3> QED
      BY <1>2, <1>10, <2>4, <3>1, <3>2, ChannelLose DEF Channel!Next
  <2> QED
    BY <2>5, <2>6
<1> QED
  BY <1>8, <1>9, <1>10

\* A read delivers the first frame if it is complete and the reader in step,
\* changes nothing if more is to come, and is refused only out of step.
LEMMA RecvMaps ==
  ASSUME FrInv, FrInv', RecvBytes
  PROVE  [Channel!Next]_Channel!vars
<1>1. PICK b \in Seq(Bytes) :
        /\ state = "reading" /\ sizes' = sizes /\ stream' \in Seq(Bytes)
        /\ Len(b) > 0 /\ Len(b) <= Wanted
        /\ header \o b \o stream' = Rest
        /\ \/ Len(b) < Wanted /\ buf' = b /\ UNCHANGED <<header, state, got>>
           \/ Len(b) = Wanted /\ header = <<>> /\ HeaderDone(b)
           \/ Len(b) = Wanted /\ header # <<>> /\ BodyDone(b)
  BY RecvTakes
<1>2. /\ Suffix(Rest, sizes) /\ Suffix(Rest', sizes) /\ header \in Seq(Bytes)
      /\ sizes \in Seq(Sizes) /\ Rest \in Seq(Bytes)
      /\ got \in Seq(Seq(Bytes)) /\ Len(b) \in Nat \ {0}
  <2>1. Suffix(Rest', sizes') /\ header \in Seq(Bytes) /\ got \in Seq(Seq(Bytes))
    BY DEF FrInv
  <2> QED
    BY <1>1, <2>1, RestJoins
<1>3. Joins(Rest, header, b, stream')
  BY <1>1, <1>2, ThreeParts, Zenon
\* No byte of a frame is dropped: a stutter, or the reader notices.
<1>4. ASSUME Rest' = Rest, got' = got, state' = state
      PROVE  UNCHANGED Channel!vars
  <2>1. Queue' = Queue /\ InStep' = InStep /\ Seen' = Seen
    BY <1>1, <1>4 DEF Queue, InStep, Seen
  <2> QED
    BY <1>4, <2>1, ChannelStutter
<1>5. ASSUME ~InStep, Refuse, buf' = b
      PROVE  Channel!Notice
  <2>1. Rest' = Rest /\ got' = got /\ state' = "closed"
    BY <1>1, <1>5 DEF Refuse, Rest
  <2>2. Queue' = Queue /\ ~InStep' /\ Seen' = Seen
    BY <1>1, <1>5, <2>1 DEF Queue, InStep, Seen
  <2> QED
    BY <1>1, <1>5, <2>1, <2>2, ChannelNotice
<1>6. CASE Len(b) < Wanted /\ buf' = b /\ UNCHANGED <<header, state, got>>
  <2>1. Rest' = Rest
    BY <1>1, <1>6 DEF Rest
  <2> QED
    BY <1>4, <1>6, <2>1
<1>7. CASE Len(b) = Wanted /\ header = <<>> /\ HeaderDone(b)
  <2>1. CASE ~ValidLength(Length(b)) /\ Refuse /\ buf' = b
    <3>1. /\ Len(b) = HeaderSize /\ HeaderSize \in Nat /\ Len(stream') \in Nat
          /\ Len(header) = 0
      BY <1>1, <1>7, WantedNat, FramingAssumption
    <3>2. HeaderSize <= Len(Rest) /\ \A i \in 1 .. HeaderSize : b[i] = Rest[i]
      BY <1>3, <3>1 DEF Joins
    <3>3. ~InStep
      BY <2>1, <3>1, <3>2, InStepHeader
    <3> QED
      BY <1>5, <2>1, <3>3 DEF Channel!Next
  <2>2. CASE header' = b /\ buf' = <<>> /\ UNCHANGED <<state, got>>
    <3>1. Rest' = Rest
      <4>1. b \o <<>> = b /\ <<>> \o b = b
        BY ConcatEmptySeq
      <4> QED
        BY <1>1, <1>7, <2>2, <4>1, Zenon DEF Rest
    <3> QED
      BY <1>4, <2>2, <3>1
  <2> QED
    BY <1>7, <2>1, <2>2 DEF HeaderDone
<1>8. CASE Len(b) = Wanted /\ header # <<>> /\ BodyDone(b)
  <2>1. CASE ~IsWhole(b) /\ Refuse /\ buf' = b
    <3>1. ~InStep
      <4> SUFFICES ASSUME InStep PROVE FALSE
        OBVIOUS
      <4> DEFINE f == Rest[1][1]
      <4>1. f \in 1 .. Len(sizes) /\ b = Body(f, sizes[f])
        BY <1>1, <1>8, InStepBody
      <4> HIDE DEF f
      <4> QED
        BY <1>2, <2>1, <4>1, WholeBody
    <3> QED
      BY <1>5, <2>1, <3>1 DEF Channel!Next
  <2>2. CASE /\ MayDecode(b) /\ got' = Append(got, b)
             /\ header' = <<>> /\ buf' = <<>> /\ state' = "idle"
    <3>1. InStep
      BY <1>1, <1>8, <2>2, OutOfStep
    <3> DEFINE f == Rest[1][1]
               l == Len(sizes)
    <3>2. /\ f \in 1 .. l /\ b[1][1] = f /\ Rest # <<>>
          /\ stream' # <<>> => stream'[1] = <<f + 1, 1>>
          /\ stream' = <<>> => f = l
      BY <1>1, <1>8, <3>1, InStepBody
    <3>3. Rest' = stream'
      <4>1. <<>> \o <<>> \o stream' = stream'
        BY <1>1, ConcatEmptySeq, EmptySeq
      <4> QED
        BY <2>2, <4>1, Zenon DEF Rest
    <3>4. /\ l \in Nat /\ Queue = Ints(f, l) /\ Queue # <<>>
          /\ Queue' = Ints(At(stream', l), l)
      BY <1>1, <1>2, <3>2, <3>3, QueueIs DEF Queue
    <3>5. At(stream', l) = f + 1 /\ InStep'
      BY <3>2, <3>3 DEF At, InStep
    <3> HIDE DEF f, l
    <3>6. Queue' = Tail(Queue) /\ Head(Queue) = f
      <4>1. /\ Queue \in Seq(Nat) /\ Len(Queue) = l + 1 - f
            /\ \A i \in 1 .. l + 1 - f : Queue[i] = f + i - 1
        <5>1. f \in 1 .. l + 1
          BY <3>2, <3>4
        <5>2. /\ Ints(f, l) \in Seq(Nat) /\ Len(Ints(f, l)) = l + 1 - f
              /\ \A i \in 1 .. l + 1 - f : Ints(f, l)[i] = f + i - 1
          BY <3>4, <5>1, IntsAre
        <5> QED
          BY <3>4, <5>2
      <4>2. Ints(f + 1, l) = SubSeq(Ints(f, l), 1 + 1, Len(Ints(f, l)))
        <5>1. f \in 1 .. l + 1 /\ 1 \in 0 .. l + 1 - f
          BY <3>2, <3>4
        <5> QED
          BY <3>4, <5>1, FewerInts
      <4>3. Tail(Queue) = SubSeq(Queue, 2, Len(Queue)) /\ Head(Queue) = Queue[1]
        BY <3>4, <4>1
      <4>4. Queue[1] = f
        BY <3>2, <3>4, <4>1
      <4> QED
        BY <3>4, <3>5, <4>2, <4>3, <4>4
    <3>7. Seen' = Append(Seen, f)
      <4> DEFINE s == [i \in 1 .. Len(got) |-> got[i][1][1]]
      <4>1. Seen = s /\ Len(got) \in Nat
        BY <1>2 DEF Seen
      <4>2. /\ got' \in Seq(Seq(Bytes)) /\ Len(got') = Len(got) + 1
            /\ \A i \in 1 .. Len(got) : got'[i] = got[i]
            /\ got'[Len(got) + 1] = b
        BY <1>1, <1>2, <2>2, AppendProperties
      <4>3. Seen' = [i \in 1 .. Len(got) + 1 |-> got'[i][1][1]]
        BY <4>2 DEF Seen
      <4>4. f \in Nat /\ \A i \in 1 .. Len(got) : got[i][1][1] \in Nat
        <5>1. f \in Nat
          BY <3>2, <3>4
        <5>2. ASSUME NEW i \in 1 .. Len(got) PROVE got[i][1][1] \in Nat
          <6>1. PICK g \in 1 .. Len(sizes) : got[i] = Body(g, sizes[g])
            BY DEF FrInv
          <6>2. got[i][1][1] = g
            BY <1>2, <6>1, WholeBody
          <6> QED
            BY <6>1, <6>2
        <5> QED
          BY <5>1, <5>2
      <4> DEFINE t == [i \in 1 .. Len(got) + 1 |-> got'[i][1][1]]
                 u == Append(s, f)
      <4>5. /\ s \in Seq(Nat) /\ Len(s) = Len(got)
            /\ \A i \in 1 .. Len(got) : s[i] = got[i][1][1]
        BY <4>1, <4>4
      <4> HIDE DEF s
      <4>6. /\ u \in Seq(Nat) /\ Len(u) = Len(got) + 1 /\ u[Len(got) + 1] = f
            /\ \A i \in 1 .. Len(got) : u[i] = s[i]
        BY <4>4, <4>5, AppendProperties
      <4> HIDE DEF u
      <4>7. \A i \in 1 .. Len(got) + 1 : got'[i][1][1] \in Nat /\ got'[i][1][1] = u[i]
        <5> SUFFICES ASSUME NEW i \in 1 .. Len(got) + 1
                     PROVE  got'[i][1][1] \in Nat /\ got'[i][1][1] = u[i]
          OBVIOUS
        <5>1. CASE i = Len(got) + 1
          BY <3>2, <4>2, <4>4, <4>6, <5>1
        <5>2. CASE i # Len(got) + 1
          <6>1. i \in 1 .. Len(got)
            BY <4>1, <5>2
          <6> QED
            BY <4>2, <4>4, <4>5, <4>6, <6>1
        <5> QED
          BY <5>1, <5>2
      <4>8. t \in Seq(Nat) /\ Len(t) = Len(u) /\ \A i \in 1 .. Len(t) : t[i] = u[i]
        BY <4>1, <4>6, <4>7
      <4>9. Seen' = t
        BY <4>3
      <4> HIDE DEF t
      <4>10. t = u
        BY <4>6, <4>8, SeqEqual
      <4> QED
        BY <4>1, <4>9, <4>10 DEF u
    <3> QED
      BY <1>1, <2>2, <3>1, <3>4, <3>5, <3>6, <3>7, ChannelDeliver DEF Channel!Next
  <2> QED
    BY <1>8, <2>1, <2>2 DEF BodyDone
<1> QED
  BY <1>1, <1>6, <1>7, <1>8

\* Every step of the reader and the host is one of the channel, or none.
LEMMA ChannelNext ==
  FrInv /\ FrInv' /\ [FrNext]_frVars => [Channel!Next]_Channel!vars
<1> SUFFICES ASSUME FrInv, FrInv', [FrNext]_frVars
             PROVE  [Channel!Next]_Channel!vars
  OBVIOUS
<1>1. CASE SendFrame
  BY <1>1, SendMaps DEF Channel!Next
<1>2. CASE RecvBytes
  BY <1>2, RecvMaps
<1>3. CASE TimeOut
  BY <1>3, TimeOutMaps
<1>4. CASE BeginRecv \/ UNCHANGED frVars
  <2>1. /\ UNCHANGED <<sizes, stream, header, buf, got>>
        /\ (state' = "closed") = (state = "closed")
    BY <1>4 DEF BeginRecv, frVars
  <2>2. Queue' = Queue /\ InStep' = InStep /\ Seen' = Seen
    BY <2>1 DEF Queue, InStep, Rest, Seen
  <2> QED
    BY <2>1, <2>2, ChannelStutter
<1> QED
  BY <1>1, <1>2, <1>3, <1>4 DEF FrNext, Ended

\* What holds of the connection at all times.
LEMMA FrInvHolds == FrSpec => []FrInv
<1> QED
  BY FrInvInit, FrInvNext, PTL DEF FrSpec

\* At all times the bytes at hand are bytes of frames that were sent, and
\* _recv_exact holds no more of them than it was asked for
\* (core_device_client.py:145-187).
THEOREM FramingTypeCorrect == FrSpec => []FrTypeOK
BY FrInvHolds, TypesHold, PTL

\* In step or out of it, and wherever a timeout cut a frame in two, _recv_frame
\* never returns a part of a frame, or parts of several, as a message
\* (core_device_client.py:164-187).
THEOREM OnlyWholeFramesHolds == FrSpec => []OnlyWholeFrames
BY FrInvHolds, WholeFrames, PTL

\* Reading byte by byte with timeouts does what the rest of the project assumes
\* of a connection: frames are delivered in order, none is lost unless a read
\* timed out within one, and nothing is refused in step
\* (core_device_client.py:145-187).
THEOREM ChannelKept == FrSpec => ImplementsChannel
BY FrInvHolds, ChannelInit, ChannelNext, PTL DEF FrSpec, ImplementsChannel, Channel!Spec
=============================================================================
