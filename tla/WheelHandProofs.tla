-------------------------- MODULE WheelHandProofs --------------------------
(***************************************************************************)
(* What WheelImageProofs shows of the bytes and the arcs stays true when   *)
(* the wheel is drawn on by hand, wherever the mouse is.  Then, for wheels *)
(* of any size, where pointing and drawing agree, and so that what is      *)
(* drawn by hand appears where the mouse was.                              *)
(***************************************************************************)
EXTENDS WheelHand, WheelImageProofs

----------------------------------------------------------------------------
(* Quotients.  (The prover has no products of two unknowns: a lemma for each  *)
(* law that is needed.)                                                       *)

LEMMA ProductOrder ==
    ASSUME NEW d \in Nat, d > 0, NEW x \in Int, NEW y \in Int, x < y
    PROVE  d * x + d <= d * y
<1> DEFINE z == y - x - 1
<1>1. z \in Nat /\ y = x + 1 + z
  OBVIOUS
<1> HIDE DEF z
<1>2. d * y = d * x + d + d * z
  BY <1>1
<1>3. d * z \in Nat
  BY <1>1
<1> QED
  BY <1>2, <1>3

LEMMA ProductCancel ==
    ASSUME NEW d \in Nat, d > 0, NEW x \in Int, NEW y \in Int, d * x < d * y
    PROVE  x < y
<1> SUFFICES ASSUME y <= x PROVE FALSE
  OBVIOUS
<1>1. CASE y = x
  BY <1>1
<1>2. CASE y < x
  BY <1>2, ProductOrder
<1> QED
  BY <1>1, <1>2

\* A quotient is rounded down.
LEMMA Quotient ==
    ASSUME NEW n \in Int, NEW d \in Nat, d > 0
    PROVE  /\ n \div d \in Int
           /\ d * (n \div d) <= n /\ n < d * (n \div d) + d
BY SMT

LEMMA QuotientIs ==
    ASSUME NEW n \in Int, NEW d \in Nat, d > 0, NEW q \in Int,
           d * q <= n, n < d * q + d
    PROVE  n \div d = q
<1> DEFINE p == n \div d
<1>1. p \in Int /\ d * p <= n /\ n < d * p + d
  BY Quotient
<1> HIDE DEF p
<1>2. d * (p + 1) = d * p + d /\ d * (q + 1) = d * q + d
  BY <1>1
<1>3. q < p + 1 /\ p < q + 1
  BY <1>1, <1>2, ProductCancel
<1> QED
  BY <1>1, <1>3 DEF p

\* A remainder of what is less than twice the divisor.
LEMMA Wrapped ==
    ASSUME NEW d \in Nat, d > 0, NEW x \in Int, 0 <= x, x < 2 * d
    PROVE  x % d = IF x < d THEN x ELSE x - d
BY SMT

----------------------------------------------------------------------------
(* Angles. *)

\* The full turn in quarters, of quarter degrees and of quarter parts.
LEMMA Quarters ==
    /\ Degrees \div 4 \in Nat /\ Degrees \div 4 > 0
    /\ Degrees = 4 * (Degrees \div 4) /\ Degrees \div 2 = 2 * (Degrees \div 4)
    /\ Fine * (Degrees \div 4) \in Nat
    /\ Turn = 4 * (Fine * (Degrees \div 4))
    /\ Turn \div 4 = Fine * (Degrees \div 4)
    /\ Turn \div 2 = 2 * (Fine * (Degrees \div 4))
<1> DEFINE q == Degrees \div 4
<1>1. q \in Nat /\ q > 0 /\ Degrees = 4 * q /\ Degrees \div 2 = 2 * q
  BY HandAssumption, ImageAssumption
<1> HIDE DEF q
<1>2. Fine \in Nat
  BY HandAssumption
<1>3. Fine * q \in Nat /\ (4 * q) * Fine = 4 * (Fine * q)
  BY <1>1, <1>2
<1>4. Turn = 4 * (Fine * q)
  BY <1>1, <1>3 DEF Turn
<1> DEFINE p == Fine * q
<1>5. p \in Nat /\ Turn = 4 * p
  BY <1>3, <1>4
<1> HIDE DEF p
<1>6. Turn \div 4 = p /\ Turn \div 2 = 2 * p
  BY <1>5
<1> QED
  BY <1>1, <1>3, <1>4, <1>6 DEF p, q

\* Which degree a point is taken for: of the two next to it the one nearer to
\* the vertical, but for straight down and what is just left of it.
LEMMA AngleOfPoint ==
    ASSUME NEW a \in Angles
    PROVE  /\ NoRow(a) => AngleOf(a) = Degrees + Degrees \div 2
           /\ ~ NoRow(a) => AngleOf(a) \in 0..(Degrees - 1)
           /\ ~ NoRow(a) /\ ~ StraightDown(a) =>
                \/ a - Fine < Fine * AngleOf(a) /\ Fine * AngleOf(a) < a + Fine
                \/ AngleOf(a) = 0 /\ a > Turn - Fine
           /\ Right(a) /\ Below(a) => a <= Fine * AngleOf(a)
<1> DEFINE q == Degrees \div 4
           p == Fine * q
           w == Truncated(ArcSine(a), Fine)
           whole == (w + Degrees) % Degrees
<1>1. /\ Fine \in Nat /\ Fine > 1 /\ q \in Nat /\ q > 0 /\ p \in Nat /\ p > 0
      /\ Degrees = 4 * q /\ Degrees \div 2 = 2 * q
      /\ Turn = 4 * p /\ Turn \div 4 = p /\ Turn \div 2 = 2 * p
  <2>1. Fine \in Nat /\ Fine > 1
    BY HandAssumption
  <2>2. p > 0
    BY <2>1, Quarters
  <2> QED
    BY <2>1, <2>2, Quarters
<1>2. a \in Int /\ 0 <= a /\ a < 4 * p
  BY <1>1 DEF Angles
<1>3. AngleOf(a) = IF Right(a) /\ Below(a) THEN Degrees \div 2 - whole
                   ELSE IF Left(a) /\ Below(a) THEN Degrees - whole + Degrees \div 2
                   ELSE whole
  BY DEF AngleOf
<1>4. /\ Right(a) <=> 0 < a /\ a < 2 * p
      /\ Left(a) <=> a > 2 * p
      /\ Below(a) <=> p < a /\ a < 3 * p
      /\ NoRow(a) <=> 2 * p < a /\ a < 2 * p + Fine
      /\ StraightDown(a) <=> a = 2 * p
  BY <1>1 DEF Right, Left, Below, NoRow, StraightDown
<1>5. ASSUME NEW n \in Int, 0 <= n, n <= p
      PROVE  LET k == n \div Fine
             IN  /\ k \in 0..q /\ Fine * k <= n /\ n < Fine * k + Fine
                 /\ Fine * (2 * q - k) = 2 * p - Fine * k
                 /\ Fine * (2 * q + k) = 2 * p + Fine * k
                 /\ Fine * (4 * q - k) = 4 * p - Fine * k
  <2> DEFINE k == n \div Fine
  <2>1. k \in Int /\ Fine * k <= n /\ n < Fine * k + Fine
    BY <1>1, <1>5, Quotient
  <2> HIDE DEF k
  <2>2. Fine * (k + 1) = Fine * k + Fine /\ Fine * (q + 1) = p + Fine
    BY <1>1, <2>1
  <2>3. Fine * 0 < Fine * (k + 1) /\ Fine * k < Fine * (q + 1)
    BY <1>1, <1>5, <2>1, <2>2
  <2>4. 0 < k + 1 /\ k < q + 1
    BY <1>1, <2>1, <2>3, ProductCancel
  <2>5. /\ Fine * (2 * q - k) = 2 * p - Fine * k
        /\ Fine * (2 * q + k) = 2 * p + Fine * k
        /\ Fine * (4 * q - k) = 4 * p - Fine * k
    BY <1>1, <2>1
  <2> QED
    BY <1>1, <2>1, <2>4, <2>5 DEF k
<1>6. ASSUME NEW k \in 0..q
      PROVE  /\ (k + Degrees) % Degrees = k
             /\ (-k + Degrees) % Degrees = IF k = 0 THEN 0 ELSE Degrees - k
  <2> DEFINE x == k + Degrees
             y == -k + Degrees
  <2>1. /\ Degrees \in Nat /\ Degrees > 0 /\ x \in Int /\ y \in Int
        /\ Degrees <= x /\ x < 2 * Degrees /\ 0 <= y /\ y <= Degrees
        /\ x - Degrees = k /\ y = Degrees - k /\ (y < Degrees <=> k # 0)
    BY <1>1, <1>6
  <2> HIDE DEF x, y
  <2>2. x % Degrees = x - Degrees
    BY <2>1, Wrapped
  <2>3. y % Degrees = IF y < Degrees THEN y ELSE y - Degrees
    BY <2>1, Wrapped
  <2> QED
    BY <2>1, <2>2, <2>3 DEF x, y
<1> HIDE DEF q, p, w, whole
<1>7. CASE a <= p
  <2>1. ArcSine(a) = a /\ ~ Below(a) /\ ~ NoRow(a)
    BY <1>1, <1>2, <1>4, <1>7 DEF ArcSine
  <2> DEFINE k == a \div Fine
  <2>2. k \in 0..q /\ Fine * k <= a /\ a < Fine * k + Fine
    BY <1>2, <1>5, <1>7
  <2>3. w = k
    BY <1>2, <2>1 DEF w, Truncated
  <2> HIDE DEF k
  <2>4. AngleOf(a) = k
    BY <1>3, <1>6, <2>1, <2>2, <2>3 DEF whole
  <2>5. Fine * k \in Int
    BY <1>1, <2>2
  <2> QED
    BY <1>1, <1>2, <1>4, <2>1, <2>2, <2>4, <2>5
<1>8. CASE p < a /\ a < 2 * p
  <2>1. ArcSine(a) = 2 * p - a /\ Right(a) /\ Below(a) /\ ~ NoRow(a)
    BY <1>1, <1>2, <1>4, <1>8 DEF ArcSine
  <2> DEFINE k == (2 * p - a) \div Fine
  <2>2. /\ k \in 0..q /\ Fine * k <= 2 * p - a /\ 2 * p - a < Fine * k + Fine
        /\ Fine * (2 * q - k) = 2 * p - Fine * k
    BY <1>1, <1>2, <1>5, <1>8
  <2>3. w = k
    BY <1>1, <1>2, <1>8, <2>1 DEF w, Truncated
  <2> HIDE DEF k
  <2>4. AngleOf(a) = 2 * q - k
    BY <1>1, <1>3, <1>6, <2>1, <2>2, <2>3 DEF whole
  <2>5. Fine * k \in Int
    BY <1>1, <2>2
  <2> QED
    BY <1>1, <1>2, <1>4, <2>1, <2>2, <2>4, <2>5
<1>9. CASE a = 2 * p
  <2>1. ArcSine(a) = 0 /\ ~ Right(a) /\ ~ Left(a) /\ ~ NoRow(a) /\ StraightDown(a)
    BY <1>1, <1>2, <1>4, <1>9 DEF ArcSine
  <2>2. 0 \div Fine = 0
    BY <1>1, QuotientIs
  <2>3. w = 0
    BY <2>1, <2>2 DEF w, Truncated
  <2>4. AngleOf(a) = 0
    BY <1>1, <1>3, <1>6, <2>1, <2>3 DEF whole
  <2> QED
    BY <1>1, <2>1, <2>4
<1>10. CASE 2 * p < a /\ a < 3 * p
  <2>1. ArcSine(a) = 2 * p - a /\ ~ Right(a) /\ Left(a) /\ Below(a) /\ ~ StraightDown(a)
    BY <1>1, <1>2, <1>4, <1>10 DEF ArcSine
  <2> DEFINE k == (a - 2 * p) \div Fine
  <2>2. /\ k \in 0..q /\ Fine * k <= a - 2 * p /\ a - 2 * p < Fine * k + Fine
        /\ Fine * (2 * q + k) = 2 * p + Fine * k
    BY <1>1, <1>2, <1>5, <1>10
  <2>3. w = -k
    BY <1>1, <1>2, <1>10, <2>1 DEF w, Truncated
  <2> HIDE DEF k
  <2>4. AngleOf(a) = IF k = 0 THEN Degrees + Degrees \div 2 ELSE 2 * q + k
    <3>1. whole = IF k = 0 THEN 0 ELSE Degrees - k
      BY <1>6, <2>2, <2>3 DEF whole
    <3>2. AngleOf(a) = Degrees - whole + Degrees \div 2
      BY <1>3, <2>1
    <3> QED
      BY <1>1, <2>2, <3>1, <3>2
  <2>5. k = 0 \/ Fine * k >= Fine
    <3>1. Fine * 1 = Fine /\ Fine * 0 = 0
      BY <1>1
    <3> QED
      BY <1>1, <2>2, <3>1, ProductOrder
  <2>6. Fine * k \in Int /\ Fine * 0 = 0
    BY <1>1, <2>2
  <2>7. k = 0 <=> NoRow(a)
    BY <1>1, <1>2, <1>4, <1>10, <2>2, <2>5, <2>6
  <2> QED
    BY <1>1, <1>2, <1>4, <2>1, <2>2, <2>4, <2>6, <2>7
<1>11. CASE 3 * p <= a
  <2>1. /\ ArcSine(a) = a - 4 * p /\ ~ Right(a) /\ ~ Below(a) /\ ~ StraightDown(a)
    BY <1>1, <1>2, <1>4, <1>11 DEF ArcSine
  <2> DEFINE k == (4 * p - a) \div Fine
  <2>2. /\ k \in 0..q /\ Fine * k <= 4 * p - a /\ 4 * p - a < Fine * k + Fine
        /\ Fine * (4 * q - k) = 4 * p - Fine * k
    BY <1>1, <1>2, <1>5, <1>11
  <2>3. w = -k
    BY <1>1, <1>2, <1>11, <2>1 DEF w, Truncated
  <2> HIDE DEF k
  <2>4. AngleOf(a) = IF k = 0 THEN 0 ELSE 4 * q - k
    BY <1>1, <1>3, <1>6, <2>1, <2>2, <2>3 DEF whole
  <2>5. Fine * k \in Int /\ Fine * 0 = 0
    BY <1>1, <2>2
  <2>6. ~ NoRow(a)
    <3>1. Fine <= p
      <4>1. Fine * 1 = Fine /\ (q = 1 \/ 1 < q)
        BY <1>1
      <4> QED
        BY <1>1, <4>1, ProductOrder DEF p
    <3> QED
      BY <1>1, <1>2, <1>4, <1>11, <3>1
  <2> QED
    BY <1>1, <1>2, <1>4, <2>1, <2>2, <2>4, <2>5, <2>6
<1> QED
  BY <1>1, <1>2, <1>7, <1>8, <1>9, <1>10, <1>11

----------------------------------------------------------------------------
(* Rows. *)

LEMMA WheelSize ==
    /\ Rows \in Nat /\ Rows > 1 /\ Degrees \in Nat /\ Degrees > Rows
    /\ Fine \in Nat /\ Fine > 1
    /\ Turn = Degrees * Fine /\ Turn \in Nat /\ Turn > 0
    /\ Rows * Fine + Fine <= Turn
<1>1. Rows \in Nat /\ Rows > 1 /\ Degrees \in Nat /\ Degrees > Rows /\ Fine \in Nat /\ Fine > 1
  BY HandAssumption, ImageAssumption
<1>2. Turn = Degrees * Fine /\ Turn \in Nat /\ Turn = Fine * Degrees
  BY <1>1 DEF Turn
<1>3. Fine * Rows + Fine <= Fine * Degrees /\ Fine * Rows = Rows * Fine /\ Fine * Rows \in Nat
  BY <1>1, ProductOrder
<1> QED
  BY <1>1, <1>2, <1>3

\* The row of a degree is a row of the wheel, and of two sizes that are as the
\* parts of a degree to one.
LEMMA RowOfDegree ==
    ASSUME NEW g \in 0..(Degrees - 1)
    PROVE  LET r == (g * Rows) \div Degrees
           IN  /\ r \in PointRows
               /\ Turn * r <= (Fine * g) * Rows /\ (Fine * g) * Rows < Turn * r + Turn
<1> DEFINE r == (g * Rows) \div Degrees
<1>1. g \in Nat /\ g < Degrees /\ g * Rows \in Nat /\ Degrees > 0
  BY WheelSize
<1>2. r \in Int /\ Degrees * r <= g * Rows /\ g * Rows < Degrees * r + Degrees
  BY <1>1, WheelSize, Quotient
<1> HIDE DEF r
<1>3. Degrees * (r + 1) = Degrees * r + Degrees /\ Degrees * 0 = 0
  BY <1>2, WheelSize
<1>4. 0 < r + 1
  BY <1>1, <1>2, <1>3, WheelSize, ProductCancel
<1>5. r < Rows
  <2>1. Rows * g + Rows <= Rows * Degrees
    BY <1>1, WheelSize, ProductOrder
  <2>2. Rows * g = g * Rows /\ Rows * Degrees = Degrees * Rows /\ Degrees * r \in Int
    BY <1>1, <1>2, WheelSize
  <2>3. Degrees * r < Degrees * Rows
    BY <1>1, <1>2, <2>1, <2>2, WheelSize
  <2> QED
    BY <1>1, <1>2, <2>3, WheelSize, ProductCancel
<1>6. Turn * r <= (Fine * g) * Rows /\ (Fine * g) * Rows < Turn * r + Turn
  <2> DEFINE x == Degrees * r
             y == g * Rows
  <2>1. x \in Int /\ y \in Int /\ x <= y /\ y < x + Degrees
    BY <1>1, <1>2, WheelSize
  <2>2. Turn * r = Fine * x /\ (Fine * g) * Rows = Fine * y
    BY <1>1, <1>2, WheelSize
  <2> HIDE DEF x, y
  <2>3. Fine * (x + Degrees) = Fine * x + Turn /\ Fine * x \in Int /\ Fine * y \in Int
    BY <2>1, WheelSize
  <2>4. x = y \/ Fine * x + Fine <= Fine * y
    BY <2>1, WheelSize, ProductOrder
  <2>5. Fine * y + Fine <= Fine * (x + Degrees)
    BY <2>1, WheelSize, ProductOrder
  <2> QED
    BY <2>2, <2>3, <2>4, <2>5, WheelSize
<1> QED
  BY <1>2, <1>4, <1>5, <1>6, WheelSize DEF PointRows, r

\* A difference of two rows on a wheel that goes round.
LEMMA Round ==
    ASSUME NEW d \in {-1, 0, 1, 2, 2 - Rows, 1 - Rows}
    PROVE  /\ d % Rows \in {0, 1, 2, Rows - 1}
           /\ d # 2 /\ d # 2 - Rows => d % Rows \in {0, 1, Rows - 1}
<1>0. Rows \in Nat /\ Rows > 1
  BY WheelSize
<1>1. d \in Int
  BY <1>0
<1>2. CASE d = -1
  <2>1. (-1) % Rows = Rows - 1
    BY <1>0
  <2> QED
    BY <1>2, <2>1
<1>3. CASE d = 0
  <2>1. 0 % Rows = 0
    BY <1>0
  <2> QED
    BY <1>3, <2>1
<1>4. CASE d = 1
  <2>1. 1 % Rows = 1
    BY <1>0
  <2> QED
    BY <1>4, <2>1
<1>5. CASE d = 2
  <2>1. 2 % Rows \in {0, 2}
    BY <1>0, Wrapped
  <2> QED
    BY <1>5, <2>1
<1>6. CASE d = 2 - Rows
  <2>1. (2 - Rows) % Rows \in {0, 2}
    BY <1>0
  <2> QED
    BY <1>6, <2>1
<1>7. CASE d = 1 - Rows
  <2>1. (1 - Rows) % Rows = 1
    BY <1>0
  <2>2. 1 \in {0, 1, Rows - 1}
    OBVIOUS
  <2> QED
    BY <1>7, <2>1, <2>2
<1> QED
  BY <1>2, <1>3, <1>4, <1>5, <1>6, <1>7

\* A point that is nearly a full turn is on the last part but one, or after it.
LEMMA PlaceOfPoint ==
    ASSUME NEW a \in Angles
    PROVE  /\ Place(a) \in Int
           /\ Turn * Place(a) <= a * Rows - a /\ a * Rows - a < Turn * Place(a) + Turn
           /\ a > Turn - Fine => Place(a) = Rows - 2
<1>1. a \in Nat /\ a < Turn
  BY WheelSize DEF Angles
<1> DEFINE n == a * (Rows - 1)
<1>2. n \in Int /\ n = a * Rows - a
  BY <1>1, WheelSize
<1>3. Place(a) = n \div Turn
  BY DEF Place
<1> HIDE DEF n
<1>4. n \div Turn \in Int /\ Turn * (n \div Turn) <= n /\ n < Turn * (n \div Turn) + Turn
  BY <1>2, WheelSize, Quotient
<1>5. ASSUME a > Turn - Fine PROVE n \div Turn = Rows - 2
  <2>1. /\ n = (Rows - 1) * a /\ (Rows - 1) * (Turn - Fine) = Turn * (Rows - 2) + Turn - Rows * Fine + Fine
        /\ (Rows - 1) * Turn = Turn * (Rows - 2) + Turn
        /\ Turn * (Rows - 2) \in Int /\ Rows * Fine \in Int
    BY <1>1, <1>2, WheelSize
  <2>2. (Rows - 1) * (Turn - Fine) + (Rows - 1) <= (Rows - 1) * a
    BY <1>1, <1>5, WheelSize, ProductOrder
  <2>3. (Rows - 1) * a + (Rows - 1) <= (Rows - 1) * Turn
    BY <1>1, WheelSize, ProductOrder
  <2>4. Turn * (Rows - 2) <= n /\ n < Turn * (Rows - 2) + Turn
    BY <1>1, <1>2, <2>1, <2>2, <2>3, WheelSize
  <2> QED
    BY <1>2, <2>4, WheelSize, QuotientIs
<1> QED
  BY <1>2, <1>3, <1>4, <1>5

\* A hit's row is drawn near to the mouse.
LEMMA HitIsNear ==
    ASSUME NEW a \in Angles, ~ NoRow(a), ~ StraightDown(a)
    PROVE  RowOf(a) \in PointRows /\ Near(RowOf(a), a)
<1> DEFINE g == AngleOf(a)
           r == RowOf(a)
           p == Place(a)
<1>1. g \in 0..(Degrees - 1)
  BY AngleOfPoint
<1>2. \/ a - Fine < Fine * g /\ Fine * g < a + Fine
      \/ g = 0 /\ a > Turn - Fine
  BY AngleOfPoint
<1>3. r = (g * Rows) \div Degrees
  BY DEF RowOf
<1>4. /\ r \in PointRows
      /\ Turn * r <= (Fine * g) * Rows /\ (Fine * g) * Rows < Turn * r + Turn
  BY <1>1, <1>3, RowOfDegree
<1>5. /\ p \in Int /\ Turn * p <= a * Rows - a /\ a * Rows - a < Turn * p + Turn
      /\ a > Turn - Fine => p = Rows - 2
  BY PlaceOfPoint
<1>6. a \in Nat /\ a < Turn /\ r \in Nat /\ g \in Nat
  BY <1>1, <1>4, WheelSize DEF Angles, PointRows
<1> HIDE DEF g, r, p
<1>7. CASE a - Fine < Fine * g /\ Fine * g < a + Fine
  <2> DEFINE f == Fine * g
  <2>1. f \in Int /\ a - Fine < f /\ f < a + Fine
    BY <1>6, <1>7, WheelSize
  <2>2. Turn * r <= f * Rows /\ f * Rows < Turn * r + Turn
    BY <1>4
  <2> HIDE DEF f
  <2>3. /\ Rows * (a - Fine) = a * Rows - Rows * Fine
        /\ Rows * (a + Fine) = a * Rows + Rows * Fine
        /\ Rows * f = f * Rows
        /\ a * Rows \in Int /\ Rows * Fine \in Int /\ f * Rows \in Int
        /\ Turn * r \in Int /\ Turn * p \in Int
        /\ Turn * (p + 3) = Turn * p + Turn + Turn + Turn
        /\ Turn * (r + 2) = Turn * r + Turn + Turn
    BY <1>5, <1>6, <2>1, WheelSize
  <2>4. Rows * (a - Fine) + Rows <= Rows * f /\ Rows * f + Rows <= Rows * (a + Fine)
    BY <1>6, <2>1, WheelSize, ProductOrder
  <2>5. Turn * r < Turn * (p + 3)
    BY <1>5, <1>6, <2>2, <2>3, <2>4, WheelSize
  <2>6. Turn * p < Turn * (r + 2)
    BY <1>5, <1>6, <2>2, <2>3, <2>4, WheelSize
  <2>7. r < p + 3 /\ p < r + 2
    BY <1>5, <1>6, <2>5, <2>6, WheelSize, ProductCancel
  <2>8. r - p \in {-1, 0, 1, 2}
    BY <1>5, <1>6, <2>7
  <2>9. (r - p) % Rows \in {0, 1, 2, Rows - 1}
    BY <2>8, Round
  <2> QED
    BY <1>4, <2>9 DEF Near, r, p
<1>8. CASE g = 0 /\ a > Turn - Fine
  <2>1. r = 0
    <3>1. 0 * Rows = 0 /\ 0 \div Degrees = 0
      BY WheelSize, QuotientIs
    <3> QED
      BY <1>3, <1>8, <3>1
  <2>2. r - p = 2 - Rows
    BY <1>5, <1>8, <2>1, WheelSize
  <2>3. (r - p) % Rows \in {0, 1, 2, Rows - 1}
    BY <2>2, Round
  <2> QED
    BY <1>4, <2>3 DEF Near, r, p
<1> QED
  BY <1>2, <1>7, <1>8

\* The others: straight down is row 0, and just left of it is no row.
LEMMA MissedRows ==
    ASSUME NEW a \in Angles
    PROVE  /\ NoRow(a) => RowOf(a) > Rows
           /\ ~ NoRow(a) => RowOf(a) \in PointRows
<1>1. ASSUME NoRow(a) PROVE RowOf(a) > Rows
  <2> DEFINE h == Degrees \div 2
             n == (Degrees + h) * Rows
             r == n \div Degrees
  <2>1. AngleOf(a) = Degrees + h /\ h \in Nat /\ Degrees = 2 * h
    BY <1>1, AngleOfPoint, Quarters
  <2> HIDE DEF h
  <2>2. n \in Nat /\ n = Degrees * Rows + Rows * h
    BY <2>1, WheelSize
  <2> HIDE DEF n
  <2>3. r \in Int /\ Degrees * r <= n /\ n < Degrees * r + Degrees
    BY <2>2, WheelSize, Quotient
  <2>4. RowOf(a) = r
    BY <2>1 DEF RowOf, n
  <2> HIDE DEF r
  <2>5. Rows * h >= Degrees
    <3>1. Rows = 2 \/ 2 < Rows
      BY WheelSize
    <3>2. h * 2 = Degrees /\ Rows * h = h * Rows /\ h > 0
      BY <2>1, WheelSize
    <3>3. h * Rows >= h * 2
      BY <2>1, <3>1, <3>2, WheelSize, ProductOrder
    <3> QED
      BY <3>2, <3>3
  <2>6. Degrees * (Rows + 1) = Degrees * Rows + Degrees /\ Degrees * (r + 1) = Degrees * r + Degrees
        /\ Degrees * Rows \in Int /\ Degrees * r \in Int /\ Rows * h \in Int
    BY <2>1, <2>3, WheelSize
  <2>7. Degrees * (Rows + 1) < Degrees * (r + 1)
    BY <2>2, <2>3, <2>5, <2>6, WheelSize
  <2>8. Rows + 1 < r + 1
    BY <2>3, <2>7, WheelSize, ProductCancel
  <2> QED
    BY <2>3, <2>4, <2>8, WheelSize
<1>2. ASSUME ~ NoRow(a) PROVE RowOf(a) \in PointRows
  BY <1>2, AngleOfPoint, RowOfDegree DEF RowOf
<1> QED
  BY <1>1, <1>2

\* Every degree is that of a point.
LEMMA DegreeHasPoint ==
    ASSUME NEW g \in 0..(Degrees - 1)
    PROVE  \E a \in Angles : AngleOf(a) = g
<1> DEFINE q == Degrees \div 4
           p == Fine * q
<1>1. /\ q \in Nat /\ q > 0 /\ p \in Nat /\ Degrees = 4 * q
      /\ Turn = 4 * p /\ Turn \div 4 = p /\ Turn \div 2 = 2 * p /\ Fine <= p
      /\ Fine * (2 * q) = 2 * p /\ Fine * (2 * q - 1) = 2 * p - Fine
  <2>1. q = 1 \/ 1 < q
    BY Quarters
  <2>2. Fine * 1 = Fine /\ (1 < q => Fine * 1 + Fine <= Fine * q)
    BY WheelSize, Quarters, ProductOrder
  <2>3. Fine * (2 * q) = 2 * (Fine * q) /\ Fine * (2 * q - 1) = 2 * (Fine * q) - Fine
    BY WheelSize, Quarters
  <2> QED
    BY <2>1, <2>2, <2>3, WheelSize, Quarters
<1> HIDE DEF q, p
<1>2. g \in Nat /\ g < Degrees /\ Fine * g \in Nat
  BY WheelSize
<1>3. CASE g # 2 * q
  <2> DEFINE a == Fine * g
             h == AngleOf(a)
  <2>1. Fine * g + Fine <= Fine * Degrees
    BY <1>2, WheelSize, ProductOrder
  <2>2. a \in Nat /\ a + Fine <= Turn /\ a \in Angles
    BY <1>2, <2>1, WheelSize DEF Angles
  <2>3. ~ StraightDown(a) /\ ~ NoRow(a)
    <3>1. g < 2 * q \/ 2 * q < g
      BY <1>1, <1>2, <1>3
    <3>2. a + Fine <= 2 * p \/ 2 * p + Fine <= a
      BY <1>1, <1>2, <3>1, WheelSize, ProductOrder
    <3> QED
      BY <1>1, <2>2, <3>2, WheelSize DEF StraightDown, NoRow
  <2>4. h \in 0..(Degrees - 1) /\ a - Fine < Fine * h /\ Fine * h < a + Fine
    BY <2>2, <2>3, AngleOfPoint, WheelSize
  <2> HIDE DEF h
  <2>5. Fine * (g - 1) = a - Fine /\ Fine * (g + 1) = a + Fine
    BY <1>2, WheelSize
  <2>6. g - 1 < h /\ h < g + 1
    BY <1>2, <2>4, <2>5, WheelSize, ProductCancel
  <2>7. h = g
    BY <1>2, <2>4, <2>6, WheelSize
  <2> QED
    BY <2>2, <2>7 DEF h
<1>4. CASE g = 2 * q
  <2> DEFINE a == 2 * p - 1
             h == AngleOf(a)
  <2>1. a \in Angles /\ a \in Int
    BY <1>1, WheelSize DEF Angles
  <2>2. Right(a) /\ Below(a) /\ ~ StraightDown(a) /\ ~ NoRow(a)
    BY <1>1, WheelSize DEF Right, Below, StraightDown, NoRow
  <2>3. h \in 0..(Degrees - 1) /\ a <= Fine * h /\ Fine * h < a + Fine
    <3>1. ~ (a > Turn - Fine)
      BY <1>1, WheelSize
    <3> QED
      BY <2>1, <2>2, <3>1, AngleOfPoint
  <2> HIDE DEF h
  <2>4. h \in Nat /\ Fine * h \in Int
    BY <2>3, WheelSize
  <2>5. Fine * (2 * q - 1) < Fine * h
    BY <1>1, <2>3, <2>4, WheelSize
  <2>6. Fine * h < Fine * (2 * q + 1)
    <3>1. Fine * (2 * q + 1) = 2 * p + Fine
      BY <1>1, WheelSize
    <3> QED
      BY <1>1, <2>3, <2>4, <3>1, WheelSize
  <2>7. 2 * q - 1 < h /\ h < 2 * q + 1
    BY <1>1, <2>4, <2>5, <2>6, WheelSize, ProductCancel
  <2>8. h = g
    BY <1>1, <1>4, <2>4, <2>7
  <2> QED
    BY <2>1, <2>8 DEF h
<1> QED
  BY <1>3, <1>4

\* Every row of the wheel can be hit.
LEMMA RowHasPoint ==
    ASSUME NEW row1 \in PointRows
    PROVE  \E a \in Angles : RowOf(a) = row1
<1> DEFINE n == row1 * Degrees + Rows - 1
           g == n \div Rows
<1>1. /\ row1 \in Nat /\ row1 < Rows /\ row1 * Degrees \in Nat /\ n \in Nat
      /\ row1 * Degrees = Degrees * row1
  BY WheelSize DEF PointRows
<1>2. g \in Int /\ Rows * g <= n /\ n < Rows * g + Rows
  BY <1>1, WheelSize, Quotient
<1> HIDE DEF g
<1>3. /\ Rows * g \in Int /\ g * Rows = Rows * g /\ Rows * 0 = 0
      /\ Rows * (g + 1) = Rows * g + Rows
      /\ Rows * Degrees = Degrees * Rows
  BY <1>2, WheelSize
<1>4. 0 < g + 1
  <2>1. Rows * 0 < Rows * (g + 1)
    BY <1>1, <1>2, <1>3, WheelSize
  <2> QED
    BY <1>2, <2>1, WheelSize, ProductCancel
<1>5. g < Degrees
  <2>1. Degrees * row1 + Degrees <= Degrees * Rows
    BY <1>1, WheelSize, ProductOrder
  <2>2. Rows * g < Rows * Degrees
    BY <1>1, <1>2, <1>3, <2>1, WheelSize
  <2> QED
    BY <1>2, <2>2, WheelSize, ProductCancel
<1>6. g \in 0..(Degrees - 1)
  BY <1>2, <1>4, <1>5, WheelSize
<1>7. (g * Rows) \div Degrees = row1
  <2>1. Degrees * row1 <= g * Rows /\ g * Rows < Degrees * row1 + Degrees
    BY <1>1, <1>2, <1>3, WheelSize
  <2> QED
    BY <1>1, <1>3, <2>1, WheelSize, QuotientIs
<1>8. PICK a \in Angles : AngleOf(a) = g
  BY <1>6, DegreeHasPoint
<1> QED
  BY <1>7, <1>8 DEF RowOf

\* The middle of a row is a point, and never straight down.
LEMMA MiddleOfRow ==
    ASSUME NEW row1 \in PointRows
    PROVE  LET m == Middle(row1)
           IN  /\ m \in Angles /\ ~ StraightDown(m)
               /\ 2 * (Rows * m) <= 2 * (Turn * row1) + Turn
               /\ 2 * (Turn * row1) + Turn < 2 * (Rows * m) + 2 * Rows
<1> DEFINE n == (2 * row1 + 1) * Turn
           m == n \div (2 * Rows)
<1>1. /\ row1 \in Nat /\ row1 < Rows /\ Turn * row1 \in Nat
      /\ n = 2 * (Turn * row1) + Turn /\ n \in Nat
  BY WheelSize DEF PointRows
<1> HIDE DEF n
<1>2. /\ m \in Int /\ (2 * Rows) * m <= n /\ n < (2 * Rows) * m + 2 * Rows
  BY <1>1, WheelSize, Quotient
<1>3. m = Middle(row1)
  BY DEF Middle, n
<1> HIDE DEF m
<1>4. /\ (2 * Rows) * m = 2 * (Rows * m) /\ Rows * m \in Int
      /\ (2 * Rows) * (m + 1) = 2 * (Rows * m) + 2 * Rows /\ (2 * Rows) * 0 = 0
      /\ (2 * Rows) * Turn = 2 * (Turn * Rows)
  BY <1>2, WheelSize
<1>5. 0 < m + 1
  <2>1. (2 * Rows) * 0 < (2 * Rows) * (m + 1)
    BY <1>1, <1>2, <1>4, WheelSize
  <2> QED
    BY <1>2, <2>1, WheelSize, ProductCancel
<1>6. m < Turn
  <2>1. Turn * row1 + Turn <= Turn * Rows
    BY <1>1, WheelSize, ProductOrder
  <2>2. (2 * Rows) * m < (2 * Rows) * Turn
    BY <1>1, <1>2, <1>4, <2>1, WheelSize
  <2> QED
    BY <1>2, <2>2, WheelSize, ProductCancel
<1>7. m \in Angles
  BY <1>2, <1>5, <1>6, WheelSize DEF Angles
<1>8. ASSUME StraightDown(m) PROVE FALSE
  <2> DEFINE q == Degrees \div 4
             p == Fine * q
             h == Rows \div 2
             u == 2 * row1 + 1
  <2>1. /\ q \in Nat /\ q > 0 /\ Degrees = 4 * q /\ p \in Nat
        /\ Turn = 4 * p /\ Turn \div 2 = 2 * p
    BY Quarters
  <2>2. Rows = 2 * h /\ h \in Nat /\ h > 0
    BY WheelSize, HandAssumption
  <2>3. 2 * q <= p
    <3>1. Fine = 2 \/ 2 < Fine
      BY WheelSize
    <3>2. q * 2 = 2 * q /\ q * Fine = Fine * q
      BY <2>1, WheelSize
    <3>3. q * 2 <= q * Fine
      BY <2>1, <3>1, WheelSize, ProductOrder
    <3> QED
      BY <3>2, <3>3
  <2>4. p \in Nat /\ h < p /\ p > 0 /\ m = 2 * p
    BY <1>8, <2>1, <2>2, <2>3, WheelSize DEF StraightDown
  <2> HIDE DEF q, p, h
  <2>5. u \in Nat /\ u # 2 * h
    BY <1>1, <2>2
  <2>6. n = 4 * (p * u) /\ p * u \in Nat
    BY <1>1, <2>1, <2>4
  <2>7. Rows * m = 4 * (p * h) /\ p * (2 * h) = 2 * (p * h) /\ p * h \in Nat
    BY <2>2, <2>4
  <2> HIDE DEF u
  <2>8. 2 * (p * h) <= p * u /\ p * u < 2 * (p * h) + h
    BY <1>2, <1>4, <2>2, <2>6, <2>7
  <2>9. CASE u < 2 * h
    BY <2>2, <2>4, <2>5, <2>6, <2>7, <2>8, <2>9, ProductOrder
  <2>10. CASE 2 * h < u
    BY <2>2, <2>4, <2>5, <2>6, <2>7, <2>8, <2>10, ProductOrder
  <2> QED
    BY <2>2, <2>5, <2>9, <2>10
<1> QED
  BY <1>1, <1>2, <1>3, <1>4, <1>7, <1>8

\* The point a row is painted from is hit as that row or the next to it.
LEMMA MiddleIsNear ==
    ASSUME NEW row1 \in PointRows, ~ NoRow(Middle(row1))
    PROVE  (RowOf(Middle(row1)) - row1) % Rows \in {0, 1, Rows - 1}
<1> DEFINE m == Middle(row1)
           g == AngleOf(m)
           r == RowOf(m)
<1>1. /\ m \in Angles /\ ~ StraightDown(m) /\ ~ NoRow(m)
      /\ 2 * (Rows * m) <= 2 * (Turn * row1) + Turn
      /\ 2 * (Turn * row1) + Turn < 2 * (Rows * m) + 2 * Rows
  BY MiddleOfRow
<1> HIDE DEF m
<1>2. /\ g \in 0..(Degrees - 1)
      /\ \/ m - Fine < Fine * g /\ Fine * g < m + Fine
         \/ g = 0 /\ m > Turn - Fine
  BY <1>1, AngleOfPoint
<1>3. /\ r \in PointRows
      /\ Turn * r <= (Fine * g) * Rows /\ (Fine * g) * Rows < Turn * r + Turn
  BY <1>2, RowOfDegree DEF RowOf
<1>4. r = (g * Rows) \div Degrees
  BY DEF RowOf
<1> HIDE DEF g, r
<1>5. /\ m \in Nat /\ m < Turn /\ g \in Nat /\ r \in Nat
      /\ row1 \in Nat /\ row1 < Rows
  BY <1>1, <1>2, <1>3, WheelSize DEF Angles, PointRows
<1>6. CASE m - Fine < Fine * g /\ Fine * g < m + Fine
  <2> DEFINE f == Fine * g
  <2>1. f \in Int /\ m - Fine < f /\ f < m + Fine
    BY <1>5, <1>6, WheelSize
  <2>2. Turn * r <= f * Rows /\ f * Rows < Turn * r + Turn
    BY <1>3
  <2> HIDE DEF f
  <2>3. /\ Rows * (m - Fine) = Rows * m - Rows * Fine
        /\ Rows * (m + Fine) = Rows * m + Rows * Fine
        /\ Rows * f = f * Rows
        /\ Rows * m \in Int /\ Rows * Fine \in Int /\ f * Rows \in Int
        /\ Turn * r \in Int /\ Turn * row1 \in Int
        /\ Turn * (row1 + 2) = Turn * row1 + Turn + Turn
        /\ Turn * (r + 2) = Turn * r + Turn + Turn
    BY <1>5, <2>1, WheelSize
  <2>4. Rows * (m - Fine) + Rows <= Rows * f /\ Rows * f + Rows <= Rows * (m + Fine)
    BY <1>5, <2>1, WheelSize, ProductOrder
  <2>5. Turn * r < Turn * (row1 + 2)
    BY <1>1, <1>5, <2>2, <2>3, <2>4, WheelSize
  <2>6. Turn * row1 < Turn * (r + 2)
    BY <1>1, <1>5, <2>2, <2>3, <2>4, WheelSize
  <2>7. r < row1 + 2 /\ row1 < r + 2
    BY <1>5, <2>5, <2>6, WheelSize, ProductCancel
  <2>8. r - row1 \in {-1, 0, 1}
    BY <1>5, <2>7
  <2>9. (r - row1) % Rows \in {0, 1, Rows - 1}
    BY <2>8, Round, WheelSize
  <2> QED
    BY <2>9 DEF r, m
<1>7. CASE g = 0 /\ m > Turn - Fine
  <2>1. r = 0
    <3>1. 0 * Rows = 0 /\ 0 \div Degrees = 0
      BY WheelSize, QuotientIs
    <3> QED
      BY <1>4, <1>7, <3>1
  <2>2. Rows * (Turn - Fine) + Rows <= Rows * m
    BY <1>5, <1>7, WheelSize, ProductOrder
  <2>3. /\ Rows * (Turn - Fine) = Turn * Rows - Rows * Fine
        /\ Turn * (row1 + 2) = Turn * row1 + Turn + Turn
        /\ Turn * Rows \in Int /\ Rows * Fine \in Int /\ Turn * row1 \in Int /\ Rows * m \in Int
    BY <1>5, WheelSize
  <2>4. Turn * Rows < Turn * (row1 + 2)
    BY <1>1, <1>5, <2>2, <2>3, WheelSize
  <2>5. Rows < row1 + 2
    BY <1>5, <2>4, WheelSize, ProductCancel
  <2>6. r - row1 = 1 - Rows
    BY <1>5, <2>1, <2>5, WheelSize
  <2>7. (r - row1) % Rows \in {0, 1, Rows - 1}
    <3>1. 1 - Rows # 2 - Rows /\ 1 - Rows # 2
      BY WheelSize
    <3> QED
      BY <2>6, <3>1, Round
  <2> QED
    BY <2>7 DEF r, m
<1> QED
  BY <1>2, <1>6, <1>7

\* Pointing and drawing agree on every wheel of an even number of rows, less than
\* the degrees, however fine the angles are.
THEOREM HandPointsAgree == HandSpec => []PointsAgreeOnWheel
<1>1. \A a \in Angles : IF NoRow(a) THEN RowOf(a) > Rows
                        ELSE RowOf(a) \in PointRows /\ (StraightDown(a) \/ Near(RowOf(a), a))
  BY MissedRows, HitIsNear
<1>2. PointRows \subseteq {RowOf(a) : a \in Angles}
  BY RowHasPoint
<1>3. \A row1 \in PointRows :
         NoRow(Middle(row1)) \/ (RowOf(Middle(row1)) - row1) % Rows \in {0, 1, Rows - 1}
  BY MiddleIsNear
<1>4. PointsAgree
  BY <1>1, <1>2, <1>3 DEF PointsAgree
<1>5. PointsAgreeOnWheel
  BY <1>4 DEF PointsAgreeOnWheel
<1> QED
  BY <1>5, PTL

----------------------------------------------------------------------------
(* Types, bytes and arcs. *)

\* What a press does where there is no cell, and a press or a stroke where there
\* is one; nothing is made of the model before.
Edits(point) == OnLeftDown(point) \/ OnMotion(point)
Hits(point) == Edits(point) \/ OnLeftDownPast(point)

LEMMA EditKinds ==
    ASSUME NEW point \in Points, Edits(point)
    PROVE  Toggle(point) /\ stage = "new"
BY DEF Edits, OnLeftDown, OnMotion, Editable

LEMMA HitKinds ==
    ASSUME NEW point \in Points, Hits(point)
    PROVE  /\ stage = "new" /\ ring = -1 /\ marks' = marks \cup {point}
           /\ UNCHANGED <<ground, bytes, drawing>>
           /\ drawstate' \in {"DRAWING", "ERASING"} \/ drawstate' = drawstate
<1>1. CASE OnLeftDown(point)
  BY <1>1 DEF OnLeftDown, Editable, Toggle
<1>2. CASE OnMotion(point)
  BY <1>2 DEF OnMotion, Editable, Toggle
<1>3. CASE OnLeftDownPast(point)
  BY <1>3 DEF OnLeftDownPast, Editable
<1> QED
  BY <1>1, <1>2, <1>3 DEF Hits, Edits

LEMMA ToggleTypes ==
    ASSUME HandTypeOK, NEW point \in Points, Toggle(point)
    PROVE  model' \in Model
<1> DEFINE r == RowOf(point[1])
           k == LedOf(point[2])
<1> HIDE DEF r, k
<1>1. model \in Model
  BY DEF HandTypeOK, TypeOK
<1>2. model' = [model EXCEPT ![r][k] = ~model[r][k]]
  BY Zenon DEF Toggle, r, k
<1>3. ASSUME NEW q \in RowIds, NEW c \in ColIds PROVE model'[q][c] \in BOOLEAN
  BY <1>1, <1>2, <1>3 DEF Model
<1> QED
  BY <1>1, <1>2, <1>3 DEF Model

\* What the handlers' checks let through: a column of the panel, or the next to
\* it and then by a press; and a row of the wheel, as no angle has the row after
\* the last.
LEMMA HitBounds ==
    ASSUME NEW point \in Points, Hits(point)
    PROVE  /\ RowOf(point[1]) \in RowIds /\ LedOf(point[2]) \in 0..NumLeds
           /\ marks = {} \/ LedOf(point[2]) # NumLeds
<1> DEFINE r == RowOf(point[1])
           k == LedOf(point[2])
<1>1. point[1] \in Angles
  BY DEF Points
<1>2. NumLeds \in 1..30 /\ NumLeds \in Nat /\ Rows \in Nat
  BY HandAssumption, WheelSize
<1>3. r \in 0..Rows /\ k \in 0..NumLeds /\ (marks = {} \/ k # NumLeds)
  <2>1. CASE OnLeftDown(point)
    BY <2>1 DEF OnLeftDown, PressChecked
  <2>2. CASE OnLeftDownPast(point)
    BY <2>2 DEF OnLeftDownPast, PressChecked
  <2>3. CASE OnMotion(point)
    <3>1. k \in 0..(NumLeds - 1) /\ r \in 0..(Rows - 1)
      BY <2>3 DEF OnMotion, MotionChecked, RowIds
    <3> HIDE DEF k, r
    <3>2. k \in 0..NumLeds /\ k # NumLeds /\ r \in 0..Rows
      BY <1>2, <3>1
    <3> QED
      BY <3>2
  <2> QED
    BY <2>1, <2>2, <2>3 DEF Hits, Edits
<1>4. r \in PointRows
  BY <1>1, <1>3, MissedRows, WheelSize
<1>5. r \in RowIds
  BY <1>4 DEF PointRows, RowIds
<1> QED
  BY <1>3, <1>5

LEMMA HandTypesInit == HandInit => HandTypeOK
BY TypesInit DEF HandInit, HandTypeOK, TouchedBounds, TypeOK

LEMMA HandTypesNext == HandTypeOK /\ [HandNext]_handVars => HandTypeOK'
<1> SUFFICES ASSUME HandTypeOK, [HandNext]_handVars PROVE HandTypeOK'
  OBVIOUS
<1>1. ASSUME NEW point \in Points, Hits(point) PROVE HandTypeOK'
  <2>1. /\ marks' = marks \cup {point} /\ ground' = ground
        /\ UNCHANGED <<bytes, drawing>>
        /\ drawstate' \in {"DRAWING", "ERASING"} \/ drawstate' = drawstate
    BY <1>1, HitKinds
  <2>2. model' \in Model
    <3>1. CASE Edits(point)
      BY <3>1, EditKinds, ToggleTypes
    <3>2. CASE OnLeftDownPast(point)
      BY <3>2 DEF OnLeftDownPast, HandTypeOK, TypeOK
    <3> QED
      BY <1>1, <3>1, <3>2 DEF Hits
  <2>3. TypeOK'
    BY <2>1, <2>2 DEF HandTypeOK, TypeOK, bytes, drawing
  <2>4. TouchedBounds'
    <3>1. /\ RowOf(point[1]) \in RowIds /\ LedOf(point[2]) \in 0..NumLeds
          /\ marks = {} \/ LedOf(point[2]) # NumLeds
      BY <1>1, HitBounds
    <3> QED
      BY <2>1, <3>1 DEF HandTypeOK, TouchedBounds
  <2>5. marks' \subseteq Points /\ ground' \in Model
    BY <2>1 DEF HandTypeOK
  <2>6. drawstate' \in {"NONE", "DRAWING", "ERASING"}
    BY <2>1 DEF HandTypeOK
  <2> QED
    BY <2>3, <2>4, <2>5, <2>6 DEF HandTypeOK
<1>2. CASE OnLeftUp
  BY <1>2 DEF OnLeftUp, HandTypeOK, TouchedBounds, TypeOK, bytes, drawing
<1>3. CASE Others
  BY <1>3, TypesNext DEF Others, HandTypeOK, TouchedBounds, hand
<1>4. CASE UNCHANGED handVars
  BY <1>4, TypesNext DEF HandTypeOK, TouchedBounds, handVars, hand
<1> QED
  BY <1>1, <1>2, <1>3, <1>4 DEF HandNext, Hits, Edits

\* The variables of the wheel, the board's bytes, the arcs and the mouse keep
\* their types, and the mouse stays in the rows of the wheel and in the columns of
\* the panel, or one further by the press alone, for any points and any wheel.  On
\* a wheel of 30 LEDs that one is past the columns that are allocated.
THEOREM HandTypes == HandSpec => []HandTypeOK
BY HandTypesInit, HandTypesNext, PTL DEF HandSpec

LEMMA HandTransferNext ==
    HandTypeOK /\ TransferInv /\ [HandNext]_handVars => TransferInv'
<1> SUFFICES ASSUME HandTypeOK, TransferInv, [HandNext]_handVars PROVE TransferInv'
  OBVIOUS
<1>0. TypeOK
  BY DEF HandTypeOK
<1>1. ASSUME NEW point \in Points, Hits(point) PROVE TransferInv'
  <2>1. stage = "new" /\ stage' = stage
    BY <1>1, HitKinds DEF bytes
  <2> QED
    BY <2>1 DEF TransferInv, RoundTrip
<1>2. CASE OnLeftUp
  BY <1>2 DEF OnLeftUp, TransferInv, RoundTrip, bytes
<1>3. CASE Others
  BY <1>0, <1>3, TransferNext DEF Others
<1>4. CASE UNCHANGED handVars
  BY <1>0, <1>4, TransferNext DEF handVars
<1> QED
  BY <1>1, <1>2, <1>3, <1>4 DEF HandNext, Hits, Edits

\* A picture that was drawn on by hand comes back from the board as it is.
THEOREM HandRoundTrip == HandSpec => []RoundTrip
<1>1. HandInit => TransferInv
  BY DEF HandInit, Init, TransferInv, RoundTrip
<1>2. TransferInv => RoundTrip
  BY DEF TransferInv
<1> QED
  BY <1>1, <1>2, HandTypes, HandTransferNext, PTL DEF HandSpec

LEMMA HandLoopNext ==
    HandTypeOK /\ LoopInv /\ [HandNext]_handVars => LoopInv'
<1> SUFFICES ASSUME HandTypeOK, LoopInv, [HandNext]_handVars PROVE LoopInv'
  OBVIOUS
<1>0. TypeOK
  BY DEF HandTypeOK
<1>1. ASSUME NEW point \in Points, Hits(point) PROVE LoopInv'
  <2>1. ring = -1 /\ UNCHANGED drawing
    BY <1>1, HitKinds
  <2>2. ring' = -1 /\ phase' = "done"
    BY <1>0, <2>1 DEF TypeOK, drawing
  <2> QED
    BY <2>2 DEF LoopInv, RingDrawn
<1>2. CASE OnLeftUp
  BY <1>0, <1>2, LoopNext DEF OnLeftUp, vars
<1>3. CASE Others
  BY <1>0, <1>3, LoopNext DEF Others
<1>4. CASE UNCHANGED handVars
  BY <1>0, <1>4, LoopNext DEF handVars
<1> QED
  BY <1>1, <1>2, <1>3, <1>4 DEF HandNext, Hits, Edits

\* Draw lights exactly the rows that are lit, whatever was drawn by hand.
THEOREM HandRingDrawn == HandSpec => []RingDrawn
<1>1. HandInit => LoopInv
  BY DEF HandInit, Init, LoopInv, RingDrawn
<1>2. LoopInv => RingDrawn
  BY DEF LoopInv
<1> QED
  BY <1>1, <1>2, HandTypes, HandLoopNext, PTL DEF HandSpec

----------------------------------------------------------------------------
(* What the mouse has marked. *)

CellOf(point) == <<RowOf(point[1]), LedOf(point[2])>>
Cell(m, c) == m[c[1]][c[2]]
Cells == RowIds \X ColIds

\* The cells that are not as they were before the press are those of the marks,
\* and while the button is down all of them are lit, or all are unlit: a stroke
\* that comes back to a cell leaves it alone.
MarkInv ==
    /\ \A c \in Cells : Cell(model, c) # Cell(ground, c) <=> c \in {CellOf(point) : point \in marks}
    /\ drawstate # "NONE" =>
         \A point \in marks : CellOf(point) \in Cells =>
            Cell(model, CellOf(point)) = (drawstate = "DRAWING")

\* A press that has a cell and a stroke are in a cell of the model.
LEMMA EditsCells ==
    ASSUME NEW point \in Points, Edits(point)
    PROVE  CellOf(point) \in Cells
<1> DEFINE r == RowOf(point[1])
           k == LedOf(point[2])
<1>1. r \in RowIds /\ k \in ColIds
  <2>1. CASE OnLeftDown(point)
    BY <2>1 DEF OnLeftDown, HasCell
  <2>2. CASE OnMotion(point)
    <3>1. k \in 0..(NumLeds - 1) /\ r \in RowIds
      BY <2>2 DEF OnMotion, MotionChecked
    <3>2. NumLeds \in 1..30
      BY HandAssumption
    <3> HIDE DEF k
    <3>3. k \in ColIds
      BY <3>1, <3>2 DEF ColIds, Width
    <3> QED
      BY <3>1, <3>3
  <2> QED
    BY <2>1, <2>2 DEF Edits
<1> QED
  BY <1>1 DEF CellOf, Cells

\* A press that has none is not in one.
LEMMA PastCells ==
    ASSUME NEW point \in Points, OnLeftDownPast(point)
    PROVE  CellOf(point) \notin Cells
BY DEF OnLeftDownPast, HasCell, CellOf, Cells

\* A toggle changes the one cell.
LEMMA ToggledCell ==
    ASSUME HandTypeOK, NEW point \in Points, Toggle(point), CellOf(point) \in Cells
    PROVE  \A c \in Cells : Cell(model', c) =
              IF c = CellOf(point) THEN ~ Cell(model, c) ELSE Cell(model, c)
<1> DEFINE r == RowOf(point[1])
           k == LedOf(point[2])
<1>1. r \in RowIds /\ k \in ColIds
  BY DEF CellOf, Cells
<1>2. CellOf(point) = <<r, k>>
  BY DEF CellOf
<1> HIDE DEF r, k
<1>3. model \in [RowIds -> [ColIds -> BOOLEAN]]
  BY DEF HandTypeOK, TypeOK, Model
<1>4. model' = [model EXCEPT ![r][k] = ~ model[r][k]]
  BY Zenon DEF Toggle, r, k
<1>5. ASSUME NEW i \in RowIds, NEW j \in ColIds
      PROVE  model'[i][j] = IF i = r /\ j = k THEN ~ model[i][j] ELSE model[i][j]
  BY <1>1, <1>3, <1>4
<1>6. ASSUME NEW c \in Cells
      PROVE  Cell(model', c) = IF c = CellOf(point) THEN ~ Cell(model, c) ELSE Cell(model, c)
  <2>1. PICK i \in RowIds, j \in ColIds : c = <<i, j>>
    BY DEF Cells
  <2>2. Cell(model', c) = model'[i][j] /\ Cell(model, c) = model[i][j]
    BY <2>1 DEF Cell
  <2>3. c = CellOf(point) <=> i = r /\ j = k
    BY <1>2, <2>1
  <2> QED
    BY <1>5, <2>2, <2>3
<1> QED
  BY <1>6

LEMMA MarkNext == HandTypeOK /\ MarkInv /\ [HandNext]_handVars => MarkInv'
<1> SUFFICES ASSUME HandTypeOK, MarkInv, [HandNext]_handVars PROVE MarkInv'
  OBVIOUS
<1>1. ASSUME NEW point \in Points, Edits(point) PROVE MarkInv'
  <2> DEFINE d == CellOf(point)
  <2>1. d \in Cells /\ Toggle(point) /\ ground' = ground /\ marks' = marks \cup {point}
    BY <1>1, EditsCells, EditKinds, HitKinds DEF Hits
  <2>2. \A c \in Cells : Cell(model', c) = IF c = d THEN ~ Cell(model, c) ELSE Cell(model, c)
    BY <2>1, ToggledCell
  <2>3. Cell(model, d) \in BOOLEAN /\ Cell(ground, d) \in BOOLEAN
    BY <2>1 DEF HandTypeOK, TypeOK, Model, Cell, Cells
  <2>4. drawstate' \in {"DRAWING", "ERASING"} /\ Cell(model, d) = (drawstate' = "ERASING")
    <3>1. Cell(model, d) = model[RowOf(point[1])][LedOf(point[2])]
      BY DEF Cell, CellOf
    <3>2. CASE OnLeftDown(point)
      BY <2>3, <3>1, <3>2 DEF OnLeftDown, LitAt
    <3>3. CASE OnMotion(point)
      BY <3>1, <3>3 DEF OnMotion, LitAt, HandTypeOK
    <3> QED
      BY <1>1, <3>2, <3>3 DEF Edits
  <2>5. marks = {} \/ (drawstate' = drawstate /\ drawstate # "NONE")
    BY <1>1 DEF Edits, OnLeftDown, OnMotion
  <2>6. d \notin {CellOf(q) : q \in marks}
    <3> SUFFICES ASSUME NEW q \in marks, CellOf(q) = d PROVE FALSE
      OBVIOUS
    <3>1. drawstate' = drawstate /\ drawstate # "NONE"
      BY <2>5
    <3>2. Cell(model, d) = (drawstate = "DRAWING")
      BY <2>1, <3>1 DEF MarkInv
    <3> HIDE DEF d
    <3> QED
      BY <2>3, <2>4, <3>1, <3>2
  <2>7. {CellOf(q) : q \in marks'} = {CellOf(q) : q \in marks} \cup {d}
    BY <2>1
  <2> HIDE DEF d
  <2>8. \A c \in Cells : Cell(model', c) # Cell(ground, c) <=> c \in {CellOf(q) : q \in marks'}
    BY <2>1, <2>2, <2>3, <2>6, <2>7 DEF MarkInv
  <2>9. \A q \in marks' : CellOf(q) \in Cells =>
            Cell(model', CellOf(q)) = (drawstate' = "DRAWING")
    <3>1. Cell(model', d) = (drawstate' = "DRAWING")
      BY <2>1, <2>2, <2>3, <2>4
    <3>2. ASSUME NEW q \in marks, CellOf(q) \in Cells
          PROVE  Cell(model', CellOf(q)) = (drawstate' = "DRAWING")
      <4>1. CellOf(q) # d
        BY <2>6, <3>2
      <4>2. Cell(model', CellOf(q)) = Cell(model, CellOf(q))
        BY <2>2, <3>2, <4>1
      <4>3. drawstate' = drawstate /\ drawstate # "NONE"
        BY <2>5, <3>2
      <4>4. Cell(model, CellOf(q)) = (drawstate = "DRAWING")
        BY <3>2, <4>3 DEF MarkInv
      <4> QED
        BY Zenon, <4>2, <4>3, <4>4
    <3> QED
      BY <2>1, <3>1, <3>2 DEF d
  <2> QED
    BY <2>1, <2>8, <2>9 DEF MarkInv, Cell
<1>2. CASE OnLeftUp
  BY <1>2 DEF OnLeftUp, MarkInv
<1>3. CASE Others
  <2>1. model' = model
    BY <1>3 DEF Others, Next, Get, Set, DrawRing, Skip, Mark
  <2> QED
    BY <1>3, <2>1 DEF Others, hand, MarkInv
<1>4. CASE UNCHANGED handVars
  BY <1>4 DEF handVars, hand, vars, MarkInv
<1>5. ASSUME NEW point \in Points, OnLeftDownPast(point) PROVE MarkInv'
  <2>1. /\ model' = model /\ ground' = ground /\ marks = {} /\ marks' = {point}
        /\ CellOf(point) \notin Cells
    BY <1>5, PastCells DEF OnLeftDownPast
  <2>2. \A c \in Cells : c \notin {CellOf(q) : q \in marks}
                    /\ c \notin {CellOf(q) : q \in marks'}
    BY <2>1
  <2> QED
    BY <2>1, <2>2 DEF MarkInv
<1> QED
  BY <1>1, <1>2, <1>3, <1>4, <1>5 DEF HandNext, Edits

\* Marked cells of a ring that was drawn right lie under the mouse.
LEMMA UnderMouseFromMarks == HandTypeOK /\ MarkInv /\ RingDrawn => UnderMouse
<1> SUFFICES ASSUME HandTypeOK, MarkInv, RingDrawn, phase = "done", ring # -1
             PROVE  LET here == {p \in marks : LedOf(p[2]) = ring}
                    IN /\ \A r \in 0..(Rows - 2) : Changed(r) =>
                             \E p \in here : StraightDown(p[1]) \/ Near(r, p[1])
                       /\ \A p \in here : StraightDown(p[1]) \/ RowOf(p[1]) = Rows - 1
                             \/ \E r \in 0..(Rows - 2) : Changed(r) /\ Near(r, p[1])
  BY DEF UnderMouse
<1>1. ring \in ColIds /\ marks \subseteq Points
  BY DEF HandTypeOK, TypeOK
<1>2. ASSUME NEW r \in 0..(Rows - 2)
      PROVE  /\ r \in RowIds /\ <<r, ring>> \in Cells
             /\ Changed(r) <=> \E p \in marks : RowOf(p[1]) = r /\ LedOf(p[2]) = ring
  <2>1. r \in RowIds /\ <<r, ring>> \in Cells
    BY <1>1, WheelSize DEF RowIds, Cells
  <2>2. Drawn(r) <=> model[r][ring]
    BY DEF RingDrawn
  <2>3. model[r][ring] \in BOOLEAN /\ ground[r][ring] \in BOOLEAN /\ Drawn(r) \in BOOLEAN
    BY <1>1, <2>1 DEF HandTypeOK, TypeOK, Model, Drawn
  <2>4. Changed(r) <=> Cell(model, <<r, ring>>) # Cell(ground, <<r, ring>>)
    BY <2>2, <2>3 DEF Changed, Cell
  <2>5. Changed(r) <=> <<r, ring>> \in {CellOf(p) : p \in marks}
    BY <2>1, <2>4 DEF MarkInv
  <2> QED
    BY <2>1, <2>5 DEF CellOf
<1>3. ASSUME NEW p \in marks
      PROVE  StraightDown(p[1]) \/ Near(RowOf(p[1]), p[1])
  <2>1. p[1] \in Angles
    BY <1>1 DEF Points
  <2>2. RowOf(p[1]) \in RowIds
    BY DEF HandTypeOK, TouchedBounds
  <2>3. ~ NoRow(p[1])
    BY <2>1, <2>2, MissedRows, WheelSize DEF RowIds
  <2> QED
    BY <2>1, <2>3, HitIsNear
<1>4. ASSUME NEW r \in 0..(Rows - 2), Changed(r)
      PROVE  \E p \in marks : LedOf(p[2]) = ring /\ (StraightDown(p[1]) \/ Near(r, p[1]))
  BY <1>2, <1>3, <1>4
<1>5. ASSUME NEW p \in marks, LedOf(p[2]) = ring
      PROVE  StraightDown(p[1]) \/ RowOf(p[1]) = Rows - 1
                \/ \E r \in 0..(Rows - 2) : Changed(r) /\ Near(r, p[1])
  <2>1. RowOf(p[1]) \in RowIds
    BY DEF HandTypeOK, TouchedBounds
  <2>2. RowOf(p[1]) = Rows - 1 \/ RowOf(p[1]) \in 0..(Rows - 2)
    BY <2>1, WheelSize DEF RowIds
  <2> QED
    BY <1>2, <1>3, <1>5, <2>2
<1> QED
  BY <1>4, <1>5

\* What is drawn by hand appears where the mouse was, and nothing else does,
\* whatever the strokes, the fineness of the angles and the number of rows.
THEOREM HandUnderMouse == HandSpec => []UnderMouse
<1>1. HandInit => MarkInv
  BY DEF HandInit, MarkInv
<1> QED
  BY <1>1, HandTypes, HandRingDrawn, MarkNext, UnderMouseFromMarks, PTL DEF HandSpec

============================================================================
