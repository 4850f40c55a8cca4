------------------------------ MODULE DecodeProofs -----------------------------
(***************************************************************************)
(* Theorems about a decode: the sizes of thumbnails and the orientation of *)
(* images, for pictures of every size, and what becomes of a mip level.    *)
(***************************************************************************)
EXTENDS ImageDecodeDispatcher, ImageGeometry, TLAPS, FiniteSetTheorems, SequenceTheorems,
        WellFoundedInduction

-----------------------------------------------------------------------------
(***************************************************************************)
(* Rounding.                                                               *)
(***************************************************************************)

\* A side scaled by target / side is the target's.
LEMMA RoundExact ==
  ASSUME NEW side \in Side, NEW k \in Nat
  PROVE  Round(side * k, side) = k
<1> DEFINE a == 2 * (side * k) + side
           b == 2 * side
<1>1. a \in Nat /\ b \in Nat \ {0}
  BY DEF Side
<1>2. b * k <= a /\ a < b * k + b
  BY DEF Side
<1>3. a \div b = k
  <2> HIDE DEF a, b
  <2> QED
    BY <1>1, <1>2
<1> QED
  BY <1>3 DEF Round

\* A quotient of at most k is rounded to at most k.
LEMMA RoundBound ==
  ASSUME NEW n \in Nat, NEW d \in Side, NEW k \in Nat, n <= k * d
  PROVE  Round(n, d) \in Nat /\ Round(n, d) <= k
<1> DEFINE a == 2 * n + d
           b == 2 * d
           q == a \div b
<1>1. a \in Nat /\ b \in Nat \ {0}
  BY DEF Side
<1>2. q \in Nat /\ b * q <= a
  <2> HIDE DEF a, b
  <2> QED
    BY <1>1
<1>3. a < b * (k + 1)
  BY DEF Side
<1>4. q <= k
  <2> HIDE DEF a, b
  <2>1. b * q < b * (k + 1)
    <3> HIDE DEF q
    <3> QED
      BY <1>1, <1>2, <1>3
  <2> HIDE DEF q
  <2> QED
    BY <1>1, <1>2, <2>1
<1> QED
  BY <1>2, <1>4 DEF Round

-----------------------------------------------------------------------------
\* The scaled image is within the target and as wide or as high.
LEMMA ScaledFits ==
  ASSUME NEW size \in Size, NEW target \in Target
  PROVE  LET scaled == Scaled(size, Scale(size, target))
         IN  /\ scaled.w <= target.w /\ scaled.h <= target.h
             /\ scaled.w = target.w \/ scaled.h = target.h
<1>1. /\ size.w \in Side /\ size.h \in Side
      /\ target.w \in Nat /\ target.h \in Nat
  BY DEF Size, Target
<1>2. CASE target.w * size.h <= target.h * size.w
  <2>1. Scale(size, target) = <<target.w, size.w>>
    BY <1>2 DEF Scale
  <2>2. Round(size.w * target.w, size.w) = target.w
    BY <1>1, RoundExact
  <2>3. size.h * target.w \in Nat /\ size.h * target.w <= target.h * size.w
    BY <1>1, <1>2 DEF Side
  <2>4. Round(size.h * target.w, size.w) <= target.h
    BY <1>1, <2>3, RoundBound
  <2> QED
    BY <1>1, <2>1, <2>2, <2>4 DEF Scaled
<1>3. CASE ~(target.w * size.h <= target.h * size.w)
  <2>1. Scale(size, target) = <<target.h, size.h>>
    BY <1>3 DEF Scale
  <2>2. Round(size.h * target.h, size.h) = target.h
    BY <1>1, RoundExact
  <2>3. size.w * target.h \in Nat /\ size.w * target.h <= target.w * size.h
    BY <1>1, <1>3 DEF Side
  <2>4. Round(size.w * target.h, size.h) <= target.w
    BY <1>1, <2>3, RoundBound
  <2> QED
    BY <1>1, <2>1, <2>2, <2>4 DEF Scaled
<1> QED
  BY <1>2, <1>3

\* Scaling the stored frame by the upright scale is scaling the upright one.
LEMMA FrameIsFitted ==
  ASSUME NEW stored \in Size, NEW target \in Target, NEW orientation \in 1..8
  PROVE  FittedFrame(stored, orientation, target)
           = Fitted(Upright(stored, orientation), target)
<1>1. CASE SwapsAxes(orientation)
  BY <1>1 DEF FittedFrame, Fitted, Upright, Swapped, ScaleAsStored, Scaled, IsEmpty, Size
<1>2. CASE ~SwapsAxes(orientation)
  BY <1>2 DEF FittedFrame, Fitted, Upright, ScaleAsStored
<1> QED
  BY <1>1, <1>2

\* DXTexThumbnailDecoder and WICDecoderCommon: a thumbnail of any picture is upright,
\* within its target and fills it in one direction; or comes in full size when a side
\* would round to 0.
THEOREM EveryThumbnailFits ==
  ASSUME NEW size \in Size, NEW orientation \in 1..8, NEW target \in Target
  PROVE  ThumbnailFits(size, orientation, target)
<1> DEFINE upright == Upright(size, orientation)
<1>1. upright \in Size
  BY DEF Size, Upright, Swapped
<1>2. FittedFrame(size, orientation, target) = Fitted(upright, target)
  BY FrameIsFitted
<1> HIDE DEF upright
<1>3. CASE TooThin(upright, target)
  <2>1. Fitted(upright, target) = upright
    BY <1>3 DEF TooThin, Fitted
  <2> QED
    BY <1>2, <1>3, <2>1 DEF ThumbnailFits, upright
<1>4. CASE ~TooThin(upright, target)
  <2>1. FitsTarget(Fitted(upright, target), upright, target)
    <3>1. CASE NeedsScale(upright, target)
      <4>1. Fitted(upright, target) = Scaled(upright, Scale(upright, target))
        BY <1>4, <3>1 DEF TooThin, Fitted
      <4> QED
        BY <1>1, <3>1, <4>1, ScaledFits DEF FitsTarget
    <3>2. CASE ~NeedsScale(upright, target)
      BY <3>2 DEF FitsTarget, Fitted
    <3> QED
      BY <3>1, <3>2
  <2> QED
    BY <1>2, <1>4, <2>1 DEF ThumbnailFits, upright
<1> QED
  BY <1>3, <1>4

-----------------------------------------------------------------------------
(***************************************************************************)
(* Powers of two.                                                          *)
(***************************************************************************)

\* The least number principle.
LEMMA LeastNat ==
  ASSUME NEW S, S \subseteq Nat, S # {}
  PROVE  \E n \in S : \A m \in S : n <= m
<1> DEFINE R == OpToRel(<, Nat)
<1>1. IsWellFoundedOn(R, Nat)
  BY NatLessThanWellFounded
<1>2. \A m, n \in Nat : <<m, n>> \in R <=> m < n
  BY DEF OpToRel
<1> HIDE DEF R
<1>3. PICK n \in S : \A m \in S : <<m, n>> \notin R
  BY <1>1, WFMin
<1>4. \A m \in S : m \in Nat /\ n \in Nat /\ ~(m < n)
  BY <1>2, <1>3
<1> QED BY <1>4

\* g lists the powers up to the n-th.
Doubles(g, n) ==
  /\ g \in [0..n -> Side]
  /\ g[0] = 1 /\ \A k \in 1..n : g[k] = 2 * g[k - 1]

\* There is such a list for every n, or there were a least n that has none,
LEMMA DoublesExist == ASSUME NEW n \in Nat PROVE \E g : Doubles(g, n)
<1> DEFINE Without == {k \in Nat : ~\E g : Doubles(g, k)}
<1> SUFFICES ASSUME Without # {} PROVE FALSE
  OBVIOUS
<1>1. PICK k \in Without : \A j \in Without : k <= j
  BY LeastNat
<1>2. CASE k = 0
  <2>1. Doubles([j \in 0..0 |-> 1], 0)
    BY DEF Doubles, Side
  <2> QED BY <1>1, <1>2, <2>1
<1>3. CASE k # 0
  <2>1. k - 1 \in Nat /\ k \in Nat /\ k - 1 \notin Without
    BY <1>1, <1>3
  <2>2. PICK g : Doubles(g, k - 1)
    BY <2>1
  <2> DEFINE h == [j \in 0..k |-> IF j = k THEN 2 * g[k - 1] ELSE g[j]]
  <2>3. \A j \in 0..(k - 1) : j # k /\ j \in 0..k /\ g[j] \in Side
    BY <2>1, <2>2 DEF Doubles
  <2>4. k - 1 \in 0..(k - 1)
    BY <2>1
  <2>5. g[k - 1] \in Side /\ 2 * g[k - 1] \in Side
    BY <2>3, <2>4 DEF Side
  <2>6. h \in [0..k -> Side]
    <3>1. \A j \in 0..k : j = k \/ j \in 0..(k - 1)
      BY <2>1
    <3> QED BY <3>1, <2>3, <2>5
  <2>7. h[0] = 1
    BY <2>1, <2>2, <2>3, <1>3 DEF Doubles
  <2>8. ASSUME NEW j \in 1..k PROVE h[j] = 2 * h[j - 1]
    <3>1. j \in 0..k /\ j - 1 \in 0..k /\ j - 1 # k /\ (j # k => j \in 1..(k - 1))
      BY <2>1
    <3> QED BY <2>2, <3>1 DEF Doubles
  <2>9. Doubles(h, k)
    <3> HIDE DEF h
    <3> QED BY <2>6, <2>7, <2>8 DEF Doubles
  <2> QED BY <1>1, <2>9
<1> QED BY <1>2, <1>3

\* and two of them agree, or there were a first place where they do not.
LEMMA DoublesAgree ==
  ASSUME NEW m \in Nat, NEW n \in Nat, m <= n, NEW g, Doubles(g, m), NEW h, Doubles(h, n)
  PROVE  g[m] = h[m]
<1> DEFINE Differ == {k \in 0..m : g[k] # h[k]}
<1> SUFFICES ASSUME Differ # {} PROVE FALSE
  OBVIOUS
<1>0. Differ \subseteq Nat
  OBVIOUS
<1>1. PICK k \in Differ : \A j \in Differ : k <= j
  <2> HIDE DEF Differ
  <2> QED BY <1>0, LeastNat
<1>2. k \in 1..m /\ k \in 1..n /\ k - 1 \in 0..m
  BY <1>1 DEF Doubles
<1>3. k - 1 \notin Differ
  BY <1>1, <1>2
<1> QED BY <1>1, <1>2, <1>3 DEF Doubles

\* So a function is what the recursive definition says.
LEMMA Powers ==
  /\ PowerOfTwo[0] = 1
  /\ \A n \in Nat : PowerOfTwo[n] \in Side
<1> DEFINE g(n) == CHOOSE f : Doubles(f, n)
           p == [n \in Nat |-> g(n)[n]]
<1>1. \A n \in Nat : Doubles(g(n), n)
  BY DoublesExist
<1> HIDE DEF g
<1>2. \A n \in Nat : p[n] = IF n = 0 THEN 1 ELSE 2 * p[n - 1]
  <2> TAKE n \in Nat
  <2>1. CASE n = 0
    BY <1>1, <2>1 DEF Doubles
  <2>2. CASE n # 0
    <3>1. n - 1 \in Nat /\ n \in 1..n /\ n - 1 <= n
      BY <2>2
    <3>2. g(n)[n - 1] = g(n - 1)[n - 1]
      BY <1>1, <3>1, DoublesAgree
    <3> QED BY <1>1, <2>2, <3>1, <3>2 DEF Doubles
  <2> QED BY <2>1, <2>2
<1>3. p = [n \in Nat |-> IF n = 0 THEN 1 ELSE 2 * p[n - 1]]
  BY <1>2
<1> HIDE DEF p
<1>4. PowerOfTwo = [n \in Nat |-> IF n = 0 THEN 1 ELSE 2 * PowerOfTwo[n - 1]]
  BY <1>3 DEF PowerOfTwo
<1>5. PowerOfTwo[0] = 1
  BY <1>4
<1>6. ASSUME NEW n \in Nat PROVE PowerOfTwo[n] \in Side
  <2> DEFINE Bad == {k \in Nat : PowerOfTwo[k] \notin Side}
  <2> SUFFICES ASSUME Bad # {} PROVE FALSE
    OBVIOUS
  <2>1. PICK k \in Bad : \A j \in Bad : k <= j
    BY LeastNat
  <2>2. k \in Nat /\ k # 0
    BY <1>5, <2>1 DEF Side
  <2>3. k - 1 \in Nat /\ k - 1 \notin Bad
    BY <2>1, <2>2
  <2>4. PowerOfTwo[k] = 2 * PowerOfTwo[k - 1]
    BY <1>4, <2>2
  <2> QED BY <2>1, <2>3, <2>4 DEF Side
<1> QED BY <1>5, <1>6

-----------------------------------------------------------------------------
(***************************************************************************)
(* Thumbnails made from mips.                                              *)
(***************************************************************************)

\* A quotient that is less than one above another is rounded to at most one more.
LEMMA RoundNear ==
  ASSUME NEW n \in Nat, NEW d \in Side, NEW k \in Nat, NEW e \in Side,
         n * e < (k + e) * d
  PROVE  Round(n, d) <= Round(k, e) + 1
<1> DEFINE a == 2 * n + d
           b == 2 * d
           p == a \div b
           c == 2 * k + e
           f == 2 * e
           q == c \div f
<1>1. a \in Nat /\ b \in Nat \ {0} /\ c \in Nat /\ f \in Nat \ {0}
  BY DEF Side
<1>2. p \in Nat /\ b * p <= a
  <2> HIDE DEF a, b
  <2> QED BY <1>1
<1>3. q \in Nat /\ c < f * (q + 1)
  <2> HIDE DEF c, f
  <2> QED BY <1>1
<1> HIDE DEF p, q
<1>4. 2 * d * p <= 2 * n + d /\ 2 * k + e < 2 * e * (q + 1)
  BY <1>2, <1>3
<1>5. p <= q + 1
  <2> SUFFICES ASSUME p >= q + 2 PROVE FALSE
    BY <1>2, <1>3
  <2> d \in Nat /\ e \in Nat /\ d > 0 /\ e > 0
    BY DEF Side
  <2>1. d * p >= d * (q + 2)
    BY <1>2, <1>3
  <2>2. 2 * (d * (q + 2)) <= 2 * n + d
    BY <1>2, <1>3, <1>4, <2>1
  <2>3. 2 * (d * q) + 3 * d <= 2 * n
    BY <1>3, <2>2
  <2>4. e * (2 * (d * q) + 3 * d) <= e * (2 * n)
    BY <1>3, <2>3
  <2>5. 2 * ((d * q) * e) + 3 * (d * e) <= 2 * (n * e)
    BY <1>3, <2>4
  <2>6. 2 * k < 2 * (e * q) + e
    BY <1>3, <1>4
  <2>7. d * (2 * k) < d * (2 * (e * q) + e)
    BY <1>3, <2>6
  <2>8. 2 * (k * d) < 2 * ((d * q) * e) + d * e
    BY <1>3, <2>7
  <2>9. n * e < k * d + d * e
    OBVIOUS
  <2> DEFINE A == (d * q) * e
             B == d * e
             C == n * e
             D == k * d
  <2>10. A \in Nat /\ B \in Nat /\ C \in Nat /\ D \in Nat
    BY <1>3
  <2>11. 2 * A + 3 * B <= 2 * C /\ 2 * D < 2 * A + B /\ C < D + B
    BY <2>5, <2>8, <2>9
  <2> HIDE DEF A, B, C, D
  <2> QED BY <2>10, <2>11
<1> QED BY <1>5 DEF Round, p, q

\* The sides of a mip: at least 1, and at most a pixel of the mip short of the exact
\* quotient, which is the shape of the picture unless the other side was held at 1.
MipShape(mip, size) ==
  /\ mip \in Size
  /\ mip.w <= size.w /\ mip.h <= size.h
  /\ mip.w = 1 \/ size.h * mip.w < (mip.h + 1) * size.w
  /\ mip.h = 1 \/ size.w * mip.h < (mip.w + 1) * size.h

\* Max of the code's two sides.
LEMMA MaxOfOne == ASSUME NEW x \in Nat PROVE Max({1, x}) = IF x > 1 THEN x ELSE 1
BY DEF Max

\* A side of a mip is the exact quotient rounded down, or 1.
LEMMA MipSide ==
  ASSUME NEW w \in Side, NEW d \in Side
  PROVE  LET v == Max({1, w \div d})
         IN  /\ v \in Side /\ v <= w
             /\ w < (v + 1) * d
             /\ v = 1 \/ v * d <= w
<1> DEFINE q == w \div d
<1>1. q \in Nat /\ d * q <= w /\ w < d * (q + 1) /\ q <= w
  <2>1. q \in Nat /\ d * q <= w /\ w < d * (q + 1)
    BY DEF Side
  <2> HIDE DEF q
  <2>2. q <= d * q
    BY <2>1 DEF Side
  <2> QED BY <2>1, <2>2 DEF Side
<1> HIDE DEF q
<1>2. Max({1, q}) = IF q > 1 THEN q ELSE 1
  BY <1>1, MaxOfOne
<1>3. CASE q > 1
  <2>1. (q + 1) * d = d * (q + 1) /\ q * d = d * q
    BY <1>1 DEF Side
  <2> QED BY <1>1, <1>2, <1>3, <2>1 DEF q, Side
<1>4. CASE ~(q > 1)
  <2>1. d * (q + 1) <= (1 + 1) * d
    BY <1>1, <1>4 DEF Side
  <2> QED BY <1>1, <1>2, <1>4, <2>1 DEF q, Side
<1> QED BY <1>3, <1>4

\* The other side of a mip, against the exact shape.
LEMMA MipOtherSide ==
  ASSUME NEW w \in Side, NEW h \in Side, NEW d \in Side, NEW v \in Side, NEW u \in Side,
         v * d <= w, h < (u + 1) * d
  PROVE  h * v < (u + 1) * w
<1>0. w \in Nat /\ h \in Nat /\ d \in Nat /\ v \in Nat /\ u \in Nat /\ v > 0
  BY DEF Side
<1>1. h * v < ((u + 1) * d) * v
  BY <1>0
<1>2. ((u + 1) * d) * v = (u + 1) * (v * d)
  BY <1>0
<1>3. (u + 1) * (v * d) <= (u + 1) * w
  BY <1>0
<1> DEFINE A == h * v
           B == (u + 1) * (v * d)
           C == (u + 1) * w
<1>4. A \in Nat /\ B \in Nat /\ C \in Nat /\ A < B /\ B <= C
  BY <1>0, <1>1, <1>2, <1>3
<1> HIDE DEF A, B, C
<1>5. A < C
  BY <1>4
<1> QED BY <1>5 DEF A, C

\* So every mip is of its picture's shape within a pixel of its own.
LEMMA MipShaped == ASSUME NEW size \in Size, NEW m \in Nat PROVE MipShape(Mip(size, m), size)
<1> DEFINE d == PowerOfTwo[m]
           w == Max({1, size.w \div d})
           h == Max({1, size.h \div d})
<1>1. d \in Side /\ size.w \in Side /\ size.h \in Side
  BY Powers DEF Size
<1>2. Mip(size, m) = [w |-> w, h |-> h]
  BY DEF Mip
<1> HIDE DEF d
<1>3. w \in Side /\ w <= size.w /\ size.w < (w + 1) * d /\ (w = 1 \/ w * d <= size.w)
  BY <1>1, MipSide
<1>4. h \in Side /\ h <= size.h /\ size.h < (h + 1) * d /\ (h = 1 \/ h * d <= size.h)
  BY <1>1, MipSide
<1> HIDE DEF w, h
<1>5. (w = 1 \/ size.h * w < (h + 1) * size.w) /\ (h = 1 \/ size.w * h < (w + 1) * size.h)
  BY <1>1, <1>3, <1>4, MipOtherSide
<1> QED BY <1>2, <1>3, <1>4, <1>5 DEF MipShape, Size

\* Mip 0 is the image.
LEMMA FirstMip == ASSUME NEW size \in Size PROVE Mip(size, 0) = size
<1>1. size.w \in Nat /\ size.w > 0 /\ size.h \in Nat /\ size.h > 0
  BY DEF Size, Side
<1>2. size.w \div 1 = size.w /\ size.h \div 1 = size.h
  BY <1>1
<1>3. Max({1, size.w}) = size.w /\ Max({1, size.h}) = size.h
  BY <1>1, MaxOfOne
<1> QED BY <1>2, <1>3, Powers DEF Mip, Size

\* The chosen mip is the whole image, or reaches the target.
LEMMA ChosenMip ==
  ASSUME NEW size \in Size, NEW levels \in Side, NEW target \in Target
  PROVE  LET m == ThumbnailMip(size, levels, target)
         IN  /\ m \in Nat
             /\ m # 0 => target.w > 0 /\ target.h > 0 /\ Reaches(Mip(size, m), target)
<1> DEFINE reaching == {m \in 0..(levels - 1) : Reaches(Mip(size, m), target)}
           S(m)     == Largest(Mip(size, m))
           smallest == {m \in reaching : \A n \in reaching : S(m) <= S(n)}
           chooses  == levels > 1 /\ target.w > 0 /\ target.h > 0 /\ reaching # {}
<1>1. ThumbnailMip(size, levels, target) = IF chooses THEN Min(smallest) ELSE 0
  BY DEF ThumbnailMip
<1>2. reaching \subseteq Nat
  BY DEF Side
<1>3. \A m \in Nat : S(m) \in Nat
  BY MipShaped DEF MipShape, Largest, Size, Side
<1> HIDE DEF S
<1>4. CASE chooses
  <2> DEFINE sides == {S(m) : m \in reaching}
  <2>1. sides \subseteq Nat /\ sides # {}
    BY <1>2, <1>3, <1>4
  <2>2. \E s \in sides : \A t \in sides : s <= t
    <3> HIDE DEF sides
    <3> QED BY <2>1, LeastNat
  <2>3. smallest # {} /\ smallest \subseteq Nat
    BY <1>2, <2>2
  <2>4. \E n \in smallest : \A m \in smallest : n <= m
    <3> HIDE DEF smallest
    <3> QED BY <2>3, LeastNat
  <2>5. Min(smallest) \in smallest
    <3> HIDE DEF smallest
    <3> QED BY <2>4 DEF Min
  <2> QED BY <1>1, <1>2, <1>4, <2>5
<1>5. CASE ~chooses
  <2> HIDE DEF chooses
  <2> QED BY <1>1, <1>5
<1> QED BY <1>4, <1>5

\* The side of the thumbnail that its scale was not chosen for: t is the target of the
\* other side, in which the mip is larger than it.
LEMMA OtherSideNear ==
  ASSUME NEW w \in Side, NEW h \in Side, NEW v \in Side, NEW u \in Side, NEW t \in Side,
         t < v, h * v < (u + 1) * w
  PROVE  /\ Round(h * t, w) <= Round(u * t, v) + 1
         /\ Round(h * t, w) <= u + 1
<1>0. w \in Nat /\ h \in Nat /\ v \in Nat /\ u \in Nat /\ t \in Nat /\ t > 0 /\ v > 0 /\ w > 0
  BY DEF Side
<1>1. h * t \in Nat /\ u * t \in Nat
  BY <1>0
<1>2. (h * v) * t < ((u + 1) * w) * t
  BY <1>0
<1>3. (h * t) * v < (u * t + t) * w
  BY <1>0, <1>2
<1>4. t * w <= v * w /\ h * t <= (u + 1) * w
  <2>1. t * w <= v * w
    BY <1>0
  <2>2. h * t <= h * v
    BY <1>0
  <2> DEFINE A == h * t
             B == h * v
             C == (u + 1) * w
  <2>3. A \in Nat /\ B \in Nat /\ C \in Nat /\ A <= B /\ B < C
    BY <1>0, <2>2
  <2>4. A <= C
    <3> HIDE DEF A, B, C
    <3> QED BY <2>3
  <2> QED BY <2>1, <2>4
<1>5. (u * t + t) * w <= (u * t + v) * w
  BY <1>0, <1>1, <1>4
<1>6. (h * t) * v < (u * t + v) * w
  <2> DEFINE A == (h * t) * v
             B == (u * t + t) * w
             C == (u * t + v) * w
  <2>1. A \in Nat /\ B \in Nat /\ C \in Nat /\ A < B /\ B <= C
    BY <1>0, <1>1, <1>3, <1>5
  <2>2. A < C
    <3> HIDE DEF A, B, C
    <3> QED BY <2>1
  <2> QED BY <2>2
<1>7. Round(h * t, w) <= Round(u * t, v) + 1
  <2>1. \A n, k \in Nat : n * v < (k + v) * w => Round(n, w) <= Round(k, v) + 1
    BY RoundNear
  <2> QED BY <1>1, <1>6, <2>1
<1>8. Round(h * t, w) <= u + 1
  <2>1. u + 1 \in Nat
    BY <1>0
  <2> QED BY <1>1, <1>4, <2>1, RoundBound
<1> QED BY <1>7, <1>8

\* A quotient of at least k is rounded to at least k.
LEMMA RoundAtLeast ==
  ASSUME NEW n \in Nat, NEW d \in Side, NEW k \in Nat, k * d <= n
  PROVE  k <= Round(n, d)
<1> DEFINE a == 2 * n + d
           b == 2 * d
           q == a \div b
<1>1. a \in Nat /\ b \in Nat \ {0} /\ b * k <= a
  BY DEF Side
<1>2. q \in Nat /\ a < b * (q + 1)
  <2> HIDE DEF a, b
  <2> QED BY <1>1
<1>3. k <= q
  <2> HIDE DEF a, b, q
  <2>1. b * k < b * (q + 1)
    BY <1>1, <1>2
  <2> QED BY <1>1, <1>2, <2>1
<1> QED BY <1>3 DEF Round

\* A thumbnail of the whole image is at most its width and height scaled by either side.
LEMMA ScaledWithin ==
  ASSUME NEW size \in Size, NEW target \in Target
  PROVE  LET scaled == Scaled(size, Scale(size, target))
         IN  /\ scaled.w <= target.w /\ scaled.h <= target.h
             /\ scaled.w <= Round(size.w * target.h, size.h)
             /\ scaled.h <= Round(size.h * target.w, size.w)
<1>0. /\ size.w \in Side /\ size.h \in Side /\ size.w \in Nat /\ size.h \in Nat
      /\ target.w \in Nat /\ target.h \in Nat
  BY DEF Size, Target, Side
<1>1. CASE target.w * size.h <= target.h * size.w
  <2>1. Scaled(size, Scale(size, target))
          = [w |-> Round(size.w * target.w, size.w), h |-> Round(size.h * target.w, size.w)]
    BY <1>1 DEF Scale, Scaled
  <2>2. size.w * target.h \in Nat /\ target.w * size.h <= size.w * target.h
    BY <1>0, <1>1
  <2>3. target.w <= Round(size.w * target.h, size.h)
    BY <1>0, <2>2, RoundAtLeast
  <2>4. size.h * target.w \in Nat /\ Round(size.h * target.w, size.w) \in Nat
    <3>1. size.h * target.w \in Nat /\ size.h * target.w <= target.h * size.w
      BY <1>0, <1>1
    <3> QED BY <1>0, <3>1, RoundBound
  <2> QED BY <1>0, <2>1, <2>3, <2>4, ScaledFits, RoundExact
<1>2. CASE ~(target.w * size.h <= target.h * size.w)
  <2>1. Scaled(size, Scale(size, target))
          = [w |-> Round(size.w * target.h, size.h), h |-> Round(size.h * target.h, size.h)]
    BY <1>2 DEF Scale, Scaled
  <2>2. size.h * target.w \in Nat /\ target.h * size.w <= size.h * target.w
    BY <1>0, <1>2
  <2>3. target.h <= Round(size.h * target.w, size.w)
    BY <1>0, <2>2, RoundAtLeast
  <2>4. size.w * target.h \in Nat /\ Round(size.w * target.h, size.h) \in Nat
    <3>1. size.w * target.h \in Nat /\ size.w * target.h <= target.w * size.h
      BY <1>0, <1>2
    <3> QED BY <1>0, <3>1, RoundBound
  <2> QED BY <1>0, <2>1, <2>3, <2>4, ScaledFits, RoundExact
<1> QED BY <1>1, <1>2

\* A scaled side is a number.
LEMMA RoundType == ASSUME NEW a \in Side, NEW t \in Nat, NEW e \in Side PROVE Round(a * t, e) \in Nat
<1>1. a * t \in Nat /\ a * t <= (a * t) * e
  <2>1. a * t \in Nat
    BY DEF Side
  <2> QED BY <2>1 DEF Side
<1> QED BY <1>1, RoundBound

\* A scaled image has whole sides.
LEMMA ScaledSides ==
  ASSUME NEW size \in Size, NEW target \in Target
  PROVE  LET scaled == Scaled(size, Scale(size, target))
         IN  scaled.w \in Nat /\ scaled.h \in Nat
<1>3. size.w \in Side /\ size.h \in Side /\ target.w \in Nat /\ target.h \in Nat
  BY DEF Size, Target
<1>4. CASE Scale(size, target) = <<target.w, size.w>>
  BY <1>3, <1>4, RoundType DEF Scaled
<1>5. CASE Scale(size, target) = <<target.h, size.h>>
  BY <1>3, <1>5, RoundType DEF Scaled
<1> QED BY <1>4, <1>5 DEF Scale

\* A mip that reaches the target of an image that needs no scaling is that image.
LEMMA MipOfSmall ==
  ASSUME NEW size \in Size, NEW target \in Target, NEW mip, MipShape(mip, size),
         Reaches(mip, target), size.w <= target.w, size.h <= target.h
  PROVE  mip = size
<1>0. /\ size.w \in Nat /\ size.h \in Nat /\ size.w > 0 /\ size.h > 0
      /\ mip.w \in Nat /\ mip.h \in Nat /\ mip.w > 0 /\ mip.h > 0
      /\ mip.w <= size.w /\ mip.h <= size.h
      /\ target.w \in Nat /\ target.h \in Nat
  BY DEF Size, Target, Side, MipShape
<1>1. mip.w = 1 \/ size.h * mip.w < (mip.h + 1) * size.w
  BY DEF MipShape
<1>2. mip.h = 1 \/ size.w * mip.h < (mip.w + 1) * size.h
  BY DEF MipShape
<1>3. Largest(mip) >= Largest(target)
  BY DEF Reaches
<1>4. CASE mip.w >= mip.h
  <2>1. mip.w = size.w /\ size.h <= mip.w
    BY <1>0, <1>3, <1>4 DEF Largest
  <2>2. mip.h = size.h
    <3>1. CASE mip.w = 1
      BY <1>0, <2>1, <3>1
    <3>2. CASE size.h * size.w < (mip.h + 1) * size.w
      <4>1. size.h < mip.h + 1
        BY <1>0, <3>2
      <4> QED BY <1>0, <4>1
    <3> QED BY <1>1, <2>1, <3>1, <3>2
  <2> QED BY <2>1, <2>2 DEF Size, MipShape
<1>5. CASE ~(mip.w >= mip.h)
  <2>1. mip.h = size.h /\ size.w <= mip.h
    BY <1>0, <1>3, <1>5 DEF Largest
  <2>2. mip.w = size.w
    <3>1. CASE mip.h = 1
      BY <1>0, <2>1, <3>1
    <3>2. CASE size.w * size.h < (mip.w + 1) * size.h
      <4>1. size.w < mip.w + 1
        BY <1>0, <3>2
      <4> QED BY <1>0, <4>1
    <3> QED BY <1>2, <2>1, <3>1, <3>2
  <2> QED BY <2>1, <2>2 DEF Size, MipShape
<1> QED BY <1>4, <1>5

\* A mip that is not scaled, of an image that is: the mip fills the longer side of the
\* target.
LEMMA MipAsItIs ==
  ASSUME NEW size \in Size, NEW target \in Target, NEW mip, MipShape(mip, size),
         Reaches(mip, target), mip.w <= target.w, mip.h <= target.h
  PROVE  LET scaled == Scaled(size, Scale(size, target))
         IN  scaled.w <= mip.w + 1 /\ scaled.h <= mip.h + 1
<1> DEFINE full == Scaled(size, Scale(size, target))
<1>0. /\ size.w \in Side /\ size.h \in Side /\ mip.w \in Side /\ mip.h \in Side
      /\ size.w \in Nat /\ size.h \in Nat
      /\ mip.w \in Nat /\ mip.h \in Nat /\ mip.w > 0 /\ mip.h > 0
      /\ target.w \in Nat /\ target.h \in Nat
  BY DEF Size, Target, Side, MipShape
<1>1. /\ full.w <= target.w /\ full.h <= target.h
      /\ full.w <= Round(size.w * target.h, size.h)
      /\ full.h <= Round(size.h * target.w, size.w)
  BY ScaledWithin
<1>2. full.w \in Nat /\ full.h \in Nat
  BY ScaledSides
<1> SUFFICES full.w <= mip.w + 1 /\ full.h <= mip.h + 1
  OBVIOUS
<1> HIDE DEF full
<1>3. \/ mip.w = target.w /\ target.h <= target.w
      \/ mip.h = target.h /\ target.w <= target.h
  <2>1. Largest(mip) >= Largest(target)
    BY DEF Reaches
  <2> QED BY <1>0, <2>1 DEF Largest
<1>4. CASE mip.w = target.w /\ target.h <= target.w
  <2>1. CASE mip.w = 1
    <3>1. target.w = 1 /\ target.h <= 1
      BY <1>4, <2>1
    <3> QED BY <1>0, <1>1, <1>2, <3>1
  <2>2. CASE size.h * target.w < (mip.h + 1) * size.w
    <3>1. size.h * target.w \in Nat /\ size.h * target.w <= (mip.h + 1) * size.w /\ mip.h + 1 \in Nat
      BY <1>0, <2>2
    <3>2. Round(size.h * target.w, size.w) \in Nat /\ Round(size.h * target.w, size.w) <= mip.h + 1
      BY <1>0, <3>1, RoundBound
    <3> QED BY <1>0, <1>1, <1>2, <1>4, <3>2
  <2> QED BY <1>4, <2>1, <2>2 DEF MipShape
<1>5. CASE mip.h = target.h /\ target.w <= target.h
  <2>1. CASE mip.h = 1
    <3>1. target.h = 1 /\ target.w <= 1
      BY <1>5, <2>1
    <3> QED BY <1>0, <1>1, <1>2, <3>1
  <2>2. CASE size.w * target.h < (mip.w + 1) * size.h
    <3>1. size.w * target.h \in Nat /\ size.w * target.h <= (mip.w + 1) * size.h /\ mip.w + 1 \in Nat
      BY <1>0, <2>2
    <3>2. Round(size.w * target.h, size.h) \in Nat /\ Round(size.w * target.h, size.h) <= mip.w + 1
      BY <1>0, <3>1, RoundBound
    <3> QED BY <1>0, <1>1, <1>2, <1>5, <3>2
  <2> QED BY <1>5, <2>1, <2>2 DEF MipShape
<1> QED BY <1>3, <1>4, <1>5

\* A mip that is scaled is larger than the target in the direction that decides its scale.
LEMMA MipScaled ==
  ASSUME NEW size \in Size, NEW target \in Target, NEW mip, MipShape(mip, size),
         NeedsScale(mip, target)
  PROVE  /\ Scaled(size, Scale(size, target)).w <= Fitted(mip, target).w + 1
         /\ Scaled(size, Scale(size, target)).h <= Fitted(mip, target).h + 1
<1> DEFINE full  == Scaled(size, Scale(size, target))
           scaled == Scaled(mip, Scale(mip, target))
           thumb == Fitted(mip, target)
<1>0. /\ size.w \in Side /\ size.h \in Side /\ mip.w \in Side /\ mip.h \in Side /\ mip \in Size
      /\ mip.w \in Nat /\ mip.h \in Nat /\ mip.w > 0 /\ mip.h > 0
      /\ target.w \in Nat /\ target.h \in Nat /\ target.w > 0 /\ target.h > 0
      /\ target.w \in Side /\ target.h \in Side
  BY DEF Size, Target, Side, MipShape, NeedsScale
<1>1. /\ full.w <= target.w /\ full.h <= target.h
      /\ full.w <= Round(size.w * target.h, size.h)
      /\ full.h <= Round(size.h * target.w, size.w)
  BY ScaledWithin
<1>2. full.w \in Nat /\ full.h \in Nat
  BY ScaledSides
<1>3. thumb \in {scaled, mip} /\ scaled.w \in Nat /\ scaled.h \in Nat
  BY <1>0, ScaledSides DEF Fitted
<1> HIDE DEF full, thumb
<1>4. CASE target.w * mip.h <= target.h * mip.w
  <2>1. target.w < mip.w
    <3> SUFFICES ASSUME mip.w <= target.w PROVE FALSE
      BY <1>0
    <3>1. target.h < mip.h
      BY <1>0 DEF NeedsScale
    <3>2. mip.w * mip.h <= target.w * mip.h
      BY <1>0
    <3>3. mip.w * target.h < mip.w * mip.h
      BY <1>0, <3>1
    <3> DEFINE A == mip.w * target.h
               B == mip.w * mip.h
               C == target.w * mip.h
    <3>4. A \in Nat /\ B \in Nat /\ C \in Nat /\ A < B /\ B <= C /\ C <= A
      BY <1>0, <1>4, <3>2, <3>3
    <3> HIDE DEF A, B, C
    <3> QED BY <3>4
  <2>2. Scale(mip, target) = <<target.w, mip.w>>
    BY <1>4 DEF Scale
  <2>3. scaled.w = target.w /\ scaled.h = Round(mip.h * target.w, mip.w)
    BY <1>0, <2>2, RoundExact DEF Scaled
  <2>4. size.h * mip.w < (mip.h + 1) * size.w
    BY <1>0, <2>1 DEF MipShape
  <2>5. /\ Round(size.h * target.w, size.w) <= scaled.h + 1
        /\ Round(size.h * target.w, size.w) <= mip.h + 1
    BY <1>0, <2>1, <2>3, <2>4, OtherSideNear
  <2>6. Round(size.h * target.w, size.w) \in Nat
    BY <1>0, RoundType
  <2> HIDE DEF scaled
  <2> QED BY <1>0, <1>1, <1>2, <1>3, <2>1, <2>3, <2>5, <2>6 DEF full, thumb
<1>5. CASE ~(target.w * mip.h <= target.h * mip.w)
  <2>1. target.h < mip.h
    <3> SUFFICES ASSUME mip.h <= target.h PROVE FALSE
      BY <1>0
    <3>1. target.w < mip.w
      BY <1>0 DEF NeedsScale
    <3>2. mip.h * mip.w <= target.h * mip.w
      BY <1>0
    <3>3. mip.h * target.w < mip.h * mip.w
      BY <1>0, <3>1
    <3> DEFINE A == mip.h * target.w
               B == mip.h * mip.w
               C == target.h * mip.w
    <3>4. A \in Nat /\ B \in Nat /\ C \in Nat /\ A < B /\ B <= C /\ C <= A
      BY <1>0, <1>5, <3>2, <3>3
    <3> HIDE DEF A, B, C
    <3> QED BY <3>4
  <2>2. Scale(mip, target) = <<target.h, mip.h>>
    BY <1>5 DEF Scale
  <2>3. scaled.h = target.h /\ scaled.w = Round(mip.w * target.h, mip.h)
    BY <1>0, <2>2, RoundExact DEF Scaled
  <2>4. size.w * mip.h < (mip.w + 1) * size.h
    BY <1>0, <2>1 DEF MipShape
  <2>5. /\ Round(size.w * target.h, size.h) <= scaled.w + 1
        /\ Round(size.w * target.h, size.h) <= mip.w + 1
    BY <1>0, <2>1, <2>3, <2>4, OtherSideNear
  <2>6. Round(size.w * target.h, size.h) \in Nat
    BY <1>0, RoundType
  <2> HIDE DEF scaled
  <2> QED BY <1>0, <1>1, <1>2, <1>3, <2>1, <2>3, <2>5, <2>6 DEF full, thumb
<1> QED BY <1>4, <1>5 DEF full, thumb

\* DXTexThumbnailDecoder: the thumbnail of a DDS with any number of mips is at most a pixel
\* short of the one made from the whole image, in either direction, for images and targets
\* of every size: no mip chosen has too few pixels.
THEOREM EveryMipLosesNoPixels ==
  ASSUME NEW size \in Size, NEW levels \in Side, NEW target \in Target
  PROVE  MipLosesNoPixels(size, levels, target)
<1> DEFINE m      == ThumbnailMip(size, levels, target)
           mip    == Mip(size, m)
           full  == Fitted(size, target)
           thumb == Fitted(mip, target)
           near   == full.w <= thumb.w + 1 /\ full.h <= thumb.h + 1
<1>1. m \in Nat /\ (m # 0 => target.w > 0 /\ target.h > 0 /\ Reaches(mip, target))
  BY ChosenMip
<1>2. m = 0 => mip = size
  BY FirstMip
<1>3. MipShape(mip, size) /\ mip \in Size
  <2> HIDE DEF m
  <2> QED BY <1>1, MipShaped DEF MipShape
<1> HIDE DEF m, mip
<1>4. full.w \in Nat /\ full.h \in Nat /\ thumb.w \in Nat /\ thumb.h \in Nat
  BY <1>3, ScaledSides DEF Fitted, Size, Side
<1> SUFFICES ASSUME ~TooThin(size, target) PROVE near
  BY <1>4 DEF MipLosesNoPixels, m, mip
<1>5. CASE mip = size
  BY <1>4, <1>5
<1>6. CASE mip # size
  <2>1. target.w > 0 /\ target.h > 0 /\ Reaches(mip, target)
    BY <1>1, <1>2, <1>6
  <2>2. NeedsScale(size, target)
    <3>1. size.w <= target.w /\ size.h <= target.h => mip = size
      BY <1>3, <2>1, MipOfSmall
    <3> QED BY <1>6, <2>1, <3>1 DEF NeedsScale, Size, Target, Side
  <2>3. full = Scaled(size, Scale(size, target))
    BY <2>2 DEF TooThin, Fitted
  <2>4. CASE NeedsScale(mip, target)
    BY <1>3, <2>3, <2>4, MipScaled
  <2>5. CASE ~NeedsScale(mip, target)
    <3>1. mip.w <= target.w /\ mip.h <= target.h
      BY <1>3, <2>1, <2>5 DEF NeedsScale, Size, Target, Side
    <3>2. thumb = mip
      BY <2>5 DEF Fitted
    <3> QED BY <1>3, <2>1, <2>3, <3>1, <3>2, MipAsItIs
  <2> QED BY <2>4, <2>5
<1> QED BY <1>5, <1>6

-----------------------------------------------------------------------------
\* Orient: the flip and the turn of every EXIF orientation bring every pixel of a
\* picture of any size to the place EXIF gives it.
THEOREM EveryOrientationUndone ==
  ASSUME NEW size \in Size, NEW orientation \in 1..8
  PROVE  PixelsUpright(size, orientation)
<1> SUFFICES ASSUME NEW x \in 0..(size.w - 1), NEW y \in 0..(size.h - 1)
             PROVE  Orient([x |-> x, y |-> y], size, orientation)
                      = UprightPlace([x |-> x, y |-> y], size, orientation)
  BY DEF PixelsUpright
<1>0. size.w \in Nat /\ size.h \in Nat /\ x \in Nat /\ y \in Nat
  BY DEF Size, Side
<1> USE <1>0 DEF Orient, UprightPlace, Place, ExifSides, SwapsAxes, FlipHorizontal,
        FlipVertical, Rotate90, Rotate180, Rotate270
<1>1. CASE orientation = 1
  BY <1>1
<1>2. CASE orientation = 2
  BY <1>2
<1>3. CASE orientation = 3
  BY <1>3
<1>4. CASE orientation = 4
  BY <1>4
<1>5. CASE orientation = 5
  BY <1>5
<1>6. CASE orientation = 6
  BY <1>6
<1>7. CASE orientation = 7
  BY <1>7
<1>8. CASE orientation = 8
  BY <1>8
<1> QED
  BY <1>1, <1>2, <1>3, <1>4, <1>5, <1>6, <1>7, <1>8

-----------------------------------------------------------------------------
\* A host that asks for any picture there is gets a thumbnail that fits its target,
THEOREM ThumbnailsAlwaysFit == PictureSpec => []ThumbnailsFit
<1>1. PictureInit => ThumbnailsFit
  BY EveryThumbnailFits, PictureConstants DEF PictureInit, ThumbnailsFit
<1>2. ThumbnailsFit /\ [FALSE]_pictures => ThumbnailsFit'
  BY DEF ThumbnailsFit
<1> QED BY <1>1, <1>2, PTL DEF PictureSpec

\* made from a mip that has pixels enough,
THEOREM MipsNeverLosePixels == PictureSpec => []MipsLoseNoPixels
<1>1. PictureInit => MipsLoseNoPixels
  BY EveryMipLosesNoPixels, PictureConstants DEF PictureInit, MipsLoseNoPixels
<1>2. MipsLoseNoPixels /\ [FALSE]_pictures => MipsLoseNoPixels'
  BY DEF MipsLoseNoPixels
<1> QED BY <1>1, <1>2, PTL DEF PictureSpec

\* upright.
THEOREM ImagesAlwaysUpright == PictureSpec => []ImagesUpright
<1>1. PictureInit => ImagesUpright
  BY EveryOrientationUndone, PictureConstants DEF PictureInit, ImagesUpright
<1>2. ImagesUpright /\ [FALSE]_pictures => ImagesUpright'
  BY DEF ImagesUpright
<1> QED BY <1>1, <1>2, PTL DEF PictureSpec

-----------------------------------------------------------------------------
(***************************************************************************)
(* The entries of a sequence at some of its places.                        *)
(***************************************************************************)

\* t has the entries of s at the places P, in their order.
TakenFrom(t, s, P) ==
  \E at \in [DOMAIN t -> P] :
    /\ \A i, j \in DOMAIN t : i < j => at[i] < at[j]
    /\ \A p \in P : \E i \in DOMAIN t : at[i] = p
    /\ \A i \in DOMAIN t : t[i] = s[at[i]]

\* The place of an entry is the one that has that many at or before it: counting the places
\* up to each is one to one, so every number is reached.
LEMMA EntriesTaken ==
  ASSUME NEW s, NEW P \in SUBSET Nat, IsFiniteSet(P)
  PROVE  /\ Cardinality(P) \in Nat
         /\ DOMAIN EntriesAt(s, P) = 1..Cardinality(P)
         /\ TakenFrom(EntriesAt(s, P), s, P)
<1> DEFINE N       == Cardinality(P)
           Upto(n) == {m \in P : m <= n}
           rank    == [n \in P |-> Cardinality(Upto(n))]
           at      == [i \in 1..N |-> CHOOSE n \in P : Cardinality(Upto(n)) = i]
<1>1. N \in Nat
  BY FS_CardinalityType
<1>0. \A n \in P : n \in Nat
  OBVIOUS
<1>2. \A n \in P : IsFiniteSet(Upto(n)) /\ rank[n] \in 1..N
  <2> SUFFICES ASSUME NEW n \in P PROVE IsFiniteSet(Upto(n)) /\ rank[n] \in 1..N
    OBVIOUS
  <2>1. Upto(n) \in SUBSET P /\ n \in Upto(n)
    OBVIOUS
  <2>2. rank[n] = Cardinality(Upto(n))
    OBVIOUS
  <2> HIDE DEF Upto, rank
  <2>3. IsFiniteSet(Upto(n)) /\ Cardinality(Upto(n)) <= N
    BY <2>1, FS_Subset
  <2>4. Cardinality(Upto(n)) \in Nat /\ Cardinality(Upto(n)) # 0
    BY <2>1, <2>3, FS_CardinalityType, FS_EmptySet
  <2> QED BY <1>1, <2>2, <2>3, <2>4
<1>3. \A m, n \in P : m < n => rank[m] < rank[n]
  <2> SUFFICES ASSUME NEW m \in P, NEW n \in P, m < n PROVE rank[m] < rank[n]
    OBVIOUS
  <2>1. Upto(m) \in SUBSET Upto(n) /\ n \in Upto(n) /\ n \notin Upto(m)
    <3>1. m \in Nat /\ n \in Nat /\ n <= n /\ ~(n <= m)
      BY <1>0
    <3>2. \A k \in P : k <= m => k <= n
      BY <1>0, <3>1
    <3>3. n \in Upto(n) /\ n \notin Upto(m)
      BY <3>1
    <3>4. Upto(m) \in SUBSET Upto(n)
      BY <3>2
    <3> QED BY <3>3, <3>4
  <2>2. rank[m] = Cardinality(Upto(m)) /\ rank[n] = Cardinality(Upto(n))
    OBVIOUS
  <2>3. IsFiniteSet(Upto(n)) /\ rank[m] \in 1..N /\ rank[n] \in 1..N
    BY <1>2
  <2> HIDE DEF Upto, rank
  <2>4. Cardinality(Upto(m)) <= Cardinality(Upto(n)) /\ Cardinality(Upto(m)) # Cardinality(Upto(n))
    BY <2>1, <2>3, FS_Subset
  <2> QED BY <1>1, <2>2, <2>3, <2>4
<1>4. rank \in Injection(P, 1..N)
  <2>1. rank \in [P -> 1..N]
    BY <1>2
  <2>2. ASSUME NEW m \in P, NEW n \in P, rank[m] = rank[n] PROVE m = n
    <3>1. ~(m < n) /\ ~(n < m)
      <4>1. rank[m] \in Nat /\ rank[n] \in Nat
        BY <1>1, <1>2
      <4> HIDE DEF rank
      <4> QED BY <1>3, <2>2, <4>1
    <3> QED BY <1>0, <3>1
  <2> HIDE DEF rank
  <2> QED BY <2>1, <2>2 DEF Injection, IsInjective
<1>5. \A i \in 1..N : \E n \in P : rank[n] = i
  <2>1. IsFiniteSet(1..N) /\ Cardinality(1..N) = N
    BY <1>1, FS_Interval
  <2> HIDE DEF rank, N
  <2>2. rank \in Surjection(P, 1..N)
    BY <1>4, <2>1, FS_Injection DEF N
  <2> QED BY <2>2 DEF Surjection
<1>6. \A i \in 1..N : at[i] \in P /\ rank[at[i]] = i
  <2> TAKE i \in 1..N
  <2>1. \E n \in P : Cardinality(Upto(n)) = i
    BY <1>5
  <2> HIDE DEF Upto
  <2> QED BY <2>1
<1>7. EntriesAt(s, P) = [i \in 1..N |-> s[at[i]]]
  BY DEF EntriesAt
<1> HIDE DEF at, rank, N
<1>8. \A i, j \in 1..N : i < j => at[i] < at[j]
  <2> SUFFICES ASSUME NEW i \in 1..N, NEW j \in 1..N, i < j PROVE at[i] < at[j]
    OBVIOUS
  <2>1. at[i] \in P /\ at[j] \in P /\ at[i] # at[j] /\ ~(at[j] < at[i])
    <3>1. at[i] \in P /\ at[j] \in P /\ rank[at[i]] = i /\ rank[at[j]] = j
      BY <1>6
    <3>2. at[j] < at[i] => j < i
      BY <1>3, <3>1
    <3> QED BY <3>1, <3>2
  <2>2. at[i] \in Nat /\ at[j] \in Nat
    BY <1>0, <2>1
  <2> QED BY <2>1, <2>2
<1>9. \A p \in P : \E i \in 1..N : at[i] = p
  <2> SUFFICES ASSUME NEW p \in P PROVE at[rank[p]] = p /\ rank[p] \in 1..N
    OBVIOUS
  <2>1. rank[p] \in 1..N /\ at[rank[p]] \in P /\ rank[at[rank[p]]] = rank[p]
    BY <1>2, <1>6
  <2> QED BY <1>4, <2>1 DEF Injection, IsInjective
<1>10. at \in [1..N -> P]
  BY <1>6 DEF at
<1> QED BY <1>1, <1>7, <1>8, <1>9, <1>10 DEF TakenFrom, N

\* Of a sequence: it is a sequence of the same elements, those at the places.
LEMMA EntriesOfSeq ==
  ASSUME NEW X, NEW s \in Seq(X), NEW P \in SUBSET DOMAIN s
  PROVE  /\ EntriesAt(s, P) \in Seq(X)
         /\ ToSet(EntriesAt(s, P)) = {s[p] : p \in P}
         /\ TakenFrom(EntriesAt(s, P), s, P)
<1> DEFINE t == EntriesAt(s, P)
<1>1. Len(s) \in Nat /\ DOMAIN s = 1..Len(s) /\ P \in SUBSET Nat
  BY LenProperties
<1>2. IsFiniteSet(P)
  <2>1. IsFiniteSet(1..Len(s)) /\ P \in SUBSET (1..Len(s))
    BY <1>1, FS_Interval
  <2> QED BY <2>1, FS_Subset
<1>3. Cardinality(P) \in Nat /\ DOMAIN t = 1..Cardinality(P) /\ TakenFrom(t, s, P)
  BY <1>1, <1>2, EntriesTaken
<1>4. t = [i \in 1..Cardinality(P) |-> t[i]]
  BY DEF EntriesAt
<1> HIDE DEF t
<1>5. PICK at \in [DOMAIN t -> P] :
        /\ \A p \in P : \E i \in DOMAIN t : at[i] = p
        /\ \A i \in DOMAIN t : t[i] = s[at[i]]
  BY <1>3 DEF TakenFrom
<1>6. \A i \in DOMAIN t : t[i] \in X
  BY <1>1, <1>5, ElementOfSeq
<1>7. t \in [1..Cardinality(P) -> X]
  BY <1>3, <1>4, <1>6
<1>8. t \in Seq(X)
  BY <1>3, <1>7, SeqDef
<1>9. ToSet(t) = {s[p] : p \in P}
  BY <1>5 DEF ToSet
<1> QED BY <1>3, <1>8, <1>9 DEF t

-----------------------------------------------------------------------------
(***************************************************************************)
(* Sequences whose entries are in a relation, each with those behind it.   *)
(***************************************************************************)
Ordered(s, R) == \A i, j \in DOMAIN s : i < j => <<s[i], s[j]>> \in R

\* Entries that are left out do not matter,
LEMMA OrderedTaken ==
  ASSUME NEW X, NEW s \in Seq(X), NEW P \in SUBSET DOMAIN s, NEW R, Ordered(s, R)
  PROVE  Ordered(EntriesAt(s, P), R)
<1> DEFINE t == EntriesAt(s, P)
<1>1. TakenFrom(t, s, P)
  BY EntriesOfSeq
<1> HIDE DEF t
<1>2. PICK at \in [DOMAIN t -> P] :
        /\ \A i, j \in DOMAIN t : i < j => at[i] < at[j]
        /\ \A i \in DOMAIN t : t[i] = s[at[i]]
  BY <1>1 DEF TakenFrom
<1>3. Ordered(t, R)
  BY <1>2 DEF Ordered
<1> QED BY <1>3 DEF t

\* nor pairs of what the sequence does not hold,
LEMMA OrderedIn ==
  ASSUME NEW s, NEW R, NEW T, Ordered(s, R),
         \A a, b \in ToSet(s) : <<a, b>> \in R => <<a, b>> \in T
  PROVE  Ordered(s, T)
BY DEF Ordered, ToSet

\* What one sequence after another holds.
LEMMA ConcatHolds ==
  ASSUME NEW X, NEW s \in Seq(X), NEW t \in Seq(X)
  PROVE  /\ s \o t \in Seq(X)
         /\ ToSet(s \o t) = ToSet(s) \cup ToSet(t)
         /\ \A k \in DOMAIN (s \o t) :
              \/ k \in DOMAIN s /\ (s \o t)[k] = s[k]
              \/ k > Len(s) /\ k - Len(s) \in DOMAIN t /\ (s \o t)[k] = t[k - Len(s)]
<1> DEFINE u == s \o t
           m == Len(s)
           n == Len(t)
<1>1. m \in Nat /\ n \in Nat /\ DOMAIN s = 1..m /\ DOMAIN t = 1..n
  BY LenProperties
<1>2. /\ u \in Seq(X) /\ Len(u) = m + n
      /\ \A i \in 1..(m + n) : u[i] = IF i <= m THEN s[i] ELSE t[i - m]
  BY ConcatProperties
<1>3. DOMAIN u = 1..(m + n)
  BY <1>2, LenProperties
<1> HIDE DEF u, m, n
<1>4. \A k \in DOMAIN u : \/ k \in DOMAIN s /\ u[k] = s[k]
                          \/ k > m /\ k - m \in DOMAIN t /\ u[k] = t[k - m]
  BY <1>1, <1>2, <1>3
<1>5. ToSet(u) \subseteq ToSet(s) \cup ToSet(t)
  BY <1>4 DEF ToSet
<1>6. \A k \in DOMAIN s : k \in DOMAIN u /\ u[k] = s[k]
  BY <1>1, <1>2, <1>3
<1>7. \A k \in DOMAIN t : m + k \in DOMAIN u /\ u[m + k] = t[k]
  <2> TAKE k \in DOMAIN t
  <2>1. k \in Nat /\ k > 0 /\ m + k \in 1..(m + n) /\ ~(m + k <= m) /\ (m + k) - m = k
    BY <1>1
  <2> QED BY <1>2, <1>3, <2>1
<1>8. ToSet(s) \cup ToSet(t) \subseteq ToSet(u)
  BY <1>6, <1>7 DEF ToSet
<1> QED BY <1>2, <1>4, <1>5, <1>8 DEF u, m, n

\* and one sequence may follow another when all it holds may follow all the other holds.
LEMMA OrderedConcat ==
  ASSUME NEW X, NEW s \in Seq(X), NEW t \in Seq(X), NEW R, Ordered(s, R), Ordered(t, R),
         \A a \in ToSet(s), b \in ToSet(t) : <<a, b>> \in R
  PROVE  Ordered(s \o t, R)
<1> DEFINE u == s \o t
<1>1. SUFFICES ASSUME NEW i \in DOMAIN u, NEW j \in DOMAIN u, i < j PROVE <<u[i], u[j]>> \in R
  BY DEF Ordered
<1>2. /\ u \in Seq(X)
      /\ \A k \in DOMAIN u : \/ k \in DOMAIN s /\ u[k] = s[k]
                             \/ k > Len(s) /\ k - Len(s) \in DOMAIN t /\ u[k] = t[k - Len(s)]
  BY ConcatHolds
<1>3. /\ Len(s) \in Nat /\ DOMAIN s = 1..Len(s) /\ i \in Nat /\ j \in Nat
  BY <1>2, LenProperties
<1> HIDE DEF u
<1>4. CASE j \in DOMAIN s /\ u[j] = s[j]
  <2>1. i \in DOMAIN s /\ u[i] = s[i]
    BY <1>1, <1>2, <1>3, <1>4
  <2> QED BY <1>1, <1>4, <2>1 DEF Ordered
<1>5. CASE j > Len(s) /\ j - Len(s) \in DOMAIN t /\ u[j] = t[j - Len(s)]
  <2>1. CASE i \in DOMAIN s /\ u[i] = s[i]
    BY <1>5, <2>1 DEF ToSet
  <2>2. CASE i > Len(s) /\ i - Len(s) \in DOMAIN t /\ u[i] = t[i - Len(s)]
    <3>1. i - Len(s) < j - Len(s)
      BY <1>1, <1>3
    <3> QED BY <1>5, <2>2, <3>1 DEF Ordered
  <2> QED BY <1>2, <2>1, <2>2
<1> QED BY <1>2, <1>4, <1>5

-----------------------------------------------------------------------------
(***************************************************************************)
(* The registry.                                                           *)
(***************************************************************************)

\* The pairs of ids of which the second is no higher in priority.
Falling(byId) ==
  {pair \in (DOMAIN byId) \X (DOMAIN byId) : Priority[byId[pair[1]]] >= Priority[byId[pair[2]]]}

\* The list of an extension holds those registered that claim it, in order of priority.
ListAgrees(ids, byId, extension) ==
  /\ ids \in Seq(DOMAIN byId)
  /\ ToSet(ids) = {id \in DOMAIN byId : Claims(byId[id], extension)}
  /\ Ordered(ids, Falling(byId))

\* Each table is of the other's making, and no list is kept that nobody can claim.
RegistryInv ==
  /\ builtIns \in Nat
  /\ factoriesById \in [DOMAIN factoriesById -> Factory]
  /\ \A id \in DOMAIN factoriesById : Id[factoriesById[id]] = id
  /\ DOMAIN factoriesByExtension \subseteq EveryExtension
  /\ \A e \in EveryExtension : ListAgrees(IdsFor(e), factoriesById, e)

\* A sequence that holds nothing is empty.
LEMMA HoldsNothing ==
  ASSUME NEW X, NEW s \in Seq(X) PROVE s = <<>> <=> ToSet(s) = {}
<1>1. Len(s) \in Nat /\ DOMAIN s = 1..Len(s)
  BY LenProperties
<1>2. CASE Len(s) = 0
  <2>1. s = <<>>
    BY <1>2
  <2> QED BY <1>1, <1>2, <2>1 DEF ToSet
<1>3. CASE Len(s) # 0
  <2>1. 1 \in DOMAIN s /\ s # <<>>
    BY <1>1, <1>3
  <2> QED BY <2>1 DEF ToSet
<1> QED BY <1>2, <1>3

\* A sequence is one of what it holds.
LEMMA SeqOfHeld ==
  ASSUME NEW X, NEW s \in Seq(X) PROVE s \in Seq(ToSet(s))
<1>1. Len(s) \in Nat /\ DOMAIN s = 1..Len(s) /\ s \in [1..Len(s) -> X]
  BY LenProperties
<1>2. s \in [1..Len(s) -> ToSet(s)]
  BY <1>1 DEF ToSet
<1> QED BY <1>1, <1>2, SeqDef

\* Falling, of two ids.
LEMMA IsFalling ==
  ASSUME NEW byId, NEW a, NEW b
  PROVE  <<a, b>> \in Falling(byId)
           <=> /\ a \in DOMAIN byId /\ b \in DOMAIN byId
               /\ Priority[byId[a]] >= Priority[byId[b]]
<1> DEFINE pair == <<a, b>>
<1>1. pair \in Falling(byId)
        <=> /\ pair \in (DOMAIN byId) \X (DOMAIN byId)
            /\ Priority[byId[pair[1]]] >= Priority[byId[pair[2]]]
  BY DEF Falling
<1>2. pair[1] = a /\ pair[2] = b
  OBVIOUS
<1>3. pair \in (DOMAIN byId) \X (DOMAIN byId) <=> a \in DOMAIN byId /\ b \in DOMAIN byId
  OBVIOUS
<1> HIDE DEF pair
<1>4. pair \in Falling(byId)
        <=> a \in DOMAIN byId /\ b \in DOMAIN byId /\ Priority[byId[a]] >= Priority[byId[b]]
  BY <1>1, <1>2, <1>3
<1> QED BY <1>4 DEF pair

\* ByPriority puts the copies of an id where they belong.
LEMMA ByPriorityKeeps ==
  ASSUME NEW byId, byId \in [DOMAIN byId -> Factory], NEW ids \in Seq(DOMAIN byId),
         NEW c \in DOMAIN byId, NEW copies \in Seq({c}), copies # <<>>,
         Ordered(ids, Falling(byId))
  PROVE  LET list == ByPriority(ids, copies, byId)
         IN  /\ list \in Seq(DOMAIN byId)
             /\ ToSet(list) = ToSet(ids) \cup {c}
             /\ Ordered(list, Falling(byId))
<1> DEFINE R     == Falling(byId)
           X     == DOMAIN byId
           Above == {i \in DOMAIN ids : Priority[byId[ids[i]]] >= Priority[byId[copies[1]]]}
           Below == DOMAIN ids \ Above
           high  == EntriesAt(ids, Above)
           low   == EntriesAt(ids, Below)
<1>0. \A x \in X : Priority[byId[x]] \in Int
  BY RegistryConstants
<1>1. /\ \A i \in DOMAIN copies : copies[i] = c
      /\ 1 \in DOMAIN copies /\ copies \in Seq(X) /\ ToSet(copies) = {c}
  <2>1. Len(copies) \in Nat /\ DOMAIN copies = 1..Len(copies) /\ copies \in [1..Len(copies) -> {c}]
    BY LenProperties
  <2>2. Len(copies) # 0
    BY EmptySeq
  <2>3. copies \in Seq(X)
    BY SeqMonotonic
  <2> QED BY <2>1, <2>2, <2>3 DEF ToSet
<1>2. c \in X /\ \A i \in DOMAIN ids : ids[i] \in X
  BY LenProperties
<1>3. /\ high \in Seq(X) /\ low \in Seq(X) /\ Ordered(high, R) /\ Ordered(low, R)
      /\ ToSet(high) = {ids[p] : p \in Above} /\ ToSet(low) = {ids[p] : p \in Below}
  <2>1. Above \in SUBSET DOMAIN ids /\ Below \in SUBSET DOMAIN ids
    OBVIOUS
  <2> HIDE DEF Above, Below, R, X
  <2> QED BY <2>1, EntriesOfSeq, OrderedTaken DEF R, X
<1>4. \A a \in ToSet(high) : a \in X /\ Priority[byId[a]] >= Priority[byId[c]]
  BY <1>1, <1>2, <1>3
<1>5. \A a \in ToSet(low) : a \in X /\ Priority[byId[c]] >= Priority[byId[a]]
  <2>1. \A i \in Below : ids[i] \in X /\ ~(Priority[byId[ids[i]]] >= Priority[byId[c]])
    BY <1>1, <1>2
  <2> HIDE DEF Below, low
  <2> QED BY <1>0, <1>3, <2>1
<1>6. ToSet(high) \cup ToSet(low) = ToSet(ids)
  BY <1>3 DEF ToSet
<1>7. ByPriority(ids, copies, byId) = (high \o copies) \o low
  BY DEF ByPriority
<1>8. Ordered(copies, R)
  BY <1>0, <1>1, IsFalling DEF Ordered
<1> HIDE DEF high, low, R, X, Above, Below
<1>9. \A a \in ToSet(high), b \in ToSet(copies) : <<a, b>> \in R
  BY <1>1, <1>4, IsFalling DEF R, X
<1>10. /\ high \o copies \in Seq(X) /\ Ordered(high \o copies, R)
       /\ ToSet(high \o copies) = ToSet(high) \cup {c}
  <2>1. /\ high \in Seq(X) /\ copies \in Seq(X)
        /\ Ordered(high, R) /\ Ordered(copies, R) /\ ToSet(copies) = {c}
    BY <1>1, <1>3, <1>8
  <2>2. high \o copies \in Seq(X) /\ ToSet(high \o copies) = ToSet(high) \cup {c}
    BY <2>1, ConcatHolds
  <2>3. Ordered(high \o copies, R)
    BY <2>1, <1>9, OrderedConcat
  <2> QED BY <2>2, <2>3
<1>11. \A a \in ToSet(high \o copies), b \in ToSet(low) : <<a, b>> \in R
  <2> SUFFICES ASSUME NEW a \in ToSet(high) \cup {c}, NEW b \in ToSet(low) PROVE <<a, b>> \in R
    BY <1>10
  <2>1. /\ a \in X /\ Priority[byId[a]] >= Priority[byId[c]]
        /\ b \in X /\ Priority[byId[c]] >= Priority[byId[b]]
    BY <1>0, <1>2, <1>4, <1>5
  <2>2. Priority[byId[a]] >= Priority[byId[b]]
    BY <1>0, <1>2, <2>1
  <2> QED BY <2>1, <2>2, IsFalling DEF R, X
<1>12. /\ (high \o copies) \o low \in Seq(X) /\ Ordered((high \o copies) \o low, R)
       /\ ToSet((high \o copies) \o low) = ToSet(high \o copies) \cup ToSet(low)
  <2> DEFINE first == high \o copies
  <2>1. first \in Seq(X) /\ low \in Seq(X) /\ Ordered(first, R) /\ Ordered(low, R)
    BY <1>3, <1>10
  <2> HIDE DEF first
  <2>2. first \o low \in Seq(X) /\ ToSet(first \o low) = ToSet(first) \cup ToSet(low)
    BY <2>1, ConcatHolds
  <2>3. \A a \in ToSet(first), b \in ToSet(low) : <<a, b>> \in R
    BY <1>11 DEF first
  <2>4. Ordered(first \o low, R)
    BY <2>1, <2>3, OrderedConcat
  <2> QED BY <2>2, <2>4 DEF first
<1> QED BY <1>6, <1>7, <1>10, <1>12 DEF R, X

\* A list that had no factory of an id agrees with the table that has one, when the factory
\* does not claim the extension.
LEMMA MoreAgrees ==
  ASSUME NEW byId, NEW f \in Factory, Id[f] \notin DOMAIN byId, NEW e, NEW ids,
         ListAgrees(ids, byId, e)
  PROVE  /\ ids \in Seq(DOMAIN WithFactory(f, byId))
         /\ Ordered(ids, Falling(WithFactory(f, byId)))
         /\ {id \in DOMAIN WithFactory(f, byId) : Claims(WithFactory(f, byId)[id], e)}
              = ToSet(ids) \cup IF Claims(f, e) THEN {Id[f]} ELSE {}
<1> DEFINE new == WithFactory(f, byId)
<1>1. /\ DOMAIN new = DOMAIN byId \cup {Id[f]} /\ new[Id[f]] = f
      /\ \A id \in DOMAIN byId : new[id] = byId[id]
  BY DEF WithFactory
<1> HIDE DEF new
<1>2. ids \in Seq(DOMAIN byId) /\ ids \in Seq(DOMAIN new)
  BY <1>1, SeqMonotonic DEF ListAgrees
<1>3. \A a, b \in ToSet(ids) : <<a, b>> \in Falling(byId) => <<a, b>> \in Falling(new)
  BY <1>1, IsFalling
<1>4. Ordered(ids, Falling(new))
  BY <1>3, OrderedIn DEF ListAgrees
<1>5. {id \in DOMAIN new : Claims(new[id], e)}
        = ToSet(ids) \cup IF Claims(f, e) THEN {Id[f]} ELSE {}
  BY <1>1 DEF ListAgrees
<1> QED BY <1>2, <1>4, <1>5 DEF new

\* The ids that are added are as many as the spellings, at least one.
LEMMA CopiesAdded ==
  ASSUME NEW f \in Factory, NEW e \in ListedUnder(f)
  PROVE  LET copies == [i \in 1..Listings(f, e) |-> Id[f]]
         IN  copies \in Seq({Id[f]}) /\ copies # <<>>
<1> DEFINE S == {i \in DOMAIN Extensions[f] : NormalizeExtension(Extensions[f][i]) = e}
           n == Listings(f, e)
           copies == [i \in 1..n |-> Id[f]]
<1>1. IsFiniteSet(S)
  <2>1. IsFiniteSet(DOMAIN Extensions[f]) /\ S \in SUBSET DOMAIN Extensions[f]
    BY RegistryConstants
  <2> HIDE DEF S
  <2> QED BY <2>1, FS_Subset
<1>2. S # {}
  BY DEF ListedUnder
<1>3. n \in Nat /\ n # 0
  <2>1. n = Cardinality(S)
    BY DEF Listings
  <2> HIDE DEF S
  <2> QED BY <1>1, <1>2, <2>1, FS_CardinalityType, FS_EmptySet
<1> HIDE DEF n
<1>4. copies \in [1..n -> {Id[f]}] /\ DOMAIN copies = 1..n /\ 1 \in 1..n
  BY <1>3
<1>5. copies \in Seq({Id[f]})
  BY <1>3, <1>4, SeqDef
<1>6. copies # <<>>
  <2>1. Len(copies) = n
    BY <1>3, <1>4, <1>5, LenProperties
  <2> QED BY <1>3, <2>1, EmptySeq
<1> QED BY <1>5, <1>6 DEF n

\* RegisterFactory keeps the tables in agreement,
LEMMA AddKeeps ==
  ASSUME RegistryInv, NEW f \in Factory, AddFactory(f), builtIns' \in Nat
  PROVE  RegistryInv'
<1> DEFINE new == WithFactory(f, factoriesById)
<1>1. /\ Id[f] \notin DOMAIN factoriesById /\ factoriesById' = new
      /\ factoriesByExtension' = AddToLists(f, new, factoriesByExtension)
  BY DEF AddFactory
<1>2. /\ new \in [DOMAIN new -> Factory] /\ \A id \in DOMAIN new : Id[new[id]] = id
      /\ Id[f] \in DOMAIN new
  BY DEF WithFactory, RegistryInv
<1> HIDE DEF new
<1>3. DOMAIN factoriesByExtension' = DOMAIN factoriesByExtension \cup ListedUnder(f)
  BY <1>1 DEF AddToLists
<1>4. DOMAIN factoriesByExtension' \subseteq EveryExtension
  BY <1>3 DEF RegistryInv, EveryExtension
<1>5. ASSUME NEW e \in EveryExtension PROVE ListAgrees(IdsFor(e)', new, e)
  <2> DEFINE ids == IdsFor(e)
  <2>1. ListAgrees(ids, factoriesById, e)
    BY DEF RegistryInv
  <2> HIDE DEF ids
  <2>2. /\ ids \in Seq(DOMAIN new) /\ Ordered(ids, Falling(new))
        /\ {id \in DOMAIN new : Claims(new[id], e)}
             = ToSet(ids) \cup IF Claims(f, e) THEN {Id[f]} ELSE {}
    BY <1>1, <2>1, MoreAgrees DEF new
  <2>3. CASE e \notin ListedUnder(f)
    <3>1. IdsFor(e)' = ids
      BY <1>1, <1>3, <2>3 DEF IdsFor, AddToLists, ids
    <3> QED BY <2>2, <2>3, <3>1 DEF ListAgrees, Claims
  <2>4. CASE e \in ListedUnder(f)
    <3> DEFINE copies == [i \in 1..Listings(f, e) |-> Id[f]]
    <3>1. IdsFor(e)' = ByPriority(ids, copies, new)
      BY <1>1, <1>3, <2>4 DEF IdsFor, AddToLists, ids
    <3>2. copies \in Seq({Id[f]}) /\ copies # <<>>
      BY <2>4, CopiesAdded
    <3> HIDE DEF copies
    <3>3. /\ ByPriority(ids, copies, new) \in Seq(DOMAIN new)
          /\ ToSet(ByPriority(ids, copies, new)) = ToSet(ids) \cup {Id[f]}
          /\ Ordered(ByPriority(ids, copies, new), Falling(new))
      BY <1>2, <2>2, <3>2, ByPriorityKeeps
    <3> QED BY <2>2, <2>4, <3>1, <3>3 DEF ListAgrees, Claims
  <2> QED BY <2>3, <2>4
<1> QED BY <1>1, <1>2, <1>4, <1>5 DEF RegistryInv

\* and so does UnregisterFactory: it takes every entry of the id out of every list.
LEMMA RemoveKeeps ==
  ASSUME RegistryInv, NEW id \in DOMAIN factoriesById, UnregisterFactory(id)
  PROVE  RegistryInv'
<1>1. /\ factoriesById' = [other \in DOMAIN factoriesById \ {id} |-> factoriesById[other]]
      /\ factoriesByExtension' =
           [extension \in {e \in DOMAIN factoriesByExtension :
                             WithoutId(factoriesByExtension[e], id) # <<>>} |->
              WithoutId(factoriesByExtension[extension], id)]
      /\ builtIns' = builtIns
  BY DEF UnregisterFactory
<1>2. /\ DOMAIN factoriesById' = DOMAIN factoriesById \ {id}
      /\ \A other \in DOMAIN factoriesById' : factoriesById'[other] = factoriesById[other]
      /\ factoriesById' \in [DOMAIN factoriesById' -> Factory]
      /\ \A other \in DOMAIN factoriesById' : Id[factoriesById'[other]] = other
  BY <1>1 DEF RegistryInv
<1>3. DOMAIN factoriesByExtension' \subseteq EveryExtension
  BY <1>1 DEF RegistryInv
<1>4. ASSUME NEW e \in EveryExtension PROVE ListAgrees(IdsFor(e), factoriesById, e)'
  <2> DEFINE ids  == IdsFor(e)
             list == WithoutId(ids, id)
             X    == DOMAIN factoriesById
             P    == {i \in DOMAIN ids : ids[i] # id}
  <2>1. /\ ids \in Seq(X) /\ Ordered(ids, Falling(factoriesById))
        /\ ToSet(ids) = {other \in X : Claims(factoriesById[other], e)}
    BY DEF RegistryInv, ListAgrees
  <2>2. /\ list \in Seq(X) /\ Ordered(list, Falling(factoriesById))
        /\ ToSet(list) = {ids[p] : p \in P}
    <3>1. P \in SUBSET DOMAIN ids /\ list = EntriesAt(ids, P)
      BY DEF WithoutId
    <3> HIDE DEF P, ids, X, list
    <3> QED BY <2>1, <3>1, EntriesOfSeq, OrderedTaken
  <2>3. ToSet(list) = ToSet(ids) \ {id}
    BY <2>2 DEF ToSet
  <2>4. IdsFor(e)' = list
    <3>1. CASE e \in DOMAIN factoriesByExtension
      BY <1>1, <3>1 DEF IdsFor
    <3>2. CASE e \notin DOMAIN factoriesByExtension
      <4>1. ids = <<>> /\ IdsFor(e)' = <<>>
        BY <1>1, <3>2 DEF IdsFor
      <4> HIDE DEF ids, list
      <4>2. ToSet(list) = {}
        BY <2>1, <2>3, <4>1, HoldsNothing
      <4> QED BY <2>2, <4>1, <4>2, HoldsNothing
    <3> QED BY <3>1, <3>2
  <2> HIDE DEF ids, list
  <2>5. list \in Seq(DOMAIN factoriesById')
    <3>1. ToSet(list) \subseteq DOMAIN factoriesById'
      BY <1>2, <2>1, <2>3
    <3> QED BY <2>2, <3>1, SeqOfHeld, SeqMonotonic
  <2>6. ToSet(list) = {other \in DOMAIN factoriesById' : Claims(factoriesById'[other], e)}
    BY <1>2, <2>1, <2>3
  <2> DEFINE new == factoriesById'
  <2>7. \A a, b \in ToSet(list) :
          <<a, b>> \in Falling(factoriesById) => <<a, b>> \in Falling(new)
    <3>1. \A a \in ToSet(list) : a \in DOMAIN new /\ new[a] = factoriesById[a]
      BY <1>2, <2>6
    <3> HIDE DEF new
    <3> QED BY <3>1, IsFalling
  <2>8. Ordered(list, Falling(new))
    <3> HIDE DEF new
    <3> QED BY <2>2, <2>7, OrderedIn
  <2> QED BY <2>4, <2>5, <2>6, <2>8 DEF ListAgrees, Ordered, Falling
<1> QED BY <1>1, <1>2, <1>3, <1>4 DEF RegistryInv

\* A step that leaves the tables alone keeps them in agreement.
LEMMA RegistryFrame ==
  ASSUME RegistryInv, UNCHANGED registryVars PROVE RegistryInv'
BY DEF RegistryInv, registryVars, ListAgrees, Ordered, Falling, IdsFor

\* The tables agree after every sequence of registrations and removals, for any factories,
\* ids, extensions and priorities.
THEOREM RegistryInvariant == DispatchSpec => []RegistryInv
<1>1. DispatchInit => RegistryInv
  <2> SUFFICES ASSUME RegistryInit PROVE RegistryInv
    BY DEF DispatchInit
  <2>1. /\ builtIns = 0 /\ DOMAIN factoriesById = {} /\ DOMAIN factoriesByExtension = {}
        /\ factoriesById \in [DOMAIN factoriesById -> Factory]
    BY DEF RegistryInit
  <2>2. ASSUME NEW e PROVE ListAgrees(IdsFor(e), factoriesById, e)
    <3>1. IdsFor(e) = <<>> /\ IdsFor(e) \in Seq(DOMAIN factoriesById)
      BY <2>1, EmptySeq DEF IdsFor
    <3>2. ToSet(IdsFor(e)) = {}
      BY <3>1, HoldsNothing
    <3>3. Ordered(IdsFor(e), Falling(factoriesById))
      BY <3>2 DEF Ordered, ToSet
    <3> QED BY <2>1, <3>1, <3>2, <3>3 DEF ListAgrees
  <2> QED BY <2>1, <2>2 DEF RegistryInv
<1>2. RegistryInv /\ [DispatchNext]_dispatchVars => RegistryInv'
  <2> SUFFICES ASSUME RegistryInv, [DispatchNext]_dispatchVars PROVE RegistryInv'
    OBVIOUS
  <2>1. CASE UNCHANGED registryVars
    BY <2>1, RegistryFrame
  <2>2. CASE HostStep
    <3>1. ASSUME NEW f \in Factory, RegisterFactory(f) PROVE RegistryInv'
      BY <3>1, AddKeeps DEF RegisterFactory, RegistryInv
    <3>2. ASSUME NEW id \in DOMAIN factoriesById, UnregisterFactory(id) PROVE RegistryInv'
      BY <3>2, RemoveKeeps
    <3>3. CASE RegisterBuiltIn
      <4> DEFINE f == BuiltIn[builtIns + 1]
      <4>1. builtIns \in Nat /\ builtIns' = builtIns + 1 /\ builtIns < Len(BuiltIn)
        BY <3>3 DEF RegisterBuiltIn, RegistryInv
      <4>2. f \in Factory
        <5>1. BuiltIn \in Seq(Factory) /\ Len(BuiltIn) \in Nat
          BY RegistryConstants, LenProperties
        <5> QED BY <4>1, <5>1, ElementOfSeq
      <4>3. AddFactory(f) \/ UNCHANGED <<factoriesById, factoriesByExtension>>
        BY <3>3 DEF RegisterBuiltIn
      <4> HIDE DEF f
      <4>4. CASE AddFactory(f)
        BY <4>1, <4>2, <4>4, AddKeeps
      <4>5. CASE UNCHANGED <<factoriesById, factoriesByExtension>>
        BY <4>1, <4>5 DEF RegistryInv, ListAgrees, Ordered, Falling, IdsFor
      <4> QED BY <4>3, <4>4, <4>5
    <3> QED BY <2>2, <3>1, <3>2, <3>3 DEF HostStep
  <2>3. UNCHANGED registryVars \/ HostStep
    BY DEF DispatchNext, dispatchVars, ProbeHeader, CheckMipLevel, LookUpCandidates, TryNext,
           Exhausted, ReplaceFile
  <2> QED BY <2>1, <2>2, <2>3
<1> QED BY <1>1, <1>2, PTL DEF DispatchSpec

\* An extension is supported when some registered factory claims it, and its list holds the
\* registered factories that claim it, the highest priority first: of any factories, after
\* every sequence of registrations and removals.
THEOREM RegistryAgrees == DispatchSpec => []RegistryConsistent
<1>1. RegistryInv => RegistryConsistent
  <2> SUFFICES ASSUME RegistryInv, NEW e \in EveryExtension
               PROVE  /\ ToSet(IdsFor(e)) = {Id[f] : f \in {g \in Registered : Claims(g, e)}}
                      /\ Sorted([i \in DOMAIN IdsFor(e) |-> factoriesById[IdsFor(e)[i]]])
                      /\ IsSupportedExtension(e) <=> \E f \in Registered : Claims(f, e)
    BY DEF RegistryInv, RegistryConsistent
  <2>1. /\ IdsFor(e) \in Seq(DOMAIN factoriesById)
        /\ ToSet(IdsFor(e)) = {id \in DOMAIN factoriesById : Claims(factoriesById[id], e)}
        /\ Ordered(IdsFor(e), Falling(factoriesById))
    BY DEF RegistryInv, ListAgrees
  <2>2. ToSet(IdsFor(e)) = {Id[f] : f \in {g \in Registered : Claims(g, e)}}
    BY <2>1 DEF RegistryInv, Registered
  <2>3. IsSupportedExtension(e) <=> ToSet(IdsFor(e)) # {}
    BY <2>1, HoldsNothing DEF IsSupportedExtension
  <2>4. Sorted([i \in DOMAIN IdsFor(e) |-> factoriesById[IdsFor(e)[i]]])
    BY <2>1, IsFalling DEF Ordered, Sorted
  <2> QED BY <2>2, <2>3, <2>4
<1> QED BY <1>1, RegistryInvariant, PTL

-----------------------------------------------------------------------------
(***************************************************************************)
(* Candidates.                                                             *)
(***************************************************************************)

\* f may be tried before g.
Before(f, g, extension) ==
  /\ f # g
  /\ Claims(g, extension) => Claims(f, extension)
  /\ Claims(f, extension) = Claims(g, extension) => Priority[f] >= Priority[g]

Rank(extension) ==
  {pair \in Factory \X Factory : Before(pair[1], pair[2], extension)}

\* Rank, of two factories.
LEMMA IsRanked ==
  ASSUME NEW f \in Factory, NEW g \in Factory, NEW e
  PROVE  <<f, g>> \in Rank(e) <=> Before(f, g, e)
<1> DEFINE pair == <<f, g>>
<1>1. pair \in Factory \X Factory /\ pair[1] = f /\ pair[2] = g
  OBVIOUS
<1>2. pair \in Rank(e) <=> Before(pair[1], pair[2], e)
  <2> HIDE DEF pair
  <2> QED BY <1>1 DEF Rank
<1> HIDE DEF pair
<1>3. pair \in Rank(e) <=> Before(f, g, e)
  BY <1>1, <1>2
<1> QED BY <1>3 DEF pair

\* The list of any extension agrees, that nobody can claim included.
LEMMA ListOfAny ==
  ASSUME RegistryInv, NEW e PROVE ListAgrees(IdsFor(e), factoriesById, e)
<1>1. CASE e \in EveryExtension
  BY <1>1 DEF RegistryInv
<1>2. CASE e \notin EveryExtension
  <2>1. IdsFor(e) = <<>> /\ IdsFor(e) \in Seq(DOMAIN factoriesById)
    BY <1>2, EmptySeq DEF RegistryInv, IdsFor
  <2>2. ToSet(IdsFor(e)) = {}
    BY <2>1, HoldsNothing
  <2>3. Ordered(IdsFor(e), Falling(factoriesById))
    BY <2>2 DEF Ordered, ToSet
  <2>4. \A id \in DOMAIN factoriesById : ~Claims(factoriesById[id], e)
    BY <1>2 DEF RegistryInv, EveryExtension, Claims
  <2> QED BY <2>1, <2>2, <2>3, <2>4 DEF ListAgrees
<1> QED BY <1>1, <1>2

\* A list with one entry of each id.
LEMMA OneOfEach ==
  ASSUME NEW X, NEW ids \in Seq(X)
  PROVE  /\ FirstOfEach(ids) \in Seq(X) /\ ToSet(FirstOfEach(ids)) = ToSet(ids)
         /\ \A i, j \in DOMAIN FirstOfEach(ids) :
              i < j => FirstOfEach(ids)[i] # FirstOfEach(ids)[j]
<1> DEFINE P    == {i \in DOMAIN ids : \A j \in 1..(i - 1) : ids[j] # ids[i]}
           list == EntriesAt(ids, P)
<1>1. Len(ids) \in Nat /\ DOMAIN ids = 1..Len(ids) /\ P \in SUBSET DOMAIN ids
  BY LenProperties
<1>2. list \in Seq(X) /\ ToSet(list) = {ids[p] : p \in P} /\ TakenFrom(list, ids, P)
  <2> HIDE DEF P, list
  <2> QED BY <1>1, EntriesOfSeq DEF list
<1>3. ASSUME NEW i \in DOMAIN ids PROVE \E p \in P : ids[p] = ids[i]
  <2> DEFINE Same == {k \in DOMAIN ids : ids[k] = ids[i]}
  <2>1. Same \subseteq Nat /\ i \in Same
    BY <1>1
  <2>2. PICK k \in Same : \A m \in Same : k <= m
    <3> HIDE DEF Same
    <3> QED BY <2>1, LeastNat
  <2>3. ASSUME NEW j \in 1..(k - 1) PROVE ids[j] # ids[k]
    <3>1. j \in DOMAIN ids /\ j \in Nat /\ k \in Nat /\ ~(k <= j)
      BY <1>1, <2>2
    <3> QED BY <2>2, <3>1
  <2> QED BY <2>2, <2>3
<1>4. ToSet(list) = ToSet(ids)
  <2>1. {ids[p] : p \in P} = ToSet(ids)
    BY <1>1, <1>3 DEF ToSet
  <2> QED BY <1>2, <2>1
<1>5. ASSUME NEW i \in DOMAIN list, NEW j \in DOMAIN list, i < j PROVE list[i] # list[j]
  <2>1. PICK at \in [DOMAIN list -> P] :
          /\ \A m, n \in DOMAIN list : m < n => at[m] < at[n]
          /\ \A m \in DOMAIN list : list[m] = ids[at[m]]
    BY <1>2 DEF TakenFrom
  <2> HIDE DEF list
  <2>2. at[i] \in P /\ at[j] \in P /\ at[i] < at[j] /\ at[i] \in Nat /\ at[j] \in Nat
    BY <1>1, <1>5, <2>1
  <2>3. at[i] \in 1..(at[j] - 1)
    BY <1>1, <2>2
  <2> QED BY <2>1, <2>2, <2>3
<1>6. FirstOfEach(ids) = list
  BY DEF FirstOfEach
<1> HIDE DEF list
<1> QED BY <1>2, <1>4, <1>5, <1>6

\* The factories whose ids are listed, once each: they claim the extension and are in the
\* order they may be tried in.
LEMMA ListedFactories ==
  ASSUME RegistryInv, NEW e
  PROVE  LET ids       == FirstOfEach(IdsFor(e))
             factories == [i \in DOMAIN ids |-> factoriesById[ids[i]]]
         IN  /\ factories \in Seq(Factory)
             /\ ToSet(factories) = {f \in Registered : Claims(f, e)}
             /\ Ordered(factories, Rank(e))
<1> DEFINE all       == IdsFor(e)
           ids       == FirstOfEach(all)
           factories == [i \in DOMAIN ids |-> factoriesById[ids[i]]]
           X         == DOMAIN factoriesById
<1>1. all \in Seq(X) /\ ToSet(all) = {id \in X : Claims(factoriesById[id], e)}
  BY ListOfAny DEF ListAgrees
<1>2. Ordered(all, Falling(factoriesById))
  BY ListOfAny DEF ListAgrees
<1> HIDE DEF all
<1>3. /\ ids \in Seq(X) /\ ToSet(ids) = ToSet(all)
      /\ \A i, j \in DOMAIN ids : i < j => ids[i] # ids[j]
  BY <1>1, OneOfEach
<1>4. Ordered(ids, Falling(factoriesById))
  <2> DEFINE P == {i \in DOMAIN all : \A j \in 1..(i - 1) : all[j] # all[i]}
  <2>1. ids = EntriesAt(all, P) /\ P \in SUBSET DOMAIN all
    BY DEF FirstOfEach
  <2> HIDE DEF P, ids
  <2> QED BY <1>1, <1>2, <2>1, OrderedTaken
<1> HIDE DEF ids
<1>5. /\ Len(ids) \in Nat /\ DOMAIN ids = 1..Len(ids)
      /\ \A i \in DOMAIN ids : ids[i] \in X /\ factoriesById[ids[i]] \in Factory
                               /\ Claims(factoriesById[ids[i]], e)
  <2>1. Len(ids) \in Nat /\ DOMAIN ids = 1..Len(ids) /\ \A i \in DOMAIN ids : ids[i] \in ToSet(ids)
    BY <1>3, LenProperties DEF ToSet
  <2> QED BY <1>1, <1>3, <2>1 DEF RegistryInv
<1>6. factories \in Seq(Factory)
  <2>1. factories \in [1..Len(ids) -> Factory]
    BY <1>5
  <2> QED BY <1>5, <2>1, SeqDef
<1>7. ToSet(factories) = {f \in Registered : Claims(f, e)}
  <2>1. ToSet(factories) = {factoriesById[id] : id \in ToSet(ids)}
    BY DEF ToSet
  <2> QED BY <1>1, <1>3, <2>1 DEF Registered
<1>8. Ordered(factories, Rank(e))
  <2> SUFFICES ASSUME NEW i \in DOMAIN ids, NEW j \in DOMAIN ids, i < j
               PROVE  <<factories[i], factories[j]>> \in Rank(e)
    BY DEF Ordered
  <2> DEFINE f == factories[i]
             g == factories[j]
  <2>1. f \in Factory /\ g \in Factory /\ Claims(f, e) /\ Claims(g, e)
    BY <1>5
  <2>2. Id[f] = ids[i] /\ Id[g] = ids[j] /\ ids[i] # ids[j]
    BY <1>3, <1>5 DEF RegistryInv
  <2>3. Priority[f] >= Priority[g]
    BY <1>4, IsFalling DEF Ordered
  <2> HIDE DEF f, g
  <2>4. Before(f, g, e)
    BY <2>1, <2>2, <2>3 DEF Before
  <2>5. <<f, g>> \in Rank(e)
    BY <2>1, <2>4, IsRanked
  <2> QED BY <2>5 DEF f, g
<1> QED BY <1>6, <1>7, <1>8 DEF ids, all

\* The orders of a set hold it, each member once.
LEMMA OrderOfSet ==
  ASSUME NEW S, IsFiniteSet(S), NEW s \in SetToSeqs(S)
  PROVE  /\ s \in Seq(S) /\ ToSet(s) = S
         /\ \A i, j \in DOMAIN s : i # j => s[i] # s[j]
<1> DEFINE n == Cardinality(S)
<1>1. n \in Nat
  BY FS_CardinalityType
<1>2. s \in [1..n -> S] /\ \A i, j \in 1..n : i # j => s[i] # s[j]
  BY DEF SetToSeqs
<1>3. s \in Injection(1..n, S)
  BY <1>2 DEF Injection, IsInjective
<1>4. IsFiniteSet(1..n) /\ Cardinality(1..n) = n
  BY <1>1, FS_Interval
<1>5. s \in Surjection(1..n, S)
  BY <1>3, <1>4, FS_Injection
<1> HIDE DEF n
<1>6. s \in Seq(S)
  BY <1>1, <1>2, SeqDef
<1> QED BY <1>2, <1>5, <1>6 DEF Surjection, ToSet

\* The candidates of a lookup: the registered factories that qualify, each once, in the
\* order they are to be tried in.
LEMMA CandidatesAre ==
  ASSUME RegistryInv, NEW e, NEW purpose, NEW head,
         NEW c \in CandidateFactories(e, purpose, head)
  PROVE  /\ c \in Seq(Factory) /\ Ordered(c, Rank(e))
         /\ ToSet(c) = {f \in Registered : Qualifies(f, e, purpose, head)}
<1> DEFINE ids       == FirstOfEach(IdsFor(e))
           factories == [i \in DOMAIN ids |-> factoriesById[ids[i]]]
           P         == {i \in DOMAIN factories : Qualifies(factories[i], e, purpose, head)}
           listed    == EntriesAt(factories, P)
           others    == {f \in Registered \ ToSet(listed) : Qualifies(f, e, purpose, head)}
<1>1. PICK rest \in SetToSeqs(others) : Sorted(rest) /\ c = listed \o rest
  BY DEF CandidateFactories
<1>2. /\ factories \in Seq(Factory) /\ Ordered(factories, Rank(e))
      /\ ToSet(factories) = {f \in Registered : Claims(f, e)}
  BY ListedFactories
<1>3. Registered \subseteq Factory
  BY DEF RegistryInv, Registered
<1> HIDE DEF factories
<1>4. /\ listed \in Seq(Factory) /\ Ordered(listed, Rank(e))
      /\ ToSet(listed) = {factories[p] : p \in P}
  <2>1. P \in SUBSET DOMAIN factories
    OBVIOUS
  <2> HIDE DEF P
  <2> QED BY <1>2, <2>1, EntriesOfSeq, OrderedTaken
<1>5. ToSet(listed) = {f \in Registered : Claims(f, e) /\ Qualifies(f, e, purpose, head)}
  <2>1. ToSet(listed) = {f \in ToSet(factories) : Qualifies(f, e, purpose, head)}
    BY <1>4 DEF ToSet
  <2> QED BY <1>2, <2>1
<1> HIDE DEF listed
<1>6. others = {f \in Registered : ~Claims(f, e) /\ Qualifies(f, e, purpose, head)}
  BY <1>5
<1> HIDE DEF others
<1>7. others \subseteq Factory /\ IsFiniteSet(others)
  <2>1. others \subseteq Factory
    BY <1>3, <1>6
  <2> QED BY <2>1, RegistryConstants, FS_Subset
<1>8. /\ rest \in Seq(Factory) /\ ToSet(rest) = others
      /\ \A i, j \in DOMAIN rest : i # j => rest[i] # rest[j]
  <2>1. /\ rest \in Seq(others) /\ ToSet(rest) = others
        /\ \A i, j \in DOMAIN rest : i # j => rest[i] # rest[j]
    BY <1>1, <1>7, OrderOfSet
  <2> QED BY <1>7, <2>1, SeqMonotonic
<1>9. Ordered(rest, Rank(e))
  <2> SUFFICES ASSUME NEW i \in DOMAIN rest, NEW j \in DOMAIN rest, i < j
               PROVE  <<rest[i], rest[j]>> \in Rank(e)
    BY DEF Ordered
  <2> DEFINE f == rest[i]
             g == rest[j]
  <2>1. f \in others /\ g \in others
    BY <1>8 DEF ToSet
  <2>2. i # j
    BY <1>8, LenProperties
  <2>3. f # g /\ Priority[f] >= Priority[g]
    BY <1>1, <1>8, <2>2 DEF Sorted
  <2> HIDE DEF f, g
  <2>4. f \in Factory /\ g \in Factory /\ ~Claims(f, e) /\ ~Claims(g, e)
    BY <1>6, <1>7, <2>1
  <2>5. Before(f, g, e)
    BY <2>3, <2>4 DEF Before
  <2>6. <<f, g>> \in Rank(e)
    BY <2>4, <2>5, IsRanked
  <2> QED BY <2>6 DEF f, g
<1>10. ASSUME NEW f \in ToSet(listed), NEW g \in ToSet(rest) PROVE <<f, g>> \in Rank(e)
  <2>1. f \in Factory /\ g \in Factory /\ Claims(f, e) /\ ~Claims(g, e)
    BY <1>3, <1>5, <1>6, <1>8
  <2>2. f # g /\ Claims(f, e) # Claims(g, e)
    BY <2>1
  <2>3. Before(f, g, e)
    BY <2>1, <2>2 DEF Before
  <2> QED BY <2>1, <2>3, IsRanked
<1>11. c \in Seq(Factory) /\ ToSet(c) = ToSet(listed) \cup ToSet(rest)
  BY <1>1, <1>4, <1>8, ConcatHolds
<1>12. Ordered(c, Rank(e))
  BY <1>1, <1>4, <1>8, <1>9, <1>10, OrderedConcat
<1> QED BY <1>5, <1>6, <1>8, <1>11, <1>12

\* What has been looked up.
CandidateInv ==
  /\ candidates \in Seq(Factory) /\ tried \in Nat
  /\ Ordered(candidates, Rank(request.extension))
  /\ \A i \in DOMAIN candidates :
       /\ phase \in {"trying", "done"}
       /\ Qualifies(candidates[i], request.extension, request.purpose, header)

\* The candidates are those of a lookup in tables that agree, and stay in the order they
\* were looked up in.
THEOREM CandidatesInvariant == DispatchSpec => []CandidateInv
<1>1. DispatchInit => CandidateInv
  <2> SUFFICES ASSUME candidates = <<>>, tried = 0 PROVE CandidateInv
    BY DEF DispatchInit
  <2>1. candidates \in Seq(Factory) /\ ToSet(candidates) = {}
    BY EmptySeq, HoldsNothing
  <2>2. \A i \in DOMAIN candidates : candidates[i] \in ToSet(candidates)
    BY DEF ToSet
  <2> QED BY <2>1, <2>2 DEF CandidateInv, Ordered, ToSet
<1>2. CandidateInv /\ RegistryInv /\ [DispatchNext]_dispatchVars => CandidateInv'
  <2> SUFFICES ASSUME CandidateInv, RegistryInv, [DispatchNext]_dispatchVars
               PROVE  CandidateInv'
    OBVIOUS
  <2>1. CASE UNCHANGED <<phase, request, header, candidates, tried>>
    BY <2>1 DEF CandidateInv, Qualifies
  <2>2. CASE LookUpCandidates
    <3> DEFINE c == candidates'
    <3>1. /\ request' = request /\ header' = header /\ phase' = "trying" /\ tried' = tried
          /\ c \in CandidateFactories(request.extension, request.purpose, header)
      BY <2>2 DEF LookUpCandidates
    <3> HIDE DEF c
    <3>2. /\ c \in Seq(Factory) /\ Ordered(c, Rank(request.extension))
          /\ ToSet(c) = {f \in Registered :
                          Qualifies(f, request.extension, request.purpose, header)}
      BY <3>1, CandidatesAre
    <3>3. \A i \in DOMAIN c : Qualifies(c[i], request.extension, request.purpose, header)
      BY <3>2 DEF ToSet
    <3> QED BY <3>1, <3>2, <3>3 DEF CandidateInv, Qualifies, c
  <2>3. CASE ProbeHeader \/ CheckMipLevel
    <3>1. /\ UNCHANGED <<request, candidates, tried>>
          /\ phase \notin {"trying", "done"}
      BY <2>3 DEF ProbeHeader, CheckMipLevel
    <3>2. DOMAIN candidates = {}
      BY <3>1 DEF CandidateInv
    <3> QED BY <3>1, <3>2 DEF CandidateInv
  <2>4. CASE TryNext \/ Exhausted
    <3>1. /\ UNCHANGED <<request, header, candidates>> /\ phase' \in {"trying", "done"}
          /\ tried' \in Nat
      BY <2>4 DEF TryNext, Exhausted, CandidateInv
    <3> QED BY <3>1 DEF CandidateInv, Qualifies
  <2>5. \/ UNCHANGED <<phase, request, header, candidates, tried>> \/ LookUpCandidates
        \/ ProbeHeader \/ CheckMipLevel \/ TryNext \/ Exhausted
    BY DEF DispatchNext, dispatchVars, decodeVars, ReplaceFile, HostStep
  <2> QED BY <2>1, <2>2, <2>3, <2>4, <2>5
<1> QED BY <1>1, <1>2, RegistryInvariant, PTL DEF DispatchSpec

\* Whatever the host registered and removed before: those that claim the extension come
\* first, priorities fall within the two groups, and no factory is tried twice.
THEOREM CandidatesAreInOrder == DispatchSpec => []CandidatesInOrder
<1>1. CandidateInv => CandidatesInOrder
  <2> SUFFICES ASSUME CandidateInv, NEW i \in DOMAIN candidates, NEW j \in DOMAIN candidates,
                      i < j
               PROVE  Before(candidates[i], candidates[j], request.extension)
    BY DEF CandidatesInOrder, Before
  <2>1. candidates[i] \in Factory /\ candidates[j] \in Factory
    BY ElementOfSeq, LenProperties DEF CandidateInv
  <2>2. <<candidates[i], candidates[j]>> \in Rank(request.extension)
    BY DEF CandidateInv, Ordered
  <2> QED BY <2>1, <2>2, IsRanked
<1> QED BY <1>1, CandidatesInvariant, PTL

-----------------------------------------------------------------------------
(***************************************************************************)
(* Mip levels.                                                             *)
(***************************************************************************)

\* The level asked for cannot be had.
NoSuchLevel(content) ==
  \/ content.format # "DDS" /\ Recognised(content)
  \/ content.format = "DDS" /\ content.intact /\ request.mipLevel >= content.mips

\* The decoder may have found it.
LevelServed(content) ==
  \/ content.format = "DDS" /\ request.mipLevel < content.mips
  \/ ~Recognised(content) /\ request.extension = "dds" /\ winner = WIC

MipTypes ==
  /\ bytes \in Content \cup {None} /\ file \in Content \cup {None}
  /\ request \in [extension : Extension, purpose : Purpose, mipLevel : 0..MaxMip]
  /\ phase \in {"idle", "probed", "checked", "trying", "done"}
  /\ phase # "done" => winner = None

\* As long as the source stays, the header is its own; who asked for a mip level gets
\* beyond the check only with what may be a DDS that has it.
MipInv ==
  /\ MipTypes
  /\ SourceStays /\ Source # None =>
       /\ phase # "idle" => header = HeaderOf(Source.signature, Source.size)
       /\ request.mipLevel # 0 =>
            /\ phase \in {"checked", "trying"} =>
                 ~NoSuchLevel(Source) /\ DetectedFormat(header, request.extension) = "DDS"
            /\ phase = "done" => result = "E_INVALIDARG" \/ ~NoSuchLevel(Source)
            /\ winner \in {WIC, DXTex} => LevelServed(Source)

\* A step that is none of the decode keeps it.
LEMMA MipFrame ==
  ASSUME MipInv, MipTypes',
         UNCHANGED <<phase, request, header, result, winner>>,
         bytes' = bytes, bytes = None /\ ~replaced' => ~replaced /\ file' = file
  PROVE  MipInv'
BY DEF MipInv, NoSuchLevel, LevelServed, Source, SourceStays

\* The header of the source is read.
LEMMA ProbeMip == ASSUME MipInv, ProbeHeader PROVE MipInv'
<1>1. /\ phase = "idle" /\ phase' = "probed" /\ winner = None
      /\ header' = IF Source = None THEN NoHeader ELSE HeaderOf(Source.signature, Source.size)
      /\ UNCHANGED <<file, replaced, request, bytes, result, winner>>
  BY DEF ProbeHeader, ProbedContent, fileVars, MipInv, MipTypes
<1>2. MipTypes' /\ Source' = Source /\ SourceStays' = SourceStays
  BY <1>1 DEF MipInv, MipTypes, Source, SourceStays
<1>3. winner' \notin {WIC, DXTex}
  BY <1>1, DispatcherConstants
<1> QED BY <1>1, <1>2, <1>3 DEF MipInv

\* A level that cannot be had is refused, whatever metadata is read of a damaged DDS.
LEMMA CheckMip == ASSUME MipInv, CheckMipLevel PROVE MipInv'
<1>1. /\ phase = "probed" /\ winner = None
      /\ UNCHANGED <<file, replaced, request, bytes, header, winner>>
  BY DEF CheckMipLevel, fileVars, MipInv, MipTypes
<1>2. PICK mips \in DdsMips(Source) :
        IF request.mipLevel # 0 /\ MipRefused(mips)
        THEN phase' = "done" /\ result' = "E_INVALIDARG"
        ELSE phase' = "checked" /\ result' = "E_FAIL"
  BY DEF CheckMipLevel
<1>3. MipTypes' /\ Source' = Source /\ SourceStays' = SourceStays
  BY <1>1, <1>2 DEF MipInv, MipTypes, Source, SourceStays
<1>4. winner' \notin {WIC, DXTex}
  BY <1>1, DispatcherConstants
<1>5. ASSUME SourceStays, Source # None, request.mipLevel # 0, ~MipRefused(mips)
      PROVE  ~NoSuchLevel(Source) /\ DetectedFormat(header, request.extension) = "DDS"
  <2>1. header = HeaderOf(Source.signature, Source.size) /\ Source \in Content
    BY <1>1, <1>5 DEF MipInv, MipTypes, Source
  <2>2. DetectedFormat(header, request.extension) = "DDS"
    BY <1>5 DEF MipRefused
  <2>3. Recognised(Source) => Source.format = "DDS"
    BY <2>1, <2>2, DispatcherConstants DEF Recognised, DetectedFormat
  <2>4. ASSUME Source.format = "DDS", Source.intact PROVE ~(request.mipLevel >= Source.mips)
    <3>1. mips = Source.mips
      BY <1>5, <2>4 DEF DdsMips, Is
    <3>2. mips # None
      BY <2>1, <3>1, DispatcherConstants
    <3> QED BY <1>5, <3>1, <3>2 DEF MipRefused
  <2> QED BY <2>2, <2>3, <2>4 DEF NoSuchLevel
<1>6. NoSuchLevel(Source)' = NoSuchLevel(Source)
  BY <1>1, <1>3 DEF NoSuchLevel, Recognised
<1> QED BY <1>1, <1>2, <1>3, <1>4, <1>5, <1>6 DEF MipInv

\* What a decoder makes of content that is not of its formats is an error.
LEMMA LoadsItsOwn ==
  ASSUME NEW content, NEW formats, "S_OK" \in Loaded(content, formats)
  PROVE  Is(content, formats)
<1>1. ~Is(content, formats) => Loaded(content, formats) = {"E_DECODER"}
  BY DEF Loaded
<1> QED BY <1>1

\* A built-in decoder that succeeds with a level other than 0 had it, or is WIC with
\* something the detector does not know: what shows that it is a DDS WIC is not asked.
LEMMA ServedByBuiltIn ==
  ASSUME MipTypes, NEW content \in Content, request.mipLevel # 0,
         header = HeaderOf(content.signature, content.size),
         DetectedFormat(header, request.extension) = "DDS",
         winner' \in {WIC, DXTex}, Probe(winner', header, request.extension),
         "S_OK" \in DxtexResults(header, content) \/ winner' = WIC, request' = request
  PROVE  LevelServed(content)'
<1>1. request.mipLevel \in Nat /\ content.mips \in Nat
  BY DispatcherConstants DEF MipTypes
<1>2. CASE winner' = WIC
  <2>1. BuiltInProbe(WIC, header, request.extension)
    BY <1>2, BuiltInFactories DEF MipTypes
  <2>2. ~Recognised(content)
    BY <2>1 DEF BuiltInProbe, Recognised, DetectedFormat
  <2>3. request.extension = "dds"
    BY <2>2 DEF Recognised, DetectedFormat, DetectByExtension
  <2> QED BY <1>2, <2>2, <2>3 DEF LevelServed, Recognised
<1>3. CASE winner' # WIC
  <2>1. LoaderExtension(header, request.extension) = "dds"
    BY <1>3 DEF DxtexResults
  <2>2. PICK mips \in DdsMips(content) : "S_OK" \in DdsResults(content, mips)
    BY <1>3, <2>1 DEF DxtexResults
  <2>3. mips # None /\ ~(request.mipLevel >= mips) /\ Is(content, {"DDS"})
    <3>1. mips = None => DdsResults(content, mips) = {"E_DECODER"}
      BY DEF DdsResults
    <3>2. mips # None /\ request.mipLevel >= mips => DdsResults(content, mips) = {"E_INVALIDARG"}
      BY DEF DdsResults
    <3>3. mips # None /\ ~(request.mipLevel >= mips)
      BY <2>2, <3>1, <3>2
    <3>4. DdsResults(content, mips) = Loaded(content, {"DDS"})
      BY <3>3 DEF DdsResults
    <3> QED BY <2>2, <3>3, <3>4, LoadsItsOwn
  <2>4. mips = content.mips /\ content.format = "DDS"
    BY <2>2, <2>3 DEF DdsMips, Is
  <2> QED BY <1>1, <2>3, <2>4 DEF LevelServed
<1> QED BY <1>2, <1>3

\* Candidates are tried.
LEMMA TryMip == ASSUME MipInv, CandidateInv, TryNext PROVE MipInv'
<1> DEFINE f == candidates[tried + 1]
<1>1. /\ phase = "trying" /\ winner = None
      /\ UNCHANGED <<file, replaced, request, bytes, header>>
      /\ result' \in Results(f)
      /\ winner' = IF result' = "S_OK" THEN f ELSE None
      /\ phase' = IF result' = "S_OK" THEN "done" ELSE "trying"
  BY DEF TryNext, fileVars, MipInv, MipTypes
<1> HIDE DEF f
<1>2. MipTypes' /\ Source' = Source /\ SourceStays' = SourceStays
  BY <1>1 DEF MipInv, MipTypes, Source, SourceStays
<1>3. NoSuchLevel(Source)' = NoSuchLevel(Source)
  BY <1>1, <1>2 DEF NoSuchLevel, Recognised
<1>4. ASSUME SourceStays, Source # None, request.mipLevel # 0, winner' \in {WIC, DXTex}
      PROVE  LevelServed(Source)'
  <2>1. /\ header = HeaderOf(Source.signature, Source.size) /\ Source \in Content
        /\ DetectedFormat(header, request.extension) = "DDS" /\ MipTypes /\ request' = request
    BY <1>1, <1>4 DEF MipInv, MipTypes, Source
  <2>2. result' = "S_OK" /\ f = winner'
    BY <1>1, <1>4, DispatcherConstants
  <2>3. Probe(winner', header, request.extension)
    <3>1. tried + 1 \in DOMAIN candidates
      BY LenProperties DEF CandidateInv, TryNext
    <3> QED BY <2>2, <3>1 DEF f, CandidateInv, Qualifies
  <2>4. "S_OK" \in DxtexResults(header, Source) \/ winner' = WIC
    BY <1>1, <1>4, <2>2 DEF Results
  <2> QED BY <1>2, <1>4, <2>1, <2>3, <2>4, ServedByBuiltIn DEF LevelServed, Recognised
<1> QED BY <1>1, <1>2, <1>3, <1>4 DEF MipInv

\* The invariant holds, of any factories and contents.
THEOREM MipInvariant == DispatchSpec => []MipInv
<1>1. DispatchInit => MipInv
  BY DispatcherConstants DEF DispatchInit, MipInv, MipTypes
<1>2. MipInv /\ CandidateInv /\ [DispatchNext]_dispatchVars => MipInv'
  <2> SUFFICES ASSUME MipInv, CandidateInv, [DispatchNext]_dispatchVars PROVE MipInv'
    OBVIOUS
  <2> USE DEF fileVars, decodeVars
  <2>1. CASE UNCHANGED dispatchVars
    BY <2>1, MipFrame DEF dispatchVars, MipInv, MipTypes
  <2>2. CASE LookUpCandidates \/ Exhausted
    BY <2>2 DEF LookUpCandidates, Exhausted, MipInv, MipTypes, NoSuchLevel, LevelServed, Source,
                SourceStays
  <2>3. ASSUME NEW content \in Content \cup {None}, ReplaceFile(content) PROVE MipInv'
    BY <2>3, MipFrame DEF ReplaceFile, MipInv, MipTypes
  <2>4. CASE HostStep
    BY <2>4, MipFrame DEF HostStep, MipInv, MipTypes
  <2> QED BY <2>1, <2>2, <2>3, <2>4, ProbeMip, CheckMip, TryMip DEF DispatchNext
<1> QED BY <1>1, <1>2, CandidatesInvariant, PTL DEF DispatchSpec

\* While the source stays (the file is not replaced, or there are bytes): a mip level the
\* image does not have is refused, and a level other than 0 is served by a built-in decoder
\* only from a DDS that has it, or by WIC from what the detector does not know and the name
\* calls a DDS, whatever factories the host registers.
THEOREM MipLevelsHonoured == DispatchSpec => []MipLevelHonoured
<1>1. MipInv => MipLevelHonoured
  BY DispatcherConstants DEF MipInv, MipLevelHonoured, NoSuchLevel, LevelServed
<1> QED BY <1>1, MipInvariant, PTL

-----------------------------------------------------------------------------
(***************************************************************************)
(* Intact images.                                                          *)
(***************************************************************************)

\* The built-in factory that can decode it.
DecoderFor(content) == IF content.format \in WicFormats THEN WIC ELSE DXTex

\* An intact image that is given to it.
Given(content) ==
  Decodable(content) /\ (content.format \in WicFormats => WicHasSource)

\* As long as it was not tried the decode goes on, and it is not tried in vain.
IntactInv ==
  /\ tried \in Nat
  /\ phase \in {"idle", "probed", "checked"} => tried = 0
  /\ whole /\ SourceStays /\ Given(Source) =>
       /\ phase = "trying" =>
            \E i \in DOMAIN candidates : i > tried /\ candidates[i] = DecoderFor(Source)
       /\ phase = "done" => result = "S_OK"

\* What an intact image shows, and which of the two decodes it.
LEMMA IntactShown ==
  ASSUME NEW content \in Content, Decodable(content)
  PROVE  LET shown == DetectByMagic(HeaderOf(content.signature, content.size))
         IN  /\ content.intact
             /\ \/ /\ content.format \in WicFormats /\ DecoderFor(content) = WIC
                   /\ shown \notin {"DDS", "HDR", "EXR"} /\ request.mipLevel = 0
                \/ /\ content.format = "DDS" /\ DecoderFor(content) = DXTex
                   /\ shown = "DDS" /\ request.mipLevel < content.mips
                \/ /\ content.format = "HDR" /\ DecoderFor(content) = DXTex
                   /\ shown = "HDR" /\ request.mipLevel = 0
                \/ /\ content.format = "TGA" /\ DecoderFor(content) = DXTex
                   /\ shown \notin {"DDS", "HDR", "EXR"} /\ request.mipLevel = 0
                   /\ request.extension = "tga"
<1> DEFINE shown == DetectByMagic(HeaderOf(content.signature, content.size))
<1>1. content.intact
  BY DEF Decodable
<1>2. /\ shown \in {"DDS", "HDR", "EXR"} => content.format = shown
      /\ content.format \in {"DDS", "HDR"} => shown = content.format
  BY <1>1, IntactContents
<1> HIDE DEF shown
<1>3. {"DDS", "HDR", "EXR", "TGA"} \cap WicFormats = {}
  BY DEF WicFormats
<1>4. \/ content.format = "DDS" /\ request.mipLevel < content.mips
      \/ request.mipLevel = 0 /\ content.format \in WicFormats
      \/ request.mipLevel = 0 /\ content.format = "HDR"
      \/ request.mipLevel = 0 /\ content.format = "TGA" /\ request.extension = "tga"
  BY DEF Decodable
<1>5. CASE content.format = "DDS" /\ request.mipLevel < content.mips
  BY <1>1, <1>2, <1>3, <1>5 DEF DecoderFor, shown
<1>6. CASE request.mipLevel = 0 /\ content.format \in WicFormats
  <2>1. shown \notin {"DDS", "HDR", "EXR"}
    BY <1>2, <1>3, <1>6
  <2> QED BY <1>1, <1>6, <2>1 DEF DecoderFor, shown
<1>7. CASE request.mipLevel = 0 /\ content.format = "HDR"
  BY <1>1, <1>2, <1>3, <1>7 DEF DecoderFor, shown
<1>8. CASE request.mipLevel = 0 /\ content.format = "TGA" /\ request.extension = "tga"
  <2>1. shown \notin {"DDS", "HDR", "EXR"} /\ content.format \notin WicFormats
    BY <1>2, <1>3, <1>8
  <2> QED BY <1>1, <1>8, <2>1 DEF DecoderFor, shown
<1> QED BY <1>4, <1>5, <1>6, <1>7, <1>8

\* It qualifies,
LEMMA DecoderQualifies ==
  ASSUME NEW content \in Content, Decodable(content),
         header = HeaderOf(content.signature, content.size), MipTypes
  PROVE  Qualifies(DecoderFor(content), request.extension, request.purpose, header)
<1> DEFINE f == DecoderFor(content)
<1>1. request.extension \in Extension /\ request.purpose \in Purpose
  BY DEF MipTypes
<1>2. f \in {WIC, DXTex} /\ f = WIC => DetectByMagic(header) \notin {"DDS", "HDR", "EXR"}
  BY IntactShown, DispatcherConstants
<1>3. f \in {WIC, DXTex}
  BY DEF DecoderFor
<1> HIDE DEF f
<1>4. BuiltInProbe(f, header, request.extension)
  BY <1>2, <1>3 DEF BuiltInProbe
<1>5. Probe(f, header, request.extension) /\ request.purpose \in Purposes[f]
  BY <1>1, <1>3, <1>4, BuiltInFactories
<1> QED BY <1>5 DEF Qualifies, f

\* and it decodes.
LEMMA DecoderDecodes ==
  ASSUME NEW content \in Content, Given(content), Source = content,
         header = HeaderOf(content.signature, content.size), MipTypes
  PROVE  Results(DecoderFor(content)) = {"S_OK"}
<1> DEFINE shown == DetectByMagic(HeaderOf(content.signature, content.size))
<1>0. content # None /\ content.mips # None /\ content.mips \in Nat /\ WIC # DXTex
      /\ request.mipLevel \in Nat
  BY DispatcherConstants DEF MipTypes
<1>1. ASSUME NEW formats, content.format \in formats, content.intact
      PROVE  Loaded(content, formats) = {"S_OK"}
  BY <1>0, <1>1 DEF Loaded, Is
<1>2. CASE content.format \in WicFormats /\ DecoderFor(content) = WIC
  <2>0. WicSource = content
    BY <1>2 DEF Given, WicHasSource, WicSource, FromMemory, Source
  <2>1. WicResults = {"S_OK"}
    BY <1>1, <1>2, <2>0, IntactShown DEF WicResults, Given
  <2>2. Results(WIC) = WicResults
    BY <1>0 DEF Results
  <2> QED BY <1>2, <2>1, <2>2
<1>3. CASE DecoderFor(content) = DXTex
  <2>1. Results(DXTex) = DxtexResults(header, content)
    BY <1>0 DEF Results
  <2>2. CASE /\ content.intact /\ content.format = "DDS" /\ shown = "DDS"
             /\ request.mipLevel < content.mips
    <3>1. LoaderExtension(header, request.extension) = "dds"
      BY <2>2 DEF LoaderExtension
    <3>2. DdsMips(content) = {content.mips}
      BY <1>0, <2>2 DEF DdsMips, Is
    <3>3. ~(request.mipLevel >= content.mips)
      BY <1>0, <2>2
    <3>4. DdsResults(content, content.mips) = {"S_OK"}
      BY <1>0, <1>1, <2>2, <3>3 DEF DdsResults
    <3>5. DxtexResults(header, content) = UNION {DdsResults(content, mips) : mips \in {content.mips}}
      BY <3>1, <3>2 DEF DxtexResults
    <3> QED BY <1>3, <2>1, <3>4, <3>5
  <2>3. CASE /\ content.intact /\ content.format = "HDR" /\ shown = "HDR"
             /\ request.mipLevel = 0
    <3>1. LoaderExtension(header, request.extension) = "hdr"
      BY <2>3 DEF LoaderExtension
    <3>2. DxtexResults(header, content) = Loaded(content, {"HDR"})
      BY <2>3, <3>1 DEF DxtexResults
    <3> QED BY <1>1, <1>3, <2>1, <2>3, <3>2
  <2>4. CASE /\ content.intact /\ content.format = "TGA" /\ shown \notin {"DDS", "HDR", "EXR"}
             /\ request.mipLevel = 0 /\ request.extension = "tga"
    <3>1. LoaderExtension(header, request.extension) = "tga"
      BY <2>4 DEF LoaderExtension
    <3>2. DxtexResults(header, content) = Loaded(content, {"TGA"})
      BY <2>4, <3>1 DEF DxtexResults
    <3> QED BY <1>1, <1>3, <2>1, <2>4, <3>2
  <2> QED BY <1>0, <1>3, <2>2, <2>3, <2>4, IntactShown DEF Given
<1> QED BY <1>2, <1>3, IntactShown DEF Given

\* It is not refused for its mip level,
LEMMA CheckIntact ==
  ASSUME MipInv, IntactInv, CheckMipLevel PROVE IntactInv'
<1>1. /\ phase = "probed" /\ tried' = tried
      /\ UNCHANGED <<file, replaced, request, bytes, header>>
  BY DEF CheckMipLevel, fileVars
<1>2. Source' = Source /\ SourceStays' = SourceStays /\ Given(Source)' = Given(Source)
  BY <1>1 DEF Source, SourceStays, Given, Decodable, WicHasSource, FromMemory
<1>3. ASSUME SourceStays, Given(Source) PROVE phase' = "checked"
  <2>1. Source \in Content /\ Source # None /\ header = HeaderOf(Source.signature, Source.size)
    BY <1>1, <1>3 DEF Given, Decodable, Source, MipInv, MipTypes
  <2>2. ASSUME NEW mips \in DdsMips(Source), request.mipLevel # 0 PROVE ~MipRefused(mips)
    <3>1. /\ Source.intact /\ Source.format = "DDS" /\ request.mipLevel < Source.mips
          /\ DetectByMagic(header) = "DDS"
      BY <1>3, <2>1, <2>2, IntactShown DEF Given
    <3>2. mips = Source.mips
      BY <2>1, <2>2, <3>1 DEF DdsMips, Is
    <3>3. DetectedFormat(header, request.extension) = "DDS"
      BY <3>1 DEF DetectedFormat
    <3>4. ~(request.mipLevel >= Source.mips)
      BY <2>1, <3>1, DispatcherConstants DEF MipInv, MipTypes
    <3> QED BY <3>2, <3>3, <3>4 DEF MipRefused
  <2> QED BY <2>2 DEF CheckMipLevel
<1>4. tried = 0 /\ phase' # "trying"
  <2>1. phase' \in {"done", "checked"}
    BY DEF CheckMipLevel
  <2> QED BY <1>1, <2>1 DEF IntactInv
<1>5. whole /\ SourceStays' /\ Given(Source)' => phase' = "checked"
  BY <1>1, <1>2, <1>3
<1> QED BY <1>1, <1>4, <1>5 DEF IntactInv, CheckMipLevel

\* it is looked up when the built-in factories are registered,
LEMMA LookUpIntact ==
  ASSUME MipInv, IntactInv, RegistryInv, LookUpCandidates PROVE IntactInv'
<1>1. /\ phase = "checked" /\ phase' = "trying" /\ tried = 0 /\ tried' = 0
      /\ UNCHANGED <<file, replaced, request, bytes, header>>
      /\ whole' = (ToSet(BuiltIn) \subseteq Registered)
      /\ candidates' \in CandidateFactories(request.extension, request.purpose, header)
  BY DEF LookUpCandidates, fileVars, IntactInv
<1>2. Source' = Source /\ SourceStays' = SourceStays /\ Given(Source)' = Given(Source)
      /\ DecoderFor(Source)' = DecoderFor(Source)
  BY <1>1 DEF Source, SourceStays, Given, Decodable, WicHasSource, FromMemory, DecoderFor
<1>3. ASSUME whole', SourceStays, Given(Source)
      PROVE  \E i \in DOMAIN candidates' : i > 0 /\ candidates'[i] = DecoderFor(Source)
  <2> DEFINE c == candidates'
             f == DecoderFor(Source)
  <2>1. Source \in Content /\ header = HeaderOf(Source.signature, Source.size)
    BY <1>1, <1>3 DEF Given, Decodable, Source, MipInv, MipTypes
  <2>2. f \in Registered
    BY <1>1, <1>3, DispatcherConstants DEF DecoderFor
  <2>3. Qualifies(f, request.extension, request.purpose, header)
    BY <1>3, <2>1, DecoderQualifies DEF Given, MipInv
  <2>4. c \in CandidateFactories(request.extension, request.purpose, header)
    BY <1>1
  <2> HIDE DEF c, f
  <2>5. c \in Seq(Factory) /\ f \in ToSet(c)
    BY <2>2, <2>3, <2>4, CandidatesAre
  <2>6. \E i \in DOMAIN c : i > 0 /\ c[i] = f
    BY <2>5, LenProperties DEF ToSet
  <2> QED BY <2>6 DEF c, f
<1> QED BY <1>1, <1>2, <1>3 DEF IntactInv

\* and the candidates before it may fail: it comes to its turn.
LEMMA TryIntact ==
  ASSUME MipInv, IntactInv, CandidateInv, TryNext PROVE IntactInv'
<1> DEFINE f == candidates[tried + 1]
<1>1. /\ phase = "trying" /\ tried' = tried + 1 /\ tried \in Nat
      /\ UNCHANGED <<file, replaced, request, bytes, header, candidates, whole>>
      /\ result' \in Results(f)
      /\ phase' = IF result' = "S_OK" THEN "done" ELSE "trying"
  BY DEF TryNext, fileVars, IntactInv
<1> HIDE DEF f
<1>2. Source' = Source /\ SourceStays' = SourceStays /\ Given(Source)' = Given(Source)
      /\ DecoderFor(Source)' = DecoderFor(Source)
  BY <1>1 DEF Source, SourceStays, Given, Decodable, WicHasSource, FromMemory, DecoderFor
<1>3. ASSUME whole, SourceStays, Given(Source), phase' = "trying"
      PROVE  \E i \in DOMAIN candidates : i > tried' /\ candidates[i] = DecoderFor(Source)
  <2>1. PICK i \in DOMAIN candidates : i > tried /\ candidates[i] = DecoderFor(Source)
    BY <1>1, <1>3 DEF IntactInv
  <2>2. Source \in Content /\ header = HeaderOf(Source.signature, Source.size)
    BY <1>1, <1>3 DEF Given, Decodable, Source, MipInv, MipTypes
  <2>3. Results(DecoderFor(Source)) = {"S_OK"}
    BY <1>3, <2>2, DecoderDecodes DEF MipInv
  <2>4. f # DecoderFor(Source)
    BY <1>1, <1>3, <2>3
  <2>5. i # tried + 1 /\ i \in Nat
    BY <2>1, <2>4, LenProperties DEF f, CandidateInv
  <2> QED BY <1>1, <2>1, <2>5
<1>4. phase' = "done" => result' = "S_OK"
  BY <1>1
<1>5. tried' \in Nat /\ phase' \notin {"idle", "probed", "checked"}
  BY <1>1
<1> QED BY <1>1, <1>2, <1>3, <1>4, <1>5 DEF IntactInv

\* As long as the decoder of an intact image it is given was not tried, it is among the
\* candidates left.
THEOREM IntactInvariant == DispatchSpec => []IntactInv
<1>1. DispatchInit => IntactInv
  BY DEF DispatchInit, IntactInv
<1>2. /\ IntactInv /\ MipInv /\ RegistryInv /\ CandidateInv
      /\ [DispatchNext]_dispatchVars
      => IntactInv'
  <2> SUFFICES ASSUME IntactInv, MipInv, RegistryInv, CandidateInv,
                      [DispatchNext]_dispatchVars
               PROVE  IntactInv'
    OBVIOUS
  <2>1. CASE UNCHANGED <<decodeVars, fileVars>>
    BY <2>1 DEF decodeVars, fileVars, IntactInv, Given, Decodable, DecoderFor, Source,
           SourceStays, WicHasSource, FromMemory
  <2>2. CASE ProbeHeader
    BY <2>2 DEF ProbeHeader, fileVars, IntactInv, Given, Decodable, DecoderFor, Source,
           SourceStays, WicHasSource, FromMemory
  <2>3. CASE Exhausted
    <3>1. /\ phase = "trying" /\ tried = Len(candidates) /\ phase' = "done"
          /\ UNCHANGED <<file, replaced, request, bytes, tried, whole>>
      BY <2>3 DEF Exhausted, fileVars
    <3>2. ~\E i \in DOMAIN candidates : i > tried
      BY <3>1, LenProperties DEF CandidateInv
    <3>3. Source' = Source /\ SourceStays' = SourceStays /\ Given(Source)' = Given(Source)
      BY <3>1 DEF Source, SourceStays, Given, Decodable, WicHasSource, FromMemory
    <3> QED BY <3>1, <3>2, <3>3 DEF IntactInv
  <2>4. ASSUME NEW content \in Content \cup {None}, ReplaceFile(content) PROVE IntactInv'
    BY <2>4 DEF ReplaceFile, decodeVars, IntactInv, Given, Decodable, DecoderFor, Source,
           SourceStays, WicHasSource, FromMemory
  <2>5. CASE HostStep
    BY <2>1, <2>5 DEF HostStep
  <2>6. UNCHANGED dispatchVars => UNCHANGED <<decodeVars, fileVars>>
    BY DEF dispatchVars
  <2> QED BY <2>1, <2>2, <2>3, <2>4, <2>5, <2>6, CheckIntact, LookUpIntact, TryIntact
          DEF DispatchNext
<1> QED BY <1>1, <1>2, MipInvariant, RegistryInvariant, CandidatesInvariant, PTL
        DEF DispatchSpec

\* An intact image is decoded whatever its file is called, from a file that is not replaced
\* as from bytes whatever the file holds, and whatever the host registered, provided the
\* built-in factories are registered at the lookup and the bytes of a format of WIC's are
\* not too many for its stream.
THEOREM IntactImagesAreDecoded == DispatchSpec => []IntactIsDecoded
<1>1. IntactInv => IntactIsDecoded
  BY DEF IntactInv, IntactIsDecoded, Given
<1> QED BY <1>1, IntactInvariant, PTL

================================================================================
