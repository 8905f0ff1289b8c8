--------------------------- MODULE TensorSizeProofs --------------------------
(***************************************************************************)
(* Proofs about TensorSize, for every width of an int and any shapes: what *)
(* the loop of tensorSize computes, by induction over the dimensions, and  *)
(* then that tensors, copies and views keep to their memory.               *)
(***************************************************************************)
EXTENDS TensorSize, WellFoundedInduction, TLAPS

-----------------------------------------------------------------------------
\* Induction over the natural numbers, for a set instead of a predicate.
LEMMA Induction ==
  ASSUME NEW S, 0 \in S, \A k \in Nat : k \in S => k + 1 \in S
  PROVE  Nat \subseteq S
<1> DEFINE T == {k \in Nat : k \notin S}
<1>1. SUFFICES ASSUME T # {} PROVE FALSE
  OBVIOUS
<1>2. PICK k \in T : \A j \in T : <<j, k>> \notin OpToRel(<, Nat)
  <2>1. T \subseteq Nat
    OBVIOUS
  <2> HIDE DEF T
  <2> QED
    BY <1>1, <2>1, WFMin, NatLessThanWellFounded, Zenon
<1>3. k - 1 \in Nat /\ k - 1 \notin S
  OBVIOUS
<1>4. <<k - 1, k>> \in OpToRel(<, Nat)
  BY <1>3 DEF OpToRel
<1> QED
  BY <1>2, <1>3, <1>4, Zenon

\* The recursive functions exist, so each satisfies the equation it is
\* defined by.
LEMMA ProductsEquation ==
  ASSUME NEW s \in Seq(Int)
  PROVE  Products(s) =
           [k \in 0 .. Len(s) |-> IF k = 0 THEN 1 ELSE Products(s)[k - 1] * s[k]]
<1> DEFINE Solved(f, m) == f = [k \in 0 .. m |-> IF k = 0 THEN 1 ELSE f[k - 1] * s[k]]
           S == {m \in Nat : m <= Len(s) => \E f : Solved(f, m)}
<1>1. 0 \in S
  <2>1. Solved([k \in 0 .. 0 |-> 1], 0)
    OBVIOUS
  <2> QED
    BY <2>1
<1>2. ASSUME NEW m \in Nat, m \in S PROVE m + 1 \in S
  <2>1. SUFFICES ASSUME m + 1 <= Len(s) PROVE \E f : Solved(f, m + 1)
    OBVIOUS
  <2>2. PICK f : Solved(f, m)
    BY <1>2, <2>1
  <2> DEFINE g == [k \in 0 .. m + 1 |-> IF k <= m THEN f[k] ELSE f[m] * s[m + 1]]
  <2>3. Solved(g, m + 1)
    BY <2>2
  <2> QED
    BY <2>3
<1>3. Nat \subseteq S
  <2> HIDE DEF S
  <2> QED
    BY <1>1, <1>2, Induction
<1>4. \E f : Solved(f, Len(s))
  BY <1>3
<1> QED
  BY <1>4 DEF Products

LEMMA CountsEquation ==
  ASSUME NEW s \in Seq(Int)
  PROVE  Counts(s) =
           [k \in 0 .. Len(s) |-> IF k = 0 THEN 1 ELSE Times(Counts(s)[k - 1], s[k])]
<1> DEFINE Solved(f, m) == f = [k \in 0 .. m |-> IF k = 0 THEN 1 ELSE Times(f[k - 1], s[k])]
           S == {m \in Nat : m <= Len(s) => \E f : Solved(f, m)}
<1>1. 0 \in S
  <2>1. Solved([k \in 0 .. 0 |-> 1], 0)
    OBVIOUS
  <2> QED
    BY <2>1
<1>2. ASSUME NEW m \in Nat, m \in S PROVE m + 1 \in S
  <2>1. SUFFICES ASSUME m + 1 <= Len(s) PROVE \E f : Solved(f, m + 1)
    OBVIOUS
  <2>2. PICK f : Solved(f, m)
    BY <1>2, <2>1
  <2> DEFINE g == [k \in 0 .. m + 1 |-> IF k <= m THEN f[k] ELSE Times(f[m], s[m + 1])]
  <2>3. Solved(g, m + 1)
    BY <2>2
  <2> QED
    BY <2>3
<1>3. Nat \subseteq S
  <2> HIDE DEF S
  <2> QED
    BY <1>1, <1>2, Induction
<1>4. \E f : Solved(f, Len(s))
  BY <1>3
<1> QED
  BY <1>4 DEF Counts

\* A product of dimensions is an integer, not negative if they are not, and
\* zero from a zero dimension on.
LEMMA ProductsType ==
  ASSUME NEW s \in Seq(Int)
  PROVE  /\ \A k \in 0 .. Len(s) : Products(s)[k] \in Int
         /\ ~Negative(s) => \A k \in 0 .. Len(s) : Products(s)[k] \in Nat
<1> DEFINE P == Products(s)
           S == {m \in Nat : m <= Len(s) => P[m] \in Int /\ (~Negative(s) => P[m] \in Nat)}
<1>1. P = [k \in 0 .. Len(s) |-> IF k = 0 THEN 1 ELSE P[k - 1] * s[k]]
  BY ProductsEquation
<1> HIDE DEF P
<1>2. 0 \in S
  BY <1>1
<1>3. ASSUME NEW m \in Nat, m \in S PROVE m + 1 \in S
  <2>1. SUFFICES ASSUME m + 1 <= Len(s)
                 PROVE  P[m + 1] \in Int /\ (~Negative(s) => P[m + 1] \in Nat)
    OBVIOUS
  <2>2. P[m + 1] = P[m] * s[m + 1] /\ s[m + 1] \in Int /\ m + 1 \in DOMAIN s
    BY <1>1, <2>1
  <2>3. P[m] \in Int /\ (~Negative(s) => P[m] \in Nat /\ s[m + 1] \in Nat)
    BY <1>3, <2>1, <2>2 DEF Negative
  <2> QED
    BY <2>2, <2>3
<1>4. Nat \subseteq S
  <2> HIDE DEF S
  <2> QED
    BY <1>2, <1>3, Induction
<1> QED
  BY <1>4 DEF P

LEMMA ProductZero ==
  ASSUME NEW s \in Seq(Int), Empty(s)
  PROVE  Elements(s) = 0
<1> DEFINE P == Products(s)
<1>1. P = [k \in 0 .. Len(s) |-> IF k = 0 THEN 1 ELSE P[k - 1] * s[k]]
  BY ProductsEquation
<1>2. \A k \in 0 .. Len(s) : P[k] \in Int
  BY ProductsType
<1>3. PICK z \in 1 .. Len(s) : s[z] = 0
  BY DEF Empty
<1> DEFINE S == {m \in Nat : z + m <= Len(s) => P[z + m] = 0}
<1> HIDE DEF P
<1>4. 0 \in S
  <2>1. z - 1 \in 0 .. Len(s) /\ P[z - 1] \in Int
    BY <1>2, <1>3
  <2>2. z \in 0 .. Len(s) /\ z # 0
    BY <1>3
  <2>3. P[z] = P[z - 1] * s[z]
    BY <1>1, <2>2
  <2>4. P[z] = P[z - 1] * 0
    BY <1>3, <2>3
  <2> QED
    BY <2>1, <2>4
<1>5. ASSUME NEW m \in Nat, m \in S PROVE m + 1 \in S
  <2>1. SUFFICES ASSUME z + (m + 1) <= Len(s) PROVE P[z + (m + 1)] = 0
    OBVIOUS
  <2>2. P[z + (m + 1)] = P[z + m] * s[z + (m + 1)] /\ s[z + (m + 1)] \in Int
    BY <1>1, <2>1
  <2> QED
    BY <1>5, <2>1, <2>2
<1>6. Nat \subseteq S
  <2> HIDE DEF S
  <2> QED
    BY <1>4, <1>5, Induction
<1>7. P[Len(s)] = 0
  <2>1. Len(s) - z \in Nat /\ z + (Len(s) - z) = Len(s)
    OBVIOUS
  <2>2. Len(s) - z \in S
    BY <1>6, <2>1
  <2> QED
    BY <2>1, <2>2
<1> QED
  BY <1>7 DEF P, Elements

-----------------------------------------------------------------------------
\* The comparison with a quotient tells whether a product exceeds a bound.
LEMMA QuotientBound ==
  ASSUME NEW a \in Nat, NEW k \in Nat \ {0}, NEW d \in Int
  PROVE  d > a \div k <=> k * d > a
<1>1. PICK q \in Int, r \in Int : q = a \div k /\ a = k * q + r /\ 0 <= r /\ r < k
  <2>1. a \div k \in Int /\ a % k \in 0 .. k - 1 /\ a = k * (a \div k) + (a % k)
    OBVIOUS
  <2> QED
    BY <2>1
<1>2. d > q => k * d >= k * (q + 1)
  OBVIOUS
<1>3. d <= q => k * d <= k * q
  OBVIOUS
<1>4. k * (q + 1) = k * q + k
  OBVIOUS
<1> QED
  BY <1>1, <1>2, <1>3, <1>4

\* An int keeps a number that it can hold.
LEMMA WrapFits ==
  ASSUME NEW x \in 0 .. MaxInt
  PROVE  Wrap(x) = x
BY TensorSizeAssumption DEF Wrap

\* The loop has the exact product as long as an int can hold it, and from
\* then on an error: with dimensions of at least 1 no later product is smaller.
LEMMA CountsExact ==
  ASSUME NEW s \in Seq(Int), ~Negative(s), ~Empty(s)
  PROVE  \A k \in 0 .. Len(s) :
           /\ Products(s)[k] \in Nat \ {0}
           /\ Counts(s)[k] = IF Products(s)[k] <= MaxInt THEN Products(s)[k] ELSE Bad
<1> DEFINE P == Products(s)
           C == Counts(s)
           Exact(k) == P[k] \in Nat \ {0} /\ C[k] = IF P[k] <= MaxInt THEN P[k] ELSE Bad
           S == {m \in Nat : m <= Len(s) => Exact(m)}
<1>1. /\ P = [k \in 0 .. Len(s) |-> IF k = 0 THEN 1 ELSE P[k - 1] * s[k]]
      /\ C = [k \in 0 .. Len(s) |-> IF k = 0 THEN 1 ELSE Times(C[k - 1], s[k])]
  BY ProductsEquation, CountsEquation
<1> HIDE DEF P, C
<1>2. 0 \in S
  BY <1>1, TensorSizeAssumption
<1>3. ASSUME NEW m \in Nat, m \in S PROVE m + 1 \in S
  <2>1. SUFFICES ASSUME m + 1 <= Len(s) PROVE Exact(m + 1)
    OBVIOUS
  <2>2. PICK d \in Nat \ {0} : d = s[m + 1]
    BY <2>1 DEF Negative, Empty
  <2>3. PICK p \in Nat \ {0} : p = P[m] /\ C[m] = IF p <= MaxInt THEN p ELSE Bad
    BY <1>3, <2>1
  <2>4. P[m + 1] = p * d /\ C[m + 1] = Times(C[m], d)
    BY <1>1, <2>1, <2>2, <2>3
  <2>5. p * d \in Nat \ {0} /\ p * d >= p
    OBVIOUS
  <2>6. CASE p > MaxInt
    BY <2>3, <2>4, <2>5, <2>6, TensorSizeAssumption DEF Times
  <2>7. CASE p <= MaxInt
    <3>1. d > MaxInt \div p <=> p * d > MaxInt
      BY QuotientBound, TensorSizeAssumption
    <3>2. C[m + 1] = IF p * d > MaxInt THEN Bad ELSE Wrap(p * d)
      BY <2>3, <2>4, <2>7, <3>1 DEF Times, Bad
    <3>3. p * d <= MaxInt => Wrap(p * d) = p * d
      BY <2>5, WrapFits
    <3>4. C[m + 1] = IF p * d <= MaxInt THEN p * d ELSE Bad
      BY <2>5, <3>2, <3>3, TensorSizeAssumption
    <3> QED
      BY <2>4, <2>5, <3>4
  <2> QED
    BY <2>6, <2>7, TensorSizeAssumption
<1>4. Nat \subseteq S
  <2> HIDE DEF S
  <2> QED
    BY <1>2, <1>3, Induction
<1> QED
  BY <1>4 DEF P, C

\* What tensorSize returns, for all shapes and widths.
Fits(s, width) ==
  /\ width > 0 /\ \A k \in DOMAIN s : s[k] >= 0
  /\ Elements(s) * width <= MaxInt

LEMMA TensorSizeExact ==
  ASSUME NEW s \in Seq(Int), NEW width \in Nat
  PROVE  /\ tensorSize(s, width) = IF Fits(s, width) THEN Elements(s) ELSE Bad
         /\ Fits(s, width) => Elements(s) \in Nat /\ Elements(s) * width \in 0 .. MaxInt
<1>1. MaxInt \in Nat \ {0} /\ Bad = -1
  BY TensorSizeAssumption DEF Bad
<1>2. CASE Negative(s) \/ width = 0
  BY <1>2 DEF tensorSize, Fits, Negative
<1>3. CASE ~Negative(s) /\ width # 0 /\ Empty(s)
  <2>1. Elements(s) = 0
    BY <1>3, ProductZero
  <2> QED
    BY <1>1, <1>3, <2>1 DEF tensorSize, Fits, Negative
<1>4. CASE ~Negative(s) /\ width # 0 /\ ~Empty(s)
  <2>1. Len(s) \in 0 .. Len(s)
    OBVIOUS
  <2>2. PICK e \in Nat \ {0} : /\ e = Elements(s)
                               /\ Counts(s)[Len(s)] = IF e <= MaxInt THEN e ELSE Bad
    BY <1>4, <2>1, CountsExact DEF Elements
  <2>3. tensorSize(s, width) = IF Counts(s)[Len(s)] > MaxInt \div width THEN Bad
                               ELSE Counts(s)[Len(s)]
    BY <1>4 DEF tensorSize
  <2>4. Fits(s, width) <=> e * width <= MaxInt
    BY <1>4, <2>2 DEF Fits, Negative
  <2>5. /\ e > MaxInt \div width <=> width * e > MaxInt
        /\ Bad > MaxInt \div width <=> width * Bad > MaxInt
    BY <1>1, <1>4, QuotientBound
  <2>6. width * e = e * width /\ e * width >= e /\ width * Bad <= MaxInt
    BY <1>1, <1>4
  <2> QED
    BY <1>1, <2>2, <2>3, <2>4, <2>5, <2>6
<1> QED
  BY <1>2, <1>3, <1>4

-----------------------------------------------------------------------------
\* Widths of element types.
LEMMA WidthsAgree ==
  /\ \A d \in Nat : size(d) \in Nat
  /\ \A T \in GoTypes : /\ elementType[T] \in 1 .. 16
                        /\ GoWidth(T) = size(elementType[T]) /\ GoWidth(T) \in Nat \ {0}
  /\ \A c \in CTypes : /\ DataType(c) \in 0 .. 255
                       /\ size(DataType(c)) # 0 => size(DataType(c)) = CWidth(c)
<1>1. ASSUME NEW d \in Nat PROVE size(d) \in Nat
  BY DEF size, sizes
<1>2. ASSUME NEW T \in GoTypes
      PROVE  /\ elementType[T] \in 1 .. 16
             /\ GoWidth(T) = size(elementType[T]) /\ GoWidth(T) \in Nat \ {0}
  <2>1. T \in {"float32", "uint8", "int8", "uint16", "int16", "int32", "int64", "bool",
               "Float16", "float64", "uint32", "uint64", "BFloat16"}
    BY DEF GoTypes, elementType
  <2> QED
    BY <2>1 DEF elementType, GoWidth, size, sizes
<1>3. ASSUME NEW c \in CTypes
      PROVE  /\ DataType(c) \in 0 .. 255
             /\ size(DataType(c)) # 0 => size(DataType(c)) = CWidth(c)
  <2>1. c \in 0 .. 26 /\ DataType(c) = c
    BY DEF CTypes, DataType
  <2> QED
    BY <2>1 DEF size, sizes, CWidth
<1> QED
  BY <1>1, <1>2, <1>3

\* Storage in units of 8 bytes is enough and wastes less than one.
LEMMA WordsRoundUp ==
  ASSUME NEW nbytes \in Nat
  PROVE  8 * Words(nbytes) \in nbytes .. nbytes + 7
BY DEF Words, Least

\* The record that a tensor is.
LEMMA TensorType ==
  ASSUME NEW m \in Nat, NEW d \in 0 .. 255, NEW null \in BOOLEAN
  PROVE  [length |-> m, dtype |-> d, null |-> null]
           \in [length : Nat, dtype : 0 .. 255, null : BOOLEAN]
OBVIOUS

LEMMA ZeroType ==
  /\ Zero \in [length : Nat, dtype : 0 .. 255, null : BOOLEAN]
  /\ Zero.length = 0 /\ Zero.dtype = 0 /\ size(Zero.dtype) = 0
<1>1. TRUE \in BOOLEAN /\ 0 \in Nat /\ 0 \in 0 .. 255
  OBVIOUS
<1>2. Zero \in [length : Nat, dtype : 0 .. 255, null : BOOLEAN]
  BY <1>1, TensorType DEF Zero
<1>3. size(0) = 0
  BY DEF size, sizes
<1> QED
  BY <1>2, <1>3 DEF Zero

\* There is no tensor until a call has made it, and it lies in its memory.
Fresh == /\ err => tensor = Zero
         /\ ~made => err /\ view = 0
Bytes == tensor.length * size(tensor.dtype)
Backed == Bytes <= room /\ (tensor.null => Bytes = 0)

Inv == TypeOK /\ Fresh /\ Backed /\ SizeExact /\ CopyFits /\ ViewsFit

LEMMA InitInv == Init => Inv
<1> SUFFICES ASSUME Init PROVE Inv
  OBVIOUS
<1>1. TypeOK
  <2>1. /\ made = FALSE /\ err = TRUE /\ shape = <<>> /\ gotype = None /\ ctype = 0 /\ n = -1
        /\ tensor = Zero /\ room = 0 /\ given = 0 /\ view = 0 /\ passed = "none"
    BY DEF Init, Bad
  <2>2. made \in BOOLEAN /\ err \in BOOLEAN
    BY <2>1
  <2>3. /\ shape \in Seq(Int) /\ gotype \in GoTypes \cup {None} /\ ctype \in CTypes /\ n \in Int
        /\ {room, given, view} \subseteq Nat
    BY <2>1 DEF CTypes
  <2> QED
    BY <2>1, <2>2, <2>3, ZeroType DEF TypeOK
<1>2. Fresh /\ Backed
  BY ZeroType DEF Init, Fresh, Backed, Bytes
<1>3. SizeExact /\ CopyFits /\ ViewsFit
  BY DEF Init, SizeExact, CopyFits, ViewsFit
<1> QED
  BY <1>1, <1>2, <1>3 DEF Inv

LEMMA ShapesAreSequences == Shapes \subseteq Seq(Int)
<1>1. ASSUME NEW s \in Shapes PROVE s \in Seq(Int)
  <2>1. PICK k \in 0 .. MaxRank : s \in [1 .. k -> Dims]
    BY DEF Shapes
  <2>2. k \in Nat /\ Dims \subseteq Int
    BY <2>1, TensorSizeAssumption
  <2>3. s \in [1 .. k -> Int]
    BY <2>1, <2>2
  <2> QED
    BY <2>2, <2>3
<1> QED
  BY <1>1

LEMMA NewTensorInv ==
  ASSUME Inv, ~made, NEW s \in Shapes, NEW T \in GoTypes, NewTensor(T, s)
  PROVE  Inv'
<1>1. s \in Seq(Int)
  BY ShapesAreSequences
<1>2. PICK w \in Nat \ {0} : /\ w = GoWidth(T) /\ w = size(elementType[T])
                             /\ elementType[T] \in 1 .. 16
  BY WidthsAgree
<1>3. PICK m \in Int : /\ m = tensorSize(s, w) /\ m = IF Fits(s, w) THEN Elements(s) ELSE Bad
                       /\ m # Bad => m \in Nat
  BY <1>1, TensorSizeExact DEF Bad
<1>4. PICK len \in {0, 1, m, m + 1} \ {Bad} :
        /\ err' \in BOOLEAN /\ (~err' => m # Bad /\ len = m) /\ room' = len * w
  BY <1>2, <1>3 DEF NewTensor
<1>5. PICK null \in BOOLEAN :
        /\ null => room' = 0
        /\ tensor' = IF err' THEN Zero
                     ELSE [length |-> m, dtype |-> elementType[T], null |-> null]
  BY <1>2, <1>3 DEF NewTensor
<1>6. /\ made' = TRUE /\ shape' = s /\ gotype' = T /\ gotype' # None /\ ctype' = 0 /\ n' = m
      /\ given' = 0 /\ view' = 0 /\ passed' = passed
  BY <1>2, <1>3 DEF NewTensor, Inv, Fresh, GoTypes, elementType, None
<1>7. len \in Nat /\ room' \in Nat
  BY <1>3, <1>4, <1>2 DEF Bad
<1>8. TypeOK'
  <2>1. tensor' \in [length : Nat, dtype : 0 .. 255, null : BOOLEAN]
    <3>1. CASE err'
      BY <1>5, <3>1, ZeroType
    <3>2. CASE ~err'
      <4>1. m \in Nat /\ elementType[T] \in 0 .. 255
        BY <1>2, <1>3, <1>4, <3>2
      <4> QED
        BY <1>5, <3>2, <4>1, TensorType
    <3> QED
      BY <3>1, <3>2
  <2> QED
    BY <1>1, <1>4, <1>6, <1>7, <2>1 DEF Inv, TypeOK, CTypes
<1>9. Fresh'
  BY <1>5, <1>6 DEF Fresh
<1>10. Backed'
  <2>1. CASE err'
    BY <1>5, <1>7, <2>1, ZeroType DEF Backed, Bytes
  <2>2. CASE ~err'
    <3>1. len = m /\ Bytes' = len * w
      BY <1>2, <1>4, <1>5, <2>2 DEF Bytes
    <3>2. tensor'.null = null
      BY <1>5, <2>2
    <3> QED
      BY <1>4, <1>5, <1>7, <3>1, <3>2 DEF Backed
  <2> QED
    BY <1>4, <2>1, <2>2
<1>11. SizeExact'
  <2>1. Width' = w
    BY <1>2, <1>6 DEF Width
  <2> QED
    BY <1>3, <1>6, <2>1 DEF SizeExact, Fits
<1>12. CopyFits'
  BY <1>6 DEF CopyFits
<1>13. ViewsFit'
  BY <1>6, <1>7 DEF Inv, ViewsFit
<1> QED
  BY <1>8, <1>9, <1>10, <1>11, <1>12, <1>13 DEF Inv

LEMMA CopyOutputInv ==
  ASSUME Inv, ~made, NEW s \in Shapes, NEW c \in CTypes, CopyOutput(c, s)
  PROVE  Inv'
<1>1. s \in Seq(Int)
  BY ShapesAreSequences
<1>2. PICK d \in 0 .. 255, w \in Nat :
        /\ d = DataType(c) /\ w = size(d) /\ (w # 0 => w = CWidth(c))
  <2>1. DataType(c) \in 0 .. 255 /\ DataType(c) \in Nat
    BY WidthsAgree
  <2>2. size(DataType(c)) \in Nat
    BY <2>1, WidthsAgree
  <2> QED
    BY <2>1, <2>2, WidthsAgree
<1>3. PICK m \in Int : /\ m = tensorSize(s, w) /\ m = IF Fits(s, w) THEN Elements(s) ELSE Bad
                       /\ m # Bad => m \in Nat /\ w # 0 /\ m * w \in 0 .. MaxInt
  BY <1>1, <1>2, TensorSizeExact DEF Bad, Fits
<1>4. PICK bytes \in {0, 1, Wrap(m * w)}, null \in BOOLEAN :
        /\ bytes >= 0 /\ given' = IF null THEN 0 ELSE bytes
        /\ err' = (m = Bad \/ Wrap(m * w) # bytes \/ (Wrap(m * w) # 0 /\ null))
  BY <1>2, <1>3 DEF CopyOutput
<1>5. /\ made' = TRUE /\ shape' = s /\ gotype' = None /\ ctype' = c /\ n' = m
      /\ tensor' = IF err' THEN Zero ELSE [length |-> m, dtype |-> d, null |-> FALSE]
      /\ room' = IF err' THEN 0 ELSE 8 * Words(Wrap(m * w))
      /\ view' = view /\ passed' = passed /\ view = 0
  BY <1>2, <1>3 DEF CopyOutput, Inv, Fresh
<1>6. err' \in BOOLEAN /\ given' \in Nat
  <2>1. MaxInt \in Nat /\ m * w \in Int
    BY <1>2, <1>3, TensorSizeAssumption
  <2>2. Wrap(m * w) \in Int
    BY <2>1 DEF Wrap
  <2> QED
    BY <1>4, <2>2
\* A copy that succeeds has as many bytes as ORT says.
<1>7. ASSUME ~err'
      PROVE  /\ m \in Nat /\ w # 0 /\ tensor' = [length |-> m, dtype |-> d, null |-> FALSE]
             /\ given' = m * w /\ m * w \in Nat /\ room' \in m * w .. m * w + 7
  <2>1. m # Bad /\ m * w \in 0 .. MaxInt
    BY <1>3, <1>4, <1>7
  <2>2. Wrap(m * w) = m * w
    BY <2>1, WrapFits
  <2>3. given' = m * w
    BY <1>4, <1>7, <2>2
  <2>4. room' \in m * w .. m * w + 7
    BY <1>5, <1>7, <2>1, <2>2, WordsRoundUp
  <2> QED
    BY <1>3, <1>5, <1>7, <2>1, <2>3, <2>4
<1>8. ASSUME err' PROVE tensor' = Zero /\ room' = 0
  BY <1>5, <1>8
<1>9. TypeOK'
  <2>1. tensor' \in [length : Nat, dtype : 0 .. 255, null : BOOLEAN]
    <3>1. CASE err'
      BY <1>8, <3>1, ZeroType
    <3>2. CASE ~err'
      <4>1. FALSE \in BOOLEAN
        OBVIOUS
      <4>2. m \in Nat /\ tensor' = [length |-> m, dtype |-> d, null |-> FALSE]
        BY <1>7, <3>2
      <4>3. [length |-> m, dtype |-> d, null |-> FALSE]
              \in [length : Nat, dtype : 0 .. 255, null : BOOLEAN]
        BY <4>1, <4>2, TensorType
      <4> QED
        BY <4>2, <4>3
    <3> QED
      BY <3>1, <3>2
  <2>2. room' \in Nat
    BY <1>6, <1>7, <1>8
  <2> QED
    BY <1>1, <1>5, <1>6, <2>1, <2>2 DEF Inv, TypeOK
<1>10. Fresh'
  BY <1>5 DEF Fresh
<1>11. Backed'
  <2>1. CASE err'
    BY <1>8, <2>1, ZeroType DEF Backed, Bytes
  <2>2. CASE ~err'
    BY <1>2, <1>7, <2>2 DEF Backed, Bytes
  <2> QED
    BY <1>6, <2>1, <2>2
<1>12. SizeExact'
  <2>1. Width' = w
    BY <1>2, <1>5 DEF Width
  <2> QED
    BY <1>3, <1>5, <2>1 DEF SizeExact, Fits
<1>13. CopyFits'
  BY <1>2, <1>5, <1>7 DEF CopyFits
<1>14. ViewsFit'
  BY <1>5, <1>7, <1>8 DEF Inv, ViewsFit
<1> QED
  BY <1>9, <1>10, <1>11, <1>12, <1>13, <1>14 DEF Inv

\* A tensor that a view matches has been made, so that the view is its length.
LEMMA DataInv ==
  ASSUME Inv, NEW T \in GoTypes, Data(T)
  PROVE  Inv'
<1>1. /\ UNCHANGED <<made, shape, gotype, ctype, n, err, tensor, room, given, passed>>
      /\ view' = tensor.length * GoWidth(T) /\ tensor.dtype = elementType[T]
  BY DEF Data, Matches
<1>2. GoWidth(T) = size(tensor.dtype) /\ GoWidth(T) \in Nat /\ tensor.dtype # 0
  BY <1>1, WidthsAgree
<1>3. tensor # Zero /\ made
  BY <1>2, ZeroType DEF Inv, Fresh
<1>4. view' \in Nat /\ view' <= room
  BY <1>1, <1>2 DEF Inv, TypeOK, Backed, Bytes
<1>5. TypeOK'
  BY <1>1, <1>4 DEF Inv, TypeOK
<1>6. Fresh' /\ Backed'
  BY <1>1, <1>3 DEF Inv, Fresh, Backed, Bytes
<1>7. SizeExact' /\ CopyFits'
  BY <1>1 DEF Inv, SizeExact, CopyFits, Width
<1>8. ViewsFit'
  BY <1>1, <1>4 DEF Inv, ViewsFit
<1> QED
  BY <1>5, <1>6, <1>7, <1>8 DEF Inv

\* A tensor without an address has no bytes, and then the bridge has one.
LEMMA DescribeInv ==
  ASSUME Inv, Describe
  PROVE  Inv'
<1>1. /\ UNCHANGED <<made, shape, gotype, ctype, n, err, tensor, room, given, view>>
      /\ passed' = Address
  BY DEF Describe
<1>2. Address \in {"empty", "data"}
  BY DEF Inv, Backed, Bytes, Address
<1>3. TypeOK'
  BY <1>1, <1>2 DEF Inv, TypeOK
<1>4. Fresh' /\ Backed'
  BY <1>1 DEF Inv, Fresh, Backed, Bytes
<1>5. SizeExact' /\ CopyFits'
  BY <1>1 DEF Inv, SizeExact, CopyFits, Width
<1>6. ViewsFit'
  BY <1>1, <1>2 DEF Inv, ViewsFit
<1> QED
  BY <1>3, <1>4, <1>5, <1>6 DEF Inv

LEMMA NextInv == Inv /\ [Next]_vars => Inv'
<1> SUFFICES ASSUME Inv, [Next]_vars PROVE Inv'
  OBVIOUS
<1>1. ASSUME ~made, NEW s \in Shapes, NEW T \in GoTypes, NewTensor(T, s) PROVE Inv'
  BY <1>1, NewTensorInv
<1>2. ASSUME ~made, NEW s \in Shapes, NEW c \in CTypes, CopyOutput(c, s) PROVE Inv'
  BY <1>2, CopyOutputInv
<1>3. ASSUME NEW T \in GoTypes, Data(T) PROVE Inv'
  BY <1>3, DataInv
<1>4. CASE Describe
  BY <1>4, DescribeInv
<1>5. CASE UNCHANGED vars
  BY <1>5 DEF vars, Inv, TypeOK, Fresh, Backed, Bytes, SizeExact, CopyFits, ViewsFit,
              Width
<1> QED
  BY <1>1, <1>2, <1>3, <1>4, <1>5 DEF Next

\* Nothing that is made, viewed or described breaks the invariant.
THEOREM Invariance == Spec => []Inv
<1> QED
  BY InitInv, NextInv, PTL DEF Spec

\* The variables keep their types, for an int of any width and any dimensions.
THEOREM TypeCorrect == Spec => []TypeOK
BY Invariance, PTL DEF Inv

\* tensorSize never returns a wrapped number of elements, and no error for a
\* shape whose tensor an int can measure.
THEOREM SizesExact == Spec => []SizeExact
BY Invariance, PTL DEF Inv

\* Session.run copies an output completely and into storage that holds it, and
\* no C type becomes a DataType of another width.
THEOREM CopiesFit == Spec => []CopyFits
BY Invariance, PTL DEF Inv

\* Views and addresses handed to ORT stay in the tensor's memory.
THEOREM ViewsInside == Spec => []ViewsFit
BY Invariance, PTL DEF Inv
=============================================================================
