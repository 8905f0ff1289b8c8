------------------------------ MODULE TensorSize -----------------------------
(***************************************************************************)
(* Element types and sizes of tensor.go, on a machine whose int is small:  *)
(* tensors made from Go data by NewTensor or copied from native outputs by *)
(* Session.run, and the views that Data gives of them.  Contents are left  *)
(* out; the state is the call that makes one tensor, which never changes   *)
(* afterwards, and the last view of it.                                    *)
(*                                                                         *)
(* Names such as Times_Unchecked are faulty variants of the definition     *)
(* after them and not part of the model.                                   *)
(***************************************************************************)
EXTENDS Integers, Sequences

CONSTANTS
  MaxInt,  \* math.MaxInt
  Dims,    \* dimensions in a shape: int64 values
  MaxRank  \* bound on the length of a shape

ASSUME TensorSizeAssumption ==
  MaxInt \in Nat \ {0} /\ Dims \subseteq Int /\ MaxRank \in Nat

VARIABLES
  made,    \* the call has been
  shape,   \* the shape the tensor was asked for
  gotype,  \* the element type of a slice, or None for a native output
  ctype,   \* the element type of a native output
  n,       \* what tensorSize returned
  err,     \* no tensor was made
  tensor,  \* length and dtype of the tensor, and whether its data is nil
  room,    \* the bytes of Go memory it has
  given,   \* the bytes of native memory an output was copied from
  view,    \* the bytes the last view covers
  passed   \* the address native code last got for the tensor

vars == <<made, shape, gotype, ctype, n, err, tensor, room, given, view, passed>>

\* The value of an int that holds x, of two's complement.
Wrap(x) == ((x + MaxInt + 1) % (2 * (MaxInt + 1))) - (MaxInt + 1)
Least(a, b) == IF a < b THEN a ELSE b

\* DataType.size, by type; 0 is no supported type.
sizes == [d \in 0 .. 16 |->
  CASE d \in {2, 3, 9} -> 1
    [] d \in {4, 5, 10, 16} -> 2
    [] d \in {1, 6, 12} -> 4
    [] d \in {7, 11, 13} -> 8
    [] OTHER -> 0]
size(d) == IF d \in DOMAIN sizes THEN sizes[d] ELSE 0

\* The Go element types, the DataType elementType gives them and their width.
\* A named type is what its kind is, except Float16 and BFloat16.
elementType ==
  [float32 |-> 1, uint8 |-> 2, int8 |-> 3, uint16 |-> 4, int16 |-> 5, int32 |-> 6,
   int64 |-> 7, bool |-> 9, Float16 |-> 10, float64 |-> 11, uint32 |-> 12,
   uint64 |-> 13, BFloat16 |-> 16]
GoTypes == DOMAIN elementType
None == "none"
GoWidth(T) == CASE T \in {"uint8", "int8", "bool"} -> 1
                [] T \in {"uint16", "int16", "Float16", "BFloat16"} -> 2
                [] T \in {"float32", "int32", "uint32"} -> 4
                [] T \in {"float64", "int64", "uint64"} -> 8

\* The bytes of an element of a C type, 0 if it has no fixed size or several
\* share a byte.
CTypes == 0 .. 26
CWidth(c) == CASE c \in {2, 3, 9} \cup 17 .. 20 \cup {26} -> 1
               [] c \in {4, 5, 10, 16} -> 2
               [] c \in {1, 6, 12} -> 4
               [] c \in {7, 11, 13, 14} -> 8
               [] c = 15 -> 16
               [] OTHER -> 0
\* The conversion of a C type to a DataType, a uint8.
DataType(c) == c % 256

-----------------------------------------------------------------------------
\* tensorSize: the number of elements, or Bad.
Bad == -1
Times_Unchecked(k, d) == Wrap(k * d)
Times(k, d) == IF k = Bad \/ d > MaxInt \div k THEN Bad ELSE Wrap(k * d)
Negative(s) == \E k \in DOMAIN s : s[k] < 0
Empty(s) == \E k \in DOMAIN s : s[k] = 0
\* The count after each dimension.
Counts(s) ==
  LET count[k \in 0 .. Len(s)] == IF k = 0 THEN 1 ELSE Times(count[k - 1], s[k])
  IN  count
tensorSize(s, width) ==
  LET count == Counts(s)[Len(s)] IN
  IF Negative(s) \/ width = 0 THEN Bad
  ELSE IF Empty(s) THEN 0
  ELSE IF count > MaxInt \div width THEN Bad ELSE count

Zero == [length |-> 0, dtype |-> 0, null |-> TRUE]

TypeOK ==
  /\ made \in BOOLEAN /\ err \in BOOLEAN
  /\ shape \in Seq(Int) /\ gotype \in GoTypes \cup {None} /\ ctype \in CTypes /\ n \in Int
  /\ tensor \in [length : Nat, dtype : 0 .. 255, null : BOOLEAN]
  /\ {room, given, view} \subseteq Nat
  /\ passed \in {"none", "empty", "nil", "data"}

Init ==
  /\ made = FALSE /\ shape = <<>> /\ gotype = None /\ ctype = 0 /\ n = Bad /\ err = TRUE
  /\ tensor = Zero /\ room = 0 /\ given = 0 /\ view = 0 /\ passed = "none"

Shapes == UNION {[1 .. k -> Dims] : k \in 0 .. MaxRank}

\* NewTensor with a slice of the right length or of another one; only an empty
\* slice may be nil.
NewTensor(T, s) ==
  LET m == tensorSize(s, size(elementType[T])) IN
  /\ made' = TRUE
  /\ shape' = s /\ gotype' = T /\ ctype' = 0 /\ n' = m
  /\ \E len \in {0, 1, m, m + 1} \ {Bad} :
       /\ len * GoWidth(T) <= MaxInt
       /\ err' = (m = Bad \/ len # m)
       /\ room' = len * GoWidth(T)
  /\ \E null \in BOOLEAN :
       /\ null => room' = 0
       /\ tensor' = IF err' THEN Zero
                    ELSE [length |-> m, dtype |-> elementType[T], null |-> null]
  /\ given' = 0 /\ UNCHANGED <<view, passed>>

\* The storage for nbytes, in units of a uint64.
Words_Floor(nbytes) == nbytes \div 8
Words(nbytes) == nbytes \div 8 + Least(nbytes % 8, 1)

\* Session.run copies an output that ORT says has the type c, the shape s,
\* and the given bytes at an address that may be nil.
CopyOutput(c, s) ==
  LET d == DataType(c)
      m == tensorSize(s, size(d))
      nbytes == Wrap(m * size(d)) IN
  /\ made' = TRUE
  /\ shape' = s /\ gotype' = None /\ ctype' = c /\ n' = m
  /\ \E bytes \in {0, 1, nbytes}, null \in BOOLEAN :
       /\ bytes >= 0 /\ given' = IF null THEN 0 ELSE bytes
       /\ err' = (m = Bad \/ nbytes # bytes \/ (nbytes # 0 /\ null))
  /\ tensor' = IF err' THEN Zero ELSE [length |-> m, dtype |-> d, null |-> FALSE]
  /\ room' = IF err' THEN 0 ELSE 8 * Words(nbytes)
  /\ UNCHANGED <<view, passed>>

\* Data gives a view only of the type the tensor was made with.
Matches_Any(T) == TRUE
Matches(T) == tensor.dtype = elementType[T]
Data(T) ==
  /\ Matches(T)
  /\ view' = tensor.length * GoWidth(T)
  /\ UNCHANGED <<made, shape, gotype, ctype, n, err, tensor, room, given, passed>>

\* Session.run describes the tensor, unless it has no type, and the bridge
\* hands it to ORT.
Address ==
  CASE tensor.length * size(tensor.dtype) = 0 -> "empty"
    [] tensor.length * size(tensor.dtype) # 0 /\ tensor.null -> "nil"
    [] OTHER -> "data"
Describe ==
  /\ size(tensor.dtype) # 0
  /\ passed' = Address
  /\ UNCHANGED <<made, shape, gotype, ctype, n, err, tensor, room, given, view>>

Next ==
  \/ ~made /\ \E s \in Shapes :
       \/ \E T \in GoTypes : NewTensor(T, s)
       \/ \E c \in CTypes : CopyOutput(c, s)
  \/ \E T \in GoTypes : Data(T)
  \/ Describe

Spec == Init /\ [][Next]_vars
-----------------------------------------------------------------------------
Products(s) ==
  LET product[k \in 0 .. Len(s)] == IF k = 0 THEN 1 ELSE product[k - 1] * s[k]
  IN  product
Elements(s) == Products(s)[Len(s)]
Width == IF gotype # None THEN GoWidth(gotype) ELSE size(DataType(ctype))

\* tensorSize is the product of the dimensions, computed without wrapping,
\* whenever a tensor of that many elements has a size that an int can hold;
\* a zero excuses an overflow elsewhere but not a negative dimension.
SizeExact ==
  made =>
    LET fits == Width > 0 /\ (\A k \in DOMAIN shape : shape[k] >= 0)
                /\ Elements(shape) * Width <= MaxInt
    IN n = IF fits THEN Elements(shape) ELSE Bad

\* The elements of a copied output are as wide for Go as they are for ORT.  It
\* fits the storage made for it, is all of the native memory, which is not read
\* if it is nil, and wastes less than a word.
CopyFits ==
  (gotype = None /\ ~err) =>
    LET nbytes == tensor.length * CWidth(ctype)
    IN /\ size(tensor.dtype) = CWidth(ctype)
       /\ nbytes = given /\ nbytes <= room /\ room < nbytes + 8

\* What is handed out of a tensor is its own memory: no view reaches beyond it,
\* and ORT, which requires an address even for a tensor without elements, gets the
\* tensor's or the bridge's, never a nil.
ViewsFit == view <= room /\ passed # "nil"
=============================================================================
