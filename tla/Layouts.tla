------------------------------ MODULE Layouts -------------------------------
(***************************************************************************)
(* The arithmetic that finds the elements of a table in a buffer: shapes,  *)
(* strides and offsets, the check that a layout stays in its buffer, the   *)
(* reads through it (pkg/manifest/stubs.go), and the import and export of  *)
(* Arrow C arrays (pkg/arrow/cdata_types.go).  All of it is pure: there    *)
(* are no variables here.                                                  *)
(*                                                                         *)
(* A buffer holds items, each of elem bytes, and positions in it are       *)
(* byte positions as in the code.  The int64 of the code reaches from      *)
(* -MaxInt - 1 to MaxInt and wraps.                                        *)
(***************************************************************************)
EXTENDS Integers, Sequences, FiniteSets

CONSTANTS
  MaxInt,     \* the largest int64
  Failed,     \* no product: the shape is negative or has too many elements
  Null,       \* the element whose validity bit is clear
  Stray,      \* what lies in memory behind or between the elements
  Ranks, Dims, StrideBytes, Offsets, Counts, Widths,  \* the layouts checked
  MaxItems, MaxNulls                                  \* the C arrays checked

Int64 == (-MaxInt - 1)..MaxInt

ASSUME WidthAssumption == MaxInt \in Nat \ {0}

ASSUME LayoutAssumption ==
  /\ Failed \notin Int
  /\ Ranks \subseteq Nat \ {0} /\ Counts \subseteq Nat /\ Widths \subseteq 1..MaxInt
  /\ Dims \subseteq Int64 /\ StrideBytes \subseteq Int64 /\ Offsets \subseteq Int64
  /\ MaxItems \in Nat /\ MaxNulls \in Nat
  /\ \A elem \in Widths : /\ MaxItems * elem <= MaxInt
                          /\ \A count \in Counts : count * elem <= MaxInt

Wrap(n) == ((n + MaxInt + 1) % (2 * (MaxInt + 1))) - (MaxInt + 1)

\* The sums of the first terms, of none, one, two and so on.
Sums(terms) ==
  LET sum[i \in 0..Len(terms)] == IF i = 0 THEN 0 ELSE sum[i - 1] + terms[i]
  IN  sum

-----------------------------------------------------------------------------
(* Shapes and strides. *)

\* The loop ends at a dimension that is not positive.
Times(product, dim) ==
  CASE product \in {Failed, 0} -> product
    [] product \notin {Failed, 0} /\ dim < 0 -> Failed
    [] product \notin {Failed, 0} /\ dim = 0 -> 0
    [] OTHER -> IF product > MaxInt \div dim THEN Failed ELSE product * dim

\* The products of the first dimensions; the code has this loop three times.
Products(shape) ==
  LET product[i \in 0..Len(shape)] ==
        IF i = 0 THEN 1 ELSE Times(product[i - 1], shape[i])
  IN  product

\* The number of elements.
ShapeProduct(shape) == Products(shape)[Len(shape)]

(* A mutant: the rows of rows are as far apart as the rows. *)
StridesOfRows(shape, elem) ==
  [i \in DOMAIN shape |-> IF i = Len(shape) THEN elem ELSE elem * shape[i + 1]]

\* A capture keeps the last stride that fits, a table lets it wrap.
ContiguousStrides(shape, elem) ==
  LET stride[i \in DOMAIN shape] ==
        IF i = Len(shape) THEN elem
        ELSE IF stride[i + 1] * shape[i + 1] > MaxInt THEN stride[i + 1]
        ELSE stride[i + 1] * shape[i + 1]
  IN  stride

DefaultStrides(shape, elem) ==
  LET stride[i \in DOMAIN shape] ==
        IF i = Len(shape) THEN elem ELSE Wrap(stride[i + 1] * shape[i + 1])
  IN  stride

\* How far the first dimensions reach forward and backward.
Up(shape, strides) ==
  Sums([i \in DOMAIN shape |-> IF strides[i] > 0 THEN (shape[i] - 1) * strides[i] ELSE 0])
Down(shape, strides) ==
  Sums([i \in DOMAIN shape |-> IF strides[i] < 0 THEN (shape[i] - 1) * strides[i] ELSE 0])

(* A mutant: strides that go backwards count for nothing. *)
StridedBoundsForward(shape, strides, elem) ==
  LET max == elem + Up(shape, strides)[Len(shape)]
  IN  IF \E i \in DOMAIN shape : shape[i] = 0 THEN [ok |-> TRUE, min |-> 0, max |-> 0]
      ELSE [ok |-> max <= MaxInt /\ \A i \in DOMAIN shape : strides[i] # 0, min |-> 0, max |-> max]

\* The bytes [min, max) around the origin that the elements occupy.  The
\* dimensions are added up one by one, and each sum is tested before it is
\* made; the tests divide, and a division of int64 rounds towards 0.  Shapes
\* without a product are refused first: a negative dimension comes behind a 0.
StridedBounds(shape, strides, elem) ==
  LET steps(i) == shape[i] - 1
      max(i) == elem + Up(shape, strides)[i]
      min(i) == Down(shape, strides)[i]
      n == Len(shape)
  IN  IF \E i \in DOMAIN shape : shape[i] = 0 THEN [ok |-> TRUE, min |-> 0, max |-> 0]
      ELSE [min |-> min(n), max |-> max(n),
            ok |-> /\ \A i \in DOMAIN shape :
                        /\ strides[i] # 0
                        /\ steps(i) > 0 /\ strides[i] > 0 =>
                             strides[i] <= (MaxInt - max(i - 1)) \div steps(i)
                        /\ steps(i) > 0 /\ strides[i] < 0 =>
                             /\ strides[i] >= -((MaxInt + 1) \div steps(i))
                             /\ min(i - 1) >= -MaxInt - 1 - steps(i) * strides[i]
                   /\ min(n) <= max(n)]

\* What SetWithMetadata and its relatives demand of a buffer's metadata.
ValidMetadata(meta) ==
  /\ meta.offset >= 0
  /\ meta.strides # <<>> => Len(meta.strides) = Len(meta.shape)
  /\ \A i \in DOMAIN meta.shape : meta.shape[i] >= 0
  /\ ShapeProduct(meta.shape) # Failed

-----------------------------------------------------------------------------
(* The layout of a table: ref is the metadata of the handle, which goes    *)
(* before the metadata of the buffer in all but the offset, which is only  *)
(* the handle's.                                                           *)

ByteLen(buf) == Len(buf.items) * buf.elem

Within(buf, low, high) == low >= 0 /\ high <= ByteLen(buf)

TableShape(buf, ref) == IF Len(ref.shape) > 0 THEN ref.shape ELSE buf.meta.shape
TableStrides(buf, ref) == IF Len(ref.strides) > 0 THEN ref.strides ELSE buf.meta.strides

\* Any other layout is an error.
Accepted(buf, ref) ==
  LET shape == TableShape(buf, ref)
      strides == TableStrides(buf, ref)
      total == ShapeProduct(shape)
      bounds == StridedBounds(shape, strides, buf.elem)
      strided == /\ Len(strides) = Len(shape)
                 /\ bounds.ok
                 /\ Within(buf, Wrap(ref.offset + bounds.min), Wrap(ref.offset + bounds.max))
      dense == Within(buf, ref.offset, Wrap(ref.offset + Wrap(total * buf.elem)))
  IN  Len(shape) > 0 => total # Failed /\ IF Len(strides) > 0 THEN strided ELSE dense

LogicalLayout(buf, ref) ==
  LET shape == TableShape(buf, ref)
      strides == TableStrides(buf, ref)
  IN  IF Len(shape) = 0
      THEN [length |-> Len(buf.items), shape |-> <<>>, strides |-> <<buf.elem>>, offset |-> ref.offset]
      ELSE [length |-> shape[1], shape |-> shape, offset |-> ref.offset,
            strides |-> IF Len(strides) > 0 THEN strides ELSE DefaultStrides(shape, buf.elem)]

-----------------------------------------------------------------------------
(* The reads.  What is looked up is a value, missing or an error.          *)

Value(value) == [kind |-> "value", value |-> value]
Missing == [kind |-> "missing"]
Error == [kind |-> "error"]

ValueAtByteOffset(buf, offset) ==
  IF offset < 0 \/ offset > ByteLen(buf) - buf.elem THEN Missing
  ELSE IF offset % buf.elem # 0 THEN Value(Stray)
  ELSE Value(buf.items[offset \div buf.elem + 1])

\* The rows of dimension d that begin at base, when inner reads each of them.
Rows(layout, d, inner) ==
  [base \in Int |->
     LET row(i) == inner[Wrap(base + (i - 1) * layout.strides[d])]
     IN  IF \E i \in 1..layout.shape[d] : row(i).kind # "value" THEN Missing
         ELSE Value([i \in 1..layout.shape[d] |-> row(i).value])]

\* What lies behind the first d dimensions, from its base on.
SliceAt(buf, layout) ==
  LET slice[d \in 0..Len(layout.shape)] ==
        IF d = Len(layout.shape) THEN [base \in Int |-> ValueAtByteOffset(buf, base)]
        ELSE Rows(layout, d + 1, slice[d + 1])
  IN  slice

\* A bitmap is its length in bytes and the set of its bits that are set.
NullIsKnown(buf, index) ==
  buf.meta.nulls > 0 => (buf.meta.bit + index) \div 8 < buf.valid.bytes

ValueIsNull(buf, index) == buf.meta.nulls > 0 /\ buf.meta.bit + index \notin buf.valid.bits

\* The element of a layout: nulls are looked up in flat tables only.
Element(buf, layout, index) ==
  LET at == Wrap(layout.offset + index * layout.strides[1])
  IN  IF Len(layout.shape) > 1 THEN SliceAt(buf, layout)[1][at]
      ELSE IF ~NullIsKnown(buf, index) THEN Error
      ELSE IF ValueIsNull(buf, index) THEN Value(Null)
      ELSE ValueAtByteOffset(buf, at)

Index(buf, ref, index) ==
  LET layout == LogicalLayout(buf, ref)
  IN  IF ~Accepted(buf, ref) THEN Error
      ELSE IF index < 0 \/ index >= layout.length THEN Missing
      ELSE Element(buf, layout, index)

\* The first element that is missing or an error ends an iteration.
Iter(buf, ref) ==
  LET layout == LogicalLayout(buf, ref)
      Read == [i \in 1..layout.length |-> Element(buf, layout, i - 1)]
      bad == {i \in DOMAIN Read : Read[i].kind # "value"}
  IN  IF ~Accepted(buf, ref) THEN Error
      ELSE IF bad # {} THEN Read[CHOOSE i \in bad : \A j \in bad : i <= j]
      ELSE Value([i \in DOMAIN Read |-> Read[i].value])

-----------------------------------------------------------------------------
(* Arrow C arrays: items in the value buffer, of which length from offset  *)
(* on are the array's.  If it has a bitmap, valid are the bits set there,  *)
(* by element of the value buffer.                                         *)

ValidityByteLen(offset, length, nulls) ==
  IF nulls <= 0 \/ length <= 0 THEN 0 ELSE (offset + length + 7) \div 8

Importable(array) ==
  /\ array.length >= 0 /\ array.offset >= 0 /\ array.nulls >= 0
  /\ array.length <= MaxInt \div array.elem
  /\ array.offset <= MaxInt \div array.elem
  /\ array.nulls > 0 => array.bitmap /\ array.offset <= MaxInt - array.length

ImportCArrowArray(array) ==
  LET bytes == ValidityByteLen(array.offset, array.length, array.nulls)
  IN  [items |-> [i \in 1..array.length |-> array.items[array.offset + i]],
       elem |-> array.elem,
       valid |-> [bytes |-> bytes, bits |-> {bit \in array.valid : bit \div 8 < bytes}],
       meta |-> [shape |-> <<>>, strides |-> <<>>, offset |-> 0,
                 nulls |-> array.nulls, bit |-> array.offset]]

StridesAreContiguous(shape, strides, elem) ==
  /\ Len(strides) = Len(shape)
  /\ \/ 0 \in {shape[i] : i \in DOMAIN shape}
     \/ /\ ShapeProduct(Tail(shape)) <= MaxInt \div elem
        /\ strides = ContiguousStrides(shape, elem)

\* Whether the elements follow each other, and how many there are.
IsPrimitiveView(buf) ==
  LET meta == buf.meta
      length == ShapeProduct(meta.shape)
  IN  /\ meta.offset >= 0 /\ meta.offset % buf.elem = 0 /\ meta.offset <= ByteLen(buf)
      /\ Len(meta.shape) = 0 => Len(meta.strides) = 0
      /\ Len(meta.shape) > 0 =>
           /\ length # Failed
           /\ length * buf.elem <= MaxInt
           /\ length * buf.elem <= ByteLen(buf) - meta.offset
           /\ Len(meta.strides) > 0 => StridesAreContiguous(meta.shape, meta.strides, buf.elem)

PrimitiveLength(buf) ==
  IF Len(buf.meta.shape) = 0 THEN (ByteLen(buf) - buf.meta.offset) \div buf.elem
  ELSE ShapeProduct(buf.meta.shape)

Exportable(buf) == IsPrimitiveView(buf) /\ (buf.meta.nulls > 0 => buf.valid.bytes > 0)

BorrowCArrowArray(buf) ==
  [items |-> buf.items, elem |-> buf.elem, length |-> PrimitiveLength(buf),
   offset |-> buf.meta.offset \div buf.elem, nulls |-> buf.meta.nulls,
   bitmap |-> buf.meta.nulls > 0, valid |-> IF buf.meta.nulls > 0 THEN buf.valid.bits ELSE {}]

-----------------------------------------------------------------------------
(* The properties, each over every input of a bounded kind.                *)

NoValidity == [bytes |-> 0, bits |-> {}]
NoTable == [shape |-> <<>>, strides |-> <<>>, offset |-> 0]

\* A buffer whose items are told apart, with nothing said about them.
Plain(count, elem) ==
  [items |-> [i \in 1..count |-> i], elem |-> elem, valid |-> NoValidity,
   meta |-> [shape |-> <<>>, strides |-> <<>>, offset |-> 0, nulls |-> 0, bit |-> 0]]

\* The places in a table, and where a layout has them; the first indexes of a
\* place make the first sums of it.
Indexes(shape) ==
  {index \in [DOMAIN shape -> UNION {1..shape[i] : i \in DOMAIN shape}] :
     \A i \in DOMAIN shape : index[i] <= shape[i]}

Moves(layout, index) ==
  Sums([i \in DOMAIN layout.shape |-> (index[i] - 1) * layout.strides[i]])

At(layout, index) == layout.offset + Moves(layout, index)[Len(layout.shape)]

\* What index leads to in nested rows.
Pick(rows, index) ==
  LET pick[d \in 0..Len(index)] == IF d = 0 THEN rows ELSE pick[d - 1][index[d]]
  IN  pick[Len(index)]

\* No sum leaves the int64.
SumsStay(buf, ref) ==
  LET layout == LogicalLayout(buf, ref)
      total == ShapeProduct(ref.shape)
  IN  /\ Len(ref.strides) = 0 /\ total # Failed => total * buf.elem <= MaxInt
      /\ \A index \in Indexes(ref.shape) : At(layout, index) \in (-MaxInt - 1)..(MaxInt - buf.elem)

\* All elements lie in the buffer, and no stride is 0.
Fits(buf, ref) ==
  LET layout == LogicalLayout(buf, ref)
  IN  IF Indexes(ref.shape) = {} THEN ref.offset \in 0..ByteLen(buf)
      ELSE /\ \A i \in DOMAIN ref.shape : layout.strides[i] # 0
           /\ \A index \in Indexes(ref.shape) : At(layout, index) \in 0..(ByteLen(buf) - buf.elem)

\* As long as no sum leaves the int64, a shape over a buffer is accepted
\* exactly if its elements can be counted and each of them lies in the buffer,
\* whatever the signs and the order of the strides (a stride of 0 aside, which
\* is refused); and what is accepted can be read in full, each element from
\* its own place.  (tableBufferLogicalLayout, tableStridedBounds,
\* tableBufferIter, tableBufferSliceAt)
LayoutsAreExact ==
  \A rank \in Ranks, elem \in Widths, count \in Counts, offset \in Offsets :
  \A shape \in [1..rank -> Dims], strides \in {<<>>} \cup [1..rank -> StrideBytes] :
    LET buf == Plain(count, elem)
        ref == [shape |-> shape, strides |-> strides, offset |-> offset]
        layout == LogicalLayout(buf, ref)
    IN  SumsStay(buf, ref) =>
          /\ Accepted(buf, ref) <=> ShapeProduct(shape) # Failed /\ Fits(buf, ref)
          /\ Accepted(buf, ref) =>
               /\ Iter(buf, ref).kind = "value"
               /\ \A index \in Indexes(shape) :
                    Value(Pick(Iter(buf, ref).value, index)) = ValueAtByteOffset(buf, At(layout, index))

\* C arrays with at most MaxNulls elements whose bits are clear.
Arrays ==
  {[items |-> [i \in 1..MaxItems |-> i], elem |-> elem, length |-> length, offset |-> offset,
    bitmap |-> TRUE, valid |-> (0..(MaxItems - 1)) \ clear,
    nulls |-> Cardinality(clear \cap offset..(offset + length - 1))] :
   elem \in Widths, length \in 0..MaxItems, offset \in 0..MaxItems,
   clear \in {c \in SUBSET (0..(MaxItems - 1)) : Cardinality(c) <= MaxNulls}}

\* What the receiver of a C array reads from it.
Elements(array) ==
  [i \in 1..array.length |->
     IF array.nulls > 0 /\ array.offset + i - 1 \notin array.valid
     THEN Null ELSE array.items[array.offset + i]]

\* A C array is imported and reads as it was, nulls and all, from any offset;
\* and exported again it is the same to the next reader, unless it had both
\* nulls and an offset.  (ImportCArrowArray, BorrowCArrowArray)
ArraysSurvive ==
  \A array \in {a \in Arrays : a.offset + a.length <= MaxItems} :
    LET buf == ImportCArrowArray(array)
    IN  /\ Importable(array)
        /\ Iter(buf, NoTable) = Value(Elements(array))
        /\ Exportable(buf)
        /\ array.nulls = 0 \/ array.offset = 0 =>
             Elements(BorrowCArrowArray(buf)) = Elements(array)
=============================================================================
