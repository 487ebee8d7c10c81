------------------------------ MODULE Captures ------------------------------
(***************************************************************************)
(* The capture of a nested Go array or slice as a buffer that a guest      *)
(* reads as a table or as an Arrow C array (pkg/manifest/executor.go).     *)
(* A type kinds has one Slice or array length per level, outermost first,  *)
(* over a scalar.  The functions here are recursive over the levels: their *)
(* values at d are for what lies behind the first d of them.               *)
(***************************************************************************)
EXTENDS Layouts, SequencesExt

CONSTANTS
  Slice,                          \* a level that is a slice
  Types, SliceLengths, Numbers    \* the captures checked: types, lengths, scalars

ASSUME CaptureAssumption ==
  /\ Slice \notin Nat
  /\ Types \subseteq Seq(Nat \cup {Slice}) /\ <<>> \notin Types
  /\ SliceLengths \subseteq Nat
  /\ Failed \notin [dims : Seq(Nat), contiguous : BOOLEAN]

\* All values behind d levels, even or ragged.
Nested(kinds) ==
  LET nested[d \in 0..Len(kinds)] ==
        IF d = Len(kinds) THEN Numbers ELSE Seq(nested[d + 1])
  IN  nested

-----------------------------------------------------------------------------
(* The capture.                                                            *)

Behind(kinds, d) == SubSeq(kinds, d + 1, Len(kinds))

\* The shape of value, and whether its scalars follow each other in memory,
\* from those of the values in it; a ragged value has none.
DimsOf(value, rest, inner) ==
  LET flat == rest # <<>> => rest[1] # Slice
      found(i) == inner[value[i]]
  IN  IF value = <<>>
      THEN [dims |-> <<0>> \o (IF Slice \in ToSet(rest) THEN <<>> ELSE rest),
            contiguous |-> flat]
      ELSE IF \E i \in DOMAIN value : found(i) = Failed \/ found(i).dims # found(1).dims
      THEN Failed
      ELSE [dims |-> <<Len(value)>> \o found(1).dims,
            contiguous |-> flat /\ \A i \in DOMAIN value : found(i).contiguous]

ShapeDims(kinds) ==
  LET shape[d \in 0..Len(kinds)] ==
        IF d = Len(kinds) THEN [value \in Numbers |-> [dims |-> <<>>, contiguous |-> TRUE]]
        ELSE [value \in Nested(kinds)[d] |-> DimsOf(value, Behind(kinds, d + 1), shape[d + 1])]
  IN  shape

\* The scalars in the order of the copy.
Scalars(kinds) ==
  LET scalars[d \in 0..Len(kinds)] ==
        IF d = Len(kinds) THEN [value \in Numbers |-> <<value>>]
        ELSE [value \in Nested(kinds)[d] |->
                FlattenSeq([i \in DOMAIN value |-> scalars[d + 1][value[i]]])]
  IN  scalars

\* The scalars in memory from the first one on: those of the innermost block,
\* and behind it what belongs to somebody else.
Firsts(kinds, value) ==
  LET first[d \in 0..Len(kinds)] == IF d = 0 THEN value ELSE first[d - 1][1]
  IN  first

MemoryFrom(kinds, value) ==
  LET block == Max({0} \cup {d \in 1..(Len(kinds) - 1) : kinds[d + 1] = Slice})
  IN  Scalars(kinds)[block][Firsts(kinds, value)[block]]

Pointed(kinds, value, elements) ==
  LET memory == MemoryFrom(kinds, value)
  IN  [i \in 1..elements |-> IF i \in DOMAIN memory THEN memory[i] ELSE Stray]

\* Ragged values and those whose elements cannot be counted are not captured.
Captured(kinds, value) ==
  LET seen == ShapeDims(kinds)[0][value]
  IN  seen # Failed /\ ShapeProduct(seen.dims) # Failed

\* A value is addressable when some level is a slice or it came by pointer;
\* the bytes of any other are copied.  A plain slice of numbers leaves its
\* strides to the reader (fixedWidthSliceBulkCaptureView).
CaptureView(kinds, value, elem, byPointer) ==
  LET seen == ShapeDims(kinds)[0][value]
      elements == ShapeProduct(seen.dims)
      fixedWidth == kinds = <<Slice>> /\ ~byPointer
      addressable == byPointer \/ Slice \in ToSet(kinds)
  IN  IF ~Captured(kinds, value) THEN Failed
      ELSE [items |-> IF elements = 0 THEN <<>>
                      ELSE IF seen.contiguous /\ addressable THEN Pointed(kinds, value, elements)
                      ELSE Scalars(kinds)[0][value],
            elem |-> elem, valid |-> NoValidity,
            meta |-> [shape |-> seen.dims,
                      strides |-> IF fixedWidth THEN <<>> ELSE ContiguousStrides(seen.dims, elem),
                      offset |-> 0, nulls |-> 0, bit |-> 0]]

\* The handle that autoBulkTableRefForCapture registers for the view.
TableOf(view) == [shape |-> view.meta.shape, strides |-> view.meta.strides, offset |-> 0]

-----------------------------------------------------------------------------
(* The property, over every value of a bounded kind.                       *)

\* The values of a type.
Values(kinds) ==
  LET values[d \in 0..Len(kinds)] ==
        IF d = Len(kinds) THEN Numbers
        ELSE UNION {[1..length -> values[d + 1]] :
                    length \in IF kinds[d + 1] = Slice THEN SliceLengths ELSE {kinds[d + 1]}}
  IN  values

\* What reads a captured value finds it as it was: as a whole, by rows and as
\* the C array of its scalars.
ReadsBack(kinds, value, view) ==
  /\ ValidMetadata(view.meta)
  /\ Iter(view, TableOf(view)) = Value(value)
  /\ \A i \in DOMAIN value : Index(view, TableOf(view), i - 1) = Value(value[i])
  /\ Index(view, TableOf(view), Len(value)) = Missing
  /\ Exportable(view)
  /\ Elements(BorrowCArrowArray(view)) = Scalars(kinds)[0][value]

\* A nested Go value, which is no larger than memory, has a shape unless its
\* inner slices are ragged, and is captured unless it has no scalars and its
\* elements cannot be counted; and what it is captured as reads back as it
\* was, whether it points into the value or is a copy of it, also where levels
\* of the value are empty.
\* (autoBulkTableRefForCapture, tableBufferIter, tableBufferIndex,
\* BorrowCArrowArray)
CapturesReadBack ==
  \A kinds \in Types : \A value \in Values(kinds)[0], elem \in Widths, byPointer \in BOOLEAN :
    Len(Scalars(kinds)[0][value]) * elem <= MaxInt =>
      /\ Slice \notin ToSet(Tail(kinds)) => ShapeDims(kinds)[0][value] # Failed
      /\ ShapeDims(kinds)[0][value] # Failed /\ Scalars(kinds)[0][value] # <<>> =>
           Captured(kinds, value)
      /\ Captured(kinds, value) =>
           ReadsBack(kinds, value, CaptureView(kinds, value, elem, byPointer))
=============================================================================
