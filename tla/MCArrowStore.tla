---------------------------- MODULE MCArrowStore ----------------------------
(* TLC instances of the Arrow store and of what its buffers are read as.   *)
EXTENDS Tables

\* Arrays, slices, and both in each other, up to three levels deep.
GoTypes == {<<Slice>>, <<2>>, <<Slice, 2>>, <<2, Slice>>, <<Slice, 0>>, <<2, 2>>,
            <<Slice, Slice>>, <<Slice, Slice, Slice>>, <<Slice, Slice, 2>>, <<2, Slice, 2>>,
            <<Slice, 2, 2>>, <<Slice, 2, Slice>>, <<2, 0, 2>>}
DimChoices == (-1)..3 \cup {20}
StrideChoices == (-2)..3
OffsetChoices == (-1)..4
=============================================================================
