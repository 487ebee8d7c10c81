------------------------------- MODULE Tables -------------------------------
(***************************************************************************)
(* What the layouts of tables, the C arrays and the captures of the Arrow  *)
(* store promise, as invariants of the store.  They speak of no variable   *)
(* of it, and are asked once, at the start.                                *)
(***************************************************************************)
EXTENDS ArrowStore, Captures

\* A shape over a buffer is accepted exactly if its elements lie in the
\* buffer, and then each is read from its own place; and C arrays with their
\* nulls survive an import from any offset, and an export.
TablesAreExact == StoreInit => LayoutsAreExact /\ ArraysSurvive

\* Nested Go values that are captured read back as they were, and all that have
\* scalars and are not ragged are captured.
CapturesAreRead == StoreInit => CapturesReadBack
=============================================================================
