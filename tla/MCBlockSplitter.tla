--------------------------- MODULE MCBlockSplitter --------------------------
(***************************************************************************)
(* Instance of BlockSplitter: every list of symbols of two kinds.  A block *)
(* costs a header, and for each symbol as much as there are kinds of       *)
(* symbols in it.                                                          *)
(***************************************************************************)
EXTENDS BlockSplitter, FiniteSets

CONSTANTS Sizes, Header

MCStores == UNION {[1 .. n -> {"a", "b"}] : n \in Sizes}
MCEstimate(w, l, r) == Header + ((r - l) * Cardinality({w[q] : q \in l + 1 .. r}))
=============================================================================
