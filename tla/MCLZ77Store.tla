---------------------------- MODULE MCLZ77Store -----------------------------
(***************************************************************************)
(* Instance of LZ77Store: one store that a parser fills and one that takes *)
(* over from it, a literal and a match of two bytes, chunks of two or      *)
(* three symbols.                                                          *)
(***************************************************************************)
EXTENDS LZ77Store

MCSymbols == {"literal", "match"}
MCLLSymbol(s) == IF s = "literal" THEN 0 ELSE 2
MCDSymbol(s) == IF s = "literal" THEN -1 ELSE 1
MCSpan(s) == IF s = "literal" THEN 1 ELSE 2
=============================================================================
