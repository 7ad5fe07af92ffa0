----------------------------- MODULE BlockParse -----------------------------
(***************************************************************************)
(* What an LZ77 parser of a block promises: it puts literals and matches   *)
(* into a store that go on one after the other from the start of the block *)
(* to its end, and a match is one the search returned for its position.    *)
(***************************************************************************)
EXTENDS Integers, Sequences

CONSTANTS
  MinMatch,         \* ZOPFLI_MIN_MATCH (3)
  MaxMatch          \* ZOPFLI_MAX_MATCH (258)

ASSUME ParseAssumption ==
  MinMatch \in Nat \ {0, 1} /\ MaxMatch \in Nat /\ MinMatch <= MaxMatch

VARIABLES
  instart, end,     \* the block
  parsed            \* the symbols put into the store

(* A symbol put at a position: its length in bytes, and for a match the      *)
(* position whose search returned it.                                        *)
Literal(p) == [at |-> p, length |-> 1, from |-> p]
Match(p, n, q) == [at |-> p, length |-> n, from |-> q]

Symbol(p) ==
  {Literal(p)} \cup {Match(p, n, p) : n \in {m \in MinMatch .. MaxMatch : p + m <= end}}

Covered ==
  IF parsed = << >> THEN instart
  ELSE parsed[Len(parsed)].at + parsed[Len(parsed)].length

ParseInit == parsed = << >> /\ instart \in Nat /\ end \in Nat /\ instart < end

(* A parser may put a literal and a match at once.                           *)
Emit ==
  /\ Covered < end
  /\ \E s \in Symbol(Covered) :
       \/ parsed' = parsed \o <<s>>
       \/ /\ s.at + s.length < end
          /\ \E t \in Symbol(s.at + s.length) : parsed' = parsed \o <<s, t>>
  /\ UNCHANGED <<instart, end>>

ParseSpec == ParseInit /\ [][Emit]_<<instart, end, parsed>>

Parsed == Covered = end
=============================================================================
