--------------------------- MODULE MCLongestMatch ---------------------------
(***************************************************************************)
(* Instances of LongestMatch: a hash of three bits, shifted and mixed as   *)
(* the code does it, on a ring of eight slots.                             *)
(***************************************************************************)
EXTENDS LongestMatch, Bitwise

MCHashVals == 0 .. 7
MCEmpty == -1
MCHashStep(v, b) == ((2 * v) ^^ b) % 8
MCHashSame(v, n) == ((n - 3) % 4) ^^ v

Inject(w) == [i \in 0 .. MaxLen - 1 |-> w[i + 1]]
MCInputs == {Inject(<<0, 0, 0, 0, 0>> \o w) : w \in [1 .. MaxLen - 5 -> Byte]}
MCBlocks == {<<MaxLen - 5, MaxLen>>}
MCPoolCap(n) == 3
MCPasses == <<"greedy", "squeeze">>
MCCalls == {<<MaxMatch, TRUE>>}

(* A long match behind a run that is longer than the one searched for.       *)
LongRunInputs == {Inject(<<0, 0, 0, 0, 2, 2, 0, 0, 0, 0, 0, 1, 0, 0, 0, 0, 2, 2>>)}
LongRunBlocks == {<<12, 18>>}
=============================================================================
