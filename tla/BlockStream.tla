----------------------------- MODULE BlockStream ----------------------------
(***************************************************************************)
(* What a deflate stream promises: its blocks hold the bytes of the input  *)
(* one after the other, each byte once, and only the last block is marked  *)
(* final, if one was asked for.  The state is the latest block.            *)
(***************************************************************************)
EXTENDS Integers

VARIABLES
  insize, final,    \* bytes of the input, and whether to end the stream
  last              \* the latest block: its bytes, and whether it is final

streamVars == <<insize, final, last>>

Init ==
  /\ insize \in Nat /\ final \in BOOLEAN
  /\ last = [from |-> 0, to |-> 0, final |-> FALSE]

AddBlock ==
  /\ ~ last.final
  /\ \E to \in last.to .. insize, fin \in BOOLEAN :
       /\ fin => final /\ to = insize
       /\ last' = [from |-> last.to, to |-> to, final |-> fin]
  /\ UNCHANGED <<insize, final>>

Spec == Init /\ [][AddBlock]_streamVars

Complete == last.to = insize /\ last.final = final
=============================================================================
