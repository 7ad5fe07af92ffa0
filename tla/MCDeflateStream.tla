-------------------------- MODULE MCDeflateStream ---------------------------
(***************************************************************************)
(* Instance of DeflateStream: every block type asked for, with and without *)
(* splitting.                                                              *)
(***************************************************************************)
EXTENDS DeflateStream

MCModes == {[btype |-> 0, splitting |-> FALSE], [btype |-> 1, splitting |-> FALSE],
            [btype |-> 2, splitting |-> FALSE], [btype |-> 2, splitting |-> TRUE]}
=============================================================================
