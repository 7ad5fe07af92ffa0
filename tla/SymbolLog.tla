----------------------------- MODULE SymbolLog ------------------------------
(***************************************************************************)
(* What the LZ77 stores of src/zopfli/lz77.h promise: each is the list of  *)
(* the symbols put into it, each symbol beginning at the byte position     *)
(* where the one before ends.                                              *)
(***************************************************************************)
EXTENDS Integers, Sequences

CONSTANTS
  Stores,           \* the stores
  Symbols,          \* LZ77 symbols: literals, and pairs of length and distance
  Span(_)           \* number of bytes a symbol stands for

VARIABLE log        \* store -> its symbols, each with its byte position

EndOf(entries) ==
  entries[Len(entries)].at + Span(entries[Len(entries)].symbol)

(* A store that has symbols goes on where they end; an empty one begins at   *)
(* the beginning of the data or where another one ends.                      *)
Continuations(s) ==
  IF log[s] # << >> THEN {EndOf(log[s])}
  ELSE {0} \cup {EndOf(log[t]) : t \in {u \in Stores : log[u] # << >>}}

Put(s) ==
  \E symbol \in Symbols, at \in Continuations(s) :
    log' = [log EXCEPT ![s] = Append(@, [symbol |-> symbol, at |-> at])]

Clear(s) == log' = [log EXCEPT ![s] = << >>]

Replace(s, t) == log' = [log EXCEPT ![t] = log[s]]

(* The symbols of s follow those of t in the data.                           *)
Extend(s, t) ==
  /\ log[s] # << >> /\ log[t] # << >> => log[s][1].at = EndOf(log[t])
  /\ log' = [log EXCEPT ![t] = @ \o log[s]]

LogInit == log = [s \in Stores |-> << >>]

LogNext ==
  \E s \in Stores : \/ Put(s) \/ Clear(s)
                    \/ \E t \in Stores \ {s} : Replace(s, t) \/ Extend(s, t)

LogSpec == LogInit /\ [][LogNext]_log
=============================================================================
