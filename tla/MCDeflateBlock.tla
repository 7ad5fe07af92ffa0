---------------------------- MODULE MCDeflateBlock ----------------------------
(* Blocks at the limits of the codes, and tasks for the code lengths.         *)
EXTENDS DeflateBlock, CodeLengths

Literals(s) == [k \in DOMAIN s |-> [litlen |-> s[k], dist |-> 0]]
Match(l, d) == [litlen |-> l, dist |-> d]

(* Two literals with a gap of g unused ones between them.                     *)
GapStores == {Literals(<<40, 41 + g, 41 + g>>) :
                g \in {1, 2, 3, 4, 10, 11, 12, 13, 137, 138, 139, 140, 141, 148, 149}}
(* n literals in a row, equally frequent.                                     *)
RowStores == {Literals([k \in 1 .. n |-> 60 + k]) : n \in {4, 5, 6, 7, 8, 9, 13}}
(* Counts that are nearly even, after a run of even ones.                     *)
Of(counts) == Literals(Concat([i \in DOMAIN counts |-> [k \in 1 .. counts[i] |-> 96 + i]]))
EvenStores == {Of(<<1, 1, 1, 1, 1, 1, 1, 2, 4, 3, 5, 2>>), Of(<<3, 5, 4, 6, 3, 12, 1, 0, 1, 1>>),
               Of(<<1, 2, 1, 2, 1, 2, 1, 2>>), Of(<<9, 8, 9, 1, 0, 0, 0, 0, 0, 0, 1, 2, 1, 1>>),
               Of(<<1, 2, 4, 8, 16, 32>>)}
(* Every length, with the distances on both sides of every symbol's base.     *)
Distances == Concat([i \in 1 .. 29 |-> <<DistanceBase[i + 1] - 1, DistanceBase[i + 1]>>]) \o <<32768>>
MatchStores == {Literals(<<7, 200>>) \o
                [k \in 1 .. 16 |-> Match(Smallest(16 * i + k + 2, 258),
                                         Distances[1 + (((16 * i + k) * 7) % 59)])] : i \in 0 .. 15}
Few == {<< >>, Literals(<<5>>), Literals(<<5, 5>>), Literals(<<5>>) \o <<Match(3, 1)>>,
        Literals(<<1, 2, 3>>) \o <<Match(4, 3), Match(258, 1), Match(3, 2)>> }

Block(store, lstart, lend, btype, ahead, fixedstore) ==
  [ store |-> store, data |-> BytesOf(store), lstart |-> lstart, lend |-> lend, btype |-> btype,
    ahead |-> ahead, fixedstore |-> fixedstore ]
Whole(store, btype, ahead) == Block(store, 1, Len(store) + 1, btype, ahead, store)
AsLiterals(store) == Literals(BytesOf(store))

MCBlocks ==
  {Whole(s, 2, 0) : s \in GapStores \cup RowStores \cup MatchStores}
  \cup {Whole(s, 0, a) : s \in Few, a \in {0, 5, 6}}
  \cup {Whole(s, t, 3) : s \in Few, t \in {1, 2, AutoType}}
  \cup {Whole(s, AutoType, 5) : s \in EvenStores}
  \cup {Block(Of(<<2, 3, 1, 9>>), 1, 3, AutoType, 7, Literals(<<97, 97>>))}
  \cup {Block(Of(<<2, 3, 1, 9>>), l, r, t, 1, Of(<<2, 3, 1, 9>>)) :
          l \in {2, 6}, r \in {9, 16}, t \in {0, 1, 2}}
  \cup {Block(s, 1, Len(s) + 1, AutoType, 2, AsLiterals(s)) : s \in Few}

MCTasks == ([0 .. 3 -> 0 .. 4] \X (1 .. 4))
           \cup ([0 .. 4 -> {1, 2, 4, 7}] \X {3}) \cup ([0 .. 5 -> {1, 3, 8}] \X (3 .. 4))
           \cup {<<[s \in 0 .. 2 |-> MaxWeight - s], 3>>}

Idle ==
  /\ task = <<[s \in 0 .. 0 |-> 0], 1>> /\ stage = "idle"
  /\ leaves = << >> /\ pm = NoLists /\ runs = 0 /\ lengths = << >>
NoBlock ==
  /\ block = Whole(<< >>, AutoType, 0) /\ writing = "idle" /\ costs = << >> /\ written = AutoType
  /\ bits = << >> /\ reading = "idle" /\ rd = [bp |-> 0, out |-> << >>, error |-> 0]
  /\ trees = NoTrees(0, 0) /\ last = FALSE

MCSpec == /\ (InitLengths /\ NoBlock) \/ (Init /\ Idle)
          /\ [][\/ LengthsNext /\ UNCHANGED blockVars
                \/ Next /\ UNCHANGED pmVars]_<<blockVars, pmVars>>

==============================================================================
