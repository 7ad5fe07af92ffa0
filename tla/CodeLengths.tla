----------------------------- MODULE CodeLengths -----------------------------
(***************************************************************************)
(* A call of ZopfliLengthLimitedCodeLengths (katajainen.c:217-310), one    *)
(* BoundaryPM run of the last list at a time: the checks that refuse it,   *)
(* the memory sized for the nodes, and the lengths it gives.               *)
(***************************************************************************)
EXTENDS Katajainen

CONSTANT Tasks        \* the <<frequencies, maxbits>> that are asked for
ASSUME TasksAssumption ==
  \A t \in Tasks : /\ t[2] \in 1 .. 15
                   /\ IsFiniteSet(DOMAIN t[1]) /\ DOMAIN t[1] \subseteq Nat
                   /\ \A s \in DOMAIN t[1] : t[1][s] \in Nat

VARIABLES
  task,      \* <<frequencies, maxbits>>
  stage,     \* "asked", "merging", "given" or "error"
  leaves,    \* sorted
  pm,        \* the lists and the number of nodes used
  runs,      \* BoundaryPM runs still to make
  lengths    \* the result

pmVars == <<task, stage, leaves, pm, runs, lengths>>

NoLists == [used |-> 0, lists |-> << >>]
NoLengths(freq) == [s \in DOMAIN freq |-> 0]

InitLengths ==
  /\ task \in Tasks
  /\ stage = "asked"
  /\ leaves = << >> /\ pm = NoLists /\ runs = 0
  /\ lengths = NoLengths(task[1])

Refuse ==
  LET sorted == SortLeaves(task[1])
  IN  /\ stage = "asked"
      /\ \/ TooFewBits(task[2], Len(sorted))
         \/ Len(sorted) > 2 /\ TooHeavy(sorted)
      /\ stage' = "error"
      /\ UNCHANGED <<task, leaves, pm, runs, lengths>>

FewSymbols ==
  /\ stage = "asked"
  /\ Len(SortLeaves(task[1])) <= 2 /\ ~ TooFewBits(task[2], Len(SortLeaves(task[1])))
  /\ lengths' = FewLengths(task[1])
  /\ stage' = "given"
  /\ UNCHANGED <<task, leaves, pm, runs>>

StartMerging ==
  LET sorted == SortLeaves(task[1])
  IN  /\ stage = "asked"
      /\ Len(sorted) > 2 /\ ~ TooFewBits(task[2], Len(sorted)) /\ ~ TooHeavy(sorted)
      /\ leaves' = sorted
      /\ pm' = InitLists(sorted, task[2])
      /\ runs' = RunsFor(Len(sorted))
      /\ stage' = "merging"
      /\ UNCHANGED <<task, lengths>>

MergeRun ==
  /\ stage = "merging" /\ runs > 1
  /\ pm' = BoundaryPM(leaves, pm)
  /\ runs' = runs - 1
  /\ UNCHANGED <<task, stage, leaves, lengths>>

FinalRun ==
  /\ stage = "merging" /\ runs = 1
  /\ pm' = BoundaryPMFinal(leaves, pm)
  /\ lengths' = ExtractBitLengths(task[1], leaves,
                  pm'.lists[Len(pm.lists)][2].counts)
  /\ runs' = 0
  /\ stage' = "given"
  /\ UNCHANGED <<task, leaves>>

LengthsNext == Refuse \/ FewSymbols \/ StartMerging \/ MergeRun \/ FinalRun
LengthsSpec == InitLengths /\ [][LengthsNext]_pmVars

-----------------------------------------------------------------------------
(* Reference: the cheapest of all complete prefix codes within the limit.    *)

CodeCost(freq, l) == FoldFunction(+, 0, [s \in DOMAIN freq |-> freq[s] * l[s]])
Kraft(l, maxbits) ==
  FoldFunction(+, 0, [s \in DOMAIN l |-> IF l[s] = 0 THEN 0 ELSE 2 ^ (maxbits - l[s])])

(* The lengths of complete codes for n symbols, longest first.               *)
MaxTask == IF Tasks = {} THEN 0
           ELSE CHOOSE n \in 0 .. 20 : /\ \A t \in Tasks : Cardinality(DOMAIN t[1]) <= n
                                       /\ \E t \in Tasks : Cardinality(DOMAIN t[1]) = n
CompleteCodes ==
  [n \in 2 .. MaxTask, b \in {t[2] : t \in Tasks} |->
     {l \in [1 .. n -> 1 .. b] : /\ \A k \in 1 .. n - 1 : l[k] >= l[k + 1]
                                 /\ Kraft(l, b) = 2 ^ b}]

(* The code given is complete, within the limit, and no complete code within *)
(* the limit is cheaper (katajainen.h:35-50); only what cannot be coded or   *)
(* is too heavy is refused (katajainen.c:250, 269).                          *)
LengthsAreBest ==
  LET n == Cardinality({s \in DOMAIN task[1] : task[1][s] # 0})
  IN  /\ stage = "error" => \/ 2 ^ task[2] < n
                            \/ \E s \in DOMAIN task[1] : task[1][s] >= MaxWeight
      /\ stage = "given" =>
           /\ \A s \in DOMAIN task[1] : /\ lengths[s] \in 0 .. task[2]
                                        /\ lengths[s] = 0 <=> task[1][s] = 0
           /\ n >= 2 => Kraft(lengths, task[2]) = 2 ^ task[2]
           /\ n >= 3 =>
                \A l \in CompleteCodes[n, task[2]] :
                  CodeCost(task[1], lengths)
                    <= CodeCost([k \in 1 .. n |-> leaves[k].weight], l)

(* The nodes taken never exceed the memory sized beforehand for the worst    *)
(* case: no chain is ever given back (katajainen.c:284-287).                 *)
NodesInPool ==
  stage \in {"merging", "given"} =>
    pm.used <= NodesFor(Limit(task[2], Len(leaves)), Len(leaves))

=============================================================================
