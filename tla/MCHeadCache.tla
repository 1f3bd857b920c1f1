---------------------------- MODULE MCHeadCache ----------------------------
(***************************************************************************)
(* Instances of HeadCache: bank a, two banks b and o of the next slot, of  *)
(* which the cluster confirms b, and bank d on top of b.  The abandoned    *)
(* bank o shares a signature with d.                                       *)
(***************************************************************************)
EXTENDS HeadCache

MCBank == {"a", "b", "o", "d"}

MCSlotOf == [k \in MCBank |-> CASE k = "a" -> 1 [] k \in {"b", "o"} -> 2 [] k = "d" -> 3]

MCParentOf == [k \in MCBank |-> CASE k = "a" -> "none" [] k \in {"b", "o"} -> "a" [] k = "d" -> "b"]

MCTxsOf == [k \in MCBank |-> CASE k = "a" -> <<1>> [] k = "b" -> <<2>> [] k = "o" -> <<3>>
                               [] k = "d" -> <<3, 4>>]

\* Competing banks, lost events and discards, with the cap on an address reached.
Forks ==
  [retain |-> 3, perAddress |-> 2, minimum |-> 0, levels |-> {0, 1}, faults |-> {"discard", "incomplete"},
   requests |-> TRUE]

\* Late footers and eviction.
Retention ==
  [retain |-> 2, perAddress |-> 3, minimum |-> 0, levels |-> {0, 1}, faults |-> {"discard", "footer"},
   requests |-> FALSE]

\* A minimum commitment, statuses before and after their banks, reconnects.
Confirmed ==
  [retain |-> 2, perAddress |-> 3, minimum |-> 1, levels |-> {1, 2}, faults |-> {"early", "reconnect"},
   requests |-> FALSE]

Passing == {Forks, Retention, Confirmed}
=============================================================================
