----------------------------- MODULE MCRunGraph -----------------------------
(***************************************************************************)
(* Families of small graphs for RunGraph.                                  *)
(***************************************************************************)
EXTENDS RunGraph

E(i, j, c, join) == [from |-> i, to |-> j, cond |-> c, join |-> join]
Plain(i, j) == E(i, j, "any label", "none")
On(i, j, c) == E(i, j, c, "none")
Some(i, j) == E(i, j, "any label", "any")
All(i, j) == E(i, j, "any label", "all")

Types(k1, k2, k3, k4) ==
  [n \in Nodes |-> CASE n = 1 -> k1 [] n = 2 -> k2 [] n = 3 -> k3 [] OTHER -> k4]
G(kind, verdict, edges) == [kind |-> kind, verdict |-> verdict, edges |-> edges, tries |-> 1]
Deciding(m, v) == [n \in Nodes |-> IF n = m THEN v ELSE "run"]

\* Choices for the edge between two nodes.
Labelled(i, j, labels) == {{}, {Plain(i, j)}} \cup {{On(i, j, c)} : c \in labels}
Pair(i, j, labels) == Labelled(i, j, labels) \cup {{All(i, j)}}

\* Graphs of four nodes, the second a condition that is x or y: whether it has a
\* source, which nodes it leads to under which label, and every mix of joins behind it.
Branching ==
  {G(Types("effect", "condition", "effect", "plain"), Deciding(2, v),
     e12 \cup e13 \cup e14 \cup e23 \cup e24 \cup e34) :
   v \in {"x", "y"},
   e12 \in {{}, {Plain(1, 2)}}, e13 \in {{}, {All(1, 3)}}, e14 \in {{Some(1, 4)}, {All(1, 4)}},
   e23 \in Pair(2, 3, {"x"}), e24 \in Pair(2, 4, {"x"}), e34 \in {{}, {All(3, 4)}}}

\* Chains in which every node may be of any kind that waits, pauses or fails, with a
\* second attempt.
Chains ==
  {[G(Types(k1, k2, k3, "effect"), [n \in Nodes |-> "run"],
      {Plain(1, 2), Plain(2, 3), Plain(3, 4)}) EXCEPT !.tries = 2] :
   k1, k2, k3 \in {"plain", "effect", "delay", "human"}}

\* A decision of node 2 routes to 3, to 4 or to both.
Decisions ==
  {G(Types("effect", k.kind, "effect", "effect"), Deciding(2, k.verdict),
     {Plain(1, 2)} \cup e23 \cup e24 \cup e34) :
   k \in {[kind |-> "approval", verdict |-> "approved"],
          [kind |-> "approval", verdict |-> "rejected"],
          [kind |-> "tool", verdict |-> "blocked"], [kind |-> "tool", verdict |-> "run"]},
   e23 \in Labelled(2, 3, {"approved", "blocked"}),
   e24 \in Labelled(2, 4, {"rejected", "blocked"}),
   e34 \in Pair(3, 4, {})}

Families == Branching \cup Decisions \cup Chains

\* The graph of the violation: a delay beside a node that has a successor.
ParallelWait == {G(Types("delay", "effect", "effect", "plain"), Deciding(1, "run"),
                   {Plain(2, 3)})}
=============================================================================
