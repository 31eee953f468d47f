------------------------------ MODULE MCChunking ------------------------------
(* Instances of Chunking: every tree of NodesMax nodes, or one fewer, over   *)
(* Size lines, in a file of Size lines (the largest trees leave its last     *)
(* line alone and have no interfaces), and shorter files with nothing in     *)
(* them.                                                                     *)
EXTENDS ChunkingProperties

CONSTANTS Size, NodesMax, NodeTypes, py

\* The trees over n nodes, a node at a time.
TypesIn(n) == IF n = NodesMax THEN NodeTypes \ {"interface"} ELSE NodeTypes
TreesOf[n \in 0 .. NodesMax] ==
  IF n = 0 THEN {<< >>}
  ELSE {t \in {Append(s, [parent |-> p, type |-> ty, first |-> lines[1], last |-> lines[2]]) :
                 s \in {u \in TreesOf[n - 1] : \A i \in DOMAIN u : u[i].type \in TypesIn(n)},
                 p \in 0 .. n - 1, ty \in TypesIn(n),
                 lines \in {l \in (1 .. Size) \X (1 .. Size) : l[1] <= l[2]}}
        : Fits(t, n) /\ (n = NodesMax => t[n].last < Size)}

MCFiles ==
  [language : {py}, lines : {Size}, tree : TreesOf[NodesMax]]
  \cup [language : {py}, lines : {Size}, tree : TreesOf[NodesMax - 1]]
  \cup [language : {py}, lines : 1 .. Size, tree : {<< >>}]
=============================================================================
