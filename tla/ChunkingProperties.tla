-------------------------- MODULE ChunkingProperties --------------------------
(***************************************************************************)
(* What the chunks of a file have to do with its declarations.             *)
(***************************************************************************)
EXTENDS Chunking

Tree == file.tree
Declarations == {i \in DOMAIN Tree : Tree[i].type # "other"}
Around[i \in 0 .. Len(Tree)] ==
  IF i = 0 THEN {} ELSE (Around[Tree[i].parent] \cup {Tree[i].parent}) \ {0}
\* Declarations that only classes, structs, impls and nodes that are no declarations enclose.
Reachable ==
  {i \in Declarations : \A j \in Around[i] \cap Declarations : Tree[j].type \in Containers}
NearestAround(i) ==
  IF Around[i] \cap Declarations = {} THEN 0 ELSE Max(Around[i] \cap Declarations)
Found == {nodes[i].node : i \in DOMAIN nodes}
Span(n) == IF n = 0 THEN 1 .. file.lines ELSE Tree[n].first .. Tree[n].last
ChunkSpan(c) == c.first .. c.last

\* The descent finds every declaration that no function, interface or enum encloses, each
\* once, in the order of the file and under the class that most closely encloses it; or
\* else the file is one module.  Of these nothing is lost, doubled or given to the wrong
\* class; what is inside a function, an interface or an enum is not met.
DeclarationsFound ==
  stage # "parse" /\ nodes # << >> =>
    \/ /\ Found = Reachable
       /\ \A i, j \in DOMAIN nodes : i < j => nodes[i].node < nodes[j].node
       /\ \A i \in DOMAIN nodes : nodes[i].parent = NearestAround(nodes[i].node)
    \/ Found = {0} /\ Len(nodes) = 1

\* The chunks of a node long enough tile it: they keep to the limits, begin where the text
\* they show begins, share no line, are numbered without a gap, and leave out nothing but a
\* rest after the last full part that is itself too short; only that which begins the node
\* has its signature.
ChunksTile ==
  stage = "done" =>
    \A i \in DOMAIN nodes :
      LET span == Span(nodes[i].node)
          own == {j \in DOMAIN chunks : chunks[j].node = nodes[i].node}
          missing == span \ UNION {ChunkSpan(chunks[j]) : j \in own}
      IN /\ \A j \in own : LET c == chunks[j] before == {l \in own : l < j} IN
              /\ LineCount(c) \in MinLines .. MaxLines /\ ChunkSpan(c) \subseteq span
              /\ \A l \in before : chunks[l].last < c.first
              /\ c.part # 0 => c.part = Cardinality(before) + 1
              /\ c.signed <=> c.first = Min(span)
         /\ Cardinality(span) >= MinLines =>
              /\ Cardinality(missing) < MinLines
              /\ \A line \in missing : \A j \in own : chunks[j].last < line

\* Text is stored twice only for what a class encloses: of two chunks that share more than
\* the line on which one ends and the other begins, one belongs to a class around the
\* other.  And so for the key by which the fused search (search services.py:155) tells the
\* chunks of a file apart, their first line: two chunks have one key only if one is in a
\* class that begins on the line of the other, or the one that comes first is a single line.
SharedOnlyByNesting ==
  stage = "done" =>
    \A i, j \in DOMAIN chunks : i < j =>
      \/ chunks[i].node \in Around[chunks[j].node]
      \/ /\ chunks[i].last <= chunks[j].first
         /\ chunks[i].first = chunks[j].first => LineCount(chunks[i]) = 1
=============================================================================
