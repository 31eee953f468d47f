------------------------------- MODULE Chunking -------------------------------
(***************************************************************************)
(* How a source file becomes code chunks                                   *)
(* (embedding/app/infrastructure/tree_sitter_parser.py and                 *)
(* semantic_chunker.py): the declarations in its syntax tree are extracted *)
(* in a descent from the root, or the whole file stands as one module when *)
(* there is no grammar, the parser fails or nothing is found; then small   *)
(* nodes are skipped, large ones are split, and the rest are chunks.       *)
(*                                                                         *)
(* A file is its number of lines and its tree: nodes are numbered as a     *)
(* descent meets them, the root (or the module) being 0, and have the      *)
(* lines they begin and end on.  Text and names are left out.                *)
(***************************************************************************)
EXTENDS Integers, Sequences, FiniteSets, SequencesExt

CONSTANTS
  Languages,   \* what _detect_language finds
  Grammars,    \* the languages that have a tree-sitter package
  Files,       \* the files of a clone: language, lines, tree
  MinLines,    \* min_chunk_lines
  MaxLines     \* max_chunk_lines

ASSUME LinesAssumption == MinLines \in Nat \ {0} /\ MaxLines \in Nat \ {0}
ASSUME GrammarsAssumption == Grammars \subseteq Languages

VARIABLES
  stage,    \* "parse", "chunk" or "done" with the file
  file,     \* the file at hand
  parsers,  \* _parsers: unset, a parser, or none for ever
  nodes,    \* what parse returns
  chunks    \* what chunk returns

vars == <<stage, file, parsers, nodes, chunks>>

Containers == {"class", "struct", "impl"}
Types == Containers \cup {"function", "interface", "other"}

\* The j-th node comes next in a descent, in order after its siblings; a node may end on
\* the line on which the next begins.
Fits(t, j) ==
  /\ t[j].parent \in 0 .. j - 1
  /\ t[j].first <= t[j].last
  /\ t[j].parent # 0 => /\ t[t[j].parent].first <= t[j].first
                        /\ t[j].last <= t[t[j].parent].last
  /\ \A i \in 1 .. j - 1 :
       /\ t[j].parent < i => t[j].parent <= t[i].parent
       /\ t[j].parent = t[i].parent => t[i].last <= t[j].first

ASSUME FilesAssumption ==
  \A f \in Files :
    /\ f.language \in Languages /\ f.lines \in Nat \ {0}
    /\ f.tree \in Seq([parent : Nat, type : Types, first : 1 .. f.lines, last : 1 .. f.lines])
    /\ \A j \in DOMAIN f.tree : Fits(f.tree, j)

-----------------------------------------------------------------------------
(* The parser.                                                             *)

\* The next child of n from the i-th node on, or Len(t) + 1.
ChildFrom(t, n, i) ==
  LET later == {c \in i .. Len(t) : t[c].parent = n} IN
  IF later = {} THEN Len(t) + 1 ELSE Min(later)

Extracted(t, c, enclosing) ==
  [node |-> c, parent |-> enclosing, first |-> t[c].first, last |-> t[c].last]

\* Mutant: no parent is passed on below a node that is not extracted.
Visit_Orphans(t, From, c, enclosing) ==
  LET Within(e) == From[ChildFrom(t, c, c + 1)][e]
      siblings == From[ChildFrom(t, t[c].parent, c + 1)][enclosing]
  IN IF t[c].type = "other" THEN Within(0) \o siblings
     ELSE << Extracted(t, c, enclosing) >>
            \o (IF t[c].type \in Containers THEN Within(c) ELSE << >>) \o siblings

\* The body of the loop with the child c, and the rest of the loop: the enclosing class
\* stays the parent below nodes that are not declarations, and no declaration inside a
\* function is met.
Visit(t, From, c, enclosing) ==
  LET Within(e) == From[ChildFrom(t, c, c + 1)][e]
      siblings == From[ChildFrom(t, t[c].parent, c + 1)][enclosing]
  IN IF t[c].type = "other" THEN Within(enclosing) \o siblings
     ELSE << Extracted(t, c, enclosing) >>
            \o (IF t[c].type \in Containers THEN Within(c) ELSE << >>) \o siblings

\* _extract_nodes: From[c] is its loop from the child c on.
ExtractNodes(t) ==
  LET From[c \in 1 .. Len(t) + 1] ==
        [enclosing \in 0 .. Len(t) |->
           IF c > Len(t) THEN << >> ELSE Visit(t, From, c, enclosing)]
  IN From[ChildFrom(t, 0, 1)][0]

\* _fallback_parse
FallbackParse(f) ==
  IF f.lines < 3 THEN << >>
  ELSE << [node |-> 0, parent |-> 0, first |-> 1, last |-> f.lines] >>

-----------------------------------------------------------------------------
(* The chunker.                                                            *)

LineCount(n) == n.last - n.first + 1

\* The k-th part of a node; part 0 is the node undivided.
Chunk(n, k, first, last) ==
  [node |-> n.node, parent |-> n.parent, part |-> k,
   first |-> first, last |-> last, signed |-> k <= 1]

\* Mutant: parts overlap by a line.
PartFirst_Overlap(n, k) == n.first + (k - 1) * (MaxLines - 1)

PartFirst(n, k) == n.first + (k - 1) * MaxLines

PartLast(n, k) ==
  IF PartFirst(n, k) + MaxLines - 1 <= n.last THEN PartFirst(n, k) + MaxLines - 1 ELSE n.last
PartCount(n) == (LineCount(n) + MaxLines - 1) \div MaxLines

\* Mutant: every part is said to begin where the node does.
SplitLargeChunk_Same(n) ==
  FlattenSeq([k \in 1 .. PartCount(n) |->
    IF PartLast(n, k) - PartFirst(n, k) + 1 < MinLines THEN << >>
    ELSE << Chunk(n, k, n.first, PartLast(n, k)) >>])

\* _split_large_chunk: a last part that is too small is left out.
SplitLargeChunk(n) ==
  FlattenSeq([k \in 1 .. PartCount(n) |->
    IF PartLast(n, k) - PartFirst(n, k) + 1 < MinLines THEN << >>
    ELSE << Chunk(n, k, PartFirst(n, k), PartLast(n, k)) >>])

\* The body of chunk's loop.
ChunksOf(n) ==
  IF LineCount(n) < MinLines THEN << >>
  ELSE IF LineCount(n) > MaxLines THEN SplitLargeChunk(n)
  ELSE << Chunk(n, 0, n.first, n.last) >>

-----------------------------------------------------------------------------

\* A file of a clone, and the parsers as the files before it have left them.
Init ==
  /\ stage = "parse" /\ file \in Files
  /\ parsers \in [Languages -> {"unset", "parser", "none"}]
  /\ \A l \in Languages \ Grammars : parsers[l] # "parser"
  /\ nodes = << >> /\ chunks = << >>

\* _get_parser: a language is tried once in the life of the process.
GetParser ==
  \E p \in IF parsers[file.language] # "unset" THEN {parsers[file.language]}
           ELSE IF file.language \in Grammars THEN {"parser", "none"} ELSE {"none"} :
    parsers' = [parsers EXCEPT ![file.language] = p]

\* parse, when there is a parser and it gives a tree.
ParseTree ==
  /\ stage = "parse" /\ stage' = "chunk"
  /\ GetParser /\ parsers'[file.language] = "parser"
  /\ nodes' = IF ExtractNodes(file.tree) # << >> THEN ExtractNodes(file.tree)
              ELSE FallbackParse(file)
  /\ UNCHANGED <<file, chunks>>

\* parse, without a parser or when anything in it raises.
ParseWhole ==
  /\ stage = "parse" /\ stage' = "chunk"
  /\ GetParser
  /\ nodes' = FallbackParse(file)
  /\ UNCHANGED <<file, chunks>>

\* chunk
ChunkNodes ==
  /\ stage = "chunk" /\ stage' = "done"
  /\ chunks' = FlattenSeq([i \in DOMAIN nodes |-> ChunksOf(nodes[i])])
  /\ UNCHANGED <<file, parsers, nodes>>

Next == ParseTree \/ ParseWhole \/ ChunkNodes

Spec == Init /\ [][Next]_vars
=============================================================================
