------------------------------ MODULE Chunking ------------------------------
(***************************************************************************)
(* chunk_text of the knowledge service: the tokens of a document are cut   *)
(* into windows that overlap.  One action is one iteration of the loop; a  *)
(* chunk is the interval of the tokens it was decoded from.                *)
(***************************************************************************)
EXTENDS Integers, Sequences

CONSTANTS
    ChunkSize,     \* CHUNK_SIZE_TOKENS
    Overlap,       \* CHUNK_OVERLAP_TOKENS
    Lengths        \* how many tokens a document may have

ASSUME ChunkingAssumption ==
    /\ Overlap \in Nat /\ ChunkSize \in Nat /\ Overlap < ChunkSize
    /\ Lengths \subseteq Nat

VARIABLES
    tokens,        \* len(tokens)
    start,         \* start of the next window
    chunks,        \* the windows cut so far: [from, to), counted from 0
    cut            \* whether the loop has ended

chunkVars == <<tokens, start, chunks, cut>>

ChunkInit ==
    /\ tokens \in Lengths
    /\ start = 0
    /\ chunks = <<>>
    /\ cut = FALSE

(* A short text is its own only chunk.                                     *)
WholeText ==
    /\ ~cut
    /\ tokens <= ChunkSize
    /\ chunks' = <<[from |-> 0, to |-> tokens]>>
    /\ cut' = TRUE
    /\ UNCHANGED <<tokens, start>>

(* Seeded fault: the loop ends as soon as less than a window is left.      *)
LastWindowEarly(to) == to + ChunkSize > tokens

LastWindow(to) == to >= tokens

Window ==
    /\ ~cut
    /\ tokens > ChunkSize
    /\ start < tokens
    /\ LET to == IF start + ChunkSize < tokens THEN start + ChunkSize ELSE tokens
       IN  /\ chunks' = Append(chunks, [from |-> start, to |-> to])
           /\ IF LastWindow(to)
              THEN cut' = TRUE /\ UNCHANGED start
              ELSE start' = start + ChunkSize - Overlap /\ UNCHANGED cut
    /\ UNCHANGED tokens

ChunkNext == WholeText \/ Window

ChunkSpec == ChunkInit /\ [][ChunkNext]_chunkVars

-----------------------------------------------------------------------------
(***************************************************************************)
(* Properties.                                                             *)
(***************************************************************************)
(* The windows move forward, so the loop ends; none is longer than it may  *)
(* be, and neighbours share exactly the overlap.  When the loop ends they  *)
(* cover the text from its first token to its last: any Overlap + 1        *)
(* consecutive tokens are together in some chunk, which a search relies on.*)
ChunksTile ==
    /\ \A i \in 1..Len(chunks) : chunks[i].to - chunks[i].from \in 0..ChunkSize
    /\ \A i \in 1..(Len(chunks) - 1) :
          /\ chunks[i + 1].from = chunks[i].to - Overlap
          /\ chunks[i + 1].to > chunks[i].to
    /\ cut => /\ chunks # <<>>
              /\ chunks[1].from = 0
              /\ chunks[Len(chunks)].to = tokens
=============================================================================
