--------------------------- MODULE SmallAllocator ---------------------------
(***************************************************************************)
(* "containers, pointer, allocators/allocator/main.cpp": blocks are cut    *)
(* from one array of char, Free() does nothing, and ReAlloc() always makes *)
(* a new block and copies as many bytes as the NEW size, so it reads       *)
(* beyond an old block that is smaller.  Sizes and pos are unsigned and    *)
(* wrap around.                                                            *)
(*                                                                         *)
(* The program that uses it is any program: it allocates, reallocates any  *)
(* of its blocks, and writes into its blocks.  A wrapped request gives a   *)
(* block that leaves the array, and pos goes back.  After that the program *)
(* only allocates: what a write or a copy then does to the memory behind   *)
(* the array is not modelled.                                              *)
(*                                                                         *)
(* The parts of the specification carry the name of the module, so that    *)
(* MCComputations can extend it together with Counter.                     *)
(***************************************************************************)
EXTENDS Integers

CONSTANTS
  Bytes,      \* the 1048576 of Memory
  Word,       \* 2^32
  Value,      \* the values of a byte; 0 among them
  MaxBlocks   \* bound: calls that return a block

ASSUME AllocatorAssumption ==
  /\ Bytes \in Nat \ {0} /\ Word \in Nat /\ Bytes <= Word
  /\ 0 \in Value
  /\ MaxBlocks \in Nat

Size == 0 .. Word - 1
Cell == 0 .. Bytes - 1

VARIABLES
  memory,   \* Memory
  pos,
  blocks,   \* how many blocks were returned
  start,    \* start[b]: the cell where block b begins
  size,     \* size[b]
  kept,     \* kept[b]: bytes of it that have a value of the program
  fill,     \* fill[b]: that value
  wrapped   \* a request has wrapped around

allocatorVars == <<memory, pos, blocks, start, size, kept, fill, wrapped>>

Number == 1 .. MaxBlocks
Block == 1 .. blocks

AllocatorTypeOK ==
  /\ memory \in [Cell -> Value]
  /\ pos \in Size
  /\ blocks \in 0 .. MaxBlocks
  /\ start \in [Number -> Nat] /\ size \in [Number -> Nat] /\ kept \in [Number -> Nat]
  /\ fill \in [Number -> Value]
  /\ wrapped \in BOOLEAN

AllocatorInit ==
  /\ memory = [k \in Cell |-> 0]
  /\ pos = 0
  /\ blocks = 0
  /\ start = [b \in Number |-> 0]
  /\ size = [b \in Number |-> 0]
  /\ kept = [b \in Number |-> 0]
  /\ fill = [b \in Number |-> 0]
  /\ wrapped = FALSE

\* The sum of two uint.
Plus(a, b) == IF a + b >= Word THEN a + b - Word ELSE a + b

\* Otherwise the call returns nullptr and changes nothing.
Fits(n) == Plus(n, pos) < Bytes

\* Mutant: pos is forgotten.
StayAt(n) == pos

\* pos += Size
Advance(n) == Plus(pos, n)

\* The next block, of n bytes of which the first k have value v.
NewBlock(n, k, v) ==
  /\ blocks < MaxBlocks
  /\ blocks' = blocks + 1
  /\ start' = [start EXCEPT ![blocks + 1] = pos]
  /\ size' = [size EXCEPT ![blocks + 1] = n]
  /\ kept' = [kept EXCEPT ![blocks + 1] = k]
  /\ fill' = [fill EXCEPT ![blocks + 1] = v]
  /\ pos' = Advance(n)
  /\ wrapped' = (wrapped \/ n + pos >= Word)

Alloc(n) ==
  /\ Fits(n)
  /\ NewBlock(n, 0, 0)
  /\ UNCHANGED memory

\* Mutant: the second byte is copied first.
NextByte(k) == memory[IF k + 1 < Bytes THEN k + 1 ELSE k]

Copied(k) == memory[k]

\* The loop goes upwards: what it finds at pos or above it has written itself,
\* from a cell below pos.
Source(from, k) == IF k < pos THEN k ELSE from + ((k - from) % (pos - from))

\* A block of size 0 at pos is copied onto itself.  A size that wraps is not
\* modelled here: the loop leaves the memory of the process.
ReAlloc(b, n) ==
  /\ ~wrapped /\ b \in Block /\ Fits(n) /\ n + pos < Word
  /\ memory' =
       [k \in Cell |->
          IF k \in pos .. pos + n - 1 /\ start[b] < pos
          THEN Copied(Source(start[b], start[b] + (k - pos))) ELSE memory[k]]
  /\ NewBlock(n, IF kept[b] < n THEN kept[b] ELSE n, fill[b])

\* The program fills block b, as main() does in its loops.
Fill(b, v) ==
  /\ ~wrapped /\ b \in Block
  /\ memory' = [k \in Cell |-> IF k \in start[b] .. start[b] + size[b] - 1 THEN v ELSE memory[k]]
  /\ kept' = [kept EXCEPT ![b] = size[b]]
  /\ fill' = [fill EXCEPT ![b] = v]
  /\ UNCHANGED <<pos, blocks, start, size, wrapped>>

AllocatorNext ==
  \/ \E n \in Size : Alloc(n)
  \/ \E b \in Number, n \in Size : ReAlloc(b, n)
  \/ \E b \in Number, v \in Value : Fill(b, v)

AllocatorSpec == AllocatorInit /\ [][AllocatorNext]_allocatorVars

(***************************************************************************)
(* Properties.                                                             *)
(***************************************************************************)

\* The sum of line 10 wrapped around when block b was cut.
Wraps(b) == start[b] + size[b] >= Word

\* Which blocks are sound, also when a request has wrapped around: a block that did
\* not lies in the array, and two blocks share a byte only if the first of them, or
\* one that was cut between them, did.
BlocksDisjoint ==
  /\ \A b \in Block : ~Wraps(b) => start[b] + size[b] < Bytes
  /\ \A b, c \in Block :
       b < c /\ (\A d \in b .. c - 1 : ~Wraps(d)) => start[b] + size[b] <= start[c]

\* What main() tests with its ERROR lines: a block has what the program wrote
\* into it, through any number of ReAlloc() calls, and whatever is written to
\* other blocks, the one it was copied from included.
ContentsKept ==
  ~wrapped => \A b \in Block : \A k \in 0 .. kept[b] - 1 : memory[start[b] + k] = fill[b]

\* The inductive invariant: blocks are below pos, in the order of their calls, back
\* to the last one that wrapped around.
Layout ==
  /\ pos < Bytes
  /\ ~wrapped => \A b \in Block : ~Wraps(b)
  /\ \A b \in Block : kept[b] <= size[b]
  /\ \A b \in Block : (\A d \in b .. blocks : ~Wraps(d)) => start[b] + size[b] <= pos
AllocatorIInv == AllocatorTypeOK /\ Layout /\ BlocksDisjoint
=============================================================================
