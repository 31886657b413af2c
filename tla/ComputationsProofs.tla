------------------------- MODULE ComputationsProofs -------------------------
(***************************************************************************)
(* Proofs about the programs of MCComputations, each for every value of    *)
(* its constants: the counter, the allocator, the OpenMP regions and the   *)
(* derivative.                                                             *)
(***************************************************************************)
EXTENDS MCComputations, TLAPS, FiniteSetTheorems, SequenceTheorems,
        WellFoundedInduction

(***************************************************************************)
(* Counter.                                                                *)
(***************************************************************************)

\* The loop and the life of the threads: TypeOK needs the bounds of the values.
LEMMA LoopStep == IInv /\ [Next]_vars => LoopOK'
<1> SUFFICES ASSUME IInv, [Next]_vars  PROVE LoopOK'
  OBVIOUS
<1> USE CounterAssumption DEF CounterAssumption, Thread
<1>0. TypeOK /\ LoopOK
  BY DEF IInv
<1> USE <1>0 DEF TypeOK, LoopOK
<1>1. CASE Create
  <2>1. \A t \in Thread : pc'[t] = IF t = main THEN "read" ELSE pc[t]
    BY <1>1 DEF Create
  <2> QED  BY <1>1, <2>1 DEF Create
<1>2. CASE Join
  BY <1>2 DEF Join
<1>3. ASSUME NEW t \in Thread, Read(t)  PROVE LoopOK'
  BY <1>3 DEF Read
<1>4. ASSUME NEW t \in Thread, Write(t)  PROVE LoopOK'
  <2>1. \A u \in Thread :
          /\ pc'[u] = IF u = t THEN IF i[t] + 1 < Rounds THEN "read" ELSE "done"
                      ELSE pc[u]
          /\ i'[u] = IF u = t THEN i[t] + 1 ELSE i[u]
    BY <1>4 DEF Write, Again
  <2>2. main' = main /\ pc[t] = "write"
    BY <1>4 DEF Write
  <2> QED  BY <2>1, <2>2
<1>5. CASE UNCHANGED vars
  BY <1>5 DEF vars
<1> QED  BY <1>1, <1>2, <1>3, <1>4, <1>5 DEF Next

\* Every step keeps the types and the bounds of the counter.
LEMMA BoundsStep == IInv /\ [Next]_vars => TypeOK' /\ BoundsOK'
<1> SUFFICES ASSUME IInv, [Next]_vars  PROVE TypeOK' /\ BoundsOK'
  OBVIOUS
<1> USE CounterAssumption DEF CounterAssumption, Thread
<1>0. TypeOK /\ LoopOK /\ BoundsOK
  BY DEF IInv
<1> USE <1>0 DEF TypeOK, LoopOK, BoundsOK, Writes
<1>1. CASE Create
  <2>1. \A t \in Thread : pc'[t] = IF t = main THEN "read" ELSE pc[t]
    BY <1>1 DEF Create
  <2>2. TypeOK'
    BY <1>1 DEF Create
  <2> QED  BY <1>1, <2>1, <2>2 DEF Create
<1>2. CASE Join
  BY <1>2 DEF Join
<1>3. ASSUME NEW t \in Thread, Read(t)  PROVE TypeOK' /\ BoundsOK'
  <2>1. \A u \in Thread :
          /\ pc'[u] = IF u = t THEN "write" ELSE pc[u]
          /\ val2'[u] = IF u = t THEN val ELSE val2[u]
    BY <1>3 DEF Read
  <2>2. TypeOK'
    BY <1>3 DEF Read
  <2> QED  BY <1>3, <2>1, <2>2 DEF Read
<1>4. ASSUME NEW t \in Thread, Write(t)  PROVE TypeOK' /\ BoundsOK'
  <2>1. \A u \in Thread :
          /\ pc'[u] = IF u = t THEN IF i[t] + 1 < Rounds THEN "read" ELSE "done"
                      ELSE pc[u]
          /\ i'[u] = IF u = t THEN i[t] + 1 ELSE i[u]
    BY <1>4 DEF Write, Again
  <2>2. /\ main' = main /\ val2' = val2 /\ val' = val2[t] + 1
        /\ pc[t] = "write" /\ i[t] < Rounds
    BY <1>4 DEF Write
  <2>3. Writes' = Writes + 1 /\ Writes' <= 2 * Rounds
    BY <2>1, <2>2
  <2>4. TypeOK'
    BY <1>4, <2>2, <2>3 DEF Write
  <2>5. (\A u \in Thread : pc'[u] = "done") /\ Rounds > 1 => val' > 1
    BY <2>1, <2>2
  <2> QED  BY <2>1, <2>2, <2>3, <2>4, <2>5
<1>5. CASE UNCHANGED vars
  BY <1>5 DEF vars
<1> QED  BY <1>1, <1>2, <1>3, <1>4, <1>5 DEF Next

\* No value exceeds the writes so far, and no thread that has written ever
\* holds a 0 again.
THEOREM CounterInvariance == Spec => []IInv
<1>1. Init => IInv
  BY CounterAssumption
     DEF CounterAssumption, Init, IInv, TypeOK, BoundsOK, LoopOK, Writes, Thread
<1>2. IInv /\ [Next]_vars => IInv'
  BY LoopStep, BoundsStep DEF IInv
<1> QED  BY <1>1, <1>2, PTL DEF Spec

\* However the threads are interleaved and however many rounds they run, the
\* program ends with a value from 2 to the number of increments.
THEOREM FinalCorrect == Spec => []FinalRange
<1>1. IInv => FinalRange
  BY CounterAssumption
     DEF CounterAssumption, IInv, TypeOK, BoundsOK, LoopOK, FinalRange, Thread
<1> QED  BY CounterInvariance, <1>1, PTL

\* Type correctness: in particular the value stays below twice the rounds.
THEOREM CounterTypeCorrect == Spec => []TypeOK
<1>1. IInv => TypeOK
  BY DEF IInv
<1> QED  BY CounterInvariance, <1>1, PTL

(***************************************************************************)
(* SmallAllocator.                                                         *)
(***************************************************************************)

AllocatorInv == AllocatorIInv /\ ContentsKept

\* The invariant holds at the start.
LEMMA InitInv == AllocatorInit => AllocatorInv
<1> SUFFICES ASSUME AllocatorInit PROVE AllocatorInv
  OBVIOUS
<1> USE AllocatorAssumption DEF AllocatorInit
<1>1. AllocatorTypeOK
  <2>1. 0 \in Size /\ 0 \in 0 .. MaxBlocks
    BY DEF Size
  <2> QED
    BY <2>1 DEF AllocatorTypeOK
<1>2. Layout /\ BlocksDisjoint /\ ContentsKept
  BY DEF Layout, BlocksDisjoint, ContentsKept, Block
<1> QED
  BY <1>1, <1>2 DEF AllocatorInv, AllocatorIInv

\* The layout while no request has wrapped around.
Stacked ==
  /\ pos < Bytes
  /\ \A b \in Block : start[b] + size[b] <= pos /\ kept[b] <= size[b]
  /\ \A b, c \in Block : b < c => start[b] + size[b] <= start[c]

LEMMA WhileUnwrapped == AllocatorIInv /\ ~wrapped => Stacked
<1> SUFFICES ASSUME AllocatorIInv, ~wrapped  PROVE Stacked
  OBVIOUS
<1>1. Layout /\ BlocksDisjoint /\ blocks \in Nat
  BY AllocatorAssumption DEF AllocatorIInv, AllocatorTypeOK
<1>2. \A d \in Block : ~Wraps(d)
  BY <1>1 DEF Layout
<1>3. ASSUME NEW b \in Block  PROVE start[b] + size[b] <= pos /\ kept[b] <= size[b]
  <2>1. \A d \in b .. blocks : d \in Block
    BY <1>1 DEF Block
  <2> QED  BY <1>1, <1>2, <2>1 DEF Layout
<1>4. ASSUME NEW b \in Block, NEW c \in Block, b < c
      PROVE  start[b] + size[b] <= start[c]
  <2>1. \A d \in b .. c - 1 : d \in Block
    BY <1>1, <1>4 DEF Block
  <2> QED  BY <1>1, <1>2, <1>4, <2>1 DEF BlocksDisjoint
<1> QED  BY <1>1, <1>3, <1>4 DEF Layout, Stacked

\* What all calls that return a block have in common.
LEMMA NewBlockLayout ==
  ASSUME AllocatorIInv, NEW n \in Size, Fits(n),
         NEW m \in Nat, m <= n, NEW v \in Value, NewBlock(n, m, v)
  PROVE  /\ pos' \in Size /\ blocks' \in 0 .. MaxBlocks /\ wrapped' \in BOOLEAN
         /\ start' \in [Number -> Nat] /\ size' \in [Number -> Nat]
         /\ kept' \in [Number -> Nat] /\ fill' \in [Number -> Value]
         /\ Layout' /\ BlocksDisjoint'
         /\ blocks + 1 \in Number /\ Block' = Block \cup {blocks + 1}
         /\ start'[blocks + 1] = pos /\ kept'[blocks + 1] = m /\ fill'[blocks + 1] = v
         /\ \A b \in Block : /\ start'[b] = start[b] /\ size'[b] = size[b]
                             /\ kept'[b] = kept[b] /\ fill'[b] = fill[b]
<1> USE AllocatorAssumption
<1>1. AllocatorTypeOK /\ Layout /\ BlocksDisjoint
  BY DEF AllocatorIInv
<1>2. /\ pos \in Nat /\ n \in Nat /\ pos < Bytes /\ n < Word /\ pos < Word
      /\ blocks \in Nat /\ blocks + 1 \in Number /\ blocks + 1 \notin Block
      /\ Block \subseteq Number /\ Block \subseteq Nat
  BY <1>1 DEF AllocatorTypeOK, Layout, Size, NewBlock, Number, Block
<1>3. /\ pos' \in Size /\ blocks' \in 0 .. MaxBlocks /\ wrapped' \in BOOLEAN
      /\ start' \in [Number -> Nat] /\ size' \in [Number -> Nat]
      /\ kept' \in [Number -> Nat] /\ fill' \in [Number -> Value]
  BY <1>1, <1>2 DEF AllocatorTypeOK, NewBlock, Advance, Plus, Size, Number
<1>4. Block' = Block \cup {blocks + 1}
  BY <1>2 DEF NewBlock, Block
<1>5. /\ start'[blocks + 1] = pos /\ size'[blocks + 1] = n
      /\ kept'[blocks + 1] = m /\ fill'[blocks + 1] = v
  BY <1>1, <1>2 DEF AllocatorTypeOK, NewBlock
<1>6. \A b \in Block : /\ start'[b] = start[b] /\ size'[b] = size[b]
                       /\ kept'[b] = kept[b] /\ fill'[b] = fill[b]
  BY <1>1, <1>2 DEF AllocatorTypeOK, NewBlock
<1>7. \A b \in Block : start[b] \in Nat /\ size[b] \in Nat /\ kept[b] \in Nat
  BY <1>1, <1>2 DEF AllocatorTypeOK
<1>8. /\ Plus(n, pos) < Bytes /\ pos' = Plus(n, pos)
      /\ \A d \in {blocks + 1} : Wraps(d)' <=> n + pos >= Word
      /\ n + pos < Word => pos' = pos + n
  <2>1. /\ Plus(n, pos) < Bytes /\ pos' = Plus(n, pos)
        /\ n + pos < Word => pos' = pos + n
    BY <1>2 DEF NewBlock, Fits, Advance, Plus
  <2>2. ASSUME NEW d, d = blocks + 1  PROVE Wraps(d)' <=> n + pos >= Word
    BY <1>2, <1>5, <2>2 DEF Wraps
  <2> QED  BY <2>1, <2>2
<1>11. \A b \in Block : Wraps(b)' <=> Wraps(b)
  BY <1>6 DEF Wraps
<1>12. wrapped' = (wrapped \/ n + pos >= Word) /\ blocks' = blocks + 1
  BY DEF NewBlock
<1>9. Layout'
  <2>1. pos' < Bytes
    BY <1>8
  <2>2. ASSUME ~wrapped', NEW b \in Block'  PROVE ~Wraps(b)'
    <3>1. ~wrapped /\ ~(n + pos >= Word)
      BY ONLY <1>12, <2>2, Zenon
    <3>2. CASE b \in Block
      BY <1>1, <1>11, <3>1, <3>2 DEF Layout
    <3>3. CASE b = blocks + 1
      BY <1>8, <3>1, <3>3
    <3> QED  BY <1>4, <3>2, <3>3
  <2>3. ASSUME NEW b \in Block'  PROVE kept'[b] <= size'[b]
    <3>1. CASE b \in Block
      BY <1>1, <1>6, <3>1 DEF Layout
    <3>2. CASE b = blocks + 1
      BY <1>2, <1>5, <3>2
    <3> QED  BY <1>4, <3>1, <3>2
  <2>4. ASSUME NEW b \in Block', \A d \in b .. blocks' : ~Wraps(d)'
        PROVE  start'[b] + size'[b] <= pos'
    <3>1. n + pos < Word /\ pos' = pos + n
      <4>1. blocks + 1 \in b .. blocks'
        BY <1>2, <1>4, <1>12 DEF Block
      <4>2. ~(n + pos >= Word)
        <5>1. PICK d \in b .. blocks' : d = blocks + 1
          BY <4>1
        <5>2. ~Wraps(d)'
          BY <2>4, <5>1
        <5>3. Wraps(d)' <=> n + pos >= Word
          BY <1>8, <5>1
        <5> QED  BY ONLY <5>2, <5>3
      <4> QED  BY <1>2, <1>8, <4>2
    <3>2. CASE b \in Block
      <4>1. \A d \in b .. blocks : d \in Block /\ d \in b .. blocks'
        BY <1>2, <1>12, <3>2 DEF Block
      <4>2. start[b] + size[b] <= pos
        BY <1>1, <1>11, <2>4, <3>2, <4>1 DEF Layout
      <4> QED  BY <1>2, <1>6, <1>7, <3>1, <3>2, <4>2
    <3>3. CASE b = blocks + 1
      BY <1>2, <1>5, <3>1, <3>3
    <3> QED  BY <1>4, <3>2, <3>3
  <2> QED  BY <2>1, <2>2, <2>3, <2>4 DEF Layout
<1>10. BlocksDisjoint'
  <2>1. ASSUME NEW b \in Block', ~Wraps(b)'  PROVE start'[b] + size'[b] < Bytes
    <3>1. CASE b \in Block
      BY <1>1, <1>6, <1>11, <2>1, <3>1 DEF BlocksDisjoint
    <3>2. CASE b = blocks + 1
      <4>1. Wraps(b)' <=> n + pos >= Word
        BY <1>8, <3>2
      <4>2. n + pos < Word
        BY <1>2, <2>1, <4>1
      <4>3. pos + n < Bytes
        BY <1>2, <1>8, <4>2
      <4> QED  BY <1>5, <3>2, <4>3
    <3> QED  BY <1>4, <3>1, <3>2
  <2>2. ASSUME NEW b \in Block', NEW c \in Block', b < c, \A d \in b .. c - 1 : ~Wraps(d)'
        PROVE  start'[b] + size'[b] <= start'[c]
    <3>1. b \in Block /\ \A d \in b .. c - 1 : d \in Block
      BY <1>2, <1>4, <2>2 DEF Block
    <3>2. \A d \in b .. c - 1 : ~Wraps(d)
      BY <1>11, <2>2, <3>1
    <3>3. CASE c \in Block
      BY <1>1, <1>6, <2>2, <3>1, <3>2, <3>3 DEF BlocksDisjoint
    <3>4. CASE c = blocks + 1
      <4>1. c - 1 = blocks
        BY <1>2, <3>4
      <4>2. start[b] + size[b] <= pos
        BY <1>1, <3>1, <3>2, <4>1 DEF Layout
      <4> QED  BY <1>5, <1>6, <3>1, <3>4, <4>2
    <3> QED  BY <1>4, <3>3, <3>4
  <2> QED  BY <2>1, <2>2 DEF BlocksDisjoint
<1> QED
  BY <1>2, <1>3, <1>4, <1>5, <1>6, <1>9, <1>10

\* Alloc() keeps it.
LEMMA AllocInv ==
  ASSUME AllocatorInv, NEW n \in Size, Alloc(n)
  PROVE  AllocatorInv'
<1> USE AllocatorAssumption
<1>1. AllocatorIInv /\ ContentsKept /\ AllocatorTypeOK /\ 0 \in Nat /\ 0 <= n
  BY DEF AllocatorInv, AllocatorIInv, Size
<1>2. Fits(n) /\ NewBlock(n, 0, 0) /\ UNCHANGED memory /\ (wrapped => wrapped')
  BY DEF Alloc, NewBlock
<1>3. /\ AllocatorTypeOK' /\ Layout' /\ BlocksDisjoint'
      /\ Block' = Block \cup {blocks + 1}
      /\ kept'[blocks + 1] = 0
      /\ \A b \in Block : start'[b] = start[b] /\ kept'[b] = kept[b] /\ fill'[b] = fill[b]
  BY <1>1, <1>2, NewBlockLayout DEF AllocatorTypeOK
<1>4. ContentsKept'
  BY <1>1, <1>2, <1>3 DEF ContentsKept
<1> QED
  BY <1>3, <1>4 DEF AllocatorInv, AllocatorIInv

\* ReAlloc() keeps it.
LEMMA ReAllocInv ==
  ASSUME AllocatorInv, NEW b \in Number, NEW n \in Size, ReAlloc(b, n)
  PROVE  AllocatorInv'
<1> DEFINE m == IF kept[b] < n THEN kept[b] ELSE n
<1> USE AllocatorAssumption
<1>1. AllocatorIInv /\ ContentsKept /\ AllocatorTypeOK /\ Stacked
  BY WhileUnwrapped DEF AllocatorInv, AllocatorIInv, ReAlloc
<1>2. ~wrapped /\ b \in Block /\ Fits(n) /\ n + pos < Word
  BY DEF ReAlloc
<1>3. /\ m \in Nat /\ m <= n /\ n \in Nat /\ fill[b] \in Value /\ NewBlock(n, m, fill[b])
      /\ pos \in Nat /\ pos + n < Bytes /\ start[b] \in Nat
      /\ m <= kept[b] /\ kept[b] \in Nat /\ start[b] + kept[b] <= pos
  BY <1>1, <1>2 DEF AllocatorTypeOK, ReAlloc, Size, Stacked, Fits, Plus
<1> HIDE DEF m
<1>4. /\ pos' \in Size /\ blocks' \in 0 .. MaxBlocks /\ wrapped' \in BOOLEAN
      /\ start' \in [Number -> Nat] /\ size' \in [Number -> Nat]
      /\ kept' \in [Number -> Nat] /\ fill' \in [Number -> Value]
      /\ Layout' /\ BlocksDisjoint'
      /\ Block' = Block \cup {blocks + 1}
      /\ start'[blocks + 1] = pos /\ kept'[blocks + 1] = m /\ fill'[blocks + 1] = fill[b]
      /\ \A c \in Block : start'[c] = start[c] /\ kept'[c] = kept[c] /\ fill'[c] = fill[c]
  BY <1>1, <1>2, <1>3, NewBlockLayout
<1>5. memory' = [c \in Cell |->
                   IF c \in pos .. pos + n - 1 /\ start[b] < pos
                   THEN memory[Source(start[b], start[b] + (c - pos))] ELSE memory[c]]
  BY DEF ReAlloc, Copied
<1>6. ASSUME NEW c \in Cell, c \in pos .. pos + n - 1, start[b] < pos
      PROVE  Source(start[b], start[b] + (c - pos)) \in Cell
  <2>1. start[b] + (c - pos) \in Nat /\ pos - start[b] \in Nat \ {0} /\ c - pos \in Nat
    BY <1>3, <1>6 DEF Cell
  <2>2. (c - pos) % (pos - start[b]) \in 0 .. (pos - start[b]) - 1
    BY <2>1
  <2>3. (start[b] + (c - pos)) - start[b] = c - pos
    BY <1>3, <2>1
  <2> QED
    BY <1>3, <2>1, <2>2, <2>3 DEF Source, Cell
<1>7. memory' \in [Cell -> Value]
  <2>1. memory \in [Cell -> Value]
    BY <1>1 DEF AllocatorTypeOK
  <2> QED
    BY <1>5, <1>6, <2>1
<1>8. \A c \in Cell : c < pos => memory'[c] = memory[c]
  BY <1>3, <1>5 DEF Cell
<1>9. ASSUME NEW j \in 0 .. m - 1
      PROVE  memory'[pos + j] = fill[b]
  <2>1. /\ j \in Nat /\ j < kept[b] /\ j < n /\ start[b] < pos /\ start[b] + j < pos
        /\ pos + j \in Cell /\ pos + j \in pos .. pos + n - 1
        /\ start[b] + ((pos + j) - pos) = start[b] + j
    BY <1>3, <1>9 DEF Cell
  <2>2. memory'[pos + j] = memory[start[b] + j]
    BY <1>5, <2>1 DEF Source
  <2>3. memory[start[b] + j] = fill[b]
    BY <1>1, <1>2, <1>3, <2>1 DEF ContentsKept
  <2> QED
    BY <2>2, <2>3
<1>10. ASSUME NEW c \in Block, NEW j \in 0 .. kept[c] - 1
       PROVE  memory'[start[c] + j] = fill[c]
  <2>1. start[c] \in Nat /\ kept[c] \in Nat /\ size[c] \in Nat /\ start[c] + size[c] <= pos
        /\ kept[c] <= size[c] /\ j \in Nat /\ pos < Bytes
    BY <1>1, <1>2, <1>10 DEF AllocatorTypeOK, Stacked, Block, Number
  <2>2. start[c] + j \in Cell /\ start[c] + j < pos
    BY <1>3, <1>10, <2>1 DEF Cell
  <2>3. memory[start[c] + j] = fill[c]
    BY <1>1, <1>2, <1>10 DEF ContentsKept
  <2> QED
    BY <1>8, <2>2, <2>3
<1>11. ContentsKept'
  BY <1>4, <1>9, <1>10 DEF ContentsKept
<1>12. AllocatorTypeOK'
  BY <1>4, <1>7 DEF AllocatorTypeOK
<1> QED
  BY <1>4, <1>11, <1>12 DEF AllocatorInv, AllocatorIInv

\* The program's writes into its blocks keep it.
LEMMA FillInv ==
  ASSUME AllocatorInv, NEW b \in Number, NEW v \in Value, Fill(b, v)
  PROVE  AllocatorInv'
<1> USE AllocatorAssumption
<1>1. AllocatorTypeOK /\ Layout /\ BlocksDisjoint /\ ContentsKept /\ Stacked
  BY WhileUnwrapped DEF AllocatorInv, AllocatorIInv, Fill
<1>2. /\ ~wrapped /\ b \in Block /\ Block \subseteq Number /\ Block' = Block
      /\ UNCHANGED <<pos, blocks, start, size, wrapped>>
  BY <1>1 DEF Fill, Block, AllocatorTypeOK, Number
<1>3. /\ memory' = [c \in Cell |-> IF c \in start[b] .. start[b] + size[b] - 1
                                   THEN v ELSE memory[c]]
      /\ kept' = [kept EXCEPT ![b] = size[b]]
      /\ fill' = [fill EXCEPT ![b] = v]
  BY DEF Fill
<1>4. AllocatorTypeOK'
  BY <1>1, <1>2, <1>3 DEF AllocatorTypeOK
<1>5. Layout' /\ BlocksDisjoint'
  BY <1>1, <1>2, <1>3 DEF Layout, BlocksDisjoint, Wraps, AllocatorTypeOK
<1>6. ASSUME NEW c \in Block, NEW j \in 0 .. kept'[c] - 1
      PROVE  memory'[start[c] + j] = fill'[c]
  <2>1. /\ start[c] \in Nat /\ kept[c] \in Nat /\ size[c] \in Nat
        /\ start[b] \in Nat /\ size[b] \in Nat
        /\ start[c] + size[c] <= pos /\ kept[c] <= size[c]
        /\ pos \in Nat /\ pos < Bytes
    BY <1>1, <1>2 DEF AllocatorTypeOK, Stacked, Size
  <2>2. CASE c = b
    <3>1. kept'[c] = size[b] /\ fill'[c] = v
      BY <1>1, <1>2, <1>3, <2>2 DEF AllocatorTypeOK
    <3>2. start[c] + j \in Cell /\ start[c] + j \in start[b] .. start[b] + size[b] - 1
      BY <1>6, <2>1, <2>2, <3>1 DEF Cell
    <3> QED
      BY <1>3, <3>1, <3>2
  <2>3. CASE c # b
    <3>1. kept'[c] = kept[c] /\ fill'[c] = fill[c]
      BY <1>1, <1>2, <1>3, <2>3 DEF AllocatorTypeOK
    <3>2. start[c] + size[c] <= start[b] \/ start[b] + size[b] <= start[c]
      BY <1>1, <1>2, <2>3 DEF Stacked, Block
    <3>3. start[c] + j \in Cell /\ start[c] + j \notin start[b] .. start[b] + size[b] - 1
      BY <1>6, <2>1, <3>1, <3>2 DEF Cell
    <3>4. memory[start[c] + j] = fill[c]
      BY <1>1, <1>2, <1>6, <3>1 DEF ContentsKept
    <3> QED
      BY <1>3, <3>1, <3>3, <3>4
  <2> QED
    BY <2>2, <2>3
<1>7. ContentsKept'
  BY <1>2, <1>6 DEF ContentsKept
<1> QED
  BY <1>4, <1>5, <1>7 DEF AllocatorInv, AllocatorIInv

\* Every step keeps it.
LEMMA NextInv == AllocatorInv /\ [AllocatorNext]_allocatorVars => AllocatorInv'
<1> SUFFICES ASSUME AllocatorInv, [AllocatorNext]_allocatorVars PROVE AllocatorInv'
  OBVIOUS
<1>1. CASE \E n \in Size : Alloc(n)
  BY <1>1, AllocInv
<1>2. CASE \E b \in Number, n \in Size : ReAlloc(b, n)
  BY <1>2, ReAllocInv
<1>3. CASE \E b \in Number, v \in Value : Fill(b, v)
  BY <1>3, FillInv
<1>4. CASE UNCHANGED allocatorVars
  BY <1>4 DEF AllocatorInv, AllocatorIInv, AllocatorTypeOK, Layout, BlocksDisjoint, Wraps,
              ContentsKept, Block, allocatorVars
<1> QED
  BY <1>1, <1>2, <1>3, <1>4 DEF AllocatorNext

\* The inductive invariant, with what the blocks hold: the layout keeps what is
\* written to one block out of the others.
THEOREM AllocatorInvariance == AllocatorSpec => [](AllocatorIInv /\ ContentsKept)
<1>1. AllocatorInit => AllocatorInv
  BY InitInv
<1>2. AllocatorInv /\ [AllocatorNext]_allocatorVars => AllocatorInv'
  BY NextInv
<1>3. AllocatorInv => AllocatorIInv /\ ContentsKept
  BY DEF AllocatorInv
<1> QED
  BY <1>1, <1>2, <1>3, PTL DEF AllocatorSpec

\* No two blocks share a byte and all lie in the array, but for those that a wrapped
\* sum explains, for every array, every width of uint and every sequence of calls.
THEOREM DisjointCorrect == AllocatorSpec => []BlocksDisjoint
<1>1. AllocatorIInv /\ ContentsKept => BlocksDisjoint
  BY DEF AllocatorIInv
<1> QED
  BY <1>1, AllocatorInvariance, PTL

\* The ERROR lines of main() are never printed, by any program of this kind.
THEOREM ContentsCorrect == AllocatorSpec => []ContentsKept
<1>1. AllocatorIInv /\ ContentsKept => ContentsKept
  OBVIOUS
<1> QED
  BY <1>1, AllocatorInvariance, PTL

(***************************************************************************)
(* Numbers and sets.                                                       *)
(***************************************************************************)

\* Every non-empty set of natural numbers has a least one.
LEMMA LeastNumber ==
  ASSUME NEW T \in SUBSET Nat, T # {}
  PROVE  \E x \in T : \A y \in T : x <= y
<1>1. PICK x \in T : \A y \in T : ~ (<<y, x>> \in OpToRel(<, Nat))
  BY WFMin, NatLessThanWellFounded
<1>2. \A y \in T : ~(y < x)
  BY <1>1 DEF OpToRel
<1> QED  BY <1>2

\* When one thread goes from one place to another, the number of those at the
\* places of S changes by its going and coming.
LEMMA Moved ==
  ASSUME NEW n \in Nat, NEW f, DOMAIN f = 0 .. n - 1, NEW S, NEW t \in 0 .. n - 1,
         NEW place
  PROVE  Cardinality({u \in 0 .. n - 1 : [f EXCEPT ![t] = place][u] \in S})
           = Cardinality({u \in 0 .. n - 1 : f[u] \in S})
             + (IF place \in S THEN 1 ELSE 0) - (IF f[t] \in S THEN 1 ELSE 0)
<1> DEFINE A == {u \in 0 .. n - 1 : f[u] \in S}
           B == {u \in 0 .. n - 1 : [f EXCEPT ![t] = place][u] \in S}
           R == A \ {t}
<1>1. IsFiniteSet(A)
  <2>1. IsFiniteSet(0 .. n - 1) /\ A \subseteq 0 .. n - 1
    BY FS_Interval
  <2> QED  BY <2>1, FS_Subset
<1>2. t \in A <=> f[t] \in S
  OBVIOUS
<1>3. B = IF place \in S THEN R \cup {t} ELSE R
  <2>1. \A u \in 0 .. n - 1 : [f EXCEPT ![t] = place][u] = IF u = t THEN place ELSE f[u]
    OBVIOUS
  <2>2. \A u \in 0 .. n - 1 : u \in B <=> IF u = t THEN place \in S ELSE f[u] \in S
    BY <2>1
  <2>3. CASE place \in S
    BY <2>2, <2>3
  <2>4. CASE place \notin S
    BY <2>2, <2>4
  <2> QED  BY <2>3, <2>4
<1> HIDE DEF A, B
<1>4. /\ IsFiniteSet(R) /\ t \notin R
      /\ Cardinality(R) = IF t \in A THEN Cardinality(A) - 1 ELSE Cardinality(A)
  BY <1>1, FS_RemoveElement
<1>5. Cardinality(R \cup {t}) = Cardinality(R) + 1
  BY <1>4, FS_AddElement
<1>6. Cardinality(A) \in Nat /\ Cardinality(R) \in Nat
  BY <1>1, <1>4, FS_CardinalityType
<1> HIDE DEF R
<1>7. Cardinality(B) = Cardinality(A) + (IF place \in S THEN 1 ELSE 0) - (IF f[t] \in S THEN 1 ELSE 0)
  BY <1>2, <1>3, <1>4, <1>5, <1>6
<1> QED  BY <1>7 DEF A, B

\* When all threads are at one place, the others have none.
LEMMA Together ==
  ASSUME NEW n \in Nat, NEW f, NEW x, \A t \in 0 .. n - 1 : f[t] = x, NEW S
  PROVE  Cardinality({u \in 0 .. n - 1 : f[u] \in S}) = IF x \in S THEN n ELSE 0
<1> DEFINE A == {u \in 0 .. n - 1 : f[u] \in S}
<1>1. A = IF x \in S THEN 0 .. n - 1 ELSE {}
  OBVIOUS
<1>2. Cardinality(0 .. n - 1) = n /\ Cardinality({}) = 0
  BY FS_Interval, FS_EmptySet
<1> HIDE DEF A
<1>3. Cardinality(A) = IF x \in S THEN n ELSE 0
  BY <1>1, <1>2
<1> QED  BY <1>3 DEF A

\* How often x occurs in a sequence that was just made longer.
LEMMA Counted ==
  ASSUME NEW o \in Seq(Nat), NEW x, NEW y \in Nat
  PROVE  Cardinality({l \in 1 .. Len(Append(o, y)) : Append(o, y)[l] = x})
           = Cardinality({l \in 1 .. Len(o) : o[l] = x}) + (IF x = y THEN 1 ELSE 0)
<1> DEFINE A == {l \in 1 .. Len(o) : o[l] = x}
           B == {l \in 1 .. Len(Append(o, y)) : Append(o, y)[l] = x}
           n == Len(o) + 1
<1>1. /\ Len(o) \in Nat /\ n \in Nat /\ Len(Append(o, y)) = n
      /\ \A l \in 1 .. Len(o) : Append(o, y)[l] = o[l]
      /\ Append(o, y)[n] = y
  OBVIOUS
<1>2. IsFiniteSet(A) /\ n \notin A
  <2>1. A \subseteq 1 .. Len(o) /\ n \notin 1 .. Len(o)
    BY <1>1
  <2> HIDE DEF A, B, n
  <2>2. IsFiniteSet(1 .. Len(o))
    BY ONLY <1>1, 1 \in Int, Len(o) \in Int, FS_Interval
  <2> QED  BY <2>1, <2>2, FS_Subset
<1>3. B = IF x = y THEN A \cup {n} ELSE A
  <2>1. \A l : l \in B <=> l \in 1 .. n /\ (IF l = n THEN y ELSE o[l]) = x
    <3>1. ASSUME NEW l \in 1 .. n
          PROVE  Append(o, y)[l] = IF l = n THEN y ELSE o[l]
      <4>1. CASE l = n
        BY <1>1, <4>1
      <4>2. CASE l # n
        <5>1. l \in 1 .. Len(o)
          BY <1>1, <4>2
        <5> QED  BY <1>1, <4>2, <5>1
      <4> QED  BY <4>1, <4>2
    <3>2. B = {l \in 1 .. n : Append(o, y)[l] = x}
      BY <1>1
    <3> QED  BY <3>1, <3>2
  <2>2. \A l : l \in 1 .. n <=> l = n \/ l \in 1 .. Len(o)
    BY <1>1
  <2>3. \A l : l \in A <=> l \in 1 .. Len(o) /\ o[l] = x
    OBVIOUS
  <2>4. n \notin 1 .. Len(o)
    BY <1>1
  <2> HIDE DEF A, B, n
  <2>5. \A l : l \in B <=> l \in A \/ (l = n /\ x = y)
    BY <2>1, <2>2, <2>3, <2>4
  <2>6. B = {l \in A \cup {n} : l \in A \/ x = y}
    BY <2>5
  <2> QED  BY <1>2, <2>6
<1> HIDE DEF A, B, n
<1>4. Cardinality(A \cup {n}) = Cardinality(A) + 1 /\ Cardinality(A) \in Nat
  BY <1>2, FS_AddElement, FS_CardinalityType
<1>5. Cardinality(B) = Cardinality(A) + (IF x = y THEN 1 ELSE 0)
  BY <1>3, <1>4
<1> QED  BY <1>5 DEF A, B

\* Multiplication is monotonic.
LEMMA Times ==
  ASSUME NEW t \in Nat, NEW u \in Nat, NEW q \in Nat, t <= u
  PROVE  t * q <= u * q /\ t * q \in Nat /\ u * q \in Nat
<1>1. u - t \in Nat /\ u = t + (u - t)
  OBVIOUS
<1>2. \A d \in Nat : d * q \in Nat /\ (t + d) * q = t * q + d * q
  OBVIOUS
<1> QED  BY <1>1, <1>2

\* The chunks of a loop follow each other, from its first iteration to its last.
LEMMA Chunks ==
  ASSUME NEW n \in Nat \ {0}, NEW m \in Nat
  PROVE  /\ \A t \in Nat : OMP!Chunk(t, n, m) \in Nat
         /\ \A t, u \in Nat : t <= u => OMP!Chunk(t, n, m) <= OMP!Chunk(u, n, m)
         /\ OMP!Chunk(0, n, m) = 0 /\ OMP!Chunk(n, n, m) = m
<1> DEFINE q == m \div n
           r == m % n
<1>1. q \in Nat /\ r \in 0 .. n - 1 /\ m = n * q + r
  OBVIOUS
<1>2. \A t \in Nat : OMP!Chunk(t, n, m) = t * q + OMP!Min2(t, r)
  BY DEF OMP!Chunk
<1> HIDE DEF q, r
<1>3. \A t, u \in Nat : t <= u => t * q <= u * q /\ t * q \in Nat /\ u * q \in Nat
  BY <1>1, Times
<1>4. ASSUME NEW t \in Nat  PROVE OMP!Chunk(t, n, m) \in Nat
  <2>1. t * q \in Nat
    BY <1>3
  <2> QED  BY <1>1, <1>2, <2>1 DEF OMP!Min2
<1>5. ASSUME NEW t \in Nat, NEW u \in Nat, t <= u
      PROVE  OMP!Chunk(t, n, m) <= OMP!Chunk(u, n, m)
  <2>1. t * q <= u * q /\ t * q \in Nat /\ u * q \in Nat
    BY <1>3, <1>5
  <2>2. OMP!Min2(t, r) <= OMP!Min2(u, r) /\ OMP!Min2(t, r) \in Nat /\ OMP!Min2(u, r) \in Nat
    BY <1>1, <1>5 DEF OMP!Min2
  <2> DEFINE a == t * q
             b == u * q
  <2>3. OMP!Chunk(t, n, m) = a + OMP!Min2(t, r) /\ OMP!Chunk(u, n, m) = b + OMP!Min2(u, r)
    BY <1>2
  <2> HIDE DEF a, b
  <2>4. a <= b /\ a \in Nat /\ b \in Nat
    BY <2>1 DEF a, b
  <2> QED  BY <2>2, <2>3, <2>4
<1>6. OMP!Chunk(0, n, m) = 0
  <2>1. 0 * q = 0
    BY <1>1
  <2> QED  BY <1>1, <1>2, <2>1 DEF OMP!Min2
<1>7. OMP!Chunk(n, n, m) = m
  <2>1. OMP!Chunk(n, n, m) = n * q + OMP!Min2(n, r)
    BY <1>2
  <2>2. OMP!Min2(n, r) = r
    BY <1>1 DEF OMP!Min2
  <2> QED  BY <1>1, <2>1, <2>2
<1> QED  BY <1>4, <1>5, <1>6, <1>7

(***************************************************************************)
(* OpenMP.                                                                 *)
(***************************************************************************)

\* The tables of the module, entry by entry.
LEMMA Tables ==
  /\ OMP!Places["sum"] = {"work", "done"}
  /\ OMP!Places["barrier"] = {"one", "three", "barrier", "two", "done"}
  /\ OMP!Places["single"] = {"one", "single", "two", "master", "three", "done"}
  /\ OMP!Places["ordered"] = {"work", "ordered", "done"}
  /\ OMP!Places["critical"] = {"enter", "inc", "leave", "done"}
  /\ OMP!Places["atomic"] = {"inc", "done"}
  /\ OMP!Places["end"] = {"done"}
  /\ OMP!After["sum"] = "barrier" /\ OMP!After["barrier"] = "single"
  /\ OMP!After["single"] = "ordered" /\ OMP!After["ordered"] = "critical"
  /\ OMP!After["critical"] = "atomic" /\ OMP!After["atomic"] = "end"
  /\ OMP!Start["barrier"] = "one" /\ OMP!Start["single"] = "one"
  /\ OMP!Start["ordered"] = "work" /\ OMP!Start["critical"] = "enter"
  /\ OMP!Start["atomic"] = "inc" /\ OMP!Start["end"] = "done"
  /\ OMP!Asked["barrier"] = 3 /\ OMP!Asked["single"] = 3 /\ OMP!Asked["ordered"] = 4
  /\ OMP!Asked["critical"] = 3 /\ OMP!Asked["atomic"] = MaxTeam /\ OMP!Asked["end"] = 1
BY DEF OMP!Places, OMP!After, OMP!Start, OMP!Asked

\* Where a thread is tells the region.
LEMMA WhereItIs ==
  ASSUME OMP!TypeOK, NEW t \in OMP!Team
  PROVE  /\ at[t] = "work" => region \in {"sum", "ordered"}
         /\ at[t] \in {"one", "three", "two"} => region \in {"barrier", "single"}
         /\ at[t] = "barrier" => region = "barrier"
         /\ at[t] \in {"single", "master"} => region = "single"
         /\ at[t] = "ordered" => region = "ordered"
         /\ at[t] \in {"enter", "leave"} => region = "critical"
         /\ at[t] = "inc" => region \in {"critical", "atomic"}
         /\ at[t] \in OMP!Places[region]
<1>1. at[t] \in OMP!Places[region]
  BY DEF OMP!TypeOK
<1>2. region \in {"sum", "barrier", "single", "ordered", "critical", "atomic", "end"}
  BY DEF OMP!TypeOK
<1> QED  BY <1>1, <1>2, Tables

\* A step of a thread stays in its region and keeps the types.
LEMMA StepType ==
  ASSUME OMP!TypeOK, NEW t \in OMP!Team, OMP!Step(t)
  PROVE  /\ region' = region /\ team' = team /\ crew' = crew
         /\ OMP!Team' = OMP!Team
         /\ OMP!TypeOK'
<1>1. region' = region /\ team' = team /\ crew' = crew
  BY DEF OMP!Step, OMP!Add, OMP!Reduce, OMP!PrintOne, OMP!PrintThree, OMP!Barrier,
         OMP!PrintTwo, OMP!Single, OMP!Master, OMP!Cycle1, OMP!Cycle2, OMP!Critical,
         OMP!Increment, OMP!Leave, OMP!frame
<1>2. OMP!Team' = OMP!Team
  BY <1>1 DEF OMP!Team
<1>3. at' \in [OMP!Team -> OMP!Places[region]]
  <2>0. at \in [OMP!Team -> OMP!Places[region]]
    BY DEF OMP!TypeOK
  <2>1. \/ at' = at
        \/ \E place : at' = [at EXCEPT ![t] = place] /\ place \in OMP!Places[region]
    <3>1. CASE OMP!Add(t) \/ OMP!Reduce(t)
      BY <3>1, Tables DEF OMP!Add, OMP!Reduce, OMP!Go
    <3>2. CASE OMP!PrintOne(t)
      BY <3>2, Tables, WhereItIs DEF OMP!PrintOne, OMP!Go
    <3>3. CASE OMP!PrintThree(t)
      BY <3>3, Tables, WhereItIs DEF OMP!PrintThree, OMP!Go
    <3>4. CASE OMP!Barrier(t)
      BY <3>4, Tables, WhereItIs DEF OMP!Barrier, OMP!Go
    <3>5. CASE OMP!PrintTwo(t)
      BY <3>5, Tables, WhereItIs DEF OMP!PrintTwo, OMP!Go
    <3>6. CASE OMP!Single(t) \/ OMP!Master(t)
      BY <3>6, Tables, WhereItIs DEF OMP!Single, OMP!Master, OMP!Go
    <3>7. CASE OMP!Cycle1(t) \/ OMP!Cycle2(t)
      BY <3>7, Tables, WhereItIs DEF OMP!Cycle1, OMP!Cycle2, OMP!Go
    <3>8. CASE OMP!Critical(t) \/ OMP!Leave(t)
      BY <3>8, Tables, WhereItIs DEF OMP!Critical, OMP!Leave, OMP!Go
    <3>9. CASE OMP!Increment(t)
      BY <3>9, Tables, WhereItIs DEF OMP!Increment, OMP!Go
    <3> QED
      BY <3>1, <3>2, <3>3, <3>4, <3>5, <3>6, <3>7, <3>8, <3>9 DEF OMP!Step
  <2> QED  BY <2>0, <2>1
<1>4. iter' \in [OMP!Team -> Nat]
  <2>1. iter' = [iter EXCEPT ![t] = iter[t] + 1] \/ iter' = iter
    BY DEF OMP!Step, OMP!Add, OMP!Reduce, OMP!PrintOne, OMP!PrintThree, OMP!Barrier,
         OMP!PrintTwo, OMP!Single, OMP!Master, OMP!Cycle1, OMP!Cycle2, OMP!Critical,
         OMP!Increment, OMP!Leave
  <2>2. iter \in [OMP!Team -> Nat]
    BY DEF OMP!TypeOK
  <2> QED  BY <2>1, <2>2
<1>5. out' \in Seq(Nat)
  <2>1. out \in Seq(Nat) /\ jj \in Nat /\ iter[t] \in Nat
    BY DEF OMP!TypeOK
  <2>2. out' = out \/ \E x \in {1, 2, 3, 4, jj, iter[t]} : out' = Append(out, x)
    BY DEF OMP!Step, OMP!Add, OMP!Reduce, OMP!PrintOne, OMP!PrintThree, OMP!Barrier,
         OMP!PrintTwo, OMP!Single, OMP!Master, OMP!Cycle1, OMP!Cycle2, OMP!Critical,
         OMP!Increment, OMP!Leave, OMP!Say
  <2>3. CASE out' = out
    BY <2>1, <2>3
  <2>4. ASSUME NEW x \in {1, 2, 3, 4, jj, iter[t]}, out' = Append(out, x)
        PROVE  out' \in Seq(Nat)
    <3>1. x \in Nat
      BY <2>1
    <3> QED  BY <2>1, <2>4, <3>1, AppendProperties
  <2> QED  BY <2>2, <2>3, <2>4
<1>6. /\ single' \in BOOLEAN /\ turn' \in Nat /\ holder' \in OMP!Team \cup {-1}
      /\ jj' \in Nat
  <2>1. single' \in {single, TRUE} /\ turn' \in {turn, turn + 1}
    BY DEF OMP!Step, OMP!Add, OMP!Reduce, OMP!PrintOne, OMP!PrintThree, OMP!Barrier,
         OMP!PrintTwo, OMP!Single, OMP!Master, OMP!Cycle1, OMP!Cycle2, OMP!Critical,
         OMP!Increment, OMP!Leave, OMP!data
  <2>2. holder' \in {holder, t, -1} /\ jj' \in {jj, jj + 1}
    BY DEF OMP!Step, OMP!Add, OMP!Reduce, OMP!PrintOne, OMP!PrintThree, OMP!Barrier,
         OMP!PrintTwo, OMP!Single, OMP!Master, OMP!Cycle1, OMP!Cycle2, OMP!Critical,
         OMP!Increment, OMP!Leave, OMP!data
  <2>3. /\ single \in BOOLEAN /\ turn \in Nat /\ holder \in OMP!Team \cup {-1} /\ jj \in Nat
    BY DEF OMP!TypeOK
  <2>4. single' \in BOOLEAN
    BY <2>1, <2>3
  <2>5. turn' \in Nat /\ jj' \in Nat
    BY <2>1, <2>2, <2>3
  <2>6. holder' \in OMP!Team \cup {-1}
    BY <2>2, <2>3
  <2> QED  BY <2>4, <2>5, <2>6
<1> QED  BY <1>1, <1>2, <1>3, <1>4, <1>5, <1>6 DEF OMP!TypeOK

\* Where the threads are when one of them has gone to a place.
LEMMA Arrives ==
  ASSUME OMP!TypeOK, NEW t \in OMP!Team, NEW place, OMP!Go(t, place)
  PROVE  \A u \in OMP!Team : at'[u] = IF u = t THEN place ELSE at[u]
BY DEF OMP!TypeOK, OMP!Go

\* A thread that goes to a place changes the numbers of those at the places.
LEMMA GoesTo ==
  ASSUME OMP!TypeOK, NEW t \in OMP!Team, NEW place, OMP!Go(t, place), team' = team, NEW S
  PROVE  /\ OMP!Num(S)' = OMP!Num(S) + (IF place \in S THEN 1 ELSE 0)
                                     - (IF at[t] \in S THEN 1 ELSE 0)
         /\ OMP!Num(S) \in Nat /\ OMP!Num(S)' \in Nat
<1>1. /\ team \in Nat /\ DOMAIN at = 0 .. team - 1 /\ t \in 0 .. team - 1
      /\ at' = [at EXCEPT ![t] = place] /\ OMP!Team = 0 .. team - 1
  BY DEF OMP!TypeOK, OMP!Team, OMP!Go
<1>2. /\ OMP!Num(S) = Cardinality({u \in 0 .. team - 1 : at[u] \in S})
      /\ OMP!Num(S)' = Cardinality({u \in 0 .. team - 1 : at'[u] \in S})
  BY <1>1 DEF OMP!Num, OMP!Team, OMP!Cardinality, Cardinality
<1>3. OMP!Num(S)' = OMP!Num(S) + (IF place \in S THEN 1 ELSE 0)
                               - (IF at[t] \in S THEN 1 ELSE 0)
  <2> DEFINE f == at
             n == team
  <2>1. n \in Nat /\ DOMAIN f = 0 .. n - 1 /\ t \in 0 .. n - 1
    BY <1>1
  <2>2. /\ OMP!Num(S) = Cardinality({u \in 0 .. n - 1 : f[u] \in S})
        /\ OMP!Num(S)' = Cardinality({u \in 0 .. n - 1 : [f EXCEPT ![t] = place][u] \in S})
    BY <1>1, <1>2
  <2> HIDE DEF f, n
  <2>3. Cardinality({u \in 0 .. n - 1 : [f EXCEPT ![t] = place][u] \in S})
         = Cardinality({u \in 0 .. n - 1 : f[u] \in S})
             + (IF place \in S THEN 1 ELSE 0) - (IF f[t] \in S THEN 1 ELSE 0)
    BY ONLY <2>1, Moved
  <2>4. OMP!Num(S)' = OMP!Num(S) + (IF place \in S THEN 1 ELSE 0) - (IF f[t] \in S THEN 1 ELSE 0)
    BY ONLY <2>2, <2>3
  <2> QED  BY <2>4 DEF f
<1>4. OMP!Num(S) \in Nat /\ OMP!Num(S)' \in Nat
  <2>1. IsFiniteSet(0 .. team - 1)
    BY <1>1, FS_Interval
  <2>2. ASSUME NEW A \in SUBSET (0 .. team - 1)  PROVE Cardinality(A) \in Nat
    BY <2>1, FS_Subset, FS_CardinalityType
  <2> QED  BY <1>2, <2>2
<1> QED  BY <1>3, <1>4

\* What a region has not touched stays as it was.
LEMMA StepNotYet ==
  ASSUME OMP!TypeOK, OMP!NotYet, NEW t \in OMP!Team, OMP!Step(t)
  PROVE  OMP!NotYet'
<1>1. region' = region /\ crew' = crew
  BY StepType
<1>2. single' = single \/ region = "single"
  BY WhereItIs
     DEF OMP!Step, OMP!Add, OMP!Reduce, OMP!PrintOne, OMP!PrintThree, OMP!Barrier,
         OMP!PrintTwo, OMP!Single, OMP!Master, OMP!Cycle1, OMP!Cycle2, OMP!Critical,
         OMP!Increment, OMP!Leave, OMP!data
<1>3. turn' = turn \/ region = "ordered"
  BY WhereItIs
     DEF OMP!Step, OMP!Add, OMP!Reduce, OMP!PrintOne, OMP!PrintThree, OMP!Barrier,
         OMP!PrintTwo, OMP!Single, OMP!Master, OMP!Cycle1, OMP!Cycle2, OMP!Critical,
         OMP!Increment, OMP!Leave, OMP!data
<1>4. jj' = jj \/ region \in {"critical", "atomic"}
  BY WhereItIs
     DEF OMP!Step, OMP!Add, OMP!Reduce, OMP!PrintOne, OMP!PrintThree, OMP!Barrier,
         OMP!PrintTwo, OMP!Single, OMP!Master, OMP!Cycle1, OMP!Cycle2, OMP!Critical,
         OMP!Increment, OMP!Leave, OMP!data
<1>5. holder' = holder \/ region = "critical"
  BY WhereItIs
     DEF OMP!Step, OMP!Add, OMP!Reduce, OMP!PrintOne, OMP!PrintThree, OMP!Barrier,
         OMP!PrintTwo, OMP!Single, OMP!Master, OMP!Cycle1, OMP!Cycle2, OMP!Critical,
         OMP!Increment, OMP!Leave, OMP!data
<1>6. out' = out \/ region \in {"barrier", "single", "ordered", "critical"}
  BY WhereItIs
     DEF OMP!Step, OMP!Add, OMP!Reduce, OMP!PrintOne, OMP!PrintThree, OMP!Barrier,
         OMP!PrintTwo, OMP!Single, OMP!Master, OMP!Cycle1, OMP!Cycle2, OMP!Critical,
         OMP!Increment, OMP!Leave, OMP!data
<1> QED  BY <1>1, <1>2, <1>3, <1>4, <1>5, <1>6 DEF OMP!NotYet

\* What is appended to out.
LEMMA Longer ==
  ASSUME OMP!TypeOK, NEW x \in Nat, OMP!Say(x)
  PROVE  /\ Len(out) \in Nat /\ Len(out') = Len(out) + 1
         /\ \A l \in 1 .. Len(out) + 1 : out'[l] = IF l = Len(out) + 1 THEN x ELSE out[l]
         /\ \A y : OMP!Count(y)' = OMP!Count(y) + (IF y = x THEN 1 ELSE 0)
<1>1. out \in Seq(Nat) /\ out' = Append(out, x)
  BY DEF OMP!TypeOK, OMP!Say
<1>2. Len(out) \in Nat /\ Len(out') = Len(out) + 1
  BY <1>1
<1>3. \A l \in 1 .. Len(out) + 1 : out'[l] = IF l = Len(out) + 1 THEN x ELSE out[l]
  BY <1>1
<1>4. ASSUME NEW y
      PROVE  OMP!Count(y)' = OMP!Count(y) + (IF y = x THEN 1 ELSE 0)
  <2> DEFINE o == out
  <2>1. /\ OMP!Count(y) = Cardinality({l \in 1 .. Len(o) : o[l] = y})
        /\ OMP!Count(y)' = Cardinality({l \in 1 .. Len(Append(o, x)) : Append(o, x)[l] = y})
    BY <1>1 DEF OMP!Count, OMP!Cardinality, Cardinality
  <2>2. o \in Seq(Nat)
    BY <1>1
  <2> HIDE DEF o
  <2>3. Cardinality({l \in 1 .. Len(Append(o, x)) : Append(o, x)[l] = y})
          = Cardinality({l \in 1 .. Len(o) : o[l] = y}) + (IF y = x THEN 1 ELSE 0)
    BY <2>2, Counted
  <2> QED  BY <2>1, <2>3
<1> QED  BY <1>2, <1>3, <1>4

\* Nobody passes the barrier before the last one has come.
LEMMA StepBarrier ==
  ASSUME OMP!TypeOK, OMP!BarrierOK, NEW t \in OMP!Team, OMP!Step(t)
  PROVE  OMP!BarrierOK'
<1> SUFFICES ASSUME region = "barrier"
             PROVE  /\ \A u, v \in OMP!Team :
                         at'[u] \in {"two", "done"} => at'[v] \in {"barrier", "two", "done"}
                    /\ \A l \in 1 .. Len(out') :
                         out'[l] = 2 => /\ \A v \in OMP!Team : at'[v] \in {"barrier", "two", "done"}
                                        /\ \A q \in l .. Len(out') : out'[q] = 2
  BY StepType DEF OMP!BarrierOK
<1> DEFINE Behind(a) == a \in {"barrier", "two", "done"}
<1>1. /\ \A u, v \in OMP!Team : at[u] \in {"two", "done"} => Behind(at[v])
      /\ \A l \in 1 .. Len(out) :
           out[l] = 2 => /\ \A v \in OMP!Team : Behind(at[v])
                         /\ \A q \in l .. Len(out) : out[q] = 2
      /\ Len(out) \in Nat /\ team' = team
  BY StepType DEF OMP!BarrierOK, OMP!TypeOK
<1>2. \/ OMP!PrintOne(t) \/ OMP!PrintThree(t) \/ OMP!Barrier(t) \/ OMP!PrintTwo(t)
  BY WhereItIs
     DEF OMP!Step, OMP!Add, OMP!Reduce, OMP!Single, OMP!Master, OMP!Cycle1, OMP!Cycle2,
         OMP!Critical, OMP!Increment, OMP!Leave
<1>3. ASSUME NEW x \in {1, 3}, OMP!Say(x), NEW place, OMP!Go(t, place), ~Behind(at[t])
      PROVE  /\ \A u, v \in OMP!Team : at'[u] \in {"two", "done"} /\ place \notin {"two", "done"}
                  => Behind(at'[v])
             /\ \A l \in 1 .. Len(out') : out'[l] # 2
  <2>1. \A u \in OMP!Team : at'[u] = IF u = t THEN place ELSE at[u]
    BY <1>3, Arrives
  <2>2. \A l \in 1 .. Len(out) : out[l] # 2
    BY <1>1, <1>3
  <2>3. \A u \in OMP!Team : at[u] \notin {"two", "done"}
    BY <1>1, <1>3
  <2>4. \A l \in 1 .. Len(out') : out'[l] # 2
    BY <1>3, <2>2, Longer
  <2> QED  BY <2>1, <2>3, <2>4
<1>4. CASE OMP!PrintOne(t)
  <2>1. OMP!Say(1) /\ OMP!Go(t, "three") /\ ~Behind(at[t])
    BY <1>4 DEF OMP!PrintOne
  <2> QED  BY <1>3, <2>1
<1>5. CASE OMP!PrintThree(t)
  <2>1. OMP!Say(3) /\ OMP!Go(t, "barrier") /\ ~Behind(at[t])
    BY <1>5 DEF OMP!PrintThree
  <2> QED  BY <1>3, <2>1
<1>6. CASE OMP!Barrier(t)
  <2>1. OMP!Go(t, "two") /\ out' = out /\ \A u \in OMP!Team : Behind(at[u])
    BY <1>6 DEF OMP!Barrier, OMP!Passes
  <2>2. \A u \in OMP!Team : at'[u] = IF u = t THEN "two" ELSE at[u]
    BY <2>1, Arrives
  <2> QED  BY <1>1, <2>1, <2>2
<1>7. CASE OMP!PrintTwo(t)
  <2>1. OMP!Go(t, "done") /\ OMP!Say(2) /\ at[t] = "two"
    BY <1>7 DEF OMP!PrintTwo
  <2>2. \A u \in OMP!Team : at'[u] = IF u = t THEN "done" ELSE at[u]
    BY <2>1, Arrives
  <2>3. \A u \in OMP!Team : Behind(at'[u])
    BY <1>1, <2>1, <2>2
  <2>4. \A l \in 1 .. Len(out') : out'[l] = IF l = Len(out) + 1 THEN 2 ELSE out[l]
    BY <2>1, Longer
  <2>5. Len(out') = Len(out) + 1
    BY <2>1, Longer
  <2>6. ASSUME NEW l \in 1 .. Len(out'), out'[l] = 2, NEW q \in l .. Len(out')
        PROVE  out'[q] = 2
    BY <1>1, <2>4, <2>5, <2>6
  <2> QED  BY <2>3, <2>6
<1> QED  BY <1>2, <1>4, <1>5, <1>6, <1>7

\* One line of single and one of master, whoever prints them.
LEMMA StepSingle ==
  ASSUME OMP!TypeOK, OMP!SingleOK, NEW t \in OMP!Team, OMP!Step(t)
  PROVE  OMP!SingleOK'
<1> SUFFICES ASSUME region = "single"
             PROVE  OMP!SingleOK'
  BY StepType DEF OMP!SingleOK
<1>1. /\ ~single => \A u \in OMP!Team : at[u] \in {"one", "single"}
      /\ OMP!Num({"two"}) + OMP!Count(2) = IF single THEN 1 ELSE 0
      /\ OMP!Count(4) = IF at[0] \in {"three", "done"} THEN 1 ELSE 0
      /\ OMP!Num({"one"}) + OMP!Count(1) = team
      /\ OMP!Count(3) = OMP!Num({"done"})
      /\ 0 \in OMP!Team /\ team' = team /\ OMP!Team' = OMP!Team /\ single \in BOOLEAN
  BY StepType DEF OMP!SingleOK, OMP!TypeOK, OMP!Team
<1>2. \/ OMP!PrintOne(t) \/ OMP!PrintThree(t) \/ OMP!PrintTwo(t) \/ OMP!Single(t)
      \/ OMP!Master(t)
  BY WhereItIs
     DEF OMP!Step, OMP!Add, OMP!Reduce, OMP!Barrier, OMP!Cycle1, OMP!Cycle2,
         OMP!Critical, OMP!Increment, OMP!Leave
<1>3. \A y : OMP!Count(y) \in Nat
  <2>1. ASSUME NEW y  PROVE OMP!Count(y) \in Nat
    <3>1. Len(out) \in Nat
      BY DEF OMP!TypeOK
    <3>2. IsFiniteSet(1 .. Len(out)) /\ {l \in 1 .. Len(out) : out[l] = y} \subseteq 1 .. Len(out)
      BY <3>1, FS_Interval
    <3>3. Cardinality({l \in 1 .. Len(out) : out[l] = y}) \in Nat
      BY <3>2, FS_Subset, FS_CardinalityType
    <3> QED  BY <3>3 DEF OMP!Count, OMP!Cardinality, Cardinality
  <2> QED  BY <2>1
<1>4. ASSUME NEW place, OMP!Go(t, place)
      PROVE  /\ \A u \in OMP!Team : at'[u] = IF u = t THEN place ELSE at[u]
             /\ OMP!Num({"one"})' = OMP!Num({"one"}) + (IF place = "one" THEN 1 ELSE 0)
                                                     - (IF at[t] = "one" THEN 1 ELSE 0)
             /\ OMP!Num({"two"})' = OMP!Num({"two"}) + (IF place = "two" THEN 1 ELSE 0)
                                                     - (IF at[t] = "two" THEN 1 ELSE 0)
             /\ OMP!Num({"done"})' = OMP!Num({"done"}) + (IF place = "done" THEN 1 ELSE 0)
                                                       - (IF at[t] = "done" THEN 1 ELSE 0)
             /\ OMP!Num({"one"}) \in Nat /\ OMP!Num({"two"}) \in Nat /\ OMP!Num({"done"}) \in Nat
  <2>1. ASSUME NEW y
        PROVE  /\ OMP!Num({y})' = OMP!Num({y}) + (IF place = y THEN 1 ELSE 0)
                                               - (IF at[t] = y THEN 1 ELSE 0)
               /\ OMP!Num({y}) \in Nat
    <3>1. /\ OMP!Num({y})' = OMP!Num({y}) + (IF place \in {y} THEN 1 ELSE 0)
                                          - (IF at[t] \in {y} THEN 1 ELSE 0)
          /\ OMP!Num({y}) \in Nat
      BY <1>1, <1>4, GoesTo
    <3> QED  BY <3>1
  <2>2. \A u \in OMP!Team : at'[u] = IF u = t THEN place ELSE at[u]
    BY <1>4, Arrives
  <2> QED  BY <2>1, <2>2
<1>5. ASSUME NEW x \in {1, 2, 3, 4}, OMP!Say(x)
      PROVE  /\ OMP!Count(1)' = OMP!Count(1) + (IF x = 1 THEN 1 ELSE 0)
             /\ OMP!Count(2)' = OMP!Count(2) + (IF x = 2 THEN 1 ELSE 0)
             /\ OMP!Count(3)' = OMP!Count(3) + (IF x = 3 THEN 1 ELSE 0)
             /\ OMP!Count(4)' = OMP!Count(4) + (IF x = 4 THEN 1 ELSE 0)
  BY <1>5, Longer
<1>6. ASSUME out' = out
      PROVE  \A y : OMP!Count(y)' = OMP!Count(y)
  BY <1>6 DEF OMP!Count
<1>7. CASE OMP!PrintOne(t)
  <2>1. at[t] = "one" /\ OMP!Say(1) /\ OMP!Go(t, "single") /\ single' = single
    BY <1>7 DEF OMP!PrintOne, OMP!data
  <2>2. /\ OMP!Count(1)' = OMP!Count(1) + 1 /\ OMP!Count(2)' = OMP!Count(2)
        /\ OMP!Count(3)' = OMP!Count(3) /\ OMP!Count(4)' = OMP!Count(4)
    BY <1>3, <1>5, <2>1
  <2>3. /\ OMP!Num({"one"})' = OMP!Num({"one"}) - 1 /\ OMP!Num({"two"})' = OMP!Num({"two"})
        /\ OMP!Num({"done"})' = OMP!Num({"done"}) /\ OMP!Num({"one"}) \in Nat
        /\ OMP!Num({"done"}) \in Nat /\ OMP!Num({"two"}) \in Nat
        /\ \A u \in OMP!Team : at'[u] = IF u = t THEN "single" ELSE at[u]
    BY <1>4, <2>1
  <2> QED  BY <1>1, <1>3, <2>1, <2>2, <2>3 DEF OMP!SingleOK
<1>8. CASE OMP!PrintThree(t)
  <2>1. at[t] = "three" /\ OMP!Say(3) /\ OMP!Go(t, "done") /\ single' = single
    BY <1>8 DEF OMP!PrintThree, OMP!data
  <2>2. /\ OMP!Count(1)' = OMP!Count(1) /\ OMP!Count(2)' = OMP!Count(2)
        /\ OMP!Count(3)' = OMP!Count(3) + 1 /\ OMP!Count(4)' = OMP!Count(4)
    BY <1>3, <1>5, <2>1
  <2>3. /\ OMP!Num({"one"})' = OMP!Num({"one"}) /\ OMP!Num({"two"})' = OMP!Num({"two"})
        /\ OMP!Num({"done"})' = OMP!Num({"done"}) + 1 /\ OMP!Num({"one"}) \in Nat
        /\ OMP!Num({"done"}) \in Nat /\ OMP!Num({"two"}) \in Nat
        /\ \A u \in OMP!Team : at'[u] = IF u = t THEN "done" ELSE at[u]
    BY <1>4, <2>1
  <2> QED  BY <1>1, <1>3, <2>1, <2>2, <2>3 DEF OMP!SingleOK
<1>9. CASE OMP!PrintTwo(t)
  <2>1. at[t] = "two" /\ OMP!Say(2) /\ OMP!Go(t, "master") /\ single' = single
    BY <1>9 DEF OMP!PrintTwo, OMP!data
  <2> QED  BY <1>1, <1>3, <1>4, <1>5, <2>1 DEF OMP!SingleOK
<1>10. CASE OMP!Single(t)
  <2>1. /\ at[t] = "single" /\ OMP!Go(t, IF single THEN "master" ELSE "two")
        /\ single' = TRUE /\ out' = out
    BY <1>10 DEF OMP!Single
  <2>2. CASE single
    <3>1. OMP!Go(t, "master")
      BY <2>1, <2>2
    <3> QED  BY <1>1, <1>3, <1>4, <1>6, <2>1, <2>2, <3>1 DEF OMP!SingleOK
  <2>3. CASE ~single
    <3>1. OMP!Go(t, "two")
      BY <2>1, <2>3
    <3> QED  BY <1>1, <1>3, <1>4, <1>6, <2>1, <2>3, <3>1 DEF OMP!SingleOK
  <2> QED  BY <2>2, <2>3
<1>11. CASE OMP!Master(t)
  <2>1. /\ at[t] = "master" /\ OMP!Go(t, "three") /\ single' = single
        /\ IF t = 0 THEN OMP!Say(4) ELSE out' = out
    BY <1>11 DEF OMP!Master, OMP!data
  <2>2. CASE t = 0
    <3>1. /\ OMP!Count(1)' = OMP!Count(1) /\ OMP!Count(2)' = OMP!Count(2)
          /\ OMP!Count(3)' = OMP!Count(3) /\ OMP!Count(4)' = OMP!Count(4) + 1
      BY <1>3, <1>5, <2>1, <2>2
    <3>2. /\ OMP!Num({"one"})' = OMP!Num({"one"}) /\ OMP!Num({"two"})' = OMP!Num({"two"})
          /\ OMP!Num({"done"})' = OMP!Num({"done"}) /\ OMP!Num({"one"}) \in Nat
          /\ OMP!Num({"done"}) \in Nat /\ OMP!Num({"two"}) \in Nat
          /\ \A u \in OMP!Team : at'[u] = IF u = t THEN "three" ELSE at[u]
      BY <1>4, <2>1
    <3> QED  BY <1>1, <1>3, <2>1, <2>2, <3>1, <3>2 DEF OMP!SingleOK
  <2>3. CASE t # 0
    BY <1>1, <1>3, <1>4, <1>6, <2>1, <2>3 DEF OMP!SingleOK
  <2> QED  BY <2>2, <2>3
<1> QED  BY <1>2, <1>7, <1>8, <1>9, <1>10, <1>11

\* The turn goes through the chunks, one after the other.
LEMMA StepOrdered ==
  ASSUME OMP!TypeOK, OMP!OrderedOK, Turns \in Nat, NEW t \in OMP!Team, OMP!Step(t)
  PROVE  OMP!OrderedOK'
<1> SUFFICES ASSUME region = "ordered"
             PROVE  OMP!OrderedOK'
  BY StepType DEF OMP!OrderedOK
<1> DEFINE C == [u \in Nat |-> OMP!Chunk(u, team, Turns)]
           Clamp(x, u) == IF x < C[u] THEN C[u] ELSE IF x > C[u + 1] THEN C[u + 1] ELSE x
<1>1. /\ \A u \in Nat : C[u] \in Nat
      /\ \A u, v \in Nat : u <= v => C[u] <= C[v]
      /\ C[team] = Turns
  BY Chunks DEF OMP!TypeOK
<1>2. /\ OMP!Team' = OMP!Team /\ team' = team /\ team \in Nat /\ turn \in Nat
      /\ \A u \in OMP!Team : u \in Nat /\ u + 1 \in Nat /\ u + 1 <= team
      /\ t \in OMP!Team /\ region' = "ordered"
  BY StepType DEF OMP!TypeOK, OMP!Team
<1>3. /\ turn <= Turns /\ out = [l \in 1 .. turn |-> l - 1]
      /\ \A u \in OMP!Team : /\ iter[u] = Clamp(turn, u)
                             /\ at[u] = "ordered" => iter[u] # C[u + 1]
                             /\ at[u] = "done" => iter[u] = C[u + 1]
  BY <1>2 DEF OMP!OrderedOK
<1>4. ASSUME turn' <= Turns, out' = [l \in 1 .. turn' |-> l - 1],
             \A u \in OMP!Team : /\ iter'[u] = Clamp(turn', u)
                                 /\ at'[u] = "ordered" => iter'[u] # C[u + 1]
                                 /\ at'[u] = "done" => iter'[u] = C[u + 1]
      PROVE  OMP!OrderedOK'
  <2>1. \A u \in OMP!Team : /\ C[u] = OMP!Chunk(u, team, Turns)
                            /\ C[u + 1] = OMP!Chunk(u + 1, team, Turns)
    BY <1>2
  <2> HIDE DEF C
  <2>2. \A u \in OMP!Team :
          LET first == OMP!Chunk(u, team, Turns)
              next == OMP!Chunk(u + 1, team, Turns)
          IN  /\ iter'[u] = IF turn' < first THEN first ELSE IF turn' > next THEN next ELSE turn'
              /\ at'[u] = "ordered" => iter'[u] # next
              /\ at'[u] = "done" => iter'[u] = next
    BY <1>4, <2>1
  <2>3. \A v : OMP!Chunk(v, team, Turns)' = OMP!Chunk(v, team, Turns)
    BY <1>2 DEF OMP!Chunk, OMP!Min2
  <2> QED  BY <1>2, <1>4, <2>2, <2>3 DEF OMP!OrderedOK
<1>5. OMP!Cycle1(t) \/ OMP!Cycle2(t)
  BY WhereItIs
     DEF OMP!Step, OMP!Add, OMP!Reduce, OMP!PrintOne, OMP!PrintThree, OMP!Barrier,
         OMP!PrintTwo, OMP!Single, OMP!Master, OMP!Critical, OMP!Increment, OMP!Leave
<1>6. CASE OMP!Cycle1(t)
  <2>1. /\ OMP!Go(t, IF OMP!Finished(t, Turns) THEN "done" ELSE "ordered")
        /\ OMP!Finished(t, Turns) <=> iter[t] = C[t + 1]
        /\ iter' = iter /\ turn' = turn /\ out' = out
    BY <1>2, <1>6 DEF OMP!Cycle1, OMP!data, OMP!Finished
  <2> HIDE DEF C
  <2>2. CASE OMP!Finished(t, Turns)
    <3>1. \A u \in OMP!Team : at'[u] = IF u = t THEN "done" ELSE at[u]
      BY <2>1, <2>2, Arrives
    <3> QED  BY <1>3, <1>4, <2>1, <2>2, <3>1
  <2>3. CASE ~OMP!Finished(t, Turns)
    <3>1. \A u \in OMP!Team : at'[u] = IF u = t THEN "ordered" ELSE at[u]
      BY <2>1, <2>3, Arrives
    <3> QED  BY <1>3, <1>4, <2>1, <2>3, <3>1
  <2> QED  BY <2>2, <2>3
<1>7. CASE OMP!Cycle2(t)
  <2>1. /\ at[t] = "ordered" /\ turn = iter[t] /\ turn' = turn + 1
        /\ out' = Append(out, turn) /\ OMP!Go(t, "work")
        /\ iter' = [iter EXCEPT ![t] = iter[t] + 1]
    BY <1>7 DEF OMP!Cycle2, OMP!Say
  <2>2. \A u \in OMP!Team : at'[u] = IF u = t THEN "work" ELSE at[u]
    BY <2>1, Arrives
  <2>3. \A u \in OMP!Team : iter'[u] = IF u = t THEN turn + 1 ELSE iter[u]
    BY <2>1 DEF OMP!TypeOK
  <2> HIDE DEF C
  <2>4. /\ C[t] <= turn /\ turn < C[t + 1] /\ C[t + 1] <= Turns
        /\ C[t] \in Nat /\ C[t + 1] \in Nat
    <3>1. C[t] \in Nat /\ C[t + 1] \in Nat /\ C[t] <= C[t + 1] /\ C[t + 1] <= Turns
      BY <1>1, <1>2
    <3>2. turn = Clamp(turn, t) /\ turn # C[t + 1]
      BY <1>2, <1>3, <2>1
    <3> QED  BY <1>2, <3>1, <3>2
  <2>5. ASSUME NEW u \in OMP!Team  PROVE iter'[u] = Clamp(turn', u)
    <3>1. /\ C[u] \in Nat /\ C[u + 1] \in Nat /\ C[u] <= C[u + 1]
          /\ u \in Nat /\ t \in Nat /\ iter[u] = Clamp(turn, u)
      BY <1>1, <1>2, <1>3
    <3>2. CASE u = t
      BY <1>2, <2>1, <2>3, <2>4, <3>1, <3>2
    <3>3. CASE u < t
      <4>1. C[u + 1] <= C[t]
        BY <1>1, <1>2, <3>3
      <4>2. C[u + 1] <= turn /\ C[u] <= turn /\ iter'[u] = iter[u]
        BY <1>2, <2>3, <2>4, <3>1, <3>3, <4>1
      <4>3. iter[u] = C[u + 1]
        BY <1>2, <3>1, <4>2
      <4>4. Clamp(turn', u) = C[u + 1]
        BY <1>2, <2>1, <3>1, <4>2
      <4> QED  BY <4>2, <4>3, <4>4
    <3>4. CASE t < u
      <4>1. C[t + 1] <= C[u]
        BY <1>1, <1>2, <3>4
      <4> QED  BY <1>2, <2>1, <2>3, <2>4, <3>1, <3>4, <4>1
    <3> QED  BY <3>1, <3>2, <3>3, <3>4
  <2>6. turn' <= Turns /\ out' = [l \in 1 .. turn' |-> l - 1]
    <3>1. turn' <= Turns
      BY <1>1, <1>2, <2>1, <2>4
    <3>2. out' = [l \in 1 .. turn + 1 |-> l - 1]
      <4>1. /\ Len(out) = turn /\ \A l \in 1 .. turn : out[l] = l - 1
            /\ turn \in Nat /\ OMP!Say(turn)
        BY <1>2, <1>3, <2>1 DEF OMP!Say
      <4>2. /\ Len(out') = turn + 1
            /\ \A l \in 1 .. turn + 1 : out'[l] = IF l = turn + 1 THEN turn ELSE out[l]
        BY <4>1, Longer
      <4>3. \A l \in 1 .. turn + 1 : out'[l] = l - 1
        BY <4>1, <4>2
      <4>4. out' \in Seq(Nat) /\ turn + 1 \in Nat
        BY <4>1, StepType DEF OMP!TypeOK
      <4> QED  BY <4>2, <4>3, <4>4
    <3> QED  BY <2>1, <3>1, <3>2
  <2>7. \A u \in OMP!Team : /\ at'[u] = "ordered" => iter'[u] # C[u + 1]
                            /\ at'[u] = "done" => iter'[u] = C[u + 1]
    BY <1>3, <2>2, <2>3
  <2> QED  BY <1>4, <2>5, <2>6, <2>7
<1> QED  BY <1>5, <1>6, <1>7

\* Who is inside holds the lock; j is as high as the number of those who have been.
LEMMA StepCritical ==
  ASSUME OMP!TypeOK, OMP!CriticalOK, NEW t \in OMP!Team, OMP!Step(t)
  PROVE  OMP!CriticalOK'
<1> SUFFICES ASSUME region = "critical"
             PROVE  OMP!CriticalOK'
  BY StepType DEF OMP!CriticalOK
<1>1. /\ \A u \in OMP!Team : holder = u <=> at[u] \in {"inc", "leave"}
      /\ jj = OMP!Num({"leave", "done"}) /\ crew = team
      /\ out = [l \in 1 .. OMP!Num({"done"}) |-> l]
      /\ OMP!Team' = OMP!Team /\ team' = team /\ crew' = crew
      /\ -1 \notin OMP!Team
  BY StepType DEF OMP!CriticalOK, OMP!TypeOK, OMP!Team
<1>2. OMP!Critical(t) \/ OMP!Increment(t) \/ OMP!Leave(t)
  BY WhereItIs
     DEF OMP!Step, OMP!Add, OMP!Reduce, OMP!PrintOne, OMP!PrintThree, OMP!Barrier,
         OMP!PrintTwo, OMP!Single, OMP!Master, OMP!Cycle1, OMP!Cycle2
<1>3. ASSUME NEW place, OMP!Go(t, place)
      PROVE  /\ \A u \in OMP!Team : at'[u] = IF u = t THEN place ELSE at[u]
             /\ OMP!Num({"done"})' = OMP!Num({"done"}) + (IF place = "done" THEN 1 ELSE 0)
                                                       - (IF at[t] = "done" THEN 1 ELSE 0)
             /\ OMP!Num({"leave", "done"})' =
                  OMP!Num({"leave", "done"}) + (IF place \in {"leave", "done"} THEN 1 ELSE 0)
                                             - (IF at[t] \in {"leave", "done"} THEN 1 ELSE 0)
             /\ OMP!Num({"done"}) \in Nat /\ OMP!Num({"leave", "done"}) \in Nat
  <2>1. /\ OMP!Num({"done"})' = OMP!Num({"done"}) + (IF place \in {"done"} THEN 1 ELSE 0)
                                                  - (IF at[t] \in {"done"} THEN 1 ELSE 0)
        /\ OMP!Num({"done"}) \in Nat
    BY <1>1, <1>3, GoesTo
  <2>2. /\ OMP!Num({"leave", "done"})' =
             OMP!Num({"leave", "done"}) + (IF place \in {"leave", "done"} THEN 1 ELSE 0)
                                        - (IF at[t] \in {"leave", "done"} THEN 1 ELSE 0)
        /\ OMP!Num({"leave", "done"}) \in Nat
    BY <1>1, <1>3, GoesTo
  <2>3. \A u \in OMP!Team : at'[u] = IF u = t THEN place ELSE at[u]
    BY <1>3, Arrives
  <2> QED  BY <2>1, <2>2, <2>3
<1>4. CASE OMP!Critical(t)
  <2>1. /\ at[t] = "enter" /\ holder = -1 /\ holder' = t /\ OMP!Go(t, "inc")
        /\ jj' = jj /\ out' = out
    BY <1>4 DEF OMP!Critical
  <2>2. /\ \A u \in OMP!Team : at'[u] = IF u = t THEN "inc" ELSE at[u]
        /\ OMP!Num({"done"})' = OMP!Num({"done"})
        /\ OMP!Num({"leave", "done"})' = OMP!Num({"leave", "done"})
    BY <1>3, <2>1
  <2> QED  BY <1>1, <2>1, <2>2 DEF OMP!CriticalOK
<1>5. CASE OMP!Increment(t)
  <2>1. /\ at[t] = "inc" /\ holder' = holder /\ OMP!Go(t, "leave")
        /\ jj' = jj + 1 /\ out' = out
    BY <1>5 DEF OMP!Increment
  <2>2. /\ \A u \in OMP!Team : at'[u] = IF u = t THEN "leave" ELSE at[u]
        /\ OMP!Num({"done"})' = OMP!Num({"done"})
        /\ OMP!Num({"leave", "done"})' = OMP!Num({"leave", "done"}) + 1
    BY <1>3, <2>1
  <2> QED  BY <1>1, <2>1, <2>2 DEF OMP!CriticalOK
<1>6. CASE OMP!Leave(t)
  <2>1. /\ at[t] = "leave" /\ holder' = -1 /\ OMP!Go(t, "done")
        /\ jj' = jj /\ out' = Append(out, jj)
    BY <1>6 DEF OMP!Leave, OMP!Say
  <2>2. /\ \A u \in OMP!Team : at'[u] = IF u = t THEN "done" ELSE at[u]
        /\ OMP!Num({"done"})' = OMP!Num({"done"}) + 1
        /\ OMP!Num({"leave", "done"})' = OMP!Num({"leave", "done"})
        /\ OMP!Num({"done"}) \in Nat
    BY <1>3, <2>1
  <2>3. \A u \in OMP!Team : at'[u] \notin {"inc", "leave"}
    <3>1. holder = t
      BY <1>1, <2>1
    <3>2. \A u \in OMP!Team : at[u] \in {"inc", "leave"} => u = t
      BY <1>1, <3>1
    <3> QED  BY <2>2, <3>2
  <2>4. OMP!Num({"leave", "done"})' = OMP!Num({"done"})'
    <3>1. {u \in OMP!Team : at'[u] \in {"leave", "done"}} = {u \in OMP!Team : at'[u] \in {"done"}}
      BY <2>3
    <3> QED  BY <1>1, <3>1 DEF OMP!Num
  <2>5. jj = OMP!Num({"done"}) + 1
    BY <1>1, <2>2, <2>4
  <2>6. out' = [l \in 1 .. OMP!Num({"done"})' |-> l]
    <3> DEFINE d == OMP!Num({"done"})
    <3>1. /\ d \in Nat /\ jj = d + 1 /\ OMP!Num({"done"})' = d + 1
          /\ Len(out) = d /\ \A l \in 1 .. d : out[l] = l
      BY <1>1, <2>2, <2>5
    <3> HIDE DEF d
    <3>2. OMP!Say(jj) /\ jj \in Nat
      BY <2>1, <3>1 DEF OMP!Say
    <3>3. /\ Len(out') = d + 1
          /\ \A l \in 1 .. d + 1 : out'[l] = IF l = d + 1 THEN d + 1 ELSE out[l]
      BY <3>1, <3>2, Longer
    <3>4. \A l \in 1 .. d + 1 : out'[l] = l
      BY <3>1, <3>3
    <3>5. out' \in Seq(Nat) /\ d + 1 \in Nat
      BY <3>1, StepType DEF OMP!TypeOK
    <3>6. out' = [l \in 1 .. d + 1 |-> l]
      BY <3>3, <3>4, <3>5
    <3> QED  BY <3>1, <3>6
  <2> QED  BY <1>1, <2>1, <2>2, <2>3, <2>6 DEF OMP!CriticalOK
<1> QED  BY <1>2, <1>4, <1>5, <1>6

\* The atomic increments: one for every thread that is done.
LEMMA StepCounts ==
  ASSUME OMP!TypeOK, OMP!CountsOK, NEW t \in OMP!Team, OMP!Step(t)
  PROVE  OMP!CountsOK'
<1>1. region' = region /\ team' = team /\ crew' = crew
  BY StepType
<1>2. CASE region = "atomic"
  <2>1. OMP!Increment(t)
    BY <1>2, WhereItIs
       DEF OMP!Step, OMP!Add, OMP!Reduce, OMP!PrintOne, OMP!PrintThree, OMP!Barrier,
           OMP!PrintTwo, OMP!Single, OMP!Master, OMP!Cycle1, OMP!Cycle2, OMP!Critical,
           OMP!Leave
  <2>2. at[t] = "inc" /\ jj' = jj + 1 /\ OMP!Go(t, "done")
    BY <1>2, <2>1 DEF OMP!Increment
  <2>3. /\ OMP!Num({"done"})' = OMP!Num({"done"}) + (IF "done" \in {"done"} THEN 1 ELSE 0)
                                                  - (IF at[t] \in {"done"} THEN 1 ELSE 0)
        /\ OMP!Num({"done"}) \in Nat
    BY <1>1, <2>2, GoesTo
  <2>4. OMP!Num({"done"})' = OMP!Num({"done"}) + 1
    BY <2>2, <2>3
  <2> QED  BY <1>1, <1>2, <2>2, <2>3, <2>4 DEF OMP!CountsOK, OMP!TypeOK
<1>3. CASE region = "end"
  <2>1. at[t] = "done"
    BY <1>3, WhereItIs, Tables
  <2> QED
    BY <1>3, <2>1
       DEF OMP!Step, OMP!Add, OMP!Reduce, OMP!PrintOne, OMP!PrintThree, OMP!Barrier,
           OMP!PrintTwo, OMP!Single, OMP!Master, OMP!Cycle1, OMP!Cycle2, OMP!Critical,
           OMP!Increment, OMP!Leave
<1> QED  BY <1>1, <1>2, <1>3 DEF OMP!CountsOK

\* When everybody is done, the next region begins with its own part.
LEMMA NextRegionInv ==
  ASSUME OMP!IInv, Turns \in Nat, MaxTeam \in Nat, OMP!NextRegion
  PROVE  OMP!IInv'
<1>0. /\ OMP!TypeOK /\ OMP!NotYet /\ OMP!CriticalOK /\ OMP!CountsOK
      /\ region \in {"sum", "barrier", "single", "ordered", "critical", "atomic"}
      /\ team \in Nat \ {0} /\ crew \in Nat /\ jj \in Nat
      /\ \A t \in OMP!Team : at[t] = "done"
  BY DEF OMP!IInv, OMP!TypeOK, OMP!NextRegion
<1>1. PICK n \in 1 .. OMP!Asked[OMP!After[region]] : OMP!Enter(OMP!After[region], n)
  BY DEF OMP!NextRegion
<1>2. UNCHANGED <<single, turn, holder, jj>>
  BY DEF OMP!NextRegion
<1>3. n \in Nat \ {0}
  <2>1. OMP!Asked[OMP!After[region]] \in Nat
    BY <1>0, Tables
  <2> QED  BY <2>1
<1>4. /\ region' = OMP!After[region] /\ team' = n /\ out' = <<>>
      /\ OMP!Team' = 0 .. n - 1
      /\ crew' = crew + (IF region' \in {"critical", "atomic"} THEN n ELSE 0)
  BY <1>1 DEF OMP!Enter, OMP!Team
<1>5. /\ region' \in {"barrier", "single", "ordered", "critical", "atomic", "end"}
      /\ OMP!Start[region'] \in OMP!Places[region'] /\ region' # "sum"
      /\ region' = "barrier" <=> region = "sum"
      /\ region' = "single" <=> region = "barrier"
      /\ region' = "ordered" <=> region = "single"
      /\ region' = "critical" <=> region = "ordered"
      /\ region' = "atomic" <=> region = "critical"
      /\ region' = "end" <=> region = "atomic"
  BY <1>0, <1>4, Tables
<1>6. \A t \in 0 .. n - 1 : at'[t] = OMP!Start[region'] /\ iter'[t] = OMP!Chunk(t, n, Turns)
  BY <1>1, <1>4, <1>5 DEF OMP!Enter
<1>7. OMP!TypeOK'
  <2>1. at' \in [0 .. n - 1 -> OMP!Places[region']]
    BY <1>1, <1>4, <1>5 DEF OMP!Enter
  <2>2. iter' \in [0 .. n - 1 -> Nat]
    <3>1. iter' = [t \in 0 .. n - 1 |-> OMP!Chunk(t, n, Turns)]
      BY <1>1, <1>4, <1>5 DEF OMP!Enter
    <3>2. \A t \in 0 .. n - 1 : OMP!Chunk(t, n, Turns) \in Nat
      BY <1>3, Chunks
    <3> QED  BY <3>1, <3>2
  <2>3. single' \in BOOLEAN /\ turn' \in Nat /\ jj' \in Nat
    BY <1>0, <1>2 DEF OMP!TypeOK
  <2>4. crew' \in Nat /\ out' \in Seq(Nat)
    BY <1>0, <1>3, <1>4, EmptySeq
  <2>5. holder' = -1
    <3>1. CASE region = "critical"
      BY <1>0, <1>2, <3>1 DEF OMP!CriticalOK, OMP!TypeOK
    <3>2. CASE region # "critical"
      BY <1>0, <1>2, <3>2 DEF OMP!NotYet
    <3> QED  BY <3>1, <3>2
  <2> QED  BY <1>3, <1>4, <1>5, <2>1, <2>2, <2>3, <2>4, <2>5 DEF OMP!TypeOK
<1>8. /\ \A S : OMP!Num(S) = IF "done" \in S THEN team ELSE 0
      /\ \A S : OMP!Num(S)' = IF OMP!Start[region'] \in S THEN n ELSE 0
  <2>1. ASSUME NEW S  PROVE OMP!Num(S) = IF "done" \in S THEN team ELSE 0
    <3> DEFINE f == at
               m == team
    <3>1. m \in Nat /\ \A t \in 0 .. m - 1 : f[t] = "done"
      BY <1>0 DEF OMP!Team
    <3>2. OMP!Num(S) = Cardinality({u \in 0 .. m - 1 : f[u] \in S})
      BY DEF OMP!Num, OMP!Team, OMP!Cardinality, Cardinality
    <3> HIDE DEF f, m
    <3>3. Cardinality({u \in 0 .. m - 1 : f[u] \in S}) = IF "done" \in S THEN m ELSE 0
      BY ONLY <3>1, Together
    <3> QED  BY <3>2, <3>3 DEF m
  <2>2. ASSUME NEW S  PROVE OMP!Num(S)' = IF OMP!Start[region'] \in S THEN n ELSE 0
    <3>0. PICK f, x : f = at' /\ x = OMP!Start[region']
      OBVIOUS
    <3>1. n \in Nat /\ \A t \in 0 .. n - 1 : f[t] = x
      BY <1>3, <1>6, <3>0
    <3>2. OMP!Num(S)' = Cardinality({u \in 0 .. n - 1 : f[u] \in S})
      BY <1>4, <3>0 DEF OMP!Num, OMP!Cardinality, Cardinality
    <3>3. Cardinality({u \in 0 .. n - 1 : f[u] \in S}) = IF x \in S THEN n ELSE 0
      <4>1. {u \in 0 .. n - 1 : f[u] \in S} = IF x \in S THEN 0 .. n - 1 ELSE {}
        BY <3>1
      <4>2. Cardinality(0 .. n - 1) = n /\ Cardinality({}) = 0
        BY <1>3, FS_Interval, FS_EmptySet
      <4> QED  BY <4>1, <4>2
    <3> QED  BY <3>0, <3>2, <3>3
  <2> QED  BY <2>1, <2>2
<1>9. \A y : OMP!Count(y)' = 0
  <2>1. ASSUME NEW y  PROVE OMP!Count(y)' = 0
    <3>1. {l \in 1 .. Len(<<>>) : <<>>[l] = y} = {}
      OBVIOUS
    <3>2. OMP!Count(y)' = Cardinality({l \in 1 .. Len(<<>>) : <<>>[l] = y})
      BY <1>4 DEF OMP!Count, OMP!Cardinality, Cardinality
    <3> QED  BY <3>1, <3>2, FS_EmptySet
  <2> QED  BY <2>1
<1>10. OMP!NotYet'
  <2>1. region = "critical" => holder = -1
    BY <1>0 DEF OMP!CriticalOK, OMP!TypeOK
  <2> QED  BY <1>0, <1>2, <1>4, <1>5, <2>1 DEF OMP!NotYet
<1>11. OMP!BarrierOK'
  <2> SUFFICES ASSUME region' = "barrier"  PROVE OMP!BarrierOK'
    BY DEF OMP!BarrierOK
  <2>1. \A t \in OMP!Team' : at'[t] = "one"
    BY <1>4, <1>6, Tables
  <2>2. 1 .. Len(out') = {}
    BY <1>4
  <2> QED  BY <2>1, <2>2 DEF OMP!BarrierOK
<1>12. OMP!SingleOK'
  <2> SUFFICES ASSUME region' = "single"  PROVE OMP!SingleOK'
    BY DEF OMP!SingleOK
  <2>1. (\A t \in OMP!Team' : at'[t] = "one") /\ at'[0] = "one"
    BY <1>3, <1>4, <1>6, Tables
  <2>2. OMP!Num({"one"})' = n /\ OMP!Num({"two"})' = 0 /\ OMP!Num({"done"})' = 0
    BY <1>8, Tables
  <2>3. single' = FALSE
    BY <1>0, <1>2, <1>5 DEF OMP!NotYet, OMP!TypeOK
  <2> QED  BY <1>3, <1>4, <1>9, <2>1, <2>2, <2>3 DEF OMP!SingleOK
<1>13. OMP!OrderedOK'
  <2> SUFFICES ASSUME region' = "ordered"  PROVE OMP!OrderedOK'
    BY DEF OMP!OrderedOK
  <2>1. \A t \in OMP!Team' : at'[t] = "work"
    BY <1>4, <1>6, Tables
  <2>2. turn' = 0 /\ out' = [l \in 1 .. turn' |-> l - 1]
    <3>1. turn' = 0
      BY <1>0, <1>2, <1>5 DEF OMP!NotYet
    <3>2. out' = [l \in 1 .. 0 |-> l - 1]
      BY <1>4
    <3> QED  BY <3>1, <3>2
  <2>3. \A v : OMP!Chunk(v, team, Turns)' = OMP!Chunk(v, n, Turns)
    BY <1>4 DEF OMP!Chunk, OMP!Min2
  <2>4. ASSUME NEW t \in OMP!Team'
        PROVE  iter'[t] = IF 0 < OMP!Chunk(t, n, Turns) THEN OMP!Chunk(t, n, Turns)
                          ELSE IF 0 > OMP!Chunk(t + 1, n, Turns) THEN OMP!Chunk(t + 1, n, Turns) ELSE 0
    <3>1. t \in Nat /\ t + 1 \in Nat /\ iter'[t] = OMP!Chunk(t, n, Turns)
      BY <1>4, <1>6
    <3>2. OMP!Chunk(t, n, Turns) \in Nat /\ OMP!Chunk(t + 1, n, Turns) \in Nat
      BY <1>3, <3>1, Chunks
    <3> QED  BY <3>1, <3>2
  <2> QED  BY <1>4, <2>1, <2>2, <2>3, <2>4 DEF OMP!OrderedOK
<1>14. OMP!CriticalOK'
  <2> SUFFICES ASSUME region' = "critical"  PROVE OMP!CriticalOK'
    BY DEF OMP!CriticalOK
  <2>1. \A t \in OMP!Team' : at'[t] = "enter" /\ t # -1
    BY <1>4, <1>6, Tables
  <2>2. OMP!Num({"leave", "done"})' = 0 /\ OMP!Num({"done"})' = 0
    BY <1>8, Tables
  <2>3. jj' = 0 /\ holder' = -1 /\ crew' = n
    BY <1>0, <1>2, <1>3, <1>4, <1>5 DEF OMP!NotYet
  <2>4. out' = [l \in 1 .. 0 |-> l]
    BY <1>4
  <2> QED  BY <1>4, <2>1, <2>2, <2>3, <2>4 DEF OMP!CriticalOK
<1>15. OMP!CountsOK'
  <2>1. CASE region' = "atomic"
    <3>1. jj = crew
      BY <1>0, <1>5, <1>8, <2>1 DEF OMP!CriticalOK
    <3>2. OMP!Num({"done"})' = 0
      BY <1>8, <2>1, Tables
    <3> QED  BY <1>0, <1>2, <1>3, <1>4, <2>1, <3>1, <3>2 DEF OMP!CountsOK
  <2>2. CASE region' = "end"
    <3>1. jj + team = crew + team
      BY <1>0, <1>5, <1>8, <2>2 DEF OMP!CountsOK
    <3> QED  BY <1>0, <1>2, <1>4, <2>2, <3>1 DEF OMP!CountsOK
  <2> QED  BY <2>1, <2>2 DEF OMP!CountsOK
<1> QED  BY <1>7, <1>10, <1>11, <1>12, <1>13, <1>14, <1>15 DEF OMP!IInv

\* The regions keep what their constructs promise, for every size of the loop and
\* of the teams, smaller than asked for included.
THEOREM OpenMPInvariance ==
  Turns \in Nat /\ MaxTeam \in Nat /\ Sums \in Nat => (OMP!Spec => []OMP!IInv)
<1> SUFFICES ASSUME Turns \in Nat, MaxTeam \in Nat, Sums \in Nat
             PROVE  OMP!Spec => []OMP!IInv
  OBVIOUS
<1>1. OMP!Init => OMP!IInv
  <2> SUFFICES ASSUME OMP!Init  PROVE OMP!IInv
    OBVIOUS
  <2>1. /\ region = "sum" /\ team \in 1 .. 4 /\ OMP!Team = 0 .. team - 1
        /\ at = [t \in OMP!Team |-> "work"]
        /\ iter = [t \in OMP!Team |-> OMP!Chunk(t, team, Sums)]
        /\ single = FALSE /\ turn = 0 /\ holder = -1 /\ jj = 0 /\ crew = 0 /\ out = <<>>
    BY DEF OMP!Init, OMP!Team, OMP!Asked
  <2>2. OMP!TypeOK
    <3>1. \A t \in OMP!Team : OMP!Chunk(t, team, Sums) \in Nat
      <4>1. OMP!Team \subseteq Nat /\ team \in Nat \ {0}
        BY <2>1
      <4> QED  BY <4>1, Chunks
    <3>2. at \in [OMP!Team -> OMP!Places[region]]
      BY <2>1, Tables
    <3> QED  BY <2>1, <3>1, <3>2, EmptySeq DEF OMP!TypeOK
  <2>3. OMP!NotYet
    BY <2>1 DEF OMP!NotYet
  <2> QED
    BY <2>1, <2>2, <2>3
       DEF OMP!IInv, OMP!BarrierOK, OMP!SingleOK, OMP!OrderedOK, OMP!CriticalOK, OMP!CountsOK
<1>2. OMP!IInv /\ [OMP!Next]_(OMP!vars) => OMP!IInv'
  <2> SUFFICES ASSUME OMP!IInv, [OMP!Next]_(OMP!vars)  PROVE OMP!IInv'
    OBVIOUS
  <2>1. CASE OMP!NextRegion
    BY <2>1, NextRegionInv
  <2>2. ASSUME NEW t \in OMP!Team, OMP!Step(t)  PROVE OMP!IInv'
    BY <2>2, StepType, StepNotYet, StepBarrier, StepSingle, StepOrdered, StepCritical,
       StepCounts DEF OMP!IInv
  <2>3. CASE UNCHANGED OMP!vars
    <3>1. UNCHANGED <<region, team, at, iter, single, turn, holder, jj, crew, out>>
      BY <2>3 DEF OMP!vars
    <3>2. /\ OMP!Team' = OMP!Team /\ \A S : OMP!Num(S)' = OMP!Num(S)
          /\ \A y : OMP!Count(y)' = OMP!Count(y)
      BY <3>1 DEF OMP!Team, OMP!Num, OMP!Count
    <3>3. OMP!TypeOK' /\ OMP!NotYet' /\ OMP!BarrierOK'
      BY <3>1, <3>2 DEF OMP!IInv, OMP!TypeOK, OMP!NotYet, OMP!BarrierOK
    <3>4. OMP!SingleOK' /\ OMP!CriticalOK' /\ OMP!CountsOK'
      BY <3>1, <3>2 DEF OMP!IInv, OMP!SingleOK, OMP!CriticalOK, OMP!CountsOK
    <3>5. OMP!OrderedOK'
      BY <3>1, <3>2 DEF OMP!IInv, OMP!OrderedOK, OMP!Chunk, OMP!Min2
    <3> QED  BY <3>3, <3>4, <3>5 DEF OMP!IInv
  <2> QED  BY <2>1, <2>2, <2>3 DEF OMP!Next
<1> QED  BY <1>1, <1>2, PTL DEF OMP!Spec

\* When a turn is left, it is in the chunk of one of the threads.
LEMMA SomebodysTurn ==
  ASSUME NEW n \in Nat \ {0}, NEW m \in Nat, NEW x \in Nat, x < m
  PROVE  \E t \in 0 .. n - 1 : OMP!Chunk(t, n, m) <= x /\ x < OMP!Chunk(t + 1, n, m)
<1> DEFINE C == [u \in Nat |-> OMP!Chunk(u, n, m)]
           T == {u \in Nat : x < C[u]}
<1>1. C[0] = 0 /\ C[n] = m /\ \A u \in Nat : C[u] \in Nat
  BY Chunks
<1>2. n \in T /\ T \in SUBSET Nat
  BY <1>1
<1>3. PICK v \in T : \A u \in T : v <= u
  BY <1>2, LeastNumber
<1>4. v \in Nat /\ x < C[v] /\ v <= n /\ v # 0
  BY <1>1, <1>2, <1>3
<1>5. v - 1 \in Nat /\ v - 1 \notin T
  BY <1>3, <1>4
<1>6. C[v - 1] <= x
  BY <1>1, <1>5
<1>7. C[v - 1] = OMP!Chunk(v - 1, n, m) /\ C[v] = OMP!Chunk(v, n, m) /\ (v - 1) + 1 = v
  BY <1>4, <1>5
<1>8. v - 1 \in 0 .. n - 1
  BY <1>4, <1>5
<1> QED  BY <1>4, <1>6, <1>7, <1>8

\* In every interleaving a region prints what its construct promises: the barrier
\* separates 1 and 3 from 2, single and master print one line each, the ordered
\* lines come in the order of the loop, and the critical section counts the threads.
THEOREM OutputCorrect ==
  Turns \in Nat /\ MaxTeam \in Nat /\ Sums \in Nat => (OMP!Spec => []OutputInOrder)
<1> SUFFICES ASSUME Turns \in Nat, MaxTeam \in Nat, Sums \in Nat
             PROVE  OMP!Spec => []OutputInOrder
  OBVIOUS
<1>1. OMP!IInv => OutputInOrder
  <2> SUFFICES ASSUME OMP!IInv, \A t \in OMP!Team : at[t] = "done"
               PROVE  OutputInOrder
    BY DEF OutputInOrder, OMP!OutputInOrder
  <2>1. /\ OMP!TypeOK /\ OMP!NotYet /\ OMP!BarrierOK /\ OMP!SingleOK /\ OMP!OrderedOK
        /\ OMP!CriticalOK /\ team \in Nat \ {0} /\ OMP!Team = 0 .. team - 1
        /\ at[0] = "done" /\ single \in BOOLEAN
    BY DEF OMP!IInv, OMP!TypeOK, OMP!Team
  <2>2. OMP!Num({"done"}) = team /\ OMP!Num({"one"}) = 0 /\ OMP!Num({"two"}) = 0
    <3> DEFINE f == at
               m == team
    <3>1. m \in Nat /\ \A t \in 0 .. m - 1 : f[t] = "done"
      BY <2>1
    <3>2. \A S : OMP!Num(S) = Cardinality({u \in 0 .. m - 1 : f[u] \in S})
      BY <2>1 DEF OMP!Num, OMP!Cardinality, Cardinality
    <3> HIDE DEF f, m
    <3>3. \A S : Cardinality({u \in 0 .. m - 1 : f[u] \in S}) = IF "done" \in S THEN m ELSE 0
      BY ONLY <3>1, Together
    <3> QED  BY <3>2, <3>3 DEF m
  <2>3. CASE region = "barrier"
    <3>1. ASSUME NEW l \in 1 .. Len(out), NEW q \in 1 .. Len(out), l < q, out[l] = 2
          PROVE  out[q] = 2
      <4>1. \A u \in l .. Len(out) : out[u] = 2
        BY <2>1, <2>3, <3>1 DEF OMP!BarrierOK
      <4>2. q \in l .. Len(out)
        BY <3>1
      <4> QED  BY <4>1, <4>2
    <3> QED  BY <2>3, <3>1 DEF OutputInOrder, OMP!OutputInOrder
  <2>4. CASE region = "single"
    <3>1. OMP!Count(2) = 1 /\ OMP!Count(4) = 1 /\ OMP!Count(1) = team /\ OMP!Count(3) = team
      <4>1. \A y : OMP!Count(y) \in Nat
        <5>1. Len(out) \in Nat /\ IsFiniteSet(1 .. Len(out))
          BY <2>1, FS_Interval DEF OMP!TypeOK
        <5>2. \A y : Cardinality({l \in 1 .. Len(out) : out[l] = y}) \in Nat
          BY <5>1, FS_Subset, FS_CardinalityType
        <5> QED  BY <5>2 DEF OMP!Count, OMP!Cardinality, Cardinality
      <4> QED  BY <2>1, <2>2, <2>4, <4>1 DEF OMP!SingleOK
    <3> QED  BY <2>4, <3>1 DEF OutputInOrder, OMP!OutputInOrder
  <2>5. CASE region = "ordered"
    <3>1. turn = Turns
      <4>1. turn \in Nat /\ turn <= Turns
        BY <2>1, <2>5 DEF OMP!OrderedOK, OMP!TypeOK
      <4>2. ASSUME turn < Turns  PROVE FALSE
        <5>1. PICK t \in 0 .. team - 1 : /\ OMP!Chunk(t, team, Turns) <= turn
                                         /\ turn < OMP!Chunk(t + 1, team, Turns)
          BY <2>1, <4>1, <4>2, SomebodysTurn
        <5> DEFINE a == OMP!Chunk(t, team, Turns)
                   b == OMP!Chunk(t + 1, team, Turns)
        <5>2. /\ iter[t] = IF turn < a THEN a ELSE IF turn > b THEN b ELSE turn
              /\ iter[t] = b
          BY <2>1, <2>5 DEF OMP!OrderedOK
        <5>3. a \in Nat /\ b \in Nat
          <6>1. t \in Nat /\ t + 1 \in Nat
            BY <2>1
          <6> QED  BY <2>1, <6>1, Chunks
        <5> HIDE DEF a, b
        <5>4. a <= turn /\ turn < b
          BY <5>1 DEF a, b
        <5> QED  BY <4>1, <5>2, <5>3, <5>4
      <4> QED  BY <4>1, <4>2
    <3> QED  BY <2>1, <2>5, <3>1 DEF OMP!OrderedOK, OutputInOrder, OMP!OutputInOrder
  <2>6. CASE region = "critical"
    <3>1. out = [l \in 1 .. team |-> l]
      BY <2>1, <2>2, <2>6 DEF OMP!CriticalOK
    <3> QED  BY <2>6, <3>1 DEF OutputInOrder, OMP!OutputInOrder
  <2>7. CASE region \notin {"barrier", "single", "ordered", "critical"}
    <3>1. out = <<>>
      BY <2>1, <2>7 DEF OMP!NotYet, OMP!TypeOK
    <3> QED  BY <2>7, <3>1 DEF OutputInOrder, OMP!OutputInOrder
  <2> QED  BY <2>3, <2>4, <2>5, <2>6, <2>7
<1> QED  BY <1>1, OpenMPInvariance, PTL

(***************************************************************************)
(* OpenMP: the sum.  FoldLeft is a recursive function on sets of indices,  *)
(* so its equation is shown to have a solution before its value is.        *)
(***************************************************************************)

\* A remainder taken in between changes nothing.
LEMMA ModPlus ==
  ASSUME NEW W \in Nat \ {0}, NEW a \in Int, NEW b \in Int
  PROVE  /\ ((a % W) + b) % W = (a + b) % W
         /\ a % W \in 0 .. W - 1
<1> DEFINE q == a \div W
           r == a % W
           h == (r + b) \div W
           s == (r + b) % W
           u == (a + b) \div W
           v == (a + b) % W
           dif == u - q - h
<1>1. q \in Int /\ r \in 0 .. W - 1 /\ a = W * q + r
  OBVIOUS
<1>2. h \in Int /\ s \in 0 .. W - 1 /\ r + b = W * h + s
  BY <1>1
<1>3. u \in Int /\ v \in 0 .. W - 1 /\ a + b = W * u + v
  OBVIOUS
<1> HIDE DEF q, r, h, s, u, v
<1>4. dif \in Int /\ W * dif = s - v
  <2>1. W * q + (W * h + s) = W * u + v
    BY <1>1, <1>2, <1>3
  <2>2. W * (u - q - h) = W * u - W * q - W * h
    BY <1>1, <1>2, <1>3
  <2>3. W * q \in Int /\ W * h \in Int /\ W * u \in Int
    BY <1>1, <1>2, <1>3
  <2> QED  BY <1>1, <1>2, <1>3, <2>1, <2>2, <2>3
<1> HIDE DEF dif
<1>5. dif = 0
  <2>1. ASSUME dif >= 1  PROVE FALSE
    <3>1. W * dif >= W
      BY <1>4, <2>1
    <3> QED  BY <1>2, <1>3, <1>4, <3>1
  <2>2. ASSUME dif <= -1  PROVE FALSE
    <3>1. W * dif <= -W
      BY <1>4, <2>2
    <3> QED  BY <1>2, <1>3, <1>4, <3>1
  <2> QED  BY <1>4, <2>1, <2>2
<1>6. s = v
  BY <1>2, <1>3, <1>4, <1>5
<1> QED  BY <1>1, <1>6 DEF r, s, v

\* One number more below the bound.
LEMMA BelowNext ==
  /\ OMP!Below(0) = 0
  /\ \A n \in Nat : OMP!Below(n) \in Int /\ OMP!Below(n + 1) = OMP!Below(n) + n
<1>1. OMP!Below(0) = 0
  BY DEF OMP!Below
<1>2. ASSUME NEW n \in Nat
      PROVE  OMP!Below(n) \in Int /\ OMP!Below(n + 1) = OMP!Below(n) + n
  <2> DEFINE x == n * (n - 1)
  <2>1. x \in Int /\ (n + 1) * ((n + 1) - 1) = x + 2 * n
    OBVIOUS
  <2>2. OMP!Below(n) = x \div 2 /\ OMP!Below(n + 1) = (x + 2 * n) \div 2
    BY <2>1 DEF OMP!Below
  <2> HIDE DEF x
  <2>3. (x + 2 * n) \div 2 = (x \div 2) + n /\ x \div 2 \in Int
    BY <2>1
  <2> QED  BY <2>2, <2>3
<1> QED  BY <1>1, <1>2

\* The largest of some numbers.
LEMMA Largest ==
  ASSUME NEW n \in Nat, NEW s \in SUBSET (1 .. n), s # {}
  PROVE  /\ OMP!Max(s) \in s
         /\ \A y \in s : y <= OMP!Max(s)
<1> DEFINE T == {z \in Nat : n - z \in s}
<1>1. T \in SUBSET Nat /\ T # {}
  <2>1. PICK y \in s : TRUE
    OBVIOUS
  <2>2. n - y \in Nat /\ n - (n - y) = y
    BY <2>1
  <2>3. n - y \in T
    BY <2>1, <2>2
  <2> QED  BY <2>3
<1>2. PICK v \in T : \A z \in T : v <= z
  BY <1>1, LeastNumber
<1>3. ASSUME NEW y \in s  PROVE n - v >= y
  <2>1. n - y \in Nat /\ n - (n - y) = y
    OBVIOUS
  <2>2. v <= n - y
    BY <1>2, <2>1
  <2> QED  BY <1>1, <1>2, <2>1, <2>2
<1>4. \E x \in s : \A y \in s : x >= y
  BY <1>2, <1>3
<1>5. OMP!Max(s) \in s /\ \A y \in s : OMP!Max(s) >= y
  BY <1>4 DEF OMP!Max
<1> QED  BY <1>5

\* The pairs of a number of s and a number below it.
Pairs(n, s) == {q \in (1 .. n) \X (1 .. n) : q[1] \in s /\ q[2] < q[1]}

\* A number x more in s has x - 1 pairs of its own.
LEMMA PairsOfOneMore ==
  ASSUME NEW n \in Nat, NEW s \in SUBSET (1 .. n), NEW x \in s
  PROVE  /\ Cardinality(Pairs(n, s)) = Cardinality(Pairs(n, s \ {x})) + x - 1
         /\ Cardinality(Pairs(n, s \ {x})) \in Nat
<1> DEFINE A == Pairs(n, s \ {x})
           B == {x} \X (1 .. x - 1)
<1>1. x \in Nat /\ x - 1 \in Nat /\ 1 .. x - 1 \subseteq 1 .. n
  OBVIOUS
<1>2. Pairs(n, s) = A \cup B
  <2>1. \A a, b : <<a, b>> \in Pairs(n, s)
                    <=> a \in s /\ b \in 1 .. n /\ b < a
    BY DEF Pairs
  <2>2. \A a, b : <<a, b>> \in A <=> a \in s /\ a # x /\ b \in 1 .. n /\ b < a
    BY DEF Pairs
  <2>3. \A b : b \in 1 .. x - 1 <=> b \in 1 .. n /\ b < x
    BY <1>1
  <2>4. \A a, b : <<a, b>> \in B <=> a = x /\ b \in 1 .. n /\ b < x
    BY <2>3
  <2>5. \A q \in Pairs(n, s) \cup A \cup B : q = <<q[1], q[2]>>
    BY DEF Pairs
  <2> HIDE DEF A, B
  <2>6. ASSUME NEW a, NEW b
        PROVE  <<a, b>> \in Pairs(n, s) <=> <<a, b>> \in A \/ <<a, b>> \in B
    <3>1. CASE a = x
      BY <2>1, <2>2, <2>4, <3>1
    <3>2. CASE a # x
      BY <2>1, <2>2, <2>4, <3>2
    <3> QED  BY <3>1, <3>2
  <2> QED  BY <2>5, <2>6
<1>3. A \cap B = {}
  BY DEF Pairs
<1>4. IsFiniteSet(A)
  <2>1. IsFiniteSet(1 .. n)
    BY FS_Interval
  <2>2. IsFiniteSet((1 .. n) \X (1 .. n))
    BY <2>1, FS_Product
  <2>3. A \subseteq (1 .. n) \X (1 .. n)
    BY DEF Pairs
  <2> QED  BY <2>2, <2>3, FS_Subset
<1>5. IsFiniteSet(B) /\ Cardinality(B) = x - 1
  <2>1. IsFiniteSet({x}) /\ Cardinality({x}) = 1
    BY FS_Singleton
  <2>2. IsFiniteSet(1 .. x - 1) /\ Cardinality(1 .. x - 1) = x - 1
    BY <1>1, FS_Interval
  <2>3. IsFiniteSet(B) /\ Cardinality(B) = Cardinality({x}) * Cardinality(1 .. x - 1)
    BY <2>1, <2>2, FS_Product
  <2> QED  BY <1>1, <2>1, <2>2, <2>3
<1> HIDE DEF A, B
<1>6. /\ Cardinality(A \cup B) = Cardinality(A) + Cardinality(B) - Cardinality(A \cap B)
      /\ Cardinality(A) \in Nat /\ Cardinality({}) = 0
  BY <1>4, <1>5, FS_Union, FS_CardinalityType, FS_EmptySet
<1>7. Cardinality(Pairs(n, s)) = Cardinality(A) + x - 1
  <2>1. Cardinality(A \cup B) = Cardinality(A) + (x - 1) - 0
    BY <1>3, <1>5, <1>6
  <2>2. Cardinality(Pairs(n, s)) = Cardinality(A \cup B)
    BY <1>2
  <2> QED  BY <1>1, <1>6, <2>1, <2>2
<1> QED  BY <1>6, <1>7 DEF A

\* The sum of the sequential loop, i from 0 to m - 1 on an int of main().  The fold
\* is a function on the sets of indices: there is one, and it is known on 1 .. l.
LEMMA LoopSum ==
  ASSUME NEW m \in Nat, NEW W \in Nat \ {0}
  PROVE  OMP!FoldLeft(LAMBDA s, l : (s + l - 1) % W, 0, [l \in 1 .. m |-> l])
           = OMP!Below(m) % W
<1> DEFINE e == [l \in 1 .. m |-> l]
           Is(g) == g = [s \in SUBSET DOMAIN e |->
                           IF s = {} THEN 0
                           ELSE (g[s \ {OMP!Max(s)}] + e[OMP!Max(s)] - 1) % W]
<1>0. /\ DOMAIN e = 1 .. m
      /\ \A s \in SUBSET (1 .. m) : s # {} => e[OMP!Max(s)] = OMP!Max(s)
  BY Largest
<1>1. OMP!FoldLeft(LAMBDA s, l : (s + l - 1) % W, 0, e) = (CHOOSE g : Is(g))[1 .. m]
  <2>1. OMP!FoldLeft(LAMBDA s, l : (s + l - 1) % W, 0, e) = (CHOOSE g : Is(g))[DOMAIN e]
    BY DEF OMP!FoldLeft, OMP!MapThenFoldSet
  <2> QED  BY <1>0, <2>1
<1>2. Is([s \in SUBSET (1 .. m) |-> Cardinality(Pairs(m, s)) % W])
  <2> DEFINE w == [s \in SUBSET (1 .. m) |-> Cardinality(Pairs(m, s)) % W]
  <2>1. Cardinality(Pairs(m, {})) % W = 0
    <3>1. Pairs(m, {}) = {} /\ Cardinality({}) = 0
      BY FS_EmptySet DEF Pairs
    <3>2. 0 % W = 0
      OBVIOUS
    <3> QED  BY <3>1, <3>2
  <2>2. ASSUME NEW s \in SUBSET (1 .. m), s # {}
        PROVE  w[s] = (w[s \ {OMP!Max(s)}] + OMP!Max(s) - 1) % W
    <3>1. PICK x \in s : x = OMP!Max(s)
      BY <2>2, Largest
    <3>2. PICK c \in Nat : c = Cardinality(Pairs(m, s \ {x}))
      BY PairsOfOneMore
    <3>3. Cardinality(Pairs(m, s)) = c + (x - 1)
      <4>1. Cardinality(Pairs(m, s)) = Cardinality(Pairs(m, s \ {x})) + x - 1
        BY PairsOfOneMore
      <4> QED  BY <3>2, <4>1
    <3>4. x - 1 \in Int /\ ((c % W) + (x - 1)) % W = (c + (x - 1)) % W /\ c % W \in Int
      <4>1. PICK d \in Int : d = x - 1
        OBVIOUS
      <4>2. ((c % W) + d) % W = (c + d) % W /\ c % W \in 0 .. W - 1
        <5>1. c \in Int
          OBVIOUS
        <5> QED  BY <5>1, ModPlus
      <4> QED  BY <4>1, <4>2
    <3>5. w[s] = (c + (x - 1)) % W /\ w[s \ {x}] = c % W
      BY <3>2, <3>3
    <3> HIDE DEF w
    <3>6. (c % W) + x - 1 = (c % W) + (x - 1)
      BY <3>4
    <3> QED  BY <3>1, <3>4, <3>5, <3>6
  <2>3. w[{}] = 0
    BY <2>1
  <2>4. w = [s \in SUBSET (1 .. m) |-> w[s]]
    OBVIOUS
  <2> HIDE DEF w, e
  <2>5. ASSUME NEW s \in SUBSET (1 .. m)
        PROVE  w[s] = IF s = {} THEN 0
                      ELSE (w[s \ {OMP!Max(s)}] + e[OMP!Max(s)] - 1) % W
    BY <1>0, <2>2, <2>3
  <2>6. Is(w)
    BY <1>0, <2>4, <2>5
  <2> QED  BY <2>6 DEF w
<1>3. PICK f : Is(f) /\ f = CHOOSE g : Is(g)
  BY <1>2
<1>4. /\ f[{}] = 0
      /\ \A s \in SUBSET (1 .. m) :
           s # {} => f[s] = (f[s \ {OMP!Max(s)}] + OMP!Max(s) - 1) % W
  <2> HIDE DEF e
  <2> QED  BY <1>0, <1>3
<1> HIDE DEF Is, e
<1>5. \A l \in 0 .. m : f[1 .. l] = OMP!Below(l) % W
  <2> DEFINE Bad == {l \in 0 .. m : f[1 .. l] # OMP!Below(l) % W}
  <2> SUFFICES ASSUME Bad # {}  PROVE FALSE
    OBVIOUS
  <2>0. Bad \in SUBSET Nat
    OBVIOUS
  <2>1. PICK l \in Bad : \A k1 \in Bad : l <= k1
    BY <2>0, LeastNumber
  <2>2. l # 0
    <3>1. f[1 .. 0] = 0
      BY <1>4
    <3>2. OMP!Below(0) % W = 0
      BY BelowNext
    <3> QED  BY <2>1, <3>1, <3>2
  <2>3. l - 1 \in 0 .. m /\ l - 1 \in Nat /\ l - 1 \notin Bad /\ l \in 1 .. m
    BY <2>1, <2>2
  <2>4. PICK b \in Int : b = OMP!Below(l - 1) /\ OMP!Below(l) = b + (l - 1)
    BY <2>3, BelowNext
  <2>5. f[1 .. l - 1] = b % W
    BY <2>3, <2>4
  <2>6. 1 .. l \in SUBSET (1 .. m) /\ 1 .. l # {} /\ l \in 1 .. l
    BY <2>3
  <2>7. OMP!Max(1 .. l) = l
    <3>1. PICK S \in SUBSET (1 .. m) : S = 1 .. l
      BY <2>6
    <3>2. OMP!Max(S) \in S /\ \A y \in S : y <= OMP!Max(S)
      BY <2>6, <3>1, Largest
    <3> QED  BY <2>6, <3>1, <3>2
  <2>8. (1 .. l) \ {l} = 1 .. l - 1
    BY <2>3
  <2>9. f[1 .. l] = (f[1 .. l - 1] + l - 1) % W
    BY <1>4, <2>6, <2>7, <2>8
  <2>10. ((b % W) + (l - 1)) % W = (b + (l - 1)) % W /\ b % W \in Int
    <3>1. PICK d \in Int : d = l - 1
      BY <2>3
    <3>2. ((b % W) + d) % W = (b + d) % W /\ b % W \in 0 .. W - 1
      BY ModPlus
    <3> QED  BY <3>1, <3>2
  <2>11. (b % W) + l - 1 = (b % W) + (l - 1)
    BY <2>3, <2>10
  <2>12. f[1 .. l] = OMP!Below(l) % W
    BY <2>4, <2>5, <2>9, <2>10, <2>11
  <2> QED  BY <2>1, <2>12
<1>6. f[1 .. m] = OMP!Below(m) % W
  BY <1>5
<1> QED  BY <1>1, <1>3, <1>6 DEF e

\* What is said of the sum, when the variables it is about stay as they were.
LEMMA AddedSame ==
  ASSUME team' = team, at' = at
  PROVE  \A u : OMP!Added(u)' = OMP!Added(u)
BY DEF OMP!Added, OMP!Team, OMP!Below, OMP!Chunk, OMP!Min2

\* The chunks of the threads, and the sums below their ends.
LEMMA SumChunks ==
  ASSUME Sums \in Nat, OMP!TypeOK, NEW u \in OMP!Team
  PROVE  /\ u \in Nat /\ u + 1 \in Nat
         /\ OMP!Chunk(u, team, Sums) \in Nat /\ OMP!Chunk(u + 1, team, Sums) \in Nat
         /\ OMP!Chunk(u, team, Sums) <= OMP!Chunk(u + 1, team, Sums)
<1>1. team \in Nat \ {0} /\ u \in Nat /\ u + 1 \in Nat
  BY DEF OMP!TypeOK, OMP!Team
<1> QED  BY <1>1, Chunks

\* A thread adds a number of its chunk, or its copy to the sum of main().
LEMMA StepSum ==
  ASSUME Sums \in Nat, Word \in Nat \ {0}, OMP!TypeOK, OMP!SumOK,
         NEW t \in OMP!Team, OMP!Step(t)
  PROVE  OMP!SumOK'
<1>0. /\ region' = region /\ team' = team /\ OMP!Team' = OMP!Team
      /\ \A u, n, m : OMP!Chunk(u, n, m)' = OMP!Chunk(u, n, m)
      /\ \A n : OMP!Below(n)' = OMP!Below(n)
  BY StepType DEF OMP!Chunk, OMP!Min2, OMP!Below
<1>1. CASE region # "sum"
  <2>1. total' = total
    BY <1>1 DEF OMP!Step, OMP!Add, OMP!Reduce, OMP!PrintOne, OMP!PrintThree, OMP!Barrier,
         OMP!PrintTwo, OMP!Single, OMP!Master, OMP!Cycle1, OMP!Cycle2, OMP!Critical,
         OMP!Increment, OMP!Leave, OMP!data
  <2> QED  BY <1>0, <1>1, <2>1 DEF OMP!SumOK
<1>2. CASE region = "sum"
  <2> DEFINE a(u) == OMP!Chunk(u, team, Sums)
             b(u) == OMP!Chunk(u + 1, team, Sums)
  <2>1. /\ team \in 1 .. 4 /\ OMP!Team = 0 .. team - 1
        /\ part \in [OMP!Team -> Int] /\ iter \in [OMP!Team -> Nat] /\ DOMAIN at = OMP!Team
        /\ \A u \in OMP!Team :
             /\ iter[u] \in a(u) .. b(u)
             /\ at[u] = "done" => iter[u] = b(u)
             /\ part[u] = (OMP!Below(iter[u]) - OMP!Below(a(u))) % Word
        /\ total = (OMP!Added(0) + OMP!Added(1) + OMP!Added(2) + OMP!Added(3)) % Word
    BY <1>2 DEF OMP!SumOK, OMP!TypeOK, OMP!Team, OMP!Finished
  <2>2. \A u \in OMP!Team : u \in Nat /\ a(u) \in Nat /\ b(u) \in Nat
    BY SumChunks
  <2>3. \A u \in OMP!Team : OMP!Below(a(u)) \in Int /\ OMP!Below(b(u)) \in Int
    BY <2>2, BelowNext
  <2>4. \A u : OMP!Added(u) \in Int
    BY <2>3 DEF OMP!Added
  <2>5. OMP!Add(t) \/ OMP!Reduce(t)
    <3>1. at[t] \in {"work", "done"}
      BY <1>2, Tables, WhereItIs
    <3> QED
      BY <1>2, <3>1 DEF OMP!Step, OMP!PrintOne, OMP!PrintThree, OMP!Barrier,
         OMP!PrintTwo, OMP!Single, OMP!Master, OMP!Cycle1, OMP!Cycle2, OMP!Critical,
         OMP!Increment, OMP!Leave
  <2>6. CASE OMP!Add(t)
    <3>1. /\ at' = at /\ total' = total /\ at[t] = "work" /\ iter[t] # b(t)
          /\ iter' = [iter EXCEPT ![t] = iter[t] + 1]
          /\ part' = [part EXCEPT ![t] = (part[t] + iter[t]) % Word]
      BY <2>6 DEF OMP!Add, OMP!Finished
    <3>2. PICK i1 \in Nat, x \in Int, y \in Int :
            /\ i1 = iter[t] /\ x = OMP!Below(i1) /\ y = OMP!Below(a(t))
            /\ OMP!Below(i1 + 1) = x + i1
      BY <2>1, <2>3, BelowNext
    <3>3. part'[t] = (OMP!Below(iter'[t]) - OMP!Below(a(t))) % Word
      <4>1. PICK z \in Int : z = x - y
        BY <3>2
      <4>2. ((z % Word) + i1) % Word = (z + i1) % Word
        <5>1. i1 \in Int
          OBVIOUS
        <5> QED  BY <5>1, ModPlus
      <4>3. part[t] = z % Word
        BY <2>1, <3>2, <4>1
      <4>4. part'[t] = ((z % Word) + i1) % Word /\ iter'[t] = i1 + 1
        BY <2>1, <3>1, <3>2, <4>3
      <4>5. z + i1 = (x + i1) - y
        BY <4>1
      <4> QED  BY <3>2, <4>2, <4>4, <4>5
    <3>4. \A u \in OMP!Team : u # t => part'[u] = part[u] /\ iter'[u] = iter[u]
      BY <2>1, <3>1
    <3>5. iter'[t] \in a(t) .. b(t)
      <4>1. iter'[t] = iter[t] + 1 /\ iter[t] \in a(t) .. b(t) /\ iter[t] # b(t)
        BY <2>1, <3>1
      <4>2. a(t) \in Nat /\ b(t) \in Nat
        BY <2>2
      <4> HIDE DEF a, b
      <4> QED  BY <4>1, <4>2
    <3>6. (part[t] + iter[t]) % Word \in Int
      BY <2>1
    <3>7. part' \in [OMP!Team -> Int]
      BY <2>1, <3>1, <3>6
    <3>8. ASSUME NEW u \in OMP!Team
          PROVE  /\ iter'[u] \in a(u) .. b(u)
                 /\ at'[u] = "done" => iter'[u] = b(u)
                 /\ part'[u] = (OMP!Below(iter'[u]) - OMP!Below(a(u))) % Word
      <4>1. CASE u = t
        BY <3>1, <3>3, <3>5, <4>1
      <4>2. CASE u # t
        BY <2>1, <3>1, <3>4, <4>2
      <4> QED  BY <4>1, <4>2
    <3>9. \A u : OMP!Added(u)' = OMP!Added(u)
      BY <1>0, <3>1, AddedSame
    <3> QED
      BY <1>0, <1>2, <2>1, <3>1, <3>7, <3>8, <3>9 DEF OMP!SumOK, OMP!Finished
  <2>7. CASE OMP!Reduce(t)
    <3>1. /\ at' = [at EXCEPT ![t] = "done"] /\ at[t] = "work" /\ iter[t] = b(t)
          /\ iter' = iter /\ part' = part /\ total' = (total + part[t]) % Word
      BY <2>7 DEF OMP!Reduce, OMP!Reduced, OMP!Finished, OMP!Go
    <3>2. PICK y \in Int : /\ y = OMP!Below(b(t)) - OMP!Below(a(t))
                           /\ part[t] = y % Word
      BY <2>1, <2>3, <3>1
    <3>3. /\ OMP!Added(t) = 0
          /\ \A u : OMP!Added(u)' = IF u = t THEN y ELSE OMP!Added(u)
      <4>1. \A u \in OMP!Team : at'[u] = IF u = t THEN "done" ELSE at[u]
        BY <2>1, <3>1
      <4>2. OMP!Added(t) = 0
        BY <3>1 DEF OMP!Added
      <4>3. ASSUME NEW u
            PROVE  OMP!Added(u)' = IF u = t THEN y ELSE OMP!Added(u)
        <5>1. OMP!Added(u)' = IF u \in OMP!Team /\ at'[u] = "done"
                              THEN OMP!Below(b(u)) - OMP!Below(a(u)) ELSE 0
          BY <1>0 DEF OMP!Added
        <5>2. OMP!Added(u) = IF u \in OMP!Team /\ at[u] = "done"
                             THEN OMP!Below(b(u)) - OMP!Below(a(u)) ELSE 0
          BY DEF OMP!Added
        <5> HIDE DEF a, b
        <5> QED  BY <3>2, <4>1, <5>1, <5>2
      <4> QED  BY <4>2, <4>3
    <3>4. PICK x \in Int :
            x = OMP!Added(0) + OMP!Added(1) + OMP!Added(2) + OMP!Added(3)
      BY <2>4
    <3>5. OMP!Added(0)' + OMP!Added(1)' + OMP!Added(2)' + OMP!Added(3)' = x + y
      <4>1. t \in {0, 1, 2, 3}
        BY <2>1
      <4> QED  BY <2>4, <3>3, <3>4, <4>1
    <3>6. total' = (x + y) % Word
      <4>1. ((x % Word) + (y % Word)) % Word = (x + (y % Word)) % Word
        <5>1. PICK z \in Int : z = y % Word
          OBVIOUS
        <5>2. ((x % Word) + z) % Word = (x + z) % Word
          BY ModPlus
        <5> QED  BY <5>1, <5>2
      <4>2. ((y % Word) + x) % Word = (y + x) % Word
        BY ModPlus
      <4>3. x + (y % Word) = (y % Word) + x /\ x + y = y + x
        <5>1. y % Word \in Int
          OBVIOUS
        <5> QED  BY <5>1
      <4>4. total = x % Word
        BY <2>1, <3>4
      <4> QED  BY <3>1, <3>2, <4>1, <4>2, <4>3, <4>4
    <3>7. \A u \in OMP!Team : at'[u] = "done" => iter'[u] = b(u)
      BY <2>1, <3>1
    <3> QED
      BY <1>0, <1>2, <2>1, <3>1, <3>5, <3>6, <3>7 DEF OMP!SumOK, OMP!Finished
  <2> QED  BY <2>5, <2>6, <2>7
<1> QED  BY <1>1, <1>2

\* When all threads are done, their chunks make up the loop.
LEMMA NextRegionSum ==
  ASSUME Sums \in Nat, Word \in Nat \ {0}, OMP!TypeOK, OMP!SumOK, OMP!NextRegion
  PROVE  OMP!SumOK'
<1>1. /\ \A t \in OMP!Team : at[t] = "done"
      /\ region' = OMP!After[region] /\ total' = total /\ region # "end"
  BY DEF OMP!NextRegion, OMP!Enter
<1>2. region' # "sum"
  BY <1>1, Tables DEF OMP!TypeOK
<1>3. OMP!Below(Sums)' = OMP!Below(Sums)
  BY DEF OMP!Below
<1>4. total = OMP!Below(Sums) % Word
  <2>1. CASE region # "sum"
    BY <2>1 DEF OMP!SumOK
  <2>2. CASE region = "sum"
    <3> DEFINE B(u) == OMP!Below(OMP!Chunk(u, team, Sums))
    <3>1. team \in 1 .. 4 /\ OMP!Team = 0 .. team - 1
      BY <2>2 DEF OMP!SumOK, OMP!TypeOK, OMP!Team
    <3>2. \A u \in {0, 1, 2, 3} :
            OMP!Added(u) = IF u \in 0 .. team - 1 THEN B(u + 1) - B(u) ELSE 0
      BY <1>1, <3>1 DEF OMP!Added
    <3>3. B(0) = 0 /\ B(team) = OMP!Below(Sums)
      <4>1. OMP!Chunk(0, team, Sums) = 0 /\ OMP!Chunk(team, team, Sums) = Sums
        BY <3>1, Chunks
      <4> QED  BY <4>1, BelowNext
    <3>4. \A u \in Nat : B(u) \in Int
      <4>1. \A u \in Nat : OMP!Chunk(u, team, Sums) \in Nat
        BY <3>1, Chunks
      <4> QED  BY <4>1, BelowNext
    <3>5. PICK b0, b1, b2, b3, b4 \in Int :
            b0 = B(0) /\ b1 = B(1) /\ b2 = B(2) /\ b3 = B(3) /\ b4 = B(4)
      BY <3>4
    <3> HIDE DEF B
    <3>6. /\ OMP!Added(0) = b1 - b0
          /\ OMP!Added(1) = IF team > 1 THEN b2 - b1 ELSE 0
          /\ OMP!Added(2) = IF team > 2 THEN b3 - b2 ELSE 0
          /\ OMP!Added(3) = IF team > 3 THEN b4 - b3 ELSE 0
      BY <3>1, <3>2, <3>5
    <3>7. OMP!Added(0) + OMP!Added(1) + OMP!Added(2) + OMP!Added(3) = OMP!Below(Sums)
      <4>1. CASE team = 1
        BY <3>3, <3>5, <3>6, <4>1
      <4>2. CASE team = 2
        BY <3>3, <3>5, <3>6, <4>2
      <4>3. CASE team = 3
        BY <3>3, <3>5, <3>6, <4>3
      <4>4. CASE team = 4
        BY <3>3, <3>5, <3>6, <4>4
      <4> QED  BY <3>1, <4>1, <4>2, <4>3, <4>4
    <3> QED  BY <2>2, <3>7 DEF OMP!SumOK
  <2> QED  BY <2>1, <2>2
<1> QED  BY <1>1, <1>2, <1>3, <1>4 DEF OMP!SumOK

\* Every thread has summed its chunk as far as it has come, and main() what the
\* threads that are done have brought.
THEOREM SumInvariance ==
  Turns \in Nat /\ MaxTeam \in Nat /\ Sums \in Nat /\ Word \in Nat \ {0}
    => (OMP!Spec => []OMP!SumOK)
<1> SUFFICES ASSUME Turns \in Nat, MaxTeam \in Nat, Sums \in Nat, Word \in Nat \ {0}
             PROVE  OMP!Spec => []OMP!SumOK
  OBVIOUS
<1>1. OMP!Init /\ OMP!IInv => OMP!SumOK
  <2> SUFFICES ASSUME OMP!Init, OMP!IInv  PROVE OMP!SumOK
    OBVIOUS
  <2>1. /\ region = "sum" /\ team \in 1 .. 4 /\ OMP!Team = 0 .. team - 1
        /\ at = [t \in OMP!Team |-> "work"]
        /\ iter = [t \in OMP!Team |-> OMP!Chunk(t, team, Sums)]
        /\ part = [t \in OMP!Team |-> 0] /\ total = 0 /\ OMP!TypeOK
    BY DEF OMP!Init, OMP!Team, OMP!Asked, OMP!IInv
  <2>2. 0 % Word = 0
    OBVIOUS
  <2>3. ASSUME NEW t \in OMP!Team
        PROVE  /\ iter[t] \in OMP!Chunk(t, team, Sums) .. OMP!Chunk(t + 1, team, Sums)
               /\ at[t] # "done"
               /\ part[t] = (OMP!Below(iter[t]) - OMP!Below(OMP!Chunk(t, team, Sums))) % Word
    <3>1. /\ OMP!Chunk(t, team, Sums) \in Nat /\ OMP!Chunk(t + 1, team, Sums) \in Nat
          /\ OMP!Chunk(t, team, Sums) <= OMP!Chunk(t + 1, team, Sums)
      BY <2>1, SumChunks
    <3>2. PICK x \in Int : x = OMP!Below(OMP!Chunk(t, team, Sums))
      BY <3>1, BelowNext
    <3>3. (x - x) % Word = 0
      BY <2>2
    <3> QED  BY <2>1, <3>1, <3>2, <3>3
  <2>4. \A u : OMP!Added(u) = 0
    BY <2>1 DEF OMP!Added
  <2>5. (OMP!Added(0) + OMP!Added(1) + OMP!Added(2) + OMP!Added(3)) % Word = 0
    BY <2>2, <2>4
  <2> QED  BY <2>1, <2>3, <2>5 DEF OMP!SumOK
<1>2. OMP!IInv /\ OMP!SumOK /\ [OMP!Next]_(OMP!vars) => OMP!SumOK'
  <2> SUFFICES ASSUME OMP!IInv, OMP!SumOK, [OMP!Next]_(OMP!vars)  PROVE OMP!SumOK'
    OBVIOUS
  <2>0. OMP!TypeOK
    BY DEF OMP!IInv
  <2>1. CASE OMP!NextRegion
    BY <2>0, <2>1, NextRegionSum
  <2>2. ASSUME NEW t \in OMP!Team, OMP!Step(t)  PROVE OMP!SumOK'
    BY <2>0, <2>2, StepSum
  <2>3. CASE UNCHANGED OMP!vars
    <3>1. UNCHANGED <<region, team, at, iter, part, total>>
      BY <2>3 DEF OMP!vars
    <3>2. /\ \A u : OMP!Added(u)' = OMP!Added(u)
          /\ \A u, n, m : OMP!Chunk(u, n, m)' = OMP!Chunk(u, n, m)
          /\ \A n : OMP!Below(n)' = OMP!Below(n)
      BY <3>1, AddedSame DEF OMP!Chunk, OMP!Min2, OMP!Below
    <3> QED  BY <3>1, <3>2 DEF OMP!SumOK, OMP!Team, OMP!Finished
  <2> QED  BY <2>1, <2>2, <2>3 DEF OMP!Next
<1> QED  BY <1>1, <1>2, OpenMPInvariance, PTL DEF OMP!Spec

\* For every number of iterations, every team and every interleaving, the sum of
\* main() is that of the sequential loop on an int, and j counts the threads of its
\* two regions.
THEOREM ResultsCorrect ==
  Turns \in Nat /\ MaxTeam \in Nat /\ Sums \in Nat /\ Word \in Nat \ {0}
    => (OMP!Spec => []ResultsAreSequential)
<1> SUFFICES ASSUME Turns \in Nat, MaxTeam \in Nat, Sums \in Nat, Word \in Nat \ {0}
             PROVE  OMP!Spec => []ResultsAreSequential
  OBVIOUS
<1>1. OMP!FoldLeft(LAMBDA s, l : (s + l - 1) % Word, 0, [l \in 1 .. Sums |-> l])
        = OMP!Below(Sums) % Word
  BY LoopSum
<1>2. OMP!IInv /\ OMP!SumOK => ResultsAreSequential
  BY <1>1 DEF ResultsAreSequential, OMP!ResultsAreSequential, OMP!SumOK, OMP!IInv,
              OMP!CountsOK
<1> QED  BY <1>2, OpenMPInvariance, SumInvariance, PTL

(***************************************************************************)
(* Derivative: a fold over a sequence is a loop.                           *)
(***************************************************************************)

\* What holds of 0, and of l + 1 whenever it holds of l, holds up to n.
LEMMA UpTo ==
  ASSUME NEW n \in Nat, NEW G, 0 \in G, \A l \in 0 .. n - 1 : l \in G => l + 1 \in G
  PROVE  \A l \in 0 .. n : l \in G
<1> DEFINE Bad == {l \in 0 .. n : l \notin G}
<1> SUFFICES ASSUME Bad # {}  PROVE FALSE
  OBVIOUS
<1>1. Bad \in SUBSET Nat
  OBVIOUS
<1>2. PICK x \in Bad : \A y \in Bad : ~ (<<y, x>> \in OpToRel(<, Nat))
  BY <1>1, WFMin, NatLessThanWellFounded
<1>3. \A y \in Bad : ~(y < x)
  BY <1>1, <1>2 DEF OpToRel
<1>4. x - 1 \in 0 .. n - 1 /\ x - 1 \notin Bad
  BY <1>3
<1>5. x - 1 \in G /\ (x - 1) + 1 = x
  BY <1>4
<1> QED  BY <1>4, <1>5

\* The largest of some numbers up to n, for the library as Derivative has it.
LEMMA LargestOf ==
  ASSUME NEW n \in Nat, NEW T \in SUBSET (1 .. n), T # {}
  PROVE  /\ Poly!Max(T) \in T
         /\ \A y \in T : y <= Poly!Max(T)
<1>1. OMP!Max(T) \in T /\ \A y \in T : y <= OMP!Max(T)
  BY Largest
<1>2. OMP!Max(T) = Poly!Max(T)
  BY DEF OMP!Max, Poly!Max
<1> QED  BY <1>1, <1>2

\* The indices up to l, and their largest.
LEMMA LargestUpTo ==
  ASSUME NEW n \in Nat, NEW l \in 1 .. n
  PROVE  /\ 1 .. l \in SUBSET (1 .. n) /\ 1 .. l # {}
         /\ Poly!Max(1 .. l) = l /\ (1 .. l) \ {l} = 1 .. l - 1
<1>1. PICK T : T = 1 .. l
  OBVIOUS
<1>2. T \in SUBSET (1 .. n) /\ T # {} /\ l \in T
  <2>1. l \in 1 .. l /\ \A y \in 1 .. l : y \in 1 .. n
    OBVIOUS
  <2> QED  BY <1>1, <2>1
<1>3. Poly!Max(T) \in T /\ \A y \in T : y <= Poly!Max(T)
  BY <1>2, LargestOf
<1>4. Poly!Max(T) = l
  BY <1>1, <1>2, <1>3
<1>5. (1 .. l) \ {l} = 1 .. l - 1
  OBVIOUS
<1> QED  BY <1>1, <1>2, <1>4, <1>5

\* The library defines a fold by a function on the sets of indices that satisfies
\* an equation.
IsFold(g, F, base, n, e) ==
  \A T \in SUBSET (1 .. n) :
    g[T] = IF T = {} THEN base ELSE F[g[T \ {Poly!Max(T)}]][e[Poly!Max(T)]]

\* There is one, for every step F on the elements of e.
LEMMA FoldExists ==
  ASSUME NEW A, NEW D, NEW F \in [A -> [D -> A]], NEW base \in A,
         NEW n \in Nat, NEW e \in [1 .. n -> D]
  PROVE  \E g \in [SUBSET (1 .. n) -> A] : IsFold(g, F, base, n, e)
<1> DEFINE Solves(g, m) ==
             /\ g \in [SUBSET (1 .. m) -> A]
             /\ \A T \in SUBSET (1 .. m) :
                  g[T] = IF T = {} THEN base
                         ELSE F[g[T \ {Poly!Max(T)}]][e[Poly!Max(T)]]
           G == {m \in 0 .. n : \E g : Solves(g, m)}
<1>1. 0 \in G
  <2> DEFINE g0 == [T \in SUBSET (1 .. 0) |-> base]
  <2>1. \A T \in SUBSET (1 .. 0) : T = {}
    OBVIOUS
  <2>2. Solves(g0, 0)
    BY <2>1
  <2> HIDE DEF Solves, g0
  <2> QED  BY <2>2
<1>2. ASSUME NEW m \in 0 .. n - 1, m \in G  PROVE m + 1 \in G
  <2>1. PICK g : Solves(g, m)
    BY <1>2
  <2> DEFINE x == m + 1
             f == [T \in SUBSET (1 .. x) |->
                     IF x \in T THEN F[g[T \ {x}]][e[x]] ELSE g[T]]
  <2>2. x \in 1 .. n /\ x \in Nat /\ e[x] \in D /\ x \notin 1 .. m
    OBVIOUS
  <2>3. \A T \in SUBSET (1 .. x) : T \ {x} \in SUBSET (1 .. m)
    OBVIOUS
  <2>4. \A T \in SUBSET (1 .. x) : x \notin T => T \in SUBSET (1 .. m)
    OBVIOUS
  <2>5. /\ g \in [SUBSET (1 .. m) -> A]
        /\ \A T \in SUBSET (1 .. m) :
             g[T] = IF T = {} THEN base
                    ELSE F[g[T \ {Poly!Max(T)}]][e[Poly!Max(T)]]
    BY <2>1
  <2> HIDE DEF x
  <2>6. f \in [SUBSET (1 .. x) -> A]
    <3>1. ASSUME NEW T \in SUBSET (1 .. x)
          PROVE  (IF x \in T THEN F[g[T \ {x}]][e[x]] ELSE g[T]) \in A
      BY <2>2, <2>3, <2>4, <2>5
    <3> QED  BY <3>1
  <2>7. \A T \in SUBSET (1 .. x) :
          f[T] = IF x \in T THEN F[g[T \ {x}]][e[x]] ELSE g[T]
    OBVIOUS
  <2>8. \A T \in SUBSET (1 .. m) : T \in SUBSET (1 .. x) /\ x \notin T
    BY <2>2 DEF x
  <2> HIDE DEF f
  <2>9. ASSUME NEW T \in SUBSET (1 .. x)
        PROVE  f[T] = IF T = {} THEN base
                      ELSE F[f[T \ {Poly!Max(T)}]][e[Poly!Max(T)]]
    <3>1. CASE T = {}
      BY <2>5, <2>7, <3>1
    <3>2. CASE T # {} /\ x \in T
      <4>1. Poly!Max(T) \in T /\ \A y \in T : y <= Poly!Max(T)
        BY <2>2, <3>2, LargestOf
      <4>2. Poly!Max(T) = x
        <5>1. Poly!Max(T) \in 1 .. x /\ x <= Poly!Max(T)
          BY <3>2, <4>1
        <5> QED  BY <2>2, <5>1
      <4>3. f[T \ {x}] = g[T \ {x}]
        BY <2>3, <2>7, <2>8
      <4> QED  BY <2>7, <3>2, <4>2, <4>3
    <3>3. CASE T # {} /\ x \notin T
      <4>1. T \in SUBSET (1 .. m) /\ T \ {Poly!Max(T)} \in SUBSET (1 .. m)
        BY <2>4, <3>3
      <4>2. f[T] = g[T] /\ f[T \ {Poly!Max(T)}] = g[T \ {Poly!Max(T)}]
        BY <2>7, <2>8, <4>1
      <4> QED  BY <2>5, <3>3, <4>1, <4>2
    <3> QED  BY <3>1, <3>2, <3>3
  <2>10. Solves(f, x)
    BY <2>6, <2>9
  <2> HIDE DEF Solves
  <2>11. m + 1 \in 0 .. n /\ Solves(f, m + 1)
    BY <2>10 DEF x
  <2> QED  BY <2>11
<1>3. n \in G
  <2>1. PICK H : H = G
    OBVIOUS
  <2>2. 0 \in H /\ \A m \in 0 .. n - 1 : m \in H => m + 1 \in H
    BY <1>1, <1>2, <2>1
  <2>3. \A m \in 0 .. n : m \in H
    BY <2>2, UpTo
  <2>4. n \in H
    BY <2>3
  <2> HIDE DEF G
  <2> QED  BY <2>1, <2>4
<1>4. PICK g : Solves(g, n)
  BY <1>3
<1> QED  BY <1>4 DEF IsFold
\* What a function that satisfies the equation with an operator has to do with F.
Agrees(f, A, F, base, n, e) ==
  /\ f[{}] = base
  /\ \A T \in SUBSET (1 .. n) :
       T # {} /\ f[T \ {Poly!Max(T)}] \in A
         => f[T] = F[f[T \ {Poly!Max(T)}]][e[Poly!Max(T)]]

\* A loop over the elements of e, and its final.
IsLoop(h, A, F, base, n, e, final) ==
  /\ h \in [0 .. n -> A] /\ h[0] = base /\ h[n] = final
  /\ \A l \in 1 .. n : h[l] = F[h[l - 1]][e[l]]

\* The values of the fold on the indices up to l are those of a loop.
LEMMA FoldIsLoop ==
  ASSUME NEW A, NEW D, NEW F \in [A -> [D -> A]], NEW base \in A,
         NEW n \in Nat, NEW e \in [1 .. n -> D], NEW f, Agrees(f, A, F, base, n, e)
  PROVE  \E h : IsLoop(h, A, F, base, n, e, f[1 .. n])
<1>0. /\ f[{}] = base
      /\ \A T \in SUBSET (1 .. n) :
           T # {} /\ f[T \ {Poly!Max(T)}] \in A
             => f[T] = F[f[T \ {Poly!Max(T)}]][e[Poly!Max(T)]]
  BY DEF Agrees
<1> DEFINE h == [l \in 0 .. n |-> f[1 .. l]]
<1>1. ASSUME NEW l \in 1 .. n, f[1 .. l - 1] \in A
      PROVE  f[1 .. l] = F[f[1 .. l - 1]][e[l]]
  <2>1. PICK T \in SUBSET (1 .. n) : T = 1 .. l
    BY LargestUpTo
  <2>2. T # {} /\ Poly!Max(T) = l /\ T \ {l} = 1 .. l - 1
    BY <2>1, LargestUpTo
  <2>3. f[T] = F[f[T \ {Poly!Max(T)}]][e[Poly!Max(T)]]
    BY <1>0, <1>1, <2>2
  <2> QED  BY <2>1, <2>2, <2>3
<1>2. \A l \in 0 .. n : f[1 .. l] \in A
  <2> DEFINE G == {l \in 0 .. n : f[1 .. l] \in A}
  <2>1. 0 \in G
    <3>1. 1 .. 0 = {}
      OBVIOUS
    <3> QED  BY <1>0, <3>1
  <2>2. ASSUME NEW l \in 0 .. n - 1, l \in G  PROVE l + 1 \in G
    <3>1. l + 1 \in 1 .. n /\ (l + 1) - 1 = l
      OBVIOUS
    <3>2. f[1 .. l + 1] = F[f[1 .. l]][e[l + 1]]
      BY <1>1, <2>2, <3>1
    <3>3. f[1 .. l] \in A /\ e[l + 1] \in D
      BY <2>2, <3>1
    <3>4. f[1 .. l + 1] \in A
      BY <3>2, <3>3
    <3> QED  BY <3>1, <3>4
  <2>3. \A l \in 0 .. n : l \in G
    <3> HIDE DEF G
    <3> QED  BY <2>1, <2>2, UpTo
  <2> QED  BY <2>3
<1>3. h \in [0 .. n -> A] /\ h[n] = f[1 .. n]
  BY <1>2
<1>4. h[0] = base
  <2>1. 1 .. 0 = {}
    OBVIOUS
  <2> QED  BY <1>0, <2>1
<1>5. ASSUME NEW l \in 1 .. n  PROVE h[l] = F[h[l - 1]][e[l]]
  <2>1. l - 1 \in 0 .. n
    OBVIOUS
  <2> QED  BY <1>1, <1>2, <2>1
<1> HIDE DEF h
<1> QED  BY <1>3, <1>4, <1>5 DEF IsLoop

(***************************************************************************)
(* Derivative: the text, and the sum that the polynomial means, as loops   *)
(* over the terms.                                                         *)
(***************************************************************************)

\* What may be written: a number is natural, one that is not written is -1.
Spelling == Numbers \subseteq Nat /\ Powers \subseteq Nat /\ terms \in Seq(Poly!Term)

\* A term is appended to the text, a term is counted.
Written(text, t) ==
  text \o (IF t.sign = -1 THEN <<Poly!Minus>> ELSE IF text = <<>> THEN <<>> ELSE <<Poly!Plus>>)
       \o (IF t.coef = -1 THEN <<>> ELSE <<t.coef>>)
       \o (IF t.coef # -1 /\ t.shape = "x" THEN <<Poly!Star>> ELSE <<>>)
       \o (IF t.shape = "x" THEN <<Poly!X>> ELSE <<>>)
       \o (IF t.power # -1 THEN <<Poly!Hat, t.power>> ELSE <<>>)
Added(b, sum, t) == IF Poly!PowerOf(t) = b THEN sum + Poly!CoefOf(t) ELSE sum

LEMMA TermType ==
  ASSUME Spelling, NEW t \in Poly!Term
  PROVE  /\ t.sign \in {1, -1} /\ t.coef \in Nat \cup {-1} /\ t.power \in Nat \cup {-1}
         /\ t.shape \in {"const", "x"}
         /\ t.shape = "const" => t.coef \in Nat /\ t.power = -1
         /\ Poly!CoefOf(t) \in Int /\ Poly!PowerOf(t) \in Nat
<1>1. /\ t.sign \in {1, -1} /\ t.coef \in Nat \cup {-1} /\ t.power \in Nat \cup {-1}
      /\ t.shape \in {"const", "x"}
      /\ t.shape = "const" => t.coef \in Nat /\ t.power = -1
  BY DEF Spelling, Poly!Term
<1>2. Poly!CoefOf(t) \in Int /\ Poly!PowerOf(t) \in Nat
  BY <1>1 DEF Poly!CoefOf, Poly!PowerOf
<1> QED  BY <1>1, <1>2

\* The text is written term by term.
LEMMA TextIsLoop ==
  ASSUME Spelling
  PROVE  \E h \in [0 .. Len(terms) -> Seq(Int)] :
           /\ h[0] = <<>>
           /\ \A l \in 1 .. Len(terms) : h[l] = Written(h[l - 1], terms[l])
           /\ Poly!Text
                = h[Len(terms)]
<1> DEFINE base == <<>>
           n == Len(terms)
           F == [acc \in Seq(Int) |-> [c \in Poly!Term |-> Written(acc, c)]]
           Is(g) == g = [T \in SUBSET DOMAIN terms |->
                           IF T = {} THEN base
                           ELSE Written(g[T \ {Poly!Max(T)}], terms[Poly!Max(T)])]
<1>1. n \in Nat /\ DOMAIN terms = 1 .. n /\ terms \in [1 .. n -> Poly!Term] /\ base \in Seq(Int)
  BY EmptySeq DEF Spelling
<1>2. Poly!Text
        = (CHOOSE g : Is(g))[1 .. n]
  <2>1. Poly!Text
          = (CHOOSE g : Is(g))[DOMAIN terms]
    BY DEF Poly!FoldLeft, Poly!MapThenFoldSet, Poly!Text, Written
  <2> QED  BY <1>1, <2>1
<1>3. F \in [Seq(Int) -> [Poly!Term -> Seq(Int)]]
  <2>1. ASSUME NEW acc \in Seq(Int), NEW c \in Poly!Term
        PROVE  Written(acc, c) \in Seq(Int)
    <3>1. /\ Poly!Minus \in Int /\ Poly!Plus \in Int /\ Poly!Star \in Int /\ Poly!X \in Int
          /\ Poly!Hat \in Int /\ c.coef \in Int /\ c.power \in Int
      BY TermType DEF Poly!Minus, Poly!Plus, Poly!Star, Poly!X, Poly!Hat
    <3>2. PICK a1, a2, a3, a4, a5 :
            /\ a1 = IF c.sign = -1 THEN <<Poly!Minus>> ELSE IF acc = <<>> THEN <<>> ELSE <<Poly!Plus>>
            /\ a2 = IF c.coef = -1 THEN <<>> ELSE <<c.coef>>
            /\ a3 = IF c.coef # -1 /\ c.shape = "x" THEN <<Poly!Star>> ELSE <<>>
            /\ a4 = IF c.shape = "x" THEN <<Poly!X>> ELSE <<>>
            /\ a5 = IF c.power # -1 THEN <<Poly!Hat, c.power>> ELSE <<>>
      OBVIOUS
    <3>3. /\ a1 \in Seq(Int) /\ a2 \in Seq(Int) /\ a3 \in Seq(Int) /\ a4 \in Seq(Int)
          /\ a5 \in Seq(Int)
      BY <3>1, <3>2
    <3>4. Written(acc, c) = acc \o a1 \o a2 \o a3 \o a4 \o a5
      BY <3>2 DEF Written
    <3> QED  BY <3>3, <3>4
  <2> QED  BY <2>1
<1>4. \E g : Is(g)
  <2>0. PICK g \in [SUBSET (1 .. n) -> Seq(Int)] : IsFold(g, F, base, n, terms)
    <3> HIDE DEF F, base, n, Is
    <3> QED  BY <1>1, <1>3, FoldExists
  <2>1. \A T \in SUBSET (1 .. n) :
          g[T] = IF T = {} THEN base ELSE F[g[T \ {Poly!Max(T)}]][terms[Poly!Max(T)]]
    <3> HIDE DEF F, base, n, Is
    <3> QED  BY <2>0 DEF IsFold
  <2>2. ASSUME NEW T \in SUBSET (1 .. n), T # {}
        PROVE  F[g[T \ {Poly!Max(T)}]][terms[Poly!Max(T)]]
                 = Written(g[T \ {Poly!Max(T)}], terms[Poly!Max(T)])
    <3>1. Poly!Max(T) \in T
      BY <1>1, <2>2, LargestOf
    <3>2. g[T \ {Poly!Max(T)}] \in Seq(Int) /\ terms[Poly!Max(T)] \in Poly!Term
      BY <1>1, <2>1, <3>1
    <3> QED  BY <3>2
  <2>3. g = [T \in SUBSET (1 .. n) |->
               IF T = {} THEN base ELSE Written(g[T \ {Poly!Max(T)}], terms[Poly!Max(T)])]
    <3> HIDE DEF F, base
    <3> QED  BY <2>1, <2>2
  <2> QED  BY <1>1, <2>3
<1>5. PICK f : Is(f) /\ f = CHOOSE g : Is(g)
  BY <1>4
<1>6. /\ f[{}] = base
      /\ \A T \in SUBSET (1 .. n) :
           T # {} => f[T] = Written(f[T \ {Poly!Max(T)}], terms[Poly!Max(T)])
  <2> HIDE DEF base
  <2> QED  BY <1>1, <1>5
<1>7. ASSUME NEW T \in SUBSET (1 .. n), T # {}, f[T \ {Poly!Max(T)}] \in Seq(Int)
      PROVE  f[T] = F[f[T \ {Poly!Max(T)}]][terms[Poly!Max(T)]]
  <2>1. Poly!Max(T) \in T
    BY <1>1, <1>7, LargestOf
  <2>2. terms[Poly!Max(T)] \in Poly!Term
    BY <1>1, <2>1
  <2> QED  BY <1>6, <1>7, <2>2
<1>8. PICK h : IsLoop(h, Seq(Int), F, base, n, terms, f[1 .. n])
  <2>1. Agrees(f, Seq(Int), F, base, n, terms)
    <3> HIDE DEF F, base, n
    <3> QED  BY <1>6, <1>7 DEF Agrees
  <2> HIDE DEF F, base, n, Is
  <2> QED  BY <1>1, <1>3, <2>1, FoldIsLoop
<1>9. ASSUME NEW l \in 1 .. n  PROVE h[l] = Written(h[l - 1], terms[l])
  <2>1. h[l - 1] \in Seq(Int) /\ terms[l] \in Poly!Term
    <3> HIDE DEF F, base, n, Is
    <3>1. l - 1 \in 0 .. n
      BY <1>1
    <3>2. h \in [0 .. n -> Seq(Int)]
      BY <1>8 DEF IsLoop
    <3> QED  BY ONLY <1>1, l \in 1 .. n, <3>1, <3>2
  <2>2. h[l] = F[h[l - 1]][terms[l]]
    BY <1>8 DEF IsLoop
  <2> QED  BY <2>1, <2>2
<1>10. /\ Poly!Text = h[n]
       /\ h[0] = base /\ h \in [0 .. n -> Seq(Int)]
  BY <1>2, <1>5, <1>8 DEF IsLoop
<1> QED  BY <1>9, <1>10

\* The coefficients are added term by term.
LEMMA MeantIsLoop ==
  ASSUME Spelling, NEW b
  PROVE  \E h \in [0 .. Len(terms) -> Int] :
           /\ h[0] = 0
           /\ \A l \in 1 .. Len(terms) : h[l] = Added(b, h[l - 1], terms[l])
           /\ Poly!Meant(b)
                = h[Len(terms)]
<1> DEFINE base == 0
           n == Len(terms)
           F == [acc \in Int |-> [c \in Poly!Term |-> Added(b, acc, c)]]
           Is(g) == g = [T \in SUBSET DOMAIN terms |->
                           IF T = {} THEN base
                           ELSE Added(b, g[T \ {Poly!Max(T)}], terms[Poly!Max(T)])]
<1>1. n \in Nat /\ DOMAIN terms = 1 .. n /\ terms \in [1 .. n -> Poly!Term] /\ base \in Int
  BY DEF Spelling
<1>2. Poly!Meant(b)
        = (CHOOSE g : Is(g))[1 .. n]
  <2>1. Poly!Meant(b)
          = (CHOOSE g : Is(g))[DOMAIN terms]
    BY DEF Poly!FoldLeft, Poly!MapThenFoldSet, Poly!Meant, Added
  <2> QED  BY <1>1, <2>1
<1>3. F \in [Int -> [Poly!Term -> Int]]
  <2>1. ASSUME NEW acc \in Int, NEW c \in Poly!Term
        PROVE  Added(b, acc, c) \in Int
    <3>1. Poly!CoefOf(c) \in Int
      BY TermType
    <3> QED  BY <3>1 DEF Added
  <2> QED  BY <2>1
<1>4. \E g : Is(g)
  <2>0. PICK g \in [SUBSET (1 .. n) -> Int] : IsFold(g, F, base, n, terms)
    <3> HIDE DEF F, base, n, Is
    <3> QED  BY <1>1, <1>3, FoldExists
  <2>1. \A T \in SUBSET (1 .. n) :
          g[T] = IF T = {} THEN base ELSE F[g[T \ {Poly!Max(T)}]][terms[Poly!Max(T)]]
    <3> HIDE DEF F, base, n, Is
    <3> QED  BY <2>0 DEF IsFold
  <2>2. ASSUME NEW T \in SUBSET (1 .. n), T # {}
        PROVE  F[g[T \ {Poly!Max(T)}]][terms[Poly!Max(T)]]
                 = Added(b, g[T \ {Poly!Max(T)}], terms[Poly!Max(T)])
    <3>1. Poly!Max(T) \in T
      BY <1>1, <2>2, LargestOf
    <3>2. g[T \ {Poly!Max(T)}] \in Int /\ terms[Poly!Max(T)] \in Poly!Term
      BY <1>1, <2>1, <3>1
    <3> QED  BY <3>2
  <2>3. g = [T \in SUBSET (1 .. n) |->
               IF T = {} THEN base ELSE Added(b, g[T \ {Poly!Max(T)}], terms[Poly!Max(T)])]
    <3> HIDE DEF F, base
    <3> QED  BY <2>1, <2>2
  <2> QED  BY <1>1, <2>3
<1>5. PICK f : Is(f) /\ f = CHOOSE g : Is(g)
  BY <1>4
<1>6. /\ f[{}] = base
      /\ \A T \in SUBSET (1 .. n) :
           T # {} => f[T] = Added(b, f[T \ {Poly!Max(T)}], terms[Poly!Max(T)])
  <2> HIDE DEF base
  <2> QED  BY <1>1, <1>5
<1>7. ASSUME NEW T \in SUBSET (1 .. n), T # {}, f[T \ {Poly!Max(T)}] \in Int
      PROVE  f[T] = F[f[T \ {Poly!Max(T)}]][terms[Poly!Max(T)]]
  <2>1. Poly!Max(T) \in T
    BY <1>1, <1>7, LargestOf
  <2>2. terms[Poly!Max(T)] \in Poly!Term
    BY <1>1, <2>1
  <2> QED  BY <1>6, <1>7, <2>2
<1>8. PICK h : IsLoop(h, Int, F, base, n, terms, f[1 .. n])
  <2>1. Agrees(f, Int, F, base, n, terms)
    <3> HIDE DEF F, base, n
    <3> QED  BY <1>6, <1>7 DEF Agrees
  <2> HIDE DEF F, base, n, Is
  <2> QED  BY <1>1, <1>3, <2>1, FoldIsLoop
<1>9. ASSUME NEW l \in 1 .. n  PROVE h[l] = Added(b, h[l - 1], terms[l])
  <2>1. h[l - 1] \in Int /\ terms[l] \in Poly!Term
    <3> HIDE DEF F, base, n, Is
    <3>1. l - 1 \in 0 .. n
      BY <1>1
    <3>2. h \in [0 .. n -> Int]
      BY <1>8 DEF IsLoop
    <3> QED  BY ONLY <1>1, l \in 1 .. n, <3>1, <3>2
  <2>2. h[l] = F[h[l - 1]][terms[l]]
    BY <1>8 DEF IsLoop
  <2> QED  BY <2>1, <2>2
<1>10. /\ Poly!Meant(b) = h[n]
       /\ h[0] = base /\ h \in [0 .. n -> Int]
  BY <1>2, <1>5, <1>8 DEF IsLoop
<1> QED  BY <1>9, <1>10

(***************************************************************************)
(* Derivative: where the tokens of a term stand in the text.               *)
(***************************************************************************)

\* The positions behind the parts of term j, which starts at position a.
AfterSign(j, a) == IF terms[j].sign = -1 \/ j # 1 THEN a + 1 ELSE a
AfterCoef(j, a) == IF terms[j].coef # -1 THEN AfterSign(j, a) + 1 ELSE AfterSign(j, a)
AfterStar(j, a) ==
  IF terms[j].coef # -1 /\ terms[j].shape = "x" THEN AfterCoef(j, a) + 1 ELSE AfterCoef(j, a)
AfterX(j, a) == IF terms[j].shape = "x" THEN AfterStar(j, a) + 1 ELSE AfterStar(j, a)
AfterTerm(j, a) == IF terms[j].power # -1 THEN AfterX(j, a) + 2 ELSE AfterX(j, a)

\* Term j stands in the text w from position a on.
StandsAt(w, j, a) ==
  /\ terms[j].sign = -1 => w[a] = Poly!Minus
  /\ terms[j].sign # -1 /\ j # 1 => w[a] = Poly!Plus
  /\ terms[j].coef # -1 => w[AfterSign(j, a)] = terms[j].coef
  /\ terms[j].coef # -1 /\ terms[j].shape = "x" => w[AfterCoef(j, a)] = Poly!Star
  /\ terms[j].shape = "x" => w[AfterStar(j, a)] = Poly!X
  /\ terms[j].power # -1 =>
       w[AfterX(j, a)] = Poly!Hat /\ w[AfterX(j, a) + 1] = terms[j].power

\* A term takes at least one position.
LEMMA Positions ==
  ASSUME Spelling, NEW j \in 1 .. Len(terms), NEW a \in Nat
  PROVE  /\ AfterSign(j, a) \in {a, a + 1}
         /\ AfterCoef(j, a) \in {AfterSign(j, a), AfterSign(j, a) + 1}
         /\ AfterStar(j, a) \in {AfterCoef(j, a), AfterCoef(j, a) + 1}
         /\ AfterX(j, a) \in {AfterStar(j, a), AfterStar(j, a) + 1}
         /\ AfterTerm(j, a) \in {AfterX(j, a), AfterX(j, a) + 2}
         /\ a < AfterX(j, a) /\ AfterX(j, a) \in Nat
         /\ a < AfterTerm(j, a) /\ AfterTerm(j, a) \in Nat
<1>1. terms[j] \in Poly!Term
  BY DEF Spelling
<1>2. terms[j].coef = -1 => terms[j].shape = "x"
  <2>1. terms[j].shape \in {"const", "x"} /\ (terms[j].shape = "const" => terms[j].coef \in Nat)
    BY <1>1, TermType
  <2> QED  BY <2>1
<1>3. /\ AfterSign(j, a) \in {a, a + 1}
      /\ AfterCoef(j, a) \in {AfterSign(j, a), AfterSign(j, a) + 1}
      /\ AfterStar(j, a) \in {AfterCoef(j, a), AfterCoef(j, a) + 1}
      /\ AfterX(j, a) \in {AfterStar(j, a), AfterStar(j, a) + 1}
      /\ AfterTerm(j, a) \in {AfterX(j, a), AfterX(j, a) + 2}
  BY DEF AfterSign, AfterCoef, AfterStar, AfterX, AfterTerm
<1>4. CASE terms[j].coef = -1
  <2>1. AfterX(j, a) = AfterStar(j, a) + 1
    BY <1>2, <1>4 DEF AfterX
  <2> QED  BY <1>3, <2>1
<1>5. CASE terms[j].coef # -1
  <2>1. AfterCoef(j, a) = AfterSign(j, a) + 1
    BY <1>5 DEF AfterCoef
  <2> QED  BY <1>3, <2>1
<1> QED  BY <1>3, <1>4, <1>5

\* What follows a text leaves it where it is.
LEMMA Glued ==
  ASSUME NEW u \in Seq(Int), NEW v \in Seq(Int), NEW r, r = u \o v
  PROVE  /\ r \in Seq(Int) /\ Len(r) = Len(u) + Len(v) /\ Len(u) \in Nat /\ Len(r) \in Nat
         /\ \A x \in 1 .. Len(u) : r[x] = u[x]
         /\ \A x \in 1 .. Len(v) : r[Len(u) + x] = v[x]
<1>1. r \in Seq(Int) /\ Len(r) = Len(u) + Len(v) /\ Len(u) \in Nat /\ Len(v) \in Nat
  OBVIOUS
<1>2. \A x \in 1 .. Len(u) + Len(v) : r[x] = IF x <= Len(u) THEN u[x] ELSE v[x - Len(u)]
  BY ConcatProperties
<1>3. ASSUME NEW x \in 1 .. Len(u)  PROVE r[x] = u[x]
  <2>1. x \in 1 .. Len(u) + Len(v) /\ x <= Len(u)
    BY <1>1
  <2> QED  BY <1>2, <2>1
<1>4. ASSUME NEW x \in 1 .. Len(v)  PROVE r[Len(u) + x] = v[x]
  <2>1. Len(u) + x \in 1 .. Len(u) + Len(v) /\ ~(Len(u) + x <= Len(u)) /\ (Len(u) + x) - Len(u) = x
    BY <1>1
  <2> QED  BY <1>2, <2>1
<1> QED  BY <1>1, <1>3, <1>4

\* A token follows, or nothing.
LEMMA TokenGlued ==
  ASSUME NEW u \in Seq(Int), NEW yes \in BOOLEAN, NEW token \in Int,
         NEW r, r = u \o (IF yes THEN <<token>> ELSE <<>>)
  PROVE  /\ r \in Seq(Int) /\ Len(u) \in Nat
         /\ Len(r) = IF yes THEN Len(u) + 1 ELSE Len(u)
         /\ \A x \in 1 .. Len(u) : r[x] = u[x]
         /\ yes => r[Len(u) + 1] = token
<1>1. PICK v \in Seq(Int) : v = IF yes THEN <<token>> ELSE <<>>
  <2>1. <<token>> \in Seq(Int) /\ <<>> \in Seq(Int)
    BY EmptySeq
  <2> QED  BY <2>1
<1>2. r = u \o v
  BY <1>1
<1>3. /\ r \in Seq(Int) /\ Len(r) = Len(u) + Len(v) /\ Len(u) \in Nat
      /\ \A x \in 1 .. Len(u) : r[x] = u[x]
      /\ \A x \in 1 .. Len(v) : r[Len(u) + x] = v[x]
  BY <1>2, Glued
<1>4. CASE yes
  <2>1. v = <<token>> /\ Len(v) = 1 /\ v[1] = token /\ 1 \in 1 .. Len(v)
    BY <1>1, <1>4
  <2> QED  BY <1>3, <1>4, <2>1
<1>5. CASE ~yes
  <2>1. Len(v) = 0
    BY <1>1, <1>5
  <2> QED  BY <1>3, <1>5, <2>1
<1> QED  BY <1>4, <1>5

\* A term that is written stands behind the text before it.
LEMMA WrittenStands ==
  ASSUME Spelling, NEW j \in 1 .. Len(terms), NEW u \in Seq(Int), u = <<>> <=> j = 1,
         NEW r, r = Written(u, terms[j])
  PROVE  /\ r \in Seq(Int) /\ Len(r) + 1 = AfterTerm(j, Len(u) + 1)
         /\ \A x \in 1 .. Len(u) : r[x] = u[x]
         /\ StandsAt(r, j, Len(u) + 1)
<1> DEFINE a == Len(u) + 1
           yes1 == terms[j].sign = -1 \/ j # 1
           tok1 == IF terms[j].sign = -1 THEN Poly!Minus ELSE Poly!Plus
           yes2 == terms[j].coef # -1
           yes3 == terms[j].coef # -1 /\ terms[j].shape = "x"
           yes4 == terms[j].shape = "x"
           yes5 == terms[j].power # -1
<1>1. terms[j] \in Poly!Term
  BY DEF Spelling
<1>2. /\ Poly!Minus \in Int /\ Poly!Plus \in Int /\ Poly!Star \in Int /\ Poly!X \in Int
      /\ Poly!Hat \in Int /\ tok1 \in Int
      /\ terms[j].coef \in Int /\ terms[j].power \in Int
  BY <1>1, TermType DEF Poly!Minus, Poly!Plus, Poly!Star, Poly!X, Poly!Hat
<1>3. PICK u1 : u1 = u \o (IF yes1 THEN <<tok1>> ELSE <<>>)
  OBVIOUS
<1>4. PICK u2 : u2 = u1 \o (IF yes2 THEN <<terms[j].coef>> ELSE <<>>)
  OBVIOUS
<1>5. PICK u3 : u3 = u2 \o (IF yes3 THEN <<Poly!Star>> ELSE <<>>)
  OBVIOUS
<1>6. PICK u4 : u4 = u3 \o (IF yes4 THEN <<Poly!X>> ELSE <<>>)
  OBVIOUS
<1>7. r = u4 \o (IF yes5 THEN <<Poly!Hat, terms[j].power>> ELSE <<>>)
  <2>1. (IF terms[j].sign = -1 THEN <<Poly!Minus>> ELSE IF u = <<>> THEN <<>> ELSE <<Poly!Plus>>)
          = IF yes1 THEN <<tok1>> ELSE <<>>
    OBVIOUS
  <2>2. (IF terms[j].coef = -1 THEN <<>> ELSE <<terms[j].coef>>)
          = IF yes2 THEN <<terms[j].coef>> ELSE <<>>
    OBVIOUS
  <2>3. r = u \o (IF yes1 THEN <<tok1>> ELSE <<>>)
              \o (IF yes2 THEN <<terms[j].coef>> ELSE <<>>)
              \o (IF yes3 THEN <<Poly!Star>> ELSE <<>>)
              \o (IF yes4 THEN <<Poly!X>> ELSE <<>>)
              \o (IF yes5 THEN <<Poly!Hat, terms[j].power>> ELSE <<>>)
    BY <2>1, <2>2 DEF Written
  <2> HIDE DEF yes1, yes2, yes3, yes4, yes5, tok1
  <2> QED  BY <1>3, <1>4, <1>5, <1>6, <2>3
<1>8. /\ yes1 \in BOOLEAN /\ yes2 \in BOOLEAN /\ yes3 \in BOOLEAN /\ yes4 \in BOOLEAN
      /\ yes5 \in BOOLEAN
  OBVIOUS
<1> HIDE DEF yes1, yes2, yes3, yes4, yes5, tok1
<1>9. /\ u1 \in Seq(Int) /\ Len(u) \in Nat /\ Len(u1) = (IF yes1 THEN Len(u) + 1 ELSE Len(u))
      /\ \A x \in 1 .. Len(u) : u1[x] = u[x]
      /\ yes1 => u1[Len(u) + 1] = tok1
  BY <1>2, <1>3, <1>8, TokenGlued
<1>10. /\ u2 \in Seq(Int) /\ Len(u1) \in Nat /\ Len(u2) = (IF yes2 THEN Len(u1) + 1 ELSE Len(u1))
       /\ \A x \in 1 .. Len(u1) : u2[x] = u1[x]
       /\ yes2 => u2[Len(u1) + 1] = terms[j].coef
  <2>1. PICK c \in Int : c = terms[j].coef
    BY <1>2
  <2>2. u1 \in Seq(Int) /\ yes2 \in BOOLEAN /\ u2 = u1 \o (IF yes2 THEN <<c>> ELSE <<>>)
    BY <1>4, <1>8, <1>9, <2>1
  <2>3. /\ u2 \in Seq(Int) /\ Len(u1) \in Nat
        /\ Len(u2) = IF yes2 THEN Len(u1) + 1 ELSE Len(u1)
        /\ \A x \in 1 .. Len(u1) : u2[x] = u1[x]
        /\ yes2 => u2[Len(u1) + 1] = c
    BY ONLY <2>2, TokenGlued
  <2> QED  BY <2>1, <2>3
<1>11. /\ u3 \in Seq(Int) /\ Len(u2) \in Nat /\ Len(u3) = (IF yes3 THEN Len(u2) + 1 ELSE Len(u2))
       /\ \A x \in 1 .. Len(u2) : u3[x] = u2[x]
       /\ yes3 => u3[Len(u2) + 1] = Poly!Star
  <2>1. PICK c \in Int : c = Poly!Star
    BY <1>2
  <2>2. u2 \in Seq(Int) /\ yes3 \in BOOLEAN /\ u3 = u2 \o (IF yes3 THEN <<c>> ELSE <<>>)
    BY <1>5, <1>8, <1>10, <2>1
  <2>3. /\ u3 \in Seq(Int) /\ Len(u2) \in Nat
        /\ Len(u3) = IF yes3 THEN Len(u2) + 1 ELSE Len(u2)
        /\ \A x \in 1 .. Len(u2) : u3[x] = u2[x]
        /\ yes3 => u3[Len(u2) + 1] = c
    BY ONLY <2>2, TokenGlued
  <2> QED  BY <2>1, <2>3
<1>12. /\ u4 \in Seq(Int) /\ Len(u3) \in Nat /\ Len(u4) = (IF yes4 THEN Len(u3) + 1 ELSE Len(u3))
       /\ \A x \in 1 .. Len(u3) : u4[x] = u3[x]
       /\ yes4 => u4[Len(u3) + 1] = Poly!X
  <2>1. PICK c \in Int : c = Poly!X
    BY <1>2
  <2>2. u3 \in Seq(Int) /\ yes4 \in BOOLEAN /\ u4 = u3 \o (IF yes4 THEN <<c>> ELSE <<>>)
    BY <1>6, <1>8, <1>11, <2>1
  <2>3. /\ u4 \in Seq(Int) /\ Len(u3) \in Nat
        /\ Len(u4) = IF yes4 THEN Len(u3) + 1 ELSE Len(u3)
        /\ \A x \in 1 .. Len(u3) : u4[x] = u3[x]
        /\ yes4 => u4[Len(u3) + 1] = c
    BY ONLY <2>2, TokenGlued
  <2> QED  BY <2>1, <2>3
<1>13. /\ r \in Seq(Int) /\ Len(u4) \in Nat /\ Len(r) = (IF yes5 THEN Len(u4) + 2 ELSE Len(u4))
       /\ \A x \in 1 .. Len(u4) : r[x] = u4[x]
       /\ yes5 => r[Len(u4) + 1] = Poly!Hat /\ r[Len(u4) + 2] = terms[j].power
  <2>1. PICK v \in Seq(Int) : v = IF yes5 THEN <<Poly!Hat, terms[j].power>> ELSE <<>>
    <3>1. <<Poly!Hat, terms[j].power>> \in Seq(Int) /\ <<>> \in Seq(Int)
      BY <1>2, EmptySeq
    <3> QED  BY <3>1
  <2>2. r = u4 \o v
    BY <1>7, <2>1
  <2>3. /\ r \in Seq(Int) /\ Len(r) = Len(u4) + Len(v) /\ Len(u4) \in Nat
        /\ \A x \in 1 .. Len(u4) : r[x] = u4[x]
        /\ \A x \in 1 .. Len(v) : r[Len(u4) + x] = v[x]
    <3>1. u4 \in Seq(Int) /\ v \in Seq(Int)
      BY <1>12
    <3> QED  BY ONLY <3>1, <2>2, Glued
  <2>4. CASE yes5
    <3>1. Len(v) = 2 /\ v[1] = Poly!Hat /\ v[2] = terms[j].power
      BY <2>1, <2>4
    <3>2. 1 \in 1 .. Len(v) /\ 2 \in 1 .. Len(v)
      BY <3>1
    <3> QED  BY <2>3, <2>4, <3>1, <3>2
  <2>5. CASE ~yes5
    <3>1. Len(v) = 0
      BY <2>1, <2>5
    <3> QED  BY <2>3, <2>5, <3>1
  <2> QED  BY <2>4, <2>5
<1>14. /\ AfterSign(j, a) = Len(u1) + 1 /\ AfterCoef(j, a) = Len(u2) + 1
       /\ AfterStar(j, a) = Len(u3) + 1 /\ AfterX(j, a) = Len(u4) + 1
       /\ AfterTerm(j, a) = Len(r) + 1
  <2>1. AfterSign(j, a) = Len(u1) + 1
    BY <1>9 DEF AfterSign, yes1
  <2>2. AfterCoef(j, a) = Len(u2) + 1
    BY <1>10, <2>1 DEF AfterCoef, yes2
  <2>3. AfterStar(j, a) = Len(u3) + 1
    BY <1>11, <2>2 DEF AfterStar, yes3
  <2>4. AfterX(j, a) = Len(u4) + 1
    BY <1>12, <2>3 DEF AfterX, yes4
  <2>5. AfterTerm(j, a) = Len(r) + 1
    <3>1. CASE yes5
      <4>1. AfterTerm(j, a) = AfterX(j, a) + 2
        BY <3>1 DEF AfterTerm, yes5
      <4> QED  BY <1>13, <2>4, <3>1, <4>1
    <3>2. CASE ~yes5
      <4>1. AfterTerm(j, a) = AfterX(j, a)
        BY <3>2 DEF AfterTerm, yes5
      <4> QED  BY <1>13, <2>4, <3>2, <4>1
    <3> QED  BY <3>1, <3>2
  <2> QED  BY <2>1, <2>2, <2>3, <2>4, <2>5
<1>15. /\ Len(u) <= Len(u1) /\ Len(u1) <= Len(u2) /\ Len(u2) <= Len(u3) /\ Len(u3) <= Len(u4)
       /\ \A x \in 1 .. Len(u3) : r[x] = u3[x]
       /\ \A x \in 1 .. Len(u2) : r[x] = u2[x]
       /\ \A x \in 1 .. Len(u1) : r[x] = u1[x]
       /\ \A x \in 1 .. Len(u) : r[x] = u[x]
  <2>0. /\ Len(u) \in Nat /\ Len(u1) \in Nat /\ Len(u2) \in Nat /\ Len(u3) \in Nat /\ Len(u4) \in Nat
        /\ Len(u1) \in {Len(u), Len(u) + 1} /\ Len(u2) \in {Len(u1), Len(u1) + 1}
        /\ Len(u3) \in {Len(u2), Len(u2) + 1} /\ Len(u4) \in {Len(u3), Len(u3) + 1}
    <3>1. Len(u) \in Nat /\ Len(u1) \in {Len(u), Len(u) + 1}
      BY <1>9
    <3>2. Len(u1) \in Nat /\ Len(u2) \in {Len(u1), Len(u1) + 1}
      BY <1>10
    <3>3. Len(u2) \in Nat /\ Len(u3) \in {Len(u2), Len(u2) + 1}
      BY <1>11
    <3>4. Len(u3) \in Nat /\ Len(u4) \in {Len(u3), Len(u3) + 1}
      BY <1>12
    <3>5. Len(u4) \in Nat
      BY <1>13
    <3> QED  BY ONLY <3>1, <3>2, <3>3, <3>4, <3>5
  <2>1. /\ Len(u) <= Len(u1) /\ Len(u1) <= Len(u2) /\ Len(u2) <= Len(u3) /\ Len(u3) <= Len(u4)
    BY ONLY <2>0
  <2>2. /\ \A x \in 1 .. Len(u3) : x \in 1 .. Len(u4)
        /\ \A x \in 1 .. Len(u2) : x \in 1 .. Len(u3)
        /\ \A x \in 1 .. Len(u1) : x \in 1 .. Len(u2)
        /\ \A x \in 1 .. Len(u) : x \in 1 .. Len(u1)
    BY ONLY <2>0
  <2>3. \A x \in 1 .. Len(u3) : r[x] = u3[x]
    BY <1>12, <1>13, <2>2
  <2>4. \A x \in 1 .. Len(u2) : r[x] = u2[x]
    BY <1>11, <2>2, <2>3
  <2>5. \A x \in 1 .. Len(u1) : r[x] = u1[x]
    BY <1>10, <2>2, <2>4
  <2>6. \A x \in 1 .. Len(u) : r[x] = u[x]
    BY <1>9, <2>2, <2>5
  <2> QED  BY <2>1, <2>3, <2>4, <2>5, <2>6
<1>16. yes1 => r[a] = tok1
  <2>1. yes1 => Len(u) + 1 \in 1 .. Len(u1)
    BY <1>9
  <2> QED  BY <1>9, <1>15, <2>1
<1>17. yes2 => r[AfterSign(j, a)] = terms[j].coef
  <2>1. yes2 => Len(u1) + 1 \in 1 .. Len(u2)
    BY <1>10
  <2> QED  BY <1>10, <1>14, <1>15, <2>1
<1>18. yes3 => r[AfterCoef(j, a)] = Poly!Star
  <2>1. yes3 => Len(u2) + 1 \in 1 .. Len(u3)
    BY <1>11
  <2> QED  BY <1>11, <1>14, <1>15, <2>1
<1>19. yes4 => r[AfterStar(j, a)] = Poly!X
  <2>1. yes4 => Len(u3) + 1 \in 1 .. Len(u4)
    BY <1>12
  <2> QED  BY <1>12, <1>13, <1>14, <2>1
<1>20. yes5 => r[AfterX(j, a)] = Poly!Hat /\ r[AfterX(j, a) + 1] = terms[j].power
  <2>1. (Len(u4) + 1) + 1 = Len(u4) + 2
    BY <1>13
  <2> QED  BY <1>13, <1>14, <2>1
<1>21. StandsAt(r, j, a)
  <2> HIDE DEF a
  <2>1. terms[j].sign = -1 => r[a] = Poly!Minus
    BY <1>16 DEF yes1, tok1
  <2>2. terms[j].sign # -1 /\ j # 1 => r[a] = Poly!Plus
    BY <1>16 DEF yes1, tok1
  <2> QED  BY <2>1, <2>2, <1>17, <1>18, <1>19, <1>20 DEF StandsAt, yes2, yes3, yes4, yes5
<1> QED  BY <1>13, <1>14, <1>15, <1>21

\* A term stands in every text that goes on behind it.
LEMMA StandsInLonger ==
  ASSUME Spelling, NEW j \in 1 .. Len(terms), NEW a \in Nat \ {0}, NEW r, NEW w,
         StandsAt(r, j, a), \A x \in 1 .. AfterTerm(j, a) - 1 : w[x] = r[x]
  PROVE  StandsAt(w, j, a)
<1> DEFINE d == AfterSign(j, a)
           e == AfterCoef(j, a)
           f == AfterStar(j, a)
           g == AfterX(j, a)
           z == AfterTerm(j, a)
<1>1. /\ d \in {a, a + 1} /\ e \in {d, d + 1} /\ f \in {e, e + 1} /\ g \in {f, f + 1}
      /\ z \in {g, g + 2} /\ a < g
  BY Positions
<1>2. /\ terms[j].coef # -1 => e = d + 1
      /\ terms[j].coef # -1 /\ terms[j].shape = "x" => f = e + 1
      /\ terms[j].shape = "x" => g = f + 1
      /\ terms[j].power # -1 => z = g + 2
  BY DEF AfterCoef, AfterStar, AfterX, AfterTerm
<1> HIDE DEF d, e, f, g, z
<1>3. /\ a \in 1 .. z - 1
      /\ terms[j].coef # -1 => d \in 1 .. z - 1
      /\ terms[j].coef # -1 /\ terms[j].shape = "x" => e \in 1 .. z - 1
      /\ terms[j].shape = "x" => f \in 1 .. z - 1
      /\ terms[j].power # -1 => g \in 1 .. z - 1 /\ g + 1 \in 1 .. z - 1
  BY ONLY a \in Nat \ {0}, <1>1, <1>2
<1>4. \A x \in 1 .. z - 1 : w[x] = r[x]
  BY DEF z
<1>5. /\ terms[j].sign = -1 => r[a] = Poly!Minus
      /\ terms[j].sign # -1 /\ j # 1 => r[a] = Poly!Plus
      /\ terms[j].coef # -1 => r[d] = terms[j].coef
      /\ terms[j].coef # -1 /\ terms[j].shape = "x" => r[e] = Poly!Star
      /\ terms[j].shape = "x" => r[f] = Poly!X
      /\ terms[j].power # -1 => r[g] = Poly!Hat /\ r[g + 1] = terms[j].power
  BY DEF StandsAt, d, e, f, g
<1>6. /\ terms[j].sign = -1 => w[a] = Poly!Minus
      /\ terms[j].sign # -1 /\ j # 1 => w[a] = Poly!Plus
      /\ terms[j].coef # -1 => w[d] = terms[j].coef
      /\ terms[j].coef # -1 /\ terms[j].shape = "x" => w[e] = Poly!Star
      /\ terms[j].shape = "x" => w[f] = Poly!X
      /\ terms[j].power # -1 => w[g] = Poly!Hat /\ w[g + 1] = terms[j].power
  BY ONLY <1>3, <1>4, <1>5
<1> QED  BY <1>6 DEF StandsAt, d, e, f, g

\* B has the positions where the terms start in the text, and its end.
LaidOut(B) ==
  /\ B \in [1 .. Len(terms) + 1 -> Nat \ {0}]
  /\ B[1] = 1 /\ B[Len(terms) + 1] = Len(Poly!Text) + 1
  /\ \A j \in 1 .. Len(terms) : /\ B[j + 1] = AfterTerm(j, B[j])
                                /\ B[j + 1] <= Len(Poly!Text) + 1
                                /\ StandsAt(Poly!Text, j, B[j])

LEMMA TextLaidOut ==
  ASSUME Spelling
  PROVE  Poly!Text \in Seq(Int) /\ \E B : LaidOut(B)
<1> DEFINE n == Len(terms)
<1>1. PICK h \in [0 .. n -> Seq(Int)] :
        /\ h[0] = <<>>
        /\ \A l \in 1 .. n : h[l] = Written(h[l - 1], terms[l])
        /\ Poly!Text = h[n]
  BY TextIsLoop
<1>2. n \in Nat /\ \A l \in 0 .. n : h[l] \in Seq(Int) /\ Len(h[l]) \in Nat
  BY DEF Spelling
<1>3. ASSUME NEW j \in 1 .. n, h[j - 1] = <<>> <=> j = 1
      PROVE  /\ Len(h[j]) + 1 = AfterTerm(j, Len(h[j - 1]) + 1)
             /\ Len(h[j - 1]) < Len(h[j])
             /\ \A x \in 1 .. Len(h[j - 1]) : h[j][x] = h[j - 1][x]
             /\ StandsAt(h[j], j, Len(h[j - 1]) + 1)
  <2>1. PICK u, r : u = h[j - 1] /\ r = h[j]
    OBVIOUS
  <2>2. u \in Seq(Int) /\ Len(u) + 1 \in Nat /\ r = Written(u, terms[j]) /\ (u = <<>> <=> j = 1)
    <3>1. j - 1 \in 0 .. n
      BY <1>2
    <3> QED  BY <1>1, <1>2, <1>3, <2>1, <3>1
  <2>3. /\ r \in Seq(Int) /\ Len(r) + 1 = AfterTerm(j, Len(u) + 1)
        /\ \A x \in 1 .. Len(u) : r[x] = u[x]
        /\ StandsAt(r, j, Len(u) + 1)
    BY <2>2, WrittenStands
  <2>4. PICK a \in Nat : a = Len(u) + 1
    BY <2>2
  <2>5. a < AfterTerm(j, a)
    BY Positions
  <2>6. Len(u) < Len(r)
    <3>1. Len(r) \in Nat /\ Len(u) \in Nat
      BY <2>2, <2>3
    <3>2. a < Len(r) + 1
      BY <2>3, <2>4, <2>5
    <3> QED  BY <2>4, <3>1, <3>2
  <2> QED  BY <2>1, <2>3, <2>6
<1>4. \A l \in 0 .. n : h[l] = <<>> <=> l = 0
  <2>1. PICK G : G = {l \in 0 .. n : h[l] = <<>> <=> l = 0}
    OBVIOUS
  <2>2. 0 \in G
    BY <1>1, <1>2, <2>1
  <2>3. ASSUME NEW l \in 0 .. n - 1, l \in G  PROVE l + 1 \in G
    <3>1. l + 1 \in 1 .. n /\ (l + 1) - 1 = l /\ l \in 0 .. n /\ l + 1 \in 0 .. n /\ l + 1 # 0
      BY <1>2
    <3>2. h[(l + 1) - 1] = <<>> <=> l + 1 = 1
      BY <2>1, <2>3, <3>1
    <3>3. Len(h[l]) < Len(h[l + 1]) /\ Len(h[l]) \in Nat /\ Len(h[l + 1]) \in Nat
      BY <1>2, <1>3, <3>1, <3>2
    <3>4. h[l + 1] # <<>>
      BY <3>3
    <3> QED  BY <2>1, <3>1, <3>4
  <2>4. \A l \in 0 .. n : l \in G
    BY <1>2, <2>2, <2>3, UpTo
  <2> QED  BY <2>1, <2>4
<1>5. ASSUME NEW j \in 1 .. n
      PROVE  /\ Len(h[j]) + 1 = AfterTerm(j, Len(h[j - 1]) + 1)
             /\ Len(h[j - 1]) < Len(h[j])
             /\ \A x \in 1 .. Len(h[j - 1]) : h[j][x] = h[j - 1][x]
             /\ StandsAt(h[j], j, Len(h[j - 1]) + 1)
  <2>1. j - 1 \in 0 .. n /\ (j - 1 = 0 <=> j = 1)
    BY <1>2
  <2> QED  BY <1>3, <1>4, <2>1
<1>6. ASSUME NEW j \in 1 .. n
      PROVE  Len(h[j]) <= Len(h[n]) /\ \A x \in 1 .. Len(h[j]) : h[n][x] = h[j][x]
  <2>1. PICK G : G = {m \in 0 .. n : m >= j => /\ Len(h[j]) <= Len(h[m])
                                               /\ \A x \in 1 .. Len(h[j]) : h[m][x] = h[j][x]}
    OBVIOUS
  <2>2. 0 \in G
    BY <1>2, <2>1
  <2>3. ASSUME NEW l \in 0 .. n - 1, l \in G  PROVE l + 1 \in G
    <3>1. l + 1 \in 1 .. n /\ (l + 1) - 1 = l /\ l \in 0 .. n /\ l + 1 \in 0 .. n /\ j \in 0 .. n
      BY <1>2
    <3>2. /\ Len(h[l]) < Len(h[l + 1]) /\ \A x \in 1 .. Len(h[l]) : h[l + 1][x] = h[l][x]
      BY <1>5, <3>1
    <3>3. /\ Len(h[l]) \in Nat /\ Len(h[l + 1]) \in Nat /\ Len(h[j]) \in Nat
      BY <1>2, <3>1
    <3>4. CASE l >= j
      <4>1. Len(h[j]) <= Len(h[l]) /\ \A x \in 1 .. Len(h[j]) : h[l][x] = h[j][x]
        BY <2>1, <2>3, <3>4
      <4>2. \A x \in 1 .. Len(h[j]) : x \in 1 .. Len(h[l])
        BY <3>3, <4>1
      <4>3. Len(h[j]) <= Len(h[l + 1])
        BY ONLY <3>2, <3>3, <4>1
      <4>4. \A x \in 1 .. Len(h[j]) : h[l + 1][x] = h[j][x]
        BY ONLY <3>2, <4>1, <4>2
      <4> QED  BY ONLY <2>1, <3>1, <4>3, <4>4
    <3>5. CASE l + 1 = j
      <4>1. Len(h[j]) <= Len(h[l + 1]) /\ \A x \in 1 .. Len(h[j]) : h[l + 1][x] = h[j][x]
        BY <3>3, <3>5
      <4> QED  BY ONLY <2>1, <3>1, <4>1
    <3>6. CASE l + 1 < j
      <4>1. ~(l + 1 >= j)
        BY <3>1, <3>6
      <4> QED  BY ONLY <2>1, <3>1, <4>1
    <3> QED  BY <1>2, <3>4, <3>5, <3>6
  <2>4. \A l \in 0 .. n : l \in G
    BY <1>2, <2>2, <2>3, UpTo
  <2>5. n \in 0 .. n /\ n >= j
    BY <1>2
  <2> QED  BY <2>1, <2>4, <2>5
<1> DEFINE B == [j \in 1 .. n + 1 |-> Len(h[j - 1]) + 1]
<1>7. /\ B \in [1 .. n + 1 -> Nat \ {0}] /\ B[1] = 1 /\ B[n + 1] = Len(Poly!Text) + 1
      /\ \A j \in 1 .. n : B[j] = Len(h[j - 1]) + 1 /\ B[j + 1] = Len(h[j]) + 1
  <2>1. ASSUME NEW j \in 1 .. n + 1  PROVE Len(h[j - 1]) + 1 \in Nat \ {0}
    <3>1. j - 1 \in 0 .. n
      BY <1>2
    <3>2. Len(h[j - 1]) \in Nat
      BY <1>2, <3>1
    <3> QED  BY <3>2
  <2>2. B \in [1 .. n + 1 -> Nat \ {0}]
    BY <2>1
  <2>3. /\ 1 \in 1 .. n + 1 /\ n + 1 \in 1 .. n + 1 /\ 1 - 1 = 0 /\ (n + 1) - 1 = n
        /\ \A j \in 1 .. n : j \in 1 .. n + 1 /\ j + 1 \in 1 .. n + 1 /\ (j + 1) - 1 = j
    BY <1>2
  <2>4. Len(h[0]) = 0
    BY <1>1
  <2> QED  BY <1>1, <2>2, <2>3, <2>4
<1> HIDE DEF B
<1>8. ASSUME NEW j \in 1 .. n
      PROVE  /\ B[j + 1] = AfterTerm(j, B[j]) /\ B[j + 1] <= Len(Poly!Text) + 1
             /\ StandsAt(Poly!Text, j, B[j])
  <2>1. PICK a, r, w : a = B[j] /\ r = h[j] /\ w = h[n]
    OBVIOUS
  <2>2. a \in Nat \ {0} /\ AfterTerm(j, a) = Len(r) + 1 /\ StandsAt(r, j, a)
    <3>1. j \in 1 .. n + 1
      BY <1>2
    <3>2. a \in Nat \ {0}
      BY <1>7, <2>1, <3>1
    <3> QED  BY <1>5, <1>7, <2>1, <3>2
  <2>3. Len(r) <= Len(w) /\ \A x \in 1 .. Len(r) : w[x] = r[x]
    BY <1>6, <2>1
  <2>4. Len(r) \in Nat /\ Len(w) \in Nat /\ AfterTerm(j, a) - 1 = Len(r)
    <3>1. j \in 0 .. n /\ n \in 0 .. n
      BY <1>2
    <3>2. Len(r) \in Nat /\ Len(w) \in Nat
      BY <1>2, <2>1, <3>1
    <3> QED  BY <2>2, <3>2
  <2>5. StandsAt(w, j, a)
    BY <2>2, <2>3, <2>4, StandsInLonger
  <2>6. B[j + 1] = Len(r) + 1 /\ Poly!Text = w
    BY <1>1, <1>7, <2>1
  <2> QED  BY <2>1, <2>2, <2>3, <2>4, <2>5, <2>6
<1>9. LaidOut(B)
  BY <1>7, <1>8 DEF LaidOut
<1> QED  BY <1>1, <1>2, <1>9

\* What has been counted of power b in the first l terms.
Tally(M) ==
  /\ M \in [Nat -> [0 .. Len(terms) -> Int]]
  /\ \A b \in Nat : /\ M[b][0] = 0 /\ M[b][Len(terms)] = Poly!Meant(b)
                    /\ \A l \in 1 .. Len(terms) : M[b][l] = Added(b, M[b][l - 1], terms[l])

LEMMA TallyExists ==
  ASSUME Spelling
  PROVE  \E M : Tally(M)
<1> DEFINE Is(b, h) == /\ h \in [0 .. Len(terms) -> Int]
                       /\ h[0] = 0 /\ h[Len(terms)] = Poly!Meant(b)
                       /\ \A l \in 1 .. Len(terms) : h[l] = Added(b, h[l - 1], terms[l])
           M == [b \in Nat |-> CHOOSE h : Is(b, h)]
<1>1. ASSUME NEW b \in Nat  PROVE Is(b, M[b])
  <2>1. PICK h \in [0 .. Len(terms) -> Int] :
          /\ h[0] = 0
          /\ \A l \in 1 .. Len(terms) : h[l] = Added(b, h[l - 1], terms[l])
          /\ Poly!Meant(b) = h[Len(terms)]
    BY MeantIsLoop
  <2>2. Is(b, h)
    BY <2>1
  <2>3. M[b] = CHOOSE g : Is(b, g)
    OBVIOUS
  <2> HIDE DEF Is, M
  <2> QED  BY <2>2, <2>3
<1>2. M \in [Nat -> [0 .. Len(terms) -> Int]]
  BY <1>1
<1> HIDE DEF M
<1> QED  BY <1>1, <1>2 DEF Tally

(***************************************************************************)
(* Derivative: what get_num() and the rest of an iteration read there.     *)
(***************************************************************************)

\* What get_num() gives for a number, for a sign, and for neither.
LEMMA NumberRead ==
  ASSUME Poly!Text \in Seq(Int), NEW x \in Nat, NEW v \in Nat \ {0},
         x <= Len(Poly!Text), Poly!Text[x] = v
  PROVE  Poly!GetNum(x) = [num |-> v, i |-> IF Poly!Is(x + 1, Poly!Plus) THEN x + 2 ELSE x + 1]
<1>1. ~Poly!Is(x, Poly!Minus) /\ Poly!IsNumber(x) /\ (x + 1) + 1 = x + 2
  BY DEF Poly!Is, Poly!IsNumber, Poly!Minus
<1> QED  BY <1>1 DEF Poly!GetNum

LEMMA MinusRead ==
  ASSUME Poly!Text \in Seq(Int), NEW x \in Nat, NEW v \in Nat \ {0},
         Poly!Is(x, Poly!Minus), x + 1 <= Len(Poly!Text), Poly!Text[x + 1] = v
  PROVE  Poly!GetNum(x) = [num |-> -v, i |-> IF Poly!Is(x + 2, Poly!Plus) THEN x + 3 ELSE x + 2]
<1>1. Poly!IsNumber(x + 1) /\ (x + 1) + 1 = x + 2 /\ (x + 2) + 1 = x + 3
  BY DEF Poly!IsNumber
<1> QED  BY <1>1 DEF Poly!GetNum

LEMMA NoNumberRead ==
  ASSUME Poly!Text \in Seq(Int), NEW x \in Nat
  PROVE  /\ Poly!Is(x, Poly!Minus) /\ Poly!Is(x + 1, Poly!X)
              => Poly!GetNum(x) = [num |-> -1, i |-> x + 1]
         /\ Poly!Is(x, Poly!X) => Poly!GetNum(x) = [num |-> 1, i |-> x]
         /\ Poly!Is(x, Poly!Plus) => Poly!GetNum(x) = [num |-> 1, i |-> x + 1]
<1>1. ASSUME Poly!Is(x, Poly!Minus), Poly!Is(x + 1, Poly!X)
      PROVE  Poly!GetNum(x) = [num |-> -1, i |-> x + 1]
  <2>1. ~Poly!IsNumber(x + 1) /\ ~Poly!Is(x + 1, Poly!Plus)
    BY <1>1 DEF Poly!Is, Poly!IsNumber, Poly!X, Poly!Plus
  <2> QED  BY <1>1, <2>1 DEF Poly!GetNum
<1>2. ASSUME Poly!Is(x, Poly!X)
      PROVE  Poly!GetNum(x) = [num |-> 1, i |-> x]
  <2>1. ~Poly!IsNumber(x) /\ ~Poly!Is(x, Poly!Plus) /\ ~Poly!Is(x, Poly!Minus)
    BY <1>2 DEF Poly!Is, Poly!IsNumber, Poly!X, Poly!Plus, Poly!Minus
  <2> QED  BY <1>2, <2>1 DEF Poly!GetNum
<1>3. ASSUME Poly!Is(x, Poly!Plus)
      PROVE  Poly!GetNum(x) = [num |-> 1, i |-> x + 1]
  <2>1. ~Poly!IsNumber(x) /\ ~Poly!Is(x, Poly!Minus)
    BY <1>3 DEF Poly!Is, Poly!IsNumber, Poly!Plus, Poly!Minus
  <2> QED  BY <1>3, <2>1 DEF Poly!GetNum
<1> QED  BY <1>1, <1>2, <1>3

\* Term j, which is not misread, starts at x: d, c and g are the positions behind
\* its sign, its coefficient and its x, and y is where the next one starts.
Tokens(j, x, d, c, g, y) ==
  /\ x \in Nat \ {0} /\ d \in Nat /\ c \in Nat /\ g \in Nat /\ y \in Nat
  /\ \/ terms[j].sign = -1 /\ d = x + 1 /\ Poly!Is(x, Poly!Minus)
     \/ terms[j].sign = 1 /\ j # 1 /\ d = x + 1 /\ Poly!Is(x, Poly!Plus)
     \/ terms[j].sign = 1 /\ j = 1 /\ d = x
  /\ \/ /\ terms[j].coef \in Nat \ {0} /\ c = d + 1
        /\ d <= Len(Poly!Text) /\ Poly!Text[d] = terms[j].coef
     \/ terms[j].coef = -1 /\ c = d /\ terms[j].shape = "x"
  /\ \/ terms[j].shape = "const" /\ terms[j].power = -1 /\ y = c
     \/ /\ terms[j].shape = "x"
        /\ IF terms[j].coef # -1 THEN Poly!Is(c, Poly!Star) /\ g = c + 2
                                 ELSE Poly!Is(c, Poly!X) /\ g = c + 1
        /\ \/ terms[j].power = -1 /\ y = g
           \/ /\ terms[j].power \in Nat \ {0} /\ y = g + 2
              /\ Poly!Is(g, Poly!Hat) /\ g + 1 <= Len(Poly!Text)
              /\ Poly!Text[g + 1] = terms[j].power

LEMMA TermTokens ==
  ASSUME Spelling, ~Poly!Misread, NEW B, LaidOut(B), NEW j \in 1 .. Len(terms)
  PROVE  \E d, c, g : Tokens(j, B[j], d, c, g, B[j + 1])
<1> DEFINE t == terms[j]
           x == B[j]
           y == B[j + 1]
<1>1. PICK w : w = Poly!Text
  OBVIOUS
<1>2. PICK d, c, f, g : /\ d = AfterSign(j, x) /\ c = AfterCoef(j, x)
                        /\ f = AfterStar(j, x) /\ g = AfterX(j, x)
  OBVIOUS
<1>3. w \in Seq(Int) /\ Len(w) \in Nat
  BY <1>1, TextLaidOut
<1>4. x \in Nat \ {0} /\ y \in Nat \ {0} /\ y <= Len(w) + 1 /\ y = AfterTerm(j, x) /\ StandsAt(w, j, x)
  <2>1. Len(terms) \in Nat /\ j \in 1 .. Len(terms) + 1 /\ j + 1 \in 1 .. Len(terms) + 1
    BY DEF Spelling
  <2>2. x \in Nat \ {0} /\ y \in Nat \ {0}
    BY <2>1 DEF LaidOut
  <2> QED  BY <1>1, <2>2 DEF LaidOut
<1>5. t.coef # 0 /\ t.power # 0
  <2>1. j \in DOMAIN terms
    BY DEF Spelling
  <2> QED  BY <2>1 DEF Poly!Misread
<1>6. /\ t.sign \in {1, -1} /\ t.coef \in Nat \cup {-1} /\ t.power \in Nat \cup {-1}
      /\ t.shape \in {"const", "x"}
      /\ t.shape = "const" => t.coef \in Nat /\ t.power = -1
  <2>1. t \in Poly!Term
    BY DEF Spelling
  <2> HIDE DEF t
  <2> QED  BY <2>1, TermType
<1>7. /\ d \in Nat /\ c \in Nat /\ f \in Nat /\ g \in Nat
      /\ d = IF t.sign = -1 \/ j # 1 THEN x + 1 ELSE x
      /\ c = IF t.coef # -1 THEN d + 1 ELSE d
      /\ f = IF t.coef # -1 /\ t.shape = "x" THEN c + 1 ELSE c
      /\ g = IF t.shape = "x" THEN f + 1 ELSE f
      /\ y = IF t.power # -1 THEN g + 2 ELSE g
  <2>1. /\ d = IF t.sign = -1 \/ j # 1 THEN x + 1 ELSE x
        /\ c = IF t.coef # -1 THEN d + 1 ELSE d
        /\ f = IF t.coef # -1 /\ t.shape = "x" THEN c + 1 ELSE c
        /\ g = IF t.shape = "x" THEN f + 1 ELSE f
        /\ y = IF t.power # -1 THEN g + 2 ELSE g
    BY <1>2, <1>4 DEF AfterSign, AfterCoef, AfterStar, AfterX, AfterTerm
  <2> HIDE DEF t, x, y
  <2>2. d \in Nat
    BY <1>4, <2>1
  <2>3. c \in Nat
    BY <2>1, <2>2
  <2>4. f \in Nat
    BY <2>1, <2>3
  <2>5. g \in Nat
    BY <2>1, <2>4
  <2> QED  BY <2>1, <2>2, <2>3, <2>4, <2>5
<1>8. /\ t.sign = -1 => w[x] = Poly!Minus
      /\ t.sign # -1 /\ j # 1 => w[x] = Poly!Plus
      /\ t.coef # -1 => w[d] = t.coef
      /\ t.coef # -1 /\ t.shape = "x" => w[c] = Poly!Star
      /\ t.shape = "x" => w[f] = Poly!X
      /\ t.power # -1 => w[g] = Poly!Hat /\ w[g + 1] = t.power
  BY <1>2, <1>4 DEF StandsAt
<1> HIDE DEF t, x, y
<1>9. t.coef = -1 => t.shape = "x"
  BY <1>6
<1>10. x < y /\ d < y /\ (t.shape = "x" => c < y /\ f < y) /\ (t.power # -1 => g + 1 < y)
  BY ONLY <1>4, <1>6, <1>7, <1>9
<1>11. /\ t.sign = -1 => Poly!Is(x, Poly!Minus)
       /\ t.sign # -1 /\ j # 1 => Poly!Is(x, Poly!Plus)
       /\ t.coef # -1 => d <= Len(w) /\ w[d] = t.coef
       /\ t.coef # -1 /\ t.shape = "x" => Poly!Is(c, Poly!Star)
       /\ t.shape = "x" => Poly!Is(f, Poly!X)
       /\ t.power # -1 => /\ Poly!Is(g, Poly!Hat)
                          /\ g + 1 <= Len(w) /\ w[g + 1] = t.power
  <2>1. /\ x <= Len(w) /\ d <= Len(w)
        /\ t.shape = "x" => c <= Len(w) /\ f <= Len(w)
        /\ t.power # -1 => g <= Len(w) /\ g + 1 <= Len(w)
    BY ONLY <1>3, <1>4, <1>7, <1>10
  <2> QED  BY <1>1, <1>8, <2>1 DEF Poly!Is
<1>12. /\ \/ t.sign = -1 /\ d = x + 1 /\ Poly!Is(x, Poly!Minus)
          \/ t.sign = 1 /\ j # 1 /\ d = x + 1 /\ Poly!Is(x, Poly!Plus)
          \/ t.sign = 1 /\ j = 1 /\ d = x
       /\ \/ t.coef \in Nat \ {0} /\ c = d + 1 /\ d <= Len(w) /\ w[d] = t.coef
          \/ t.coef = -1 /\ c = d /\ t.shape = "x"
  BY ONLY <1>5, <1>6, <1>7, <1>9, <1>11
<1>13. \/ t.shape = "const" /\ t.power = -1 /\ y = c
       \/ /\ t.shape = "x"
          /\ IF t.coef # -1 THEN Poly!Is(c, Poly!Star) /\ g = c + 2
                            ELSE Poly!Is(c, Poly!X) /\ g = c + 1
          /\ \/ t.power = -1 /\ y = g
             \/ /\ t.power \in Nat \ {0} /\ y = g + 2
                /\ Poly!Is(g, Poly!Hat) /\ g + 1 <= Len(w) /\ w[g + 1] = t.power
  <2>1. CASE t.shape = "const"
    BY ONLY <2>1, <1>6, <1>7
  <2>2. CASE t.shape = "x"
    <3>1. IF t.coef # -1 THEN Poly!Is(c, Poly!Star) /\ g = c + 2
                         ELSE Poly!Is(c, Poly!X) /\ g = c + 1
      <4>1. CASE t.coef # -1
        <5>1. f = c + 1 /\ g = f + 1 /\ Poly!Is(c, Poly!Star) /\ (c + 1) + 1 = c + 2
          BY ONLY <4>1, <2>2, <1>7, <1>11
        <5> QED  BY ONLY <4>1, <5>1
      <4>2. CASE t.coef = -1
        <5>1. f = c /\ g = f + 1 /\ Poly!Is(f, Poly!X)
          BY ONLY <4>2, <2>2, <1>7, <1>11
        <5> QED  BY ONLY <4>2, <5>1
      <4> QED  BY <4>1, <4>2
    <3>2. \/ t.power = -1 /\ y = g
          \/ /\ t.power \in Nat \ {0} /\ y = g + 2
             /\ Poly!Is(g, Poly!Hat) /\ g + 1 <= Len(w) /\ w[g + 1] = t.power
      BY ONLY <1>5, <1>6, <1>7, <1>11
    <3> QED  BY ONLY <2>2, <3>1, <3>2
  <2> QED  BY <1>6, <2>1, <2>2
<1>14. Tokens(j, x, d, c, g, y)
  BY <1>1, <1>4, <1>7, <1>12, <1>13 DEF Tokens, t
<1> QED  BY <1>14 DEF x, y

\* What stands behind term j, where y is.
Behind(j, y) ==
  \/ j = Len(terms) /\ y > Len(Poly!Text)
  \/ j < Len(terms) /\ terms[j + 1].sign = -1 /\ Poly!Is(y, Poly!Minus)
  \/ /\ j < Len(terms) /\ terms[j + 1].sign = 1 /\ Poly!Is(y, Poly!Plus)
     /\ terms[j].shape = "const" => y + 1 <= Len(Poly!Text) /\ Poly!Text[y + 1] \in Nat

LEMMA BehindTerm ==
  ASSUME Spelling, ~Poly!Misread, NEW B, LaidOut(B), NEW j \in 1 .. Len(terms)
  PROVE  Behind(j, B[j + 1])
<1>1. Len(terms) \in Nat /\ Poly!Text \in Seq(Int) /\ Len(Poly!Text) \in Nat
  BY TextLaidOut DEF Spelling
<1>2. CASE j = Len(terms)
  <2>1. B[j + 1] = Len(Poly!Text) + 1
    BY <1>2 DEF LaidOut
  <2> QED  BY <1>1, <1>2, <2>1 DEF Behind
<1>3. CASE j # Len(terms)
  <2>1. PICK m \in 1 .. Len(terms) : m = j + 1 /\ m # 1 /\ m > 1 /\ m - 1 = j /\ j < Len(terms)
    BY <1>1, <1>3
  <2>2. PICK d, c, g : Tokens(m, B[m], d, c, g, B[m + 1])
    BY TermTokens
  <2>3. CASE terms[m].sign = -1
    BY <2>1, <2>2, <2>3 DEF Tokens, Behind
  <2>4. CASE terms[m].sign # -1
    <3>1. terms[m].sign = 1 /\ d = B[m] + 1 /\ Poly!Is(B[m], Poly!Plus)
      BY <2>1, <2>2, <2>4 DEF Tokens
    <3>2. ASSUME terms[j].shape = "const"
          PROVE  d <= Len(Poly!Text) /\ Poly!Text[d] \in Nat
      <4>1. terms[m].coef # -1
        <5>1. m \in DOMAIN terms
          BY DEF Spelling
        <5> QED  BY <2>1, <3>1, <3>2, <5>1 DEF Poly!Misread
      <4> QED  BY <2>2, <4>1 DEF Tokens
    <3> QED  BY <2>1, <3>1, <3>2 DEF Behind
  <2> QED  BY <2>3, <2>4
<1> QED  BY <1>2, <1>3

\* Term j is read when the position is its end, or behind the '+' that follows.
ReadUpTo(y, z) == z = y \/ (z = y + 1 /\ Poly!Is(y, Poly!Plus))

LEMMA RestRead ==
  ASSUME Spelling, NEW j \in 1 .. Len(terms), NEW x, NEW d, NEW c, NEW g, NEW y,
         Tokens(j, x, d, c, g, y), Behind(j, y), NEW from,
         from = IF terms[j].coef # -1 /\ Poly!Is(c, Poly!Plus) THEN c + 1 ELSE c
  PROVE  \E z : /\ ReadUpTo(y, z)
                /\ Poly!GetPower(from) = [num |-> Poly!PowerOf(terms[j]), i |-> z]
<1>1. /\ Poly!Text \in Seq(Int) /\ Len(Poly!Text) \in Nat
      /\ c \in Nat /\ g \in Nat /\ y \in Nat
  BY TextLaidOut DEF Tokens
<1>2. CASE terms[j].shape = "const"
  <2>1. y = c /\ terms[j].coef # -1 /\ Poly!PowerOf(terms[j]) = 0
    <3>1. terms[j].shape # "x"
      BY <1>2
    <3>2. terms[j].coef \in Nat \ {0} /\ y = c
      BY <3>1 DEF Tokens
    <3>3. terms[j].coef # -1
      BY ONLY <3>2
    <3>4. Poly!PowerOf(terms[j]) = 0
      BY <1>2 DEF Poly!PowerOf
    <3> QED  BY <3>2, <3>3, <3>4
  <2>2. ReadUpTo(y, from)
    BY <2>1 DEF ReadUpTo
  <2>3. ~Poly!Is(from, Poly!Star) /\ ~Poly!Is(from, Poly!X)
    <3>1. CASE Poly!Is(y, Poly!Plus)
      <4>1. from = y + 1
        BY <2>1, <3>1
      <4>2. y + 1 <= Len(Poly!Text) /\ Poly!Text[y + 1] \in Nat
        <5>1. y <= Len(Poly!Text) /\ ~Poly!Is(y, Poly!Minus)
          BY <3>1 DEF Poly!Is, Poly!Plus, Poly!Minus
        <5>2. ~(y > Len(Poly!Text))
          BY <1>1, <5>1
        <5> QED  BY <1>2, <5>1, <5>2 DEF Behind
      <4> QED  BY <4>1, <4>2 DEF Poly!Is, Poly!Star, Poly!X
    <3>2. CASE ~Poly!Is(y, Poly!Plus)
      <4>1. from = y
        BY <2>1, <3>2
      <4>2. y > Len(Poly!Text) \/ Poly!Is(y, Poly!Minus)
        BY <3>2 DEF Behind
      <4> QED  BY <1>1, <4>1, <4>2 DEF Poly!Is, Poly!Star, Poly!X, Poly!Minus
    <3> QED  BY <3>1, <3>2
  <2>4. Poly!GetPower(from) = [num |-> 0, i |-> from]
    BY <2>3 DEF Poly!GetPower
  <2> QED  BY <2>1, <2>2, <2>4
<1>3. CASE terms[j].shape # "const"
  <2>1. /\ terms[j].shape = "x"
        /\ IF terms[j].coef # -1 THEN Poly!Is(c, Poly!Star) /\ g = c + 2
                                 ELSE Poly!Is(c, Poly!X) /\ g = c + 1
        /\ \/ terms[j].power = -1 /\ y = g
           \/ /\ terms[j].power \in Nat \ {0} /\ y = g + 2
              /\ Poly!Is(g, Poly!Hat) /\ g + 1 <= Len(Poly!Text)
              /\ Poly!Text[g + 1] = terms[j].power
    BY <1>3 DEF Tokens
  <2>2. from = c
    <3>1. terms[j].coef # -1 => ~Poly!Is(c, Poly!Plus)
      BY <2>1 DEF Poly!Is, Poly!Plus, Poly!Star
    <3> QED  BY <3>1
  <2>3. Poly!GetPower(c) = IF Poly!Is(g, Poly!Hat) THEN Poly!GetNum(g + 1) ELSE [num |-> 1, i |-> g]
    <3>1. CASE terms[j].coef # -1
      BY <2>1, <3>1 DEF Poly!GetPower
    <3>2. CASE terms[j].coef = -1
      <4>1. Poly!Is(c, Poly!X) /\ g = c + 1 /\ ~Poly!Is(c, Poly!Star)
        BY <2>1, <3>2 DEF Poly!Is, Poly!X, Poly!Star
      <4> QED  BY <4>1 DEF Poly!GetPower
    <3> QED  BY <3>1, <3>2
  <2>4. CASE terms[j].power = -1
    <3>1. y = g /\ Poly!PowerOf(terms[j]) = 1
      BY <2>1, <2>4 DEF Poly!PowerOf
    <3>2. ~Poly!Is(g, Poly!Hat)
      BY <1>1, <3>1 DEF Behind, Poly!Is, Poly!Hat, Poly!Minus, Poly!Plus
    <3>3. ReadUpTo(y, g)
      BY <3>1 DEF ReadUpTo
    <3> QED  BY <2>2, <2>3, <3>1, <3>2, <3>3
  <2>5. CASE terms[j].power # -1
    <3>1. PICK v \in Nat \ {0} : v = terms[j].power
      BY <2>1, <2>5
    <3>2. PICK f \in Nat : f = g + 1
      BY <1>1
    <3>3. /\ y = f + 1 /\ Poly!Is(g, Poly!Hat) /\ f <= Len(Poly!Text) /\ Poly!Text[f] = v
          /\ f + 2 = y + 1
      BY <1>1, <2>1, <2>5, <3>1, <3>2
    <3>4. Poly!GetNum(f) = [num |-> v, i |-> IF Poly!Is(f + 1, Poly!Plus) THEN f + 2 ELSE f + 1]
      BY <1>1, <3>3, NumberRead
    <3>5. PICK z : z = IF Poly!Is(y, Poly!Plus) THEN y + 1 ELSE y
      OBVIOUS
    <3>6. Poly!GetPower(c) = [num |-> v, i |-> z]
      BY <2>3, <3>2, <3>3, <3>4, <3>5
    <3>7. ReadUpTo(y, z)
      BY <3>5 DEF ReadUpTo
    <3>8. Poly!PowerOf(terms[j]) = v
      BY <2>1, <2>5, <3>1 DEF Poly!PowerOf
    <3> QED  BY <2>2, <3>6, <3>7, <3>8
  <2> QED  BY <2>4, <2>5
<1> QED  BY <1>2, <1>3

\* The loop has read the terms before j, and perhaps the '+' of j.
ReadTo(B, j, x) ==
  \/ x = B[j]
  \/ j \in 2 .. Len(terms) /\ terms[j].sign = 1 /\ x = B[j] + 1

\* An iteration reads the term, or takes its '+' for a constant.
LEMMA IterationReads ==
  ASSUME Spelling, ~Poly!Misread, NEW B, LaidOut(B), NEW j \in 1 .. Len(terms),
         NEW x, ReadTo(B, j, x), NEW a, NEW b, a = Poly!GetNum(x), b = Poly!GetPower(a.i)
  PROVE  \/ /\ a.num = Poly!CoefOf(terms[j]) /\ b.num = Poly!PowerOf(terms[j])
            /\ ReadTo(B, j + 1, b.i)
         \/ a.num = 1 /\ b.num = 0 /\ ReadTo(B, j, b.i)
<1>1. PICK d, c, g : Tokens(j, B[j], d, c, g, B[j + 1])
  BY TermTokens
<1>2. PICK q, y : q = B[j] /\ y = B[j + 1]
  OBVIOUS
<1>3. Behind(j, y) /\ Tokens(j, q, d, c, g, y)
  BY <1>1, <1>2, BehindTerm
<1>4. /\ Poly!Text \in Seq(Int) /\ Len(Poly!Text) \in Nat /\ Len(terms) \in Nat
      /\ q \in Nat \ {0} /\ d \in Nat /\ c \in Nat /\ y \in Nat
  BY <1>3, TextLaidOut DEF Tokens, Spelling
<1>5. /\ \/ terms[j].sign = -1 /\ d = q + 1 /\ Poly!Is(q, Poly!Minus)
         \/ terms[j].sign = 1 /\ j # 1 /\ d = q + 1 /\ Poly!Is(q, Poly!Plus)
         \/ terms[j].sign = 1 /\ j = 1 /\ d = q
      /\ \/ /\ terms[j].coef \in Nat \ {0} /\ c = d + 1
            /\ d <= Len(Poly!Text) /\ Poly!Text[d] = terms[j].coef
         \/ terms[j].coef = -1 /\ c = d /\ terms[j].shape = "x"
  BY <1>3 DEF Tokens
<1>6. terms[j].coef = -1 => Poly!Is(d, Poly!X)
  BY <1>3, <1>5 DEF Tokens
<1>7. ASSUME NEW z, ReadUpTo(y, z)  PROVE ReadTo(B, j + 1, z)
  <2>1. CASE z = y
    BY <1>2, <2>1 DEF ReadTo
  <2>2. CASE z # y
    <3>1. z = y + 1 /\ Poly!Is(y, Poly!Plus)
      BY <1>7, <2>2 DEF ReadUpTo
    <3>2. y <= Len(Poly!Text) /\ ~Poly!Is(y, Poly!Minus)
      BY <3>1 DEF Poly!Is, Poly!Plus, Poly!Minus
    <3>3. j < Len(terms) /\ terms[j + 1].sign = 1
      BY <1>3, <1>4, <3>2 DEF Behind
    <3>4. j + 1 \in 2 .. Len(terms)
      BY <1>4, <3>3
    <3> QED  BY <1>2, <3>1, <3>3, <3>4 DEF ReadTo
  <2> QED  BY <2>1, <2>2
<1>8. ASSUME a.num = Poly!CoefOf(terms[j]),
             a.i = IF terms[j].coef # -1 /\ Poly!Is(c, Poly!Plus) THEN c + 1 ELSE c
      PROVE  /\ a.num = Poly!CoefOf(terms[j]) /\ b.num = Poly!PowerOf(terms[j])
             /\ ReadTo(B, j + 1, b.i)
  <2>1. PICK from : from = a.i
    OBVIOUS
  <2>2. from = IF terms[j].coef # -1 /\ Poly!Is(c, Poly!Plus) THEN c + 1 ELSE c
    BY <1>8, <2>1
  <2>3. PICK z : /\ ReadUpTo(y, z)
                 /\ Poly!GetPower(from) = [num |-> Poly!PowerOf(terms[j]), i |-> z]
    BY <1>3, <2>2, RestRead
  <2>4. b.num = Poly!PowerOf(terms[j]) /\ b.i = z
    BY <2>1, <2>3
  <2> QED  BY <1>7, <1>8, <2>3, <2>4
<1>9. CASE terms[j].sign = -1
  <2>1. x = q /\ d = q + 1 /\ Poly!Is(q, Poly!Minus)
    BY <1>2, <1>5, <1>9 DEF ReadTo
  <2>2. CASE terms[j].coef = -1
    <3>1. a = [num |-> -1, i |-> d] /\ c = d
      BY <1>4, <1>5, <1>6, <2>1, <2>2, NoNumberRead
    <3>2. Poly!CoefOf(terms[j]) = -1
      BY <1>9, <2>2 DEF Poly!CoefOf
    <3> QED  BY <1>8, <2>2, <3>1, <3>2
  <2>3. CASE terms[j].coef # -1
    <3>1. PICK v \in Nat \ {0} : v = terms[j].coef
      BY <1>5, <2>3
    <3>2. /\ q \in Nat /\ q + 1 <= Len(Poly!Text) /\ Poly!Text[q + 1] = v
          /\ c = q + 2 /\ c + 1 = q + 3
      BY <1>4, <1>5, <2>1, <2>3, <3>1
    <3>3. Poly!GetNum(q) = [num |-> -v, i |-> IF Poly!Is(q + 2, Poly!Plus) THEN q + 3 ELSE q + 2]
      BY <1>4, <2>1, <3>2, MinusRead
    <3>4. a.num = -v /\ a.i = IF Poly!Is(c, Poly!Plus) THEN c + 1 ELSE c
      BY <2>1, <3>2, <3>3
    <3>5. Poly!CoefOf(terms[j]) = -v
      BY <1>9, <2>3, <3>1 DEF Poly!CoefOf
    <3> QED  BY <1>8, <2>3, <3>4, <3>5
  <2> QED  BY <2>2, <2>3
<1>10. CASE terms[j].sign # -1 /\ x = q /\ j # 1
  <2>1. terms[j].sign = 1 /\ d = q + 1 /\ Poly!Is(q, Poly!Plus)
    BY <1>5, <1>10
  <2>2. a = [num |-> 1, i |-> d]
    BY <1>4, <1>10, <2>1, NoNumberRead
  <2>3. CASE terms[j].coef = -1
    <3>1. Poly!CoefOf(terms[j]) = 1 /\ c = d
      BY <1>5, <2>1, <2>3 DEF Poly!CoefOf
    <3> QED  BY <1>8, <2>2, <2>3, <3>1
  <2>4. CASE terms[j].coef # -1
    <3>1. d <= Len(Poly!Text) /\ Poly!Text[d] \in Nat \ {0}
      BY <1>5, <2>4
    <3>2. ~Poly!Is(d, Poly!Star) /\ ~Poly!Is(d, Poly!X)
      BY <3>1 DEF Poly!Is, Poly!Star, Poly!X
    <3>3. b = [num |-> 0, i |-> d]
      BY <2>2, <3>2 DEF Poly!GetPower
    <3>4. ReadTo(B, j, d)
      <4>1. j \in 2 .. Len(terms)
        BY <1>4, <1>10
      <4> QED  BY <1>2, <2>1, <4>1 DEF ReadTo
    <3> QED  BY <2>2, <3>3, <3>4
  <2> QED  BY <2>3, <2>4
<1>11. CASE terms[j].sign # -1 /\ x = d
  <2>1. terms[j].sign = 1
    BY <1>5, <1>11
  <2>2. CASE terms[j].coef = -1
    <3>1. a = [num |-> 1, i |-> d] /\ c = d
      BY <1>4, <1>5, <1>6, <1>11, <2>2, NoNumberRead
    <3>2. Poly!CoefOf(terms[j]) = 1
      BY <2>1, <2>2 DEF Poly!CoefOf
    <3> QED  BY <1>8, <2>2, <3>1, <3>2
  <2>3. CASE terms[j].coef # -1
    <3>1. PICK v \in Nat \ {0} : v = terms[j].coef
      BY <1>5, <2>3
    <3>2. d <= Len(Poly!Text) /\ Poly!Text[d] = v /\ c = d + 1 /\ c + 1 = d + 2
      BY <1>4, <1>5, <2>3, <3>1
    <3>3. Poly!GetNum(d) = [num |-> v, i |-> IF Poly!Is(d + 1, Poly!Plus) THEN d + 2 ELSE d + 1]
      BY <1>4, <3>2, NumberRead
    <3>4. a.num = v /\ a.i = IF Poly!Is(c, Poly!Plus) THEN c + 1 ELSE c
      BY <1>11, <3>2, <3>3
    <3>5. Poly!CoefOf(terms[j]) = v
      BY <2>1, <2>3, <3>1 DEF Poly!CoefOf
    <3> QED  BY <1>8, <2>3, <3>4, <3>5
  <2> QED  BY <2>2, <2>3
<1>12. terms[j].sign # -1 => x = d \/ (x = q /\ j # 1)
  <2>1. x = q \/ (j \in 2 .. Len(terms) /\ x = q + 1)
    BY <1>2 DEF ReadTo
  <2>2. j \in 2 .. Len(terms) => j # 1
    BY <1>4
  <2> QED  BY <1>5, <2>1, <2>2
<1> QED  BY <1>9, <1>10, <1>11, <1>12

(***************************************************************************)
(* Derivative: the loop.                                                   *)
(***************************************************************************)

\* The loop has added up the terms before j, as far as a power above 0 goes.
AddedUp(B, M, j) ==
  /\ LaidOut(B) /\ Tally(M)
  /\ j \in 1 .. Len(terms) + 1 /\ ReadTo(B, j, k)
  /\ \A b \in Nat \ {0} : (IF b \in DOMAIN p THEN p[b] ELSE 0) = M[b][j - 1]

\* The induction hypothesis of DerivativeIsRight: k is where some term starts or
\* behind its '+', and p has the sums of the terms before it.
DerivativeInv ==
  /\ terms \in Seq(Poly!Term)
  /\ ~Poly!Misread => DOMAIN p \subseteq Nat /\ \E B, M, j : AddedUp(B, M, j)

\* What depends on the polynomial alone stays as it is.
LEMMA SamePolynomial ==
  ASSUME terms' = terms
  PROVE  /\ Poly!Misread' = Poly!Misread
         /\ \A B : LaidOut(B) => LaidOut(B)'
         /\ \A M : Tally(M) => Tally(M)'
<1>1. Poly!Text' = Poly!Text
  BY DEF Poly!Text, Poly!FoldLeft, Poly!MapThenFoldSet
<1>2. \A b : Poly!Meant(b)' = Poly!Meant(b)
  BY DEF Poly!Meant, Poly!FoldLeft, Poly!MapThenFoldSet
<1>3. Poly!Misread' = Poly!Misread
  BY DEF Poly!Misread
<1>4. ASSUME NEW B, LaidOut(B)  PROVE LaidOut(B)'
  <2>1. \A j \in 1 .. Len(terms) : /\ AfterTerm(j, B[j])' = AfterTerm(j, B[j])
                                   /\ StandsAt(Poly!Text, j, B[j])' = StandsAt(Poly!Text, j, B[j])
    BY <1>1 DEF AfterTerm, AfterX, AfterStar, AfterCoef, AfterSign, StandsAt
  <2> QED  BY <1>1, <1>4, <2>1 DEF LaidOut
<1>5. ASSUME NEW M, Tally(M)  PROVE Tally(M)'
  BY <1>2, <1>5 DEF Tally, Added, Poly!PowerOf, Poly!CoefOf
<1> QED  BY <1>3, <1>4, <1>5

LEMMA DerivativeInit ==
  ASSUME Numbers \subseteq Nat, Powers \subseteq Nat, Poly!Init
  PROVE  DerivativeInv
<1>1. PICK n \in 1 .. MaxTerms : terms \in [1 .. n -> Poly!Term]
  BY DEF Poly!Init
<1>2. terms \in Seq(Poly!Term) /\ Len(terms) \in Nat
  <2>1. n \in Nat
    BY <1>1
  <2> QED  BY <1>1, <2>1
<1>3. Spelling
  BY <1>2 DEF Spelling
<1>4. PICK B : LaidOut(B)
  BY <1>3, TextLaidOut
<1>5. PICK M : Tally(M)
  BY <1>3, TallyExists
<1>6. k = 1 /\ DOMAIN p = {}
  BY DEF Poly!Init
<1>7. 1 \in 1 .. Len(terms) + 1 /\ ReadTo(B, 1, k)
  BY <1>2, <1>4, <1>6 DEF LaidOut, ReadTo
<1>8. \A b \in Nat \ {0} : (IF b \in DOMAIN p THEN p[b] ELSE 0) = M[b][1 - 1]
  <2>1. \A b \in Nat : M[b][0] = 0
    BY <1>5 DEF Tally
  <2> QED  BY <1>6, <2>1
<1>9. AddedUp(B, M, 1)
  BY <1>4, <1>5, <1>7, <1>8 DEF AddedUp
<1> QED  BY <1>2, <1>6, <1>9 DEF DerivativeInv

LEMMA DerivativeStep ==
  ASSUME Numbers \subseteq Nat, Powers \subseteq Nat, DerivativeInv, Poly!Iteration
  PROVE  DerivativeInv'
<1>1. /\ terms' = terms /\ terms \in Seq(Poly!Term) /\ Spelling
      /\ Poly!Misread' = Poly!Misread
  BY SamePolynomial DEF DerivativeInv, Spelling, Poly!Iteration
<1>2. ASSUME ~Poly!Misread
      PROVE  DOMAIN p' \subseteq Nat /\ \E B, M, j : AddedUp(B, M, j)'
  <2>1. PICK B, M, j : AddedUp(B, M, j)
    BY <1>2 DEF DerivativeInv
  <2>2. DOMAIN p \subseteq Nat
    BY <1>2 DEF DerivativeInv
  <2>3. Len(terms) \in Nat /\ Len(Poly!Text) \in Nat
    BY <1>1, TextLaidOut
  <2>4. /\ LaidOut(B) /\ Tally(M) /\ LaidOut(B)' /\ Tally(M)'
        /\ j \in 1 .. Len(terms) + 1 /\ ReadTo(B, j, k)
        /\ \A q \in Nat \ {0} : (IF q \in DOMAIN p THEN p[q] ELSE 0) = M[q][j - 1]
    BY <1>1, <2>1, SamePolynomial DEF AddedUp
  <2>5. j \in 1 .. Len(terms) /\ j + 1 \in 1 .. Len(terms) + 1 /\ (j + 1) - 1 = j
    <3>1. k <= Len(Poly!Text)
      BY DEF Poly!Iteration
    <3>2. B[Len(terms) + 1] = Len(Poly!Text) + 1
      BY <2>4 DEF LaidOut
    <3>3. j # Len(terms) + 1
      BY <2>3, <2>4, <3>1, <3>2 DEF ReadTo
    <3> QED  BY <2>3, <2>4, <3>3
  <2>6. PICK a, b : a = Poly!GetNum(k) /\ b = Poly!GetPower(a.i)
    OBVIOUS
  <2>7. /\ k' = b.i
        /\ p' = [c \in DOMAIN p \cup {b.num} |->
                   IF c = b.num THEN Poly!Summed(b.num, a.num) ELSE p[c]]
    BY <2>6 DEF Poly!Iteration
  <2>8. Poly!Summed(b.num, a.num) = IF b.num \in DOMAIN p THEN p[b.num] + a.num ELSE a.num
    BY DEF Poly!Summed
  <2>9. CASE a.num = Poly!CoefOf(terms[j]) /\ b.num = Poly!PowerOf(terms[j]) /\ ReadTo(B, j + 1, b.i)
    <3>1. b.num \in Nat /\ a.num \in Int
      <4>1. terms[j] \in Poly!Term
        BY <1>1, <2>5
      <4> QED  BY <1>1, <2>9, <4>1, TermType
    <3>2. DOMAIN p' \subseteq Nat
      BY <2>2, <2>7, <3>1
    <3>3. ReadTo(B, j + 1, k)'
      BY <1>1, <2>7, <2>9 DEF ReadTo
    <3>4. ASSUME NEW q \in Nat \ {0}
          PROVE  (IF q \in DOMAIN p' THEN p'[q] ELSE 0) = M[q][j]
      <4>1. PICK v \in Int : v = M[q][j - 1]
        <5>1. j - 1 \in 0 .. Len(terms)
          BY <2>3, <2>5
        <5> QED  BY <2>4, <5>1 DEF Tally
      <4>2. M[q][j] = IF b.num = q THEN v + a.num ELSE v
        BY <2>4, <2>5, <2>9, <4>1 DEF Tally, Added
      <4>3. (IF q \in DOMAIN p THEN p[q] ELSE 0) = v
        BY <2>4, <4>1
      <4>4. CASE b.num = q
        <5>1. q \in DOMAIN p' /\ p'[q] = Poly!Summed(b.num, a.num)
          BY <2>7, <4>4
        <5>2. Poly!Summed(b.num, a.num) = v + a.num
          BY <2>8, <3>1, <4>1, <4>3, <4>4
        <5> QED  BY <4>2, <4>4, <5>1, <5>2
      <4>5. CASE b.num # q
        <5>1. (q \in DOMAIN p' <=> q \in DOMAIN p) /\ (q \in DOMAIN p => p'[q] = p[q])
          BY <2>7, <4>5
        <5> QED  BY <4>2, <4>3, <4>5, <5>1
      <4> QED  BY <4>4, <4>5
    <3>5. AddedUp(B, M, j + 1)'
      BY <1>1, <2>4, <2>5, <3>3, <3>4 DEF AddedUp
    <3> QED  BY <3>2, <3>5
  <2>10. CASE a.num = 1 /\ b.num = 0 /\ ReadTo(B, j, b.i)
    <3>1. DOMAIN p' \subseteq Nat
      BY <2>2, <2>7, <2>10
    <3>2. ReadTo(B, j, k)'
      BY <1>1, <2>7, <2>10 DEF ReadTo
    <3>3. ASSUME NEW q \in Nat \ {0}
          PROVE  (IF q \in DOMAIN p' THEN p'[q] ELSE 0) = M[q][j - 1]
      <4>1. (q \in DOMAIN p' <=> q \in DOMAIN p) /\ (q \in DOMAIN p => p'[q] = p[q])
        BY <2>7, <2>10
      <4> QED  BY <2>4, <4>1
    <3>4. AddedUp(B, M, j)'
      BY <1>1, <2>4, <3>2, <3>3 DEF AddedUp
    <3> QED  BY <3>1, <3>4
  <2>11. \/ /\ a.num = Poly!CoefOf(terms[j]) /\ b.num = Poly!PowerOf(terms[j])
            /\ ReadTo(B, j + 1, b.i)
         \/ a.num = 1 /\ b.num = 0 /\ ReadTo(B, j, b.i)
    <3>1. PICK x : x = k /\ ReadTo(B, j, x) /\ a = Poly!GetNum(x)
      BY <2>4, <2>6
    <3> QED  BY <1>1, <1>2, <2>4, <2>5, <2>6, <3>1, IterationReads
  <2> QED  BY <2>9, <2>10, <2>11
<1> QED  BY <1>1, <1>2 DEF DerivativeInv

\* Behind the text, every term has been read.
LEMMA DerivativeEnd ==
  ASSUME Numbers \subseteq Nat, Powers \subseteq Nat, DerivativeInv
  PROVE  DerivativeIsRight
<1>1. SUFFICES ASSUME k > Len(Poly!Text), ~Poly!Misread,
                      NEW b \in DOMAIN p \cup Powers \cup {1}, b # 0
               PROVE  (IF b \in DOMAIN p THEN p[b] ELSE 0) = Poly!Meant(b)
  BY DEF DerivativeIsRight, Poly!DerivativeIsRight
<1>2. Spelling /\ b \in Nat \ {0}
  <2>1. Spelling
    BY DEF DerivativeInv, Spelling
  <2>2. DOMAIN p \subseteq Nat
    BY <1>1 DEF DerivativeInv
  <2>3. b \in DOMAIN p \/ b \in Powers \/ b = 1
    OBVIOUS
  <2>4. b \in Nat
    <3>1. CASE b \in DOMAIN p
      BY ONLY <2>2, <3>1
    <3>2. CASE b \in Powers
      BY <3>2
    <3>3. CASE b = 1
      BY <3>3
    <3> QED  BY <2>3, <3>1, <3>2, <3>3
  <2> QED  BY <1>1, <2>1, <2>4
<1>3. PICK B, M, j : AddedUp(B, M, j)
  BY <1>1 DEF DerivativeInv
<1>4. Len(terms) \in Nat /\ Len(Poly!Text) \in Nat
  BY <1>2, TextLaidOut DEF Spelling
<1>5. LaidOut(B) /\ Tally(M) /\ j \in 1 .. Len(terms) + 1 /\ ReadTo(B, j, k)
  BY <1>3 DEF AddedUp
<1>6. j = Len(terms) + 1
  <2> SUFFICES ASSUME j # Len(terms) + 1  PROVE FALSE
    OBVIOUS
  <2>1. j \in 1 .. Len(terms)
    BY <1>4, <1>5
  <2>2. PICK d, c, g : Tokens(j, B[j], d, c, g, B[j + 1])
    BY <1>1, <1>2, <1>5, <2>1, TermTokens
  <2>3. PICK x \in Nat : x = B[j]
    BY <2>2 DEF Tokens
  <2>4. d \in Nat /\ d <= Len(Poly!Text)
    <3>1. terms[j].coef # -1 => d <= Len(Poly!Text)
      BY <2>2 DEF Tokens
    <3>2. terms[j].coef = -1 => Poly!Is(d, Poly!X)
      BY <2>2 DEF Tokens
    <3> QED  BY <2>2, <3>1, <3>2 DEF Tokens, Poly!Is
  <2>5. d = x \/ d = x + 1
    BY <2>2, <2>3 DEF Tokens
  <2>6. k = x \/ (k = x + 1 /\ j \in 2 .. Len(terms) /\ terms[j].sign = 1)
    BY <1>5, <2>3 DEF ReadTo
  <2>7. j \in 2 .. Len(terms) /\ terms[j].sign = 1 => d = x + 1
    BY <2>1, <2>2, <2>3 DEF Tokens
  <2> QED  BY <1>1, <1>4, <2>4, <2>5, <2>6, <2>7
<1>7. M[b][j - 1] = Poly!Meant(b)
  <2>1. j - 1 = Len(terms)
    BY <1>4, <1>6
  <2> QED  BY <1>2, <1>5, <2>1 DEF Tally
<1> QED  BY <1>2, <1>3, <1>7 DEF AddedUp

\* The loop's position and its sums agree with a reading of the polynomial term
\* by term, after any number of iterations.
THEOREM DerivativeInvariance ==
  ASSUME Numbers \subseteq Nat, Powers \subseteq Nat
  PROVE  Poly!Spec => []DerivativeInv
<1>1. Poly!Init => DerivativeInv
  BY DerivativeInit
<1>2. ASSUME DerivativeInv, [Poly!Iteration]_polyVars
      PROVE  DerivativeInv'
  <2>1. CASE Poly!Iteration
    BY <1>2, <2>1, DerivativeStep
  <2>2. CASE UNCHANGED polyVars
    <3>1. terms' = terms /\ k' = k /\ p' = p
      BY <2>2 DEF polyVars
    <3>2. Poly!Misread' = Poly!Misread
      BY <3>1, SamePolynomial
    <3>3. ASSUME NEW B, NEW M, NEW j, AddedUp(B, M, j)
          PROVE  AddedUp(B, M, j)'
      BY <3>1, <3>3, SamePolynomial DEF AddedUp, ReadTo
    <3> QED  BY <1>2, <3>1, <3>2, <3>3 DEF DerivativeInv
  <2> QED  BY <1>2, <2>1, <2>2
<1> QED  BY <1>1, <1>2, PTL DEF Poly!Spec, polyVars

\* derivative() adds up the coefficients of every power above 0 as the polynomial
\* means them, whatever and however many its terms are, unless it is misread: the
\* '+' signs that it takes for constants only change the sum of power 0.
THEOREM DerivativeCorrect ==
  ASSUME Numbers \subseteq Nat, Powers \subseteq Nat
  PROVE  Poly!Spec => []DerivativeIsRight
<1>1. DerivativeInv => DerivativeIsRight
  BY DerivativeEnd
<1> QED  BY <1>1, DerivativeInvariance, PTL
=============================================================================
