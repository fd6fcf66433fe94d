---------------------------- MODULE ToolchainProofs ----------------------------
(***************************************************************************)
(* From the tree of a source file to its object, for every program: what   *)
(* the analysis lets through the later stages can handle, the optimizer    *)
(* counts what it removes, and both passes of the assembler agree.         *)
(*                                                                         *)
(* The loops of these stages are recursive functions on their counters.    *)
(* That such a function is what its definition says, and what it computes, *)
(* is proved by induction over the counter, with the property as a set of  *)
(* numbers.                                                                *)
(***************************************************************************)
EXTENDS Toolchain, VirtualMemoryProofs, FiniteSetTheorems, SequenceTheorems, TLAPS

-----------------------------------------------------------------------------
(***************************************************************************)
(* Induction, and the loops.                                               *)
(***************************************************************************)

\* A set that has a, and with every number below b the next, has all up to b.
LEMMA Induction ==
  ASSUME NEW S, NEW a \in Int, NEW b \in Int, a \in S,
         \A k \in a .. b - 1 : k \in S => k + 1 \in S
  PROVE  \A k \in a .. b : k \in S
<1> SUFFICES ASSUME NEW bad \in a .. b, bad \notin S PROVE FALSE
  OBVIOUS
<1> DEFINE D == {d \in Nat : a + d <= b /\ a + d \notin S}
<1>1. bad - a \in D
  <2>1. a + (bad - a) = bad /\ bad - a \in Nat /\ bad <= b
    OBVIOUS
  <2>2. QED
    BY <2>1
<1>2. PICK d \in D : \A e \in D : d <= e
  <2>1. D \subseteq Nat /\ D # {}
    BY <1>1
  <2> HIDE DEF D
  <2>2. QED
    BY <2>1, LeastNumber
<1>3. d # 0
  <2>1. a + 0 = a
    OBVIOUS
  <2>2. QED
    BY <2>1, <1>2
<1>4. d - 1 \notin D
  <2> HIDE DEF D
  <2>1. d \in Nat
    BY <1>2 DEF D
  <2>2. QED
    BY <1>2, <2>1
<1>5. d \in Nat /\ a + d <= b /\ a + d \notin S
  BY <1>2
<1>6. a + (d - 1) \in S
  BY <1>3, <1>4, <1>5
<1>7. (a + (d - 1)) + 1 = a + d /\ a + (d - 1) \in a .. b - 1
  BY <1>3, <1>5
<1>8. QED
  BY <1>5, <1>6, <1>7

\* lowerData() goes through the operands.
LEMMA LoweringDataSteps ==
  ASSUME NEW lowerer, NEW statement, NEW line, Len(statement.operands) \in Nat
  PROVE  /\ LoweringData(lowerer, statement, line)[0] = lowerer
         /\ \A k \in 1 .. Len(statement.operands) :
              LoweringData(lowerer, statement, line)[k] = lowerValue(LoweringData(lowerer, statement, line)[k - 1], statement.operands[k], dataDirectiveWidth(statement.type), line,
                   k = 1 \/ statement.operands[k - 1].type = "Symbol")
<1> DEFINE lo == 0
           hi == Len(statement.operands)
           first == lowerer
           step(before, k) == lowerValue(before, statement.operands[k], dataDirectiveWidth(statement.type), line,
                   k = 1 \/ statement.operands[k - 1].type = "Symbol")
           Is(g, n) ==
             g = [k \in lo .. n |-> IF k = lo THEN first ELSE step(g[k - 1], k)]
           S == {n \in lo .. hi : \E g : Is(g, n)}
           next(g, n) ==
             [k \in lo .. n + 1 |-> IF k = n + 1 THEN step(g[n], n + 1) ELSE g[k]]
<1>1. lo \in Int /\ hi \in Int /\ lo <= hi
  OBVIOUS
<1>2. ASSUME \E g : Is(g, hi) PROVE Is(LoweringData(lowerer, statement, line), hi)
  BY <1>2, Zenon DEF LoweringData
<1> HIDE DEF lo, hi, first, step, Is, S, next
<1>3. Is([k \in lo .. lo |-> first], lo)
  BY <1>1 DEF Is
<1>4. lo \in S
  BY <1>1, <1>3 DEF S
<1>5. ASSUME NEW n \in lo .. hi - 1, NEW g, Is(g, n) PROVE Is(next(g, n), n + 1)
  BY <1>1, <1>5 DEF Is, next
<1>6. \A n \in lo .. hi - 1 : n \in S => n + 1 \in S
  BY <1>1, <1>5 DEF S
<1>7. \A n \in lo .. hi : n \in S
  BY <1>1, <1>4, <1>6, Induction, Zenon
<1>8. \E g : Is(g, hi)
  BY <1>1, <1>7 DEF S
<1>9. /\ LoweringData(lowerer, statement, line)[lo] = first
      /\ \A k \in lo + 1 .. hi : LoweringData(lowerer, statement, line)[k] = step(LoweringData(lowerer, statement, line)[k - 1], k)
  BY <1>1, <1>2, <1>8 DEF Is
<1>10. QED
  BY <1>9 DEF lo, hi, first, step

\* The lowering goes through the statements.
LEMMA LoweringSteps ==
  ASSUME NEW program, Len(program) \in Nat
  PROVE  /\ Lowering(program)[0] = LowererStart
         /\ \A line \in 1 .. Len(program) :
              Lowering(program)[line] = lowerStatement(Lowering(program)[line - 1], program, line)
<1> DEFINE lo == 0
           hi == Len(program)
           first == LowererStart
           step(before, line) == lowerStatement(before, program, line)
           Is(g, n) ==
             g = [line \in lo .. n |-> IF line = lo THEN first ELSE step(g[line - 1], line)]
           S == {n \in lo .. hi : \E g : Is(g, n)}
           next(g, n) ==
             [line \in lo .. n + 1 |-> IF line = n + 1 THEN step(g[n], n + 1) ELSE g[line]]
<1>1. lo \in Int /\ hi \in Int /\ lo <= hi
  OBVIOUS
<1>2. ASSUME \E g : Is(g, hi) PROVE Is(Lowering(program), hi)
  BY <1>2, Zenon DEF Lowering
<1> HIDE DEF lo, hi, first, step, Is, S, next
<1>3. Is([line \in lo .. lo |-> first], lo)
  BY <1>1 DEF Is
<1>4. lo \in S
  BY <1>1, <1>3 DEF S
<1>5. ASSUME NEW n \in lo .. hi - 1, NEW g, Is(g, n) PROVE Is(next(g, n), n + 1)
  BY <1>1, <1>5 DEF Is, next
<1>6. \A n \in lo .. hi - 1 : n \in S => n + 1 \in S
  BY <1>1, <1>5 DEF S
<1>7. \A n \in lo .. hi : n \in S
  BY <1>1, <1>4, <1>6, Induction, Zenon
<1>8. \E g : Is(g, hi)
  BY <1>1, <1>7 DEF S
<1>9. /\ Lowering(program)[lo] = first
      /\ \A line \in lo + 1 .. hi : Lowering(program)[line] = step(Lowering(program)[line - 1], line)
  BY <1>1, <1>2, <1>8 DEF Is
<1>10. QED
  BY <1>9 DEF lo, hi, first, step

\* Constant folding goes through the items of a block.
LEMMA FoldingBlockSteps ==
  ASSUME NEW folding, NEW block, NEW liveOut, block.begin \in Int, block.last \in Int, block.begin - 1 <= block.last
  PROVE  /\ FoldingBlock(folding, block, liveOut)[block.begin - 1] = [folding EXCEPT !.known = NothingKnown]
         /\ \A i \in block.begin .. block.last :
              FoldingBlock(folding, block, liveOut)[i] = FoldItem(FoldingBlock(folding, block, liveOut)[i - 1], i, flagsDeadAfter(block, i, liveOut))
<1> DEFINE lo == block.begin - 1
           hi == block.last
           first == [folding EXCEPT !.known = NothingKnown]
           step(before, i) == FoldItem(before, i, flagsDeadAfter(block, i, liveOut))
           Is(g, n) ==
             g = [i \in lo .. n |-> IF i = lo THEN first ELSE step(g[i - 1], i)]
           S == {n \in lo .. hi : \E g : Is(g, n)}
           next(g, n) ==
             [i \in lo .. n + 1 |-> IF i = n + 1 THEN step(g[n], n + 1) ELSE g[i]]
<1>1. lo \in Int /\ hi \in Int /\ lo <= hi
  OBVIOUS
<1>2. ASSUME \E g : Is(g, hi) PROVE Is(FoldingBlock(folding, block, liveOut), hi)
  BY <1>2, Zenon DEF FoldingBlock
<1> HIDE DEF lo, hi, first, step, Is, S, next
<1>3. Is([i \in lo .. lo |-> first], lo)
  BY <1>1 DEF Is
<1>4. lo \in S
  BY <1>1, <1>3 DEF S
<1>5. ASSUME NEW n \in lo .. hi - 1, NEW g, Is(g, n) PROVE Is(next(g, n), n + 1)
  BY <1>1, <1>5 DEF Is, next
<1>6. \A n \in lo .. hi - 1 : n \in S => n + 1 \in S
  BY <1>1, <1>5 DEF S
<1>7. \A n \in lo .. hi : n \in S
  BY <1>1, <1>4, <1>6, Induction, Zenon
<1>8. \E g : Is(g, hi)
  BY <1>1, <1>7 DEF S
<1>9. /\ FoldingBlock(folding, block, liveOut)[lo] = first
      /\ \A i \in lo + 1 .. hi : FoldingBlock(folding, block, liveOut)[i] = step(FoldingBlock(folding, block, liveOut)[i - 1], i)
  BY <1>1, <1>2, <1>8 DEF Is
<1>10. QED
  BY <1>9 DEF lo, hi, first, step

\* Constant folding goes through the blocks.
LEMMA FoldingBlocksSteps ==
  ASSUME NEW blocks, NEW liveOut, Len(blocks) \in Nat
  PROVE  /\ FoldingBlocks(blocks, liveOut)[0] = NothingFolded
         /\ \A b \in 1 .. Len(blocks) :
              FoldingBlocks(blocks, liveOut)[b] = FoldBlock(FoldingBlocks(blocks, liveOut)[b - 1], blocks[b], liveOut[b])
<1> DEFINE lo == 0
           hi == Len(blocks)
           first == NothingFolded
           step(before, b) == FoldBlock(before, blocks[b], liveOut[b])
           Is(g, n) ==
             g = [b \in lo .. n |-> IF b = lo THEN first ELSE step(g[b - 1], b)]
           S == {n \in lo .. hi : \E g : Is(g, n)}
           next(g, n) ==
             [b \in lo .. n + 1 |-> IF b = n + 1 THEN step(g[n], n + 1) ELSE g[b]]
<1>1. lo \in Int /\ hi \in Int /\ lo <= hi
  OBVIOUS
<1>2. ASSUME \E g : Is(g, hi) PROVE Is(FoldingBlocks(blocks, liveOut), hi)
  BY <1>2, Zenon DEF FoldingBlocks
<1> HIDE DEF lo, hi, first, step, Is, S, next
<1>3. Is([b \in lo .. lo |-> first], lo)
  BY <1>1 DEF Is
<1>4. lo \in S
  BY <1>1, <1>3 DEF S
<1>5. ASSUME NEW n \in lo .. hi - 1, NEW g, Is(g, n) PROVE Is(next(g, n), n + 1)
  BY <1>1, <1>5 DEF Is, next
<1>6. \A n \in lo .. hi - 1 : n \in S => n + 1 \in S
  BY <1>1, <1>5 DEF S
<1>7. \A n \in lo .. hi : n \in S
  BY <1>1, <1>4, <1>6, Induction, Zenon
<1>8. \E g : Is(g, hi)
  BY <1>1, <1>7 DEF S
<1>9. /\ FoldingBlocks(blocks, liveOut)[lo] = first
      /\ \A b \in lo + 1 .. hi : FoldingBlocks(blocks, liveOut)[b] = step(FoldingBlocks(blocks, liveOut)[b - 1], b)
  BY <1>1, <1>2, <1>8 DEF Is
<1>10. QED
  BY <1>9 DEF lo, hi, first, step

\* Pass 1 goes through the items of a section.
LEMMA LayingOutSteps ==
  ASSUME NEW obj, NEW section, NEW contents, Len(contents) \in Nat
  PROVE  /\ LayingOut(obj, section, contents)[0] = [offset |-> 0, alignment |-> obj.sections[section].alignment,
            symbols |-> obj.symbols, errors |-> obj.errors]
         /\ \A k \in 1 .. Len(contents) :
              LayingOut(obj, section, contents)[k] = layoutItem(LayingOut(obj, section, contents)[k - 1], contents[k], section)
<1> DEFINE lo == 0
           hi == Len(contents)
           first == [offset |-> 0, alignment |-> obj.sections[section].alignment,
            symbols |-> obj.symbols, errors |-> obj.errors]
           step(before, k) == layoutItem(before, contents[k], section)
           Is(g, n) ==
             g = [k \in lo .. n |-> IF k = lo THEN first ELSE step(g[k - 1], k)]
           S == {n \in lo .. hi : \E g : Is(g, n)}
           next(g, n) ==
             [k \in lo .. n + 1 |-> IF k = n + 1 THEN step(g[n], n + 1) ELSE g[k]]
<1>1. lo \in Int /\ hi \in Int /\ lo <= hi
  OBVIOUS
<1>2. ASSUME \E g : Is(g, hi) PROVE Is(LayingOut(obj, section, contents), hi)
  BY <1>2, Zenon DEF LayingOut
<1> HIDE DEF lo, hi, first, step, Is, S, next
<1>3. Is([k \in lo .. lo |-> first], lo)
  BY <1>1 DEF Is
<1>4. lo \in S
  BY <1>1, <1>3 DEF S
<1>5. ASSUME NEW n \in lo .. hi - 1, NEW g, Is(g, n) PROVE Is(next(g, n), n + 1)
  BY <1>1, <1>5 DEF Is, next
<1>6. \A n \in lo .. hi - 1 : n \in S => n + 1 \in S
  BY <1>1, <1>5 DEF S
<1>7. \A n \in lo .. hi : n \in S
  BY <1>1, <1>4, <1>6, Induction, Zenon
<1>8. \E g : Is(g, hi)
  BY <1>1, <1>7 DEF S
<1>9. /\ LayingOut(obj, section, contents)[lo] = first
      /\ \A k \in lo + 1 .. hi : LayingOut(obj, section, contents)[k] = step(LayingOut(obj, section, contents)[k - 1], k)
  BY <1>1, <1>2, <1>8 DEF Is
<1>10. QED
  BY <1>9 DEF lo, hi, first, step

\* Pass 1 goes through the sections.
LEMMA LayingOutSectionsSteps ==
  ASSUME NEW file, NEW sections, Len(collectSections(sections)) \in Nat
  PROVE  /\ LayingOutSections(file, sections)[0] = EmptyObject(file, collectSections(sections))
         /\ \A s \in 1 .. Len(collectSections(sections)) :
              LayingOutSections(file, sections)[s] = layoutSection(LayingOutSections(file, sections)[s - 1], s, sections[collectSections(sections)[s]])
<1> DEFINE lo == 0
           hi == Len(collectSections(sections))
           first == EmptyObject(file, collectSections(sections))
           step(before, s) == layoutSection(before, s, sections[collectSections(sections)[s]])
           Is(g, n) ==
             g = [s \in lo .. n |-> IF s = lo THEN first ELSE step(g[s - 1], s)]
           S == {n \in lo .. hi : \E g : Is(g, n)}
           next(g, n) ==
             [s \in lo .. n + 1 |-> IF s = n + 1 THEN step(g[n], n + 1) ELSE g[s]]
<1>1. lo \in Int /\ hi \in Int /\ lo <= hi
  OBVIOUS
<1>2. ASSUME \E g : Is(g, hi) PROVE Is(LayingOutSections(file, sections), hi)
  BY <1>2, Zenon DEF LayingOutSections
<1> HIDE DEF lo, hi, first, step, Is, S, next
<1>3. Is([s \in lo .. lo |-> first], lo)
  BY <1>1 DEF Is
<1>4. lo \in S
  BY <1>1, <1>3 DEF S
<1>5. ASSUME NEW n \in lo .. hi - 1, NEW g, Is(g, n) PROVE Is(next(g, n), n + 1)
  BY <1>1, <1>5 DEF Is, next
<1>6. \A n \in lo .. hi - 1 : n \in S => n + 1 \in S
  BY <1>1, <1>5 DEF S
<1>7. \A n \in lo .. hi : n \in S
  BY <1>1, <1>4, <1>6, Induction, Zenon
<1>8. \E g : Is(g, hi)
  BY <1>1, <1>7 DEF S
<1>9. /\ LayingOutSections(file, sections)[lo] = first
      /\ \A s \in lo + 1 .. hi : LayingOutSections(file, sections)[s] = step(LayingOutSections(file, sections)[s - 1], s)
  BY <1>1, <1>2, <1>8 DEF Is
<1>10. QED
  BY <1>9 DEF lo, hi, first, step

\* applyBindings() goes through the names.
LEMMA ApplyingBindingsSteps ==
  ASSUME NEW obj, NEW requests, Len(requests) \in Nat
  PROVE  /\ ApplyingBindings(obj, requests)[0] = obj
         /\ \A k \in 1 .. Len(requests) :
              ApplyingBindings(obj, requests)[k] = applyBinding(ApplyingBindings(obj, requests)[k - 1], requests[k])
<1> DEFINE lo == 0
           hi == Len(requests)
           first == obj
           step(before, k) == applyBinding(before, requests[k])
           Is(g, n) ==
             g = [k \in lo .. n |-> IF k = lo THEN first ELSE step(g[k - 1], k)]
           S == {n \in lo .. hi : \E g : Is(g, n)}
           next(g, n) ==
             [k \in lo .. n + 1 |-> IF k = n + 1 THEN step(g[n], n + 1) ELSE g[k]]
<1>1. lo \in Int /\ hi \in Int /\ lo <= hi
  OBVIOUS
<1>2. ASSUME \E g : Is(g, hi) PROVE Is(ApplyingBindings(obj, requests), hi)
  BY <1>2, Zenon DEF ApplyingBindings
<1> HIDE DEF lo, hi, first, step, Is, S, next
<1>3. Is([k \in lo .. lo |-> first], lo)
  BY <1>1 DEF Is
<1>4. lo \in S
  BY <1>1, <1>3 DEF S
<1>5. ASSUME NEW n \in lo .. hi - 1, NEW g, Is(g, n) PROVE Is(next(g, n), n + 1)
  BY <1>1, <1>5 DEF Is, next
<1>6. \A n \in lo .. hi - 1 : n \in S => n + 1 \in S
  BY <1>1, <1>5 DEF S
<1>7. \A n \in lo .. hi : n \in S
  BY <1>1, <1>4, <1>6, Induction, Zenon
<1>8. \E g : Is(g, hi)
  BY <1>1, <1>7 DEF S
<1>9. /\ ApplyingBindings(obj, requests)[lo] = first
      /\ \A k \in lo + 1 .. hi : ApplyingBindings(obj, requests)[k] = step(ApplyingBindings(obj, requests)[k - 1], k)
  BY <1>1, <1>2, <1>8 DEF Is
<1>10. QED
  BY <1>9 DEF lo, hi, first, step

\* Pass 2 goes through the items of a section.
LEMMA EmittingSteps ==
  ASSUME NEW obj, NEW section, NEW contents, Len(contents) \in Nat
  PROVE  /\ Emitting(obj, section, contents)[0] = obj
         /\ \A k \in 1 .. Len(contents) :
              Emitting(obj, section, contents)[k] = emitItem(Emitting(obj, section, contents)[k - 1], contents[k], section)
<1> DEFINE lo == 0
           hi == Len(contents)
           first == obj
           step(before, k) == emitItem(before, contents[k], section)
           Is(g, n) ==
             g = [k \in lo .. n |-> IF k = lo THEN first ELSE step(g[k - 1], k)]
           S == {n \in lo .. hi : \E g : Is(g, n)}
           next(g, n) ==
             [k \in lo .. n + 1 |-> IF k = n + 1 THEN step(g[n], n + 1) ELSE g[k]]
<1>1. lo \in Int /\ hi \in Int /\ lo <= hi
  OBVIOUS
<1>2. ASSUME \E g : Is(g, hi) PROVE Is(Emitting(obj, section, contents), hi)
  BY <1>2, Zenon DEF Emitting
<1> HIDE DEF lo, hi, first, step, Is, S, next
<1>3. Is([k \in lo .. lo |-> first], lo)
  BY <1>1 DEF Is
<1>4. lo \in S
  BY <1>1, <1>3 DEF S
<1>5. ASSUME NEW n \in lo .. hi - 1, NEW g, Is(g, n) PROVE Is(next(g, n), n + 1)
  BY <1>1, <1>5 DEF Is, next
<1>6. \A n \in lo .. hi - 1 : n \in S => n + 1 \in S
  BY <1>1, <1>5 DEF S
<1>7. \A n \in lo .. hi : n \in S
  BY <1>1, <1>4, <1>6, Induction, Zenon
<1>8. \E g : Is(g, hi)
  BY <1>1, <1>7 DEF S
<1>9. /\ Emitting(obj, section, contents)[lo] = first
      /\ \A k \in lo + 1 .. hi : Emitting(obj, section, contents)[k] = step(Emitting(obj, section, contents)[k - 1], k)
  BY <1>1, <1>2, <1>8 DEF Is
<1>10. QED
  BY <1>9 DEF lo, hi, first, step

\* Pass 2 goes through the sections.
LEMMA EmittingSectionsSteps ==
  ASSUME NEW obj, NEW sections, Len(collectSections(sections)) \in Nat
  PROVE  /\ EmittingSections(obj, sections)[0] = obj
         /\ \A s \in 1 .. Len(collectSections(sections)) :
              EmittingSections(obj, sections)[s] = emitSection(EmittingSections(obj, sections)[s - 1], s, sections[collectSections(sections)[s]])
<1> DEFINE lo == 0
           hi == Len(collectSections(sections))
           first == obj
           step(before, s) == emitSection(before, s, sections[collectSections(sections)[s]])
           Is(g, n) ==
             g = [s \in lo .. n |-> IF s = lo THEN first ELSE step(g[s - 1], s)]
           S == {n \in lo .. hi : \E g : Is(g, n)}
           next(g, n) ==
             [s \in lo .. n + 1 |-> IF s = n + 1 THEN step(g[n], n + 1) ELSE g[s]]
<1>1. lo \in Int /\ hi \in Int /\ lo <= hi
  OBVIOUS
<1>2. ASSUME \E g : Is(g, hi) PROVE Is(EmittingSections(obj, sections), hi)
  BY <1>2, Zenon DEF EmittingSections
<1> HIDE DEF lo, hi, first, step, Is, S, next
<1>3. Is([s \in lo .. lo |-> first], lo)
  BY <1>1 DEF Is
<1>4. lo \in S
  BY <1>1, <1>3 DEF S
<1>5. ASSUME NEW n \in lo .. hi - 1, NEW g, Is(g, n) PROVE Is(next(g, n), n + 1)
  BY <1>1, <1>5 DEF Is, next
<1>6. \A n \in lo .. hi - 1 : n \in S => n + 1 \in S
  BY <1>1, <1>5 DEF S
<1>7. \A n \in lo .. hi : n \in S
  BY <1>1, <1>4, <1>6, Induction, Zenon
<1>8. \E g : Is(g, hi)
  BY <1>1, <1>7 DEF S
<1>9. /\ EmittingSections(obj, sections)[lo] = first
      /\ \A s \in lo + 1 .. hi : EmittingSections(obj, sections)[s] = step(EmittingSections(obj, sections)[s - 1], s)
  BY <1>1, <1>2, <1>8 DEF Is
<1>10. QED
  BY <1>9 DEF lo, hi, first, step

-----------------------------------------------------------------------------
(***************************************************************************)
(* Numbers in order.                                                       *)
(***************************************************************************)
LEMMA SmallSets ==
  ASSUME NEW n \in Nat, NEW S \in SUBSET (1 .. n)
  PROVE  IsFiniteSet(S) /\ Cardinality(S) \in Nat
<1>1. IsFiniteSet(1 .. n)
  BY FS_Interval
<1>2. QED
  BY <1>1, FS_Subset, FS_CardinalityType

Before(S, i) == {j \in S : j < i}

\* For every k up to the size of a set of numbers, one has k - 1 before it.
LEMMA RankExists ==
  ASSUME NEW n \in Nat
  PROVE  \A S \in SUBSET (1 .. n) : \A k \in 1 .. Cardinality(S) :
           \E i \in S : Cardinality(Before(S, i)) = k - 1
<1> DEFINE Ranked(S) == \A k \in 1 .. Cardinality(S) :
                          \E i \in S : Cardinality(Before(S, i)) = k - 1
           P == {m \in 0 .. n : \A S \in SUBSET (1 .. m) : Ranked(S)}
<1>1. 0 \in P
  <2>1. SUFFICES ASSUME NEW S \in SUBSET (1 .. 0) PROVE Ranked(S)
    OBVIOUS
  <2>2. S = {}
    OBVIOUS
  <2>3. Cardinality(S) = 0
    BY <2>2, FS_EmptySet
  <2>4. QED
    BY <2>3
<1>2. ASSUME NEW m \in 0 .. n - 1, m \in P PROVE m + 1 \in P
  <2>1. SUFFICES ASSUME NEW S \in SUBSET (1 .. m + 1) PROVE Ranked(S)
    OBVIOUS
  <2> DEFINE T == S \ {m + 1}
  <2>2. T \in SUBSET (1 .. m)
    OBVIOUS
  <2>3. Ranked(T)
    BY <1>2, <2>2
  <2>4. IsFiniteSet(T) /\ Cardinality(T) \in Nat
    <3>1. m \in Nat
      OBVIOUS
    <3> HIDE DEF T
    <3>2. QED
      BY <2>2, <3>1, SmallSets
  <2>5. CASE m + 1 \notin S
    <3>1. S = T
      BY <2>5
    <3> HIDE DEF T
    <3>2. QED
      BY <3>1, <2>3
  <2>6. CASE m + 1 \in S
    <3>1. S = T \cup {m + 1} /\ m + 1 \notin T
      BY <2>6
    <3>2. Cardinality(S) = Cardinality(T) + 1
      <4> HIDE DEF T
      <4>1. QED
        BY <3>1, <2>4, FS_AddElement
    <3>3. Before(S, m + 1) = T
      <4>1. \A j \in S : j < m + 1 <=> j # m + 1
        OBVIOUS
      <4>2. QED
        BY <4>1 DEF Before
    <3>4. \A i \in T : Before(S, i) = Before(T, i)
      BY <2>2 DEF Before
    <3> HIDE DEF T
    <3>5. SUFFICES ASSUME NEW k \in 1 .. Cardinality(S)
                   PROVE  \E i \in S : Cardinality(Before(S, i)) = k - 1
      OBVIOUS
    <3>6. CASE k = Cardinality(T) + 1
      BY <3>6, <3>3, <2>6, <2>4
    <3>7. CASE k # Cardinality(T) + 1
      <4>1. k \in 1 .. Cardinality(T)
        BY <3>7, <3>2, <2>4
      <4>2. PICK i \in T : Cardinality(Before(T, i)) = k - 1
        BY <4>1, <2>3
      <4>3. QED
        BY <4>2, <3>4, <3>1
    <3>8. QED
      BY <3>6, <3>7
  <2>7. QED
    BY <2>5, <2>6
<1>3. \A m \in 0 .. n : m \in P
  <2> HIDE DEF P
  <2>1. \A m \in 0 .. n - 1 : m \in P => m + 1 \in P
    BY <1>2
  <2>2. QED
    BY <1>1, <2>1, Induction
<1>4. n \in P
  BY <1>3
<1>5. QED
  BY <1>4

\* More numbers are before a larger one.
LEMMA RankIncreases ==
  ASSUME NEW n \in Nat, NEW S \in SUBSET (1 .. n), NEW i \in S, NEW j \in S, i < j
  PROVE  /\ Cardinality(Before(S, i)) \in Nat /\ Cardinality(Before(S, j)) \in Nat
         /\ Cardinality(Before(S, i)) < Cardinality(Before(S, j))
         /\ Cardinality(Before(S, j)) < Cardinality(S)
<1>1. /\ Before(S, i) \in SUBSET Before(S, j) /\ Before(S, j) \in SUBSET S
      /\ Before(S, i) \in SUBSET (1 .. n) /\ Before(S, j) \in SUBSET (1 .. n)
  <2>1. \A k \in S : k \in 1 .. n
    OBVIOUS
  <2>2. \A k \in S : k < i => k < j
    BY <2>1
  <2>3. QED
    BY <2>1, <2>2 DEF Before
<1>2. i \in Before(S, j) /\ i \notin Before(S, i) /\ j \in S /\ j \notin Before(S, j)
  BY DEF Before
<1>3. /\ IsFiniteSet(S) /\ IsFiniteSet(Before(S, j)) /\ IsFiniteSet(Before(S, i))
      /\ Cardinality(Before(S, i)) \in Nat /\ Cardinality(Before(S, j)) \in Nat
      /\ Cardinality(S) \in Nat
  BY <1>1, SmallSets
<1>4. /\ Cardinality(Before(S, i)) <= Cardinality(Before(S, j))
      /\ Cardinality(Before(S, j)) = Cardinality(Before(S, i)) => Before(S, j) = Before(S, i)
  BY <1>1, <1>3, FS_Subset
<1>5. /\ Cardinality(Before(S, j)) <= Cardinality(S)
      /\ Cardinality(S) = Cardinality(Before(S, j)) => S = Before(S, j)
  BY <1>1, <1>3, FS_Subset
<1>6. QED
  BY <1>2, <1>3, <1>4, <1>5

\* InOrder() lists the numbers of a set, each once, the smaller before the larger.
LEMMA InOrderFacts ==
  ASSUME NEW n \in Nat, NEW S \in SUBSET (1 .. n)
  PROVE  /\ Cardinality(S) \in Nat /\ DOMAIN InOrder(S) = 1 .. Cardinality(S)
         /\ InOrder(S) \in Seq(S) /\ Len(InOrder(S)) = Cardinality(S)
         /\ \A k \in 1 .. Cardinality(S) : InOrder(S)[k] \in S
         /\ \A k, l \in 1 .. Cardinality(S) : k < l => InOrder(S)[k] < InOrder(S)[l]
         /\ \A i \in S : \E k \in 1 .. Cardinality(S) : InOrder(S)[k] = i
<1> DEFINE c == Cardinality(S)
<1>1. IsFiniteSet(S) /\ c \in Nat
  BY SmallSets
<1>2. \A i : {j \in S : j < i} = Before(S, i)
  BY DEF Before
<1>3. \A k \in 1 .. c : \E i \in S : Cardinality(Before(S, i)) = k - 1
  BY RankExists
<1>4. /\ DOMAIN InOrder(S) = 1 .. c
      /\ \A k \in 1 .. c : InOrder(S)[k] \in S /\ Cardinality(Before(S, InOrder(S)[k])) = k - 1
  <2>1. InOrder(S) = [k \in 1 .. c |-> CHOOSE i \in S : Cardinality(Before(S, i)) = k - 1]
    BY Zenon DEF InOrder, Before
  <2> HIDE DEF c
  <2>2. QED
    BY <2>1, <1>3
<1>5. \A i, j \in S : i < j => Cardinality(Before(S, i)) < Cardinality(Before(S, j))
  BY RankIncreases
<1>6. \A i \in S : Cardinality(Before(S, i)) \in 0 .. c - 1
  <2>1. SUFFICES ASSUME NEW i \in S PROVE Cardinality(Before(S, i)) \in 0 .. c - 1
    OBVIOUS
  <2>2. Before(S, i) \in SUBSET S /\ Before(S, i) \in SUBSET (1 .. n) /\ i \notin Before(S, i)
    <3>1. i \in Int /\ ~(i < i)
      OBVIOUS
    <3>2. QED
      BY <3>1 DEF Before
  <2>3. Cardinality(Before(S, i)) \in Nat
    BY <2>2, SmallSets
  <2>4. /\ Cardinality(Before(S, i)) <= c
        /\ c = Cardinality(Before(S, i)) => S = Before(S, i)
    BY <1>1, <2>2, FS_Subset
  <2>5. QED
    BY <2>2, <2>3, <2>4, <1>1
<1> HIDE DEF c
<1>7. \A i, j \in S : Cardinality(Before(S, i)) = Cardinality(Before(S, j)) => i = j
  <2>1. \A i, j \in S : i < j \/ j < i \/ i = j
    OBVIOUS
  <2>2. QED
    BY <2>1, <1>5, <1>6
<1>8. \A i \in S : \E k \in 1 .. c : InOrder(S)[k] = i
  <2>1. SUFFICES ASSUME NEW i \in S PROVE \E k \in 1 .. c : InOrder(S)[k] = i
    OBVIOUS
  <2> DEFINE k == Cardinality(Before(S, i)) + 1
  <2>2. k \in 1 .. c /\ k - 1 = Cardinality(Before(S, i))
    BY <1>6, <1>1
  <2> HIDE DEF k
  <2>3. InOrder(S)[k] = i
    BY <2>2, <1>4, <1>7
  <2>4. QED
    BY <2>2, <2>3
<1>9. \A k, l \in 1 .. c : k < l => InOrder(S)[k] < InOrder(S)[l]
  <2>1. SUFFICES ASSUME NEW k \in 1 .. c, NEW l \in 1 .. c, k < l,
                        ~(InOrder(S)[k] < InOrder(S)[l])
                 PROVE  FALSE
    OBVIOUS
  <2>2. InOrder(S)[k] \in S /\ InOrder(S)[l] \in S
    BY <1>4
  <2>3. InOrder(S)[l] < InOrder(S)[k] \/ InOrder(S)[l] = InOrder(S)[k]
    <3>1. \A x \in S : x \in Int
      OBVIOUS
    <3>2. InOrder(S)[k] \in Int /\ InOrder(S)[l] \in Int
      BY <2>2, <3>1
    <3>3. QED
      BY <2>1, <3>2
  <2>4. l - 1 <= k - 1
    <3>1. CASE InOrder(S)[l] = InOrder(S)[k]
      BY <3>1, <1>4
    <3>2. CASE InOrder(S)[l] < InOrder(S)[k]
      <4>1. Cardinality(Before(S, InOrder(S)[l])) < Cardinality(Before(S, InOrder(S)[k]))
        BY <3>2, <2>2, <1>5
      <4>2. QED
        BY <4>1, <1>4, <1>1
    <3>3. QED
      BY <2>3, <3>1, <3>2
  <2>5. QED
    BY <2>1, <2>4, <1>1
<1>10. InOrder(S) \in Seq(S) /\ Len(InOrder(S)) = c
  <2>1. InOrder(S) \in [1 .. c -> S]
    BY <1>4 DEF InOrder, c
  <2>2. QED
    BY <2>1, <1>1
<1>11. QED
  BY <1>1, <1>4, <1>8, <1>9, <1>10 DEF c

-----------------------------------------------------------------------------
(***************************************************************************)
(* Instructions.                                                           *)
(***************************************************************************)
LEMMA Sizes ==
  /\ WordSize = 8 /\ WordModulus \in Nat /\ ImmediateModulus \in Nat
  /\ 0 < ImmediateModulus \div 2 /\ ImmediateModulus < WordModulus
  /\ ImmediateModulus \div 2 + ImmediateModulus \div 2 = ImmediateModulus
  /\ 0 \in Word /\ Word \subseteq Nat
  /\ RegisterCount \in Nat /\ 0 < RegisterCount
<1>1. /\ WordSize = 8 /\ WordModulus \in Nat /\ WordModulus > WordSize
      /\ RegisterCount \in Nat /\ 0 < RegisterCount
  BY FrontEndAssumption, MemoryAssumption, InstructionSetAssumption
<1>2. /\ ImmediateModulus \in Nat /\ ImmediateModulus % 2 = 0 /\ 0 < ImmediateModulus
      /\ ImmediateModulus < WordModulus
  BY ObjectAssumption
<1>3. QED
  BY <1>1, <1>2 DEF Word

LEMMA Opcodes ==
  Opcode = {"NOP", "HALT", "SYSCALL", "MOV", "MOVI", "LOAD", "STORE", "LEA", "PUSH",
            "POP", "ADD", "SUB", "MUL", "DIV", "MOD", "INC", "DEC", "NEG", "AND", "OR",
            "XOR", "NOT", "SHL", "SHR", "SAR", "CMP", "TEST", "JMP", "JE", "JNE", "JG",
            "JL", "JGE", "JLE", "CALL", "RET"}
<1>1. DOMAIN kOpcodes = 1 .. 36
  BY DEF kOpcodes
<1>2. ASSUME NEW n \in 1 .. 36
      PROVE  kOpcodes[n] \in {"NOP", "HALT", "SYSCALL", "MOV", "MOVI", "LOAD", "STORE",
               "LEA", "PUSH", "POP", "ADD", "SUB", "MUL", "DIV", "MOD", "INC", "DEC", "NEG",
               "AND", "OR", "XOR", "NOT", "SHL", "SHR", "SAR", "CMP", "TEST", "JMP", "JE",
               "JNE", "JG", "JL", "JGE", "JLE", "CALL", "RET"}
  BY DEF kOpcodes
<1>3. /\ kOpcodes[1] = "NOP" /\ kOpcodes[2] = "HALT" /\ kOpcodes[3] = "SYSCALL"
      /\ kOpcodes[4] = "MOV" /\ kOpcodes[5] = "MOVI" /\ kOpcodes[6] = "LOAD"
      /\ kOpcodes[7] = "STORE" /\ kOpcodes[8] = "LEA" /\ kOpcodes[9] = "PUSH"
      /\ kOpcodes[10] = "POP" /\ kOpcodes[11] = "ADD" /\ kOpcodes[12] = "SUB"
      /\ kOpcodes[13] = "MUL" /\ kOpcodes[14] = "DIV" /\ kOpcodes[15] = "MOD"
      /\ kOpcodes[16] = "INC" /\ kOpcodes[17] = "DEC" /\ kOpcodes[18] = "NEG"
      /\ kOpcodes[19] = "AND" /\ kOpcodes[20] = "OR" /\ kOpcodes[21] = "XOR"
      /\ kOpcodes[22] = "NOT" /\ kOpcodes[23] = "SHL" /\ kOpcodes[24] = "SHR"
      /\ kOpcodes[25] = "SAR" /\ kOpcodes[26] = "CMP" /\ kOpcodes[27] = "TEST"
      /\ kOpcodes[28] = "JMP" /\ kOpcodes[29] = "JE" /\ kOpcodes[30] = "JNE"
      /\ kOpcodes[31] = "JG" /\ kOpcodes[32] = "JL" /\ kOpcodes[33] = "JGE"
      /\ kOpcodes[34] = "JLE" /\ kOpcodes[35] = "CALL" /\ kOpcodes[36] = "RET"
  BY DEF kOpcodes
<1>4. QED
  BY <1>1, <1>2, <1>3 DEF Opcode

LEMMA Formats ==
  ASSUME NEW opcode \in Opcode
  PROVE  /\ Format(opcode) \in {"None", "Reg1", "Reg2", "RegImm", "Mem", "Jump", "SysImm"}
         /\ Format(opcode) = "Mem" <=> opcode \in {"LOAD", "STORE"}
         /\ Format(opcode) = "Reg2" <=> opcode \in BinaryAlu \cup {"MOV"}
         /\ Format(opcode) = "RegImm" <=> opcode \in {"MOVI", "LEA"}
         /\ Format(opcode) = "Reg1" <=> opcode \in UnaryAlu \cup {"PUSH", "POP"}
  BY Opcodes DEF Format, BinaryAlu, UnaryAlu, readsFlags

\* The items of the IR.
MachineRecord ==
  [opcode : Opcode, dst : 0 .. RegisterCount - 1, src : 0 .. RegisterCount - 1, imm : Word]
Reference == [name : STRING, addend : Word]

InstructionItem ==
  [kind : {"instruction"}, line : Nat, machine : MachineRecord,
   symbol : Reference \cup {NoSymbol}]
LabelItem == [kind : {"label"}, line : Nat, name : STRING]
BytesItem == [kind : {"bytes"}, line : Nat, data : Seq(Byte)]
ValueItem == [kind : {"value"}, line : Nat, width : {4, 8}, symbol : Reference]
SpaceItem == [kind : {"space"}, line : Nat, fill : Byte, size : Word]
AlignItem ==
  {item \in [kind : {"align"}, line : Nat, alignment : Word \ {0}] :
     PowerOfTwo(item.alignment)}
Item == InstructionItem \cup LabelItem \cup BytesItem \cup ValueItem \cup SpaceItem
          \cup AlignItem

\* The instruction that pass 2 encodes for an item.
Encoded(item) ==
  IF isSymbolic(item) THEN [item.machine EXCEPT !.imm = 0] ELSE item.machine

\* It can be encoded, unless the line has a memory operand that is out of range.
Encodable(source, item) ==
  \/ EncodeError(Encoded(item)) = "None"
  \/ /\ EncodeError(Encoded(item)) = "ImmediateOutOfRange"
     /\ source[item.line].mnemonic \in {"LOAD", "STORE"}

\* The item is one of its line, and may be in a section of this kind.
Fits(source, item, kind) ==
  /\ item.line \in DOMAIN source
  /\ item.kind = "instruction" =>
       /\ kind = "Text" /\ source[item.line].node = "instruction"
       /\ Encodable(source, item)
  /\ item.kind = "label" =>
       source[item.line].node = "label" /\ item.name = source[item.line].name
  /\ kind = "Bss" =>
       /\ item.kind \in {"label", "space", "align"}
       /\ item.kind = "space" => item.fill = ZeroByte

LEMMA ItemKinds ==
  ASSUME NEW item \in Item
  PROVE  /\ item.kind = "instruction" => item \in InstructionItem
         /\ item.kind = "label" => item \in LabelItem
         /\ item.kind = "bytes" => item \in BytesItem
         /\ item.kind = "value" => item \in ValueItem
         /\ item.kind = "space" => item \in SpaceItem
         /\ item.kind = "align" => item \in AlignItem
         /\ item.kind \in {"instruction", "label", "bytes", "value", "space", "align"}
         /\ item.line \in Nat
<1>1. CASE item \in InstructionItem
  BY <1>1 DEF InstructionItem
<1>2. CASE item \in LabelItem
  BY <1>2 DEF LabelItem
<1>3. CASE item \in BytesItem
  BY <1>3 DEF BytesItem
<1>4. CASE item \in ValueItem
  BY <1>4 DEF ValueItem
<1>5. CASE item \in SpaceItem
  BY <1>5 DEF SpaceItem
<1>6. CASE item \in AlignItem
  BY <1>6 DEF AlignItem
<1>7. QED
  BY <1>1, <1>2, <1>3, <1>4, <1>5, <1>6 DEF Item

\* What the analysis demands of an instruction, format by format.
OperandsFit(format, mnemonic, operands) ==
  /\ Len(operands) = operandCount(format)
  /\ format = "RegImm" => /\ operands[2].type \in {"Immediate", "Symbol"}
                          /\ operands[2].type = "Immediate" =>
                               fitsSigned(operands[2].immediate, ImmediateModulus)
  /\ format = "Jump" => /\ operands[1].type \in {"Immediate", "Symbol"}
                        /\ operands[1].type = "Immediate" =>
                             fitsSigned(operands[1].immediate, ImmediateModulus)
  /\ format = "SysImm" => ImmediateFits("SysImm", operands[1].immediate)

LEMMA InstructionsAccepted ==
  ASSUME NEW statement \in InstructionStatement, NEW line,
         checkInstruction(statement, line) = {}
  PROVE  /\ statement.mnemonic \in Opcode
         /\ OperandsFit(Format(statement.mnemonic), statement.mnemonic, statement.operands)
<1> DEFINE operands == statement.operands
           format == Format(statement.mnemonic)
<1>1. statement.mnemonic \in Opcode /\ Len(operands) = operandCount(format)
  BY DEF checkInstruction
<1>2. format \in {"None", "Reg1", "Reg2", "RegImm", "Mem", "Jump", "SysImm"}
  BY <1>1, Formats
<1>3. ASSUME format = "RegImm"
      PROVE  /\ operands[2].type \in {"Immediate", "Symbol"}
             /\ operands[2].type = "Immediate" =>
                  fitsSigned(operands[2].immediate, ImmediateModulus)
  <2>1. checkRegImm(operands, line) = {}
    BY <1>1, <1>3 DEF checkInstruction
  <2>2. operands[1].type = "Register"
    BY <2>1 DEF checkRegImm, requireKind, When
  <2>3. isValueOperand(operands[2]) /\ checkSignedRange(operands[2], line) = {}
    BY <2>1, <2>2 DEF checkRegImm
  <2>4. QED
    BY <2>3 DEF isValueOperand, checkSignedRange, When
<1>4. ASSUME format = "Jump"
      PROVE  /\ operands[1].type \in {"Immediate", "Symbol"}
             /\ operands[1].type = "Immediate" =>
                  fitsSigned(operands[1].immediate, ImmediateModulus)
  <2>1. checkJump(operands[1], line) = {}
    BY <1>1, <1>4 DEF checkInstruction
  <2>2. isValueOperand(operands[1]) /\ checkSignedRange(operands[1], line) = {}
    BY <2>1 DEF checkJump
  <2>3. QED
    BY <2>2 DEF isValueOperand, checkSignedRange, When
<1>5. ASSUME format = "SysImm" PROVE ImmediateFits("SysImm", operands[1].immediate)
  <2>1. checkSysImm(operands[1], line) = {}
    BY <1>1, <1>5 DEF checkInstruction
  <2>2. QED
    BY <2>1 DEF checkSysImm, When
<1>6. QED
  BY <1>1, <1>3, <1>4, <1>5 DEF OperandsFit

\* An accepted instruction becomes one that can be encoded, but for the
\* displacement of a memory operand.
LEMMA LoweredMachine ==
  ASSUME NEW mnemonic \in Opcode, NEW operands \in Seq(SourceOperand),
         OperandsFit(Format(mnemonic), mnemonic, operands)
  PROVE  LET machine == lowerMachine(mnemonic, operands)
             symbol  == lowerSymbol(mnemonic, operands)
         IN  /\ machine \in MachineRecord /\ machine.opcode = mnemonic
             /\ symbol \in Reference \cup {NoSymbol}
             /\ symbol # NoSymbol => Format(mnemonic) \in {"RegImm", "Jump"} /\ machine.imm = 0
             /\ \/ EncodeError(machine) = "None"
                \/ /\ EncodeError(machine) = "ImmediateOutOfRange"
                   /\ mnemonic \in {"LOAD", "STORE"}
<1> DEFINE machine == lowerMachine(mnemonic, operands)
           symbol  == lowerSymbol(mnemonic, operands)
           format  == Format(mnemonic)
<1>1. format \in {"None", "Reg1", "Reg2", "RegImm", "Mem", "Jump", "SysImm"}
  BY Formats
<1>2. \A k \in 1 .. Len(operands) :
        /\ operands[k].reg \in 0 .. RegisterCount - 1 /\ operands[k].immediate \in Word
        /\ operands[k].symbol \in STRING
  <2>1. \A k \in 1 .. Len(operands) : operands[k] \in SourceOperand
    OBVIOUS
  <2>2. QED
    BY <2>1 DEF SourceOperand
<1>3. 0 \in Word /\ 0 \in 0 .. RegisterCount - 1 /\ fitsSigned(0, ImmediateModulus)
  BY Sizes DEF fitsSigned
<1>4. \A k \in 1 .. Len(operands) :
        /\ ValueOf(operands[k]) \in Word
        /\ SymbolOf(operands[k]) \in Reference \cup {NoSymbol}
        /\ SymbolOf(operands[k]) # NoSymbol => ValueOf(operands[k]) = 0
  BY <1>2, <1>3 DEF ValueOf, SymbolOf, SymbolRef, Reference
<1>5. Len(operands) = operandCount(format)
  BY DEF OperandsFit
<1>6. CASE format = "None"
  <2>1. machine = Machine(mnemonic, 0, 0, 0) /\ symbol = NoSymbol
    BY <1>6 DEF lowerMachine, lowerSymbol
  <2>2. QED
    BY <1>6, <2>1, <1>3 DEF Machine, MachineRecord, EncodeError, usesDst, usesSrc, usesImm
<1>7. CASE format = "Reg1"
  <2>1. machine = Machine(mnemonic, operands[1].reg, 0, 0) /\ symbol = NoSymbol
    BY <1>7 DEF lowerMachine, lowerSymbol
  <2>2. operands[1].reg \in 0 .. RegisterCount - 1
    BY <1>2, <1>5, <1>7 DEF operandCount
  <2>3. QED
    BY <1>7, <2>1, <2>2, <1>3 DEF Machine, MachineRecord, EncodeError, usesDst, usesSrc, usesImm
<1>8. CASE format = "Reg2"
  <2>1. machine = Machine(mnemonic, operands[1].reg, operands[2].reg, 0) /\ symbol = NoSymbol
    BY <1>8 DEF lowerMachine, lowerSymbol
  <2>2. operands[1].reg \in 0 .. RegisterCount - 1 /\ operands[2].reg \in 0 .. RegisterCount - 1
    BY <1>2, <1>5, <1>8 DEF operandCount
  <2>3. QED
    BY <1>8, <2>1, <2>2, <1>3 DEF Machine, MachineRecord, EncodeError, usesDst, usesSrc, usesImm
<1>9. CASE format = "RegImm"
  <2>1. /\ machine = Machine(mnemonic, operands[1].reg, 0, ValueOf(operands[2]))
        /\ symbol = SymbolOf(operands[2])
    BY <1>9 DEF lowerMachine, lowerSymbol
  <2>2. 1 \in 1 .. Len(operands) /\ 2 \in 1 .. Len(operands)
    BY <1>5, <1>9 DEF operandCount
  <2>3. fitsSigned(ValueOf(operands[2]), ImmediateModulus)
    BY <1>9, <1>3 DEF OperandsFit, ValueOf
  <2>4. QED
    BY <1>9, <2>1, <2>2, <2>3, <1>2, <1>3, <1>4
       DEF Machine, MachineRecord, EncodeError, usesDst, usesSrc, usesImm, ImmediateFits
<1>10. CASE format = "Mem"
  <2>1. 1 \in 1 .. Len(operands) /\ 2 \in 1 .. Len(operands)
    BY <1>5, <1>10 DEF operandCount
  <2>2. PICK a \in 1 .. Len(operands), b \in 1 .. Len(operands), c \in 1 .. Len(operands) :
          machine = Machine(mnemonic, operands[a].reg, operands[b].reg, operands[c].immediate)
    BY <1>10, <2>1 DEF lowerMachine, lowerMem, MemoryOperand, RegisterOperand
  <2>3. symbol = NoSymbol
    BY <1>10 DEF lowerSymbol
  <2>4. mnemonic \in {"LOAD", "STORE"}
    BY <1>10, Formats
  <2>5. QED
    BY <1>10, <2>2, <2>3, <2>4, <1>2, <1>3
       DEF Machine, MachineRecord, EncodeError, usesDst, usesSrc, usesImm, ImmediateFits
<1>11. CASE format = "Jump"
  <2>1. /\ machine = Machine(mnemonic, 0, 0, ValueOf(operands[1]))
        /\ symbol = SymbolOf(operands[1])
    BY <1>11 DEF lowerMachine, lowerSymbol
  <2>2. 1 \in 1 .. Len(operands)
    BY <1>5, <1>11 DEF operandCount
  <2>3. fitsSigned(ValueOf(operands[1]), ImmediateModulus)
    BY <1>11, <1>3 DEF OperandsFit, ValueOf
  <2>4. QED
    BY <1>11, <2>1, <2>2, <2>3, <1>2, <1>3, <1>4
       DEF Machine, MachineRecord, EncodeError, usesDst, usesSrc, usesImm, ImmediateFits
<1>12. CASE format = "SysImm"
  <2>1. machine = Machine(mnemonic, 0, 0, operands[1].immediate) /\ symbol = NoSymbol
    BY <1>12 DEF lowerMachine, lowerSymbol
  <2>2. 1 \in 1 .. Len(operands)
    BY <1>5, <1>12 DEF operandCount
  <2>3. ImmediateFits("SysImm", operands[1].immediate)
    BY <1>12 DEF OperandsFit
  <2>4. QED
    BY <1>12, <2>1, <2>2, <2>3, <1>2, <1>3
       DEF Machine, MachineRecord, EncodeError, usesDst, usesSrc, usesImm
<1>13. QED
  BY <1>1, <1>6, <1>7, <1>8, <1>9, <1>10, <1>11, <1>12, Zenon

\* The item of an accepted instruction.
LEMMA LoweredInstruction ==
  ASSUME NEW source, NEW line \in DOMAIN source, DOMAIN source \subseteq Nat,
         source[line] \in InstructionStatement,
         checkInstruction(source[line], line) = {}
  PROVE  LET item == [kind |-> "instruction", line |-> line,
                      machine |-> lowerMachine(source[line].mnemonic, source[line].operands),
                      symbol |-> lowerSymbol(source[line].mnemonic, source[line].operands)]
         IN  /\ item \in InstructionItem /\ Fits(source, item, "Text")
             /\ item.machine.opcode = source[line].mnemonic
<1> DEFINE mnemonic == source[line].mnemonic
           operands == source[line].operands
           machine  == lowerMachine(mnemonic, operands)
           symbol   == lowerSymbol(mnemonic, operands)
           item == [kind |-> "instruction", line |-> line, machine |-> machine,
                    symbol |-> symbol]
<1>1. /\ mnemonic \in Opcode /\ OperandsFit(Format(mnemonic), mnemonic, operands)
      /\ operands \in Seq(SourceOperand) /\ source[line].node = "instruction"
  BY InstructionsAccepted DEF InstructionStatement
<1>2. /\ machine \in MachineRecord /\ machine.opcode = mnemonic
      /\ symbol \in Reference \cup {NoSymbol}
      /\ symbol # NoSymbol => machine.imm = 0
      /\ \/ EncodeError(machine) = "None"
         \/ EncodeError(machine) = "ImmediateOutOfRange" /\ mnemonic \in {"LOAD", "STORE"}
  BY <1>1, LoweredMachine
<1>3. line \in Nat
  OBVIOUS
<1> HIDE DEF mnemonic, operands, machine, symbol
<1>4. item \in InstructionItem
  BY <1>2, <1>3 DEF InstructionItem
<1>5. Encoded(item) = machine
  BY <1>2 DEF Encoded, isSymbolic, MachineRecord
<1>6. Encodable(source, item)
  BY <1>2, <1>5 DEF Encodable, mnemonic
<1>7. Fits(source, item, "Text")
  BY <1>1, <1>6 DEF Fits
<1>8. QED
  BY <1>2, <1>4, <1>7 DEF mnemonic, operands, machine, symbol

-----------------------------------------------------------------------------
(***************************************************************************)
(* Lowering an accepted program.                                           *)
(***************************************************************************)
LowererRecord ==
  [current : SectionKind, sections : [SectionKind -> Seq(Item)], globals : Seq(STRING),
   externs : Seq(STRING), weaks : Seq(STRING),
   errors : SUBSET [line : Nat, code : {"InvalidSectionReference"}]]

\* Every item fits its line, and is the instruction that is written there.
ItemsFit(source, sections) ==
  \A kind \in SectionKind : \A i \in DOMAIN sections[kind] :
    Fits(source, sections[kind][i], kind)

Verbatim(source, sections) ==
  \A kind \in SectionKind : \A i \in DOMAIN sections[kind] :
    sections[kind][i].kind = "instruction" =>
      sections[kind][i].machine.opcode = source[sections[kind][i].line].mnemonic

\* No two labels have a name in common.
UniqueLabels(sections) ==
  \A a, b \in SectionKind : \A i \in DOMAIN sections[a], j \in DOMAIN sections[b] :
    /\ sections[a][i].kind = "label" /\ sections[b][j].kind = "label"
    /\ sections[a][i].name = sections[b][j].name
    => a = b /\ i = j

HasLabel(sections, name) ==
  \E kind \in SectionKind : \E i \in DOMAIN sections[kind] :
    sections[kind][i].kind = "label" /\ sections[kind][i].name = name

NoLaterLine(sections, n) ==
  \A kind \in SectionKind : \A i \in DOMAIN sections[kind] : sections[kind][i].line <= n

LabelsUpTo(source, sections, n) ==
  \A line \in 1 .. n : source[line].node = "label" => HasLabel(sections, source[line].name)

\* The lowering as it is after n lines.
LowererFits(source, l, n) ==
  /\ l \in LowererRecord
  /\ ItemsFit(source, l.sections)
  /\ Verbatim(source, l.sections)
  /\ UniqueLabels(l.sections)
  /\ NoLaterLine(l.sections, n)
  /\ LabelsUpTo(source, l.sections, n)

\* What the analysis accepts, statement by statement.
LEMMA StatementsAccepted ==
  ASSUME NEW source \in Seq(Statement), analyze(source) = {}, NEW line \in 1 .. Len(source)
  PROVE  /\ checkStatement(source, line) = {}
         /\ source[line] \in Statement /\ line \in DOMAIN source /\ line \in Nat
         /\ source[line].node = "label" => source[line] \in LabelStatement
         /\ source[line].node = "directive" => source[line] \in DirectiveStatement
         /\ source[line].node = "instruction" => source[line] \in InstructionStatement
         /\ source[line].node \in {"label", "directive", "instruction"}
<1>1. line \in DOMAIN source /\ source[line] \in Statement
  OBVIOUS
<1>2. checkStatement(source, line) = {}
  BY <1>1 DEF analyze
<1>3. QED
  BY <1>1, <1>2 DEF Statement, LabelStatement, DirectiveStatement, InstructionStatement

LEMMA Appended ==
  ASSUME NEW S, NEW s \in Seq(S), NEW e \in S
  PROVE  /\ Append(s, e) \in Seq(S) /\ Len(s) \in Nat /\ DOMAIN s = 1 .. Len(s)
         /\ Len(Append(s, e)) = Len(s) + 1 /\ DOMAIN Append(s, e) = 1 .. Len(s) + 1
         /\ \A i \in 1 .. Len(s) : Append(s, e)[i] = s[i]
         /\ Append(s, e)[Len(s) + 1] = e
  OBVIOUS

\* The sections with an item appended to one of them.
LEMMA EmitFacts ==
  ASSUME NEW l \in LowererRecord, NEW item \in Item
  PROVE  /\ Emit(l, item) \in LowererRecord
         /\ Emit(l, item).current = l.current /\ Emit(l, item).errors = l.errors
         /\ \A kind \in SectionKind :
              /\ l.sections[kind] \in Seq(Item)
              /\ Emit(l, item).sections[kind] =
                   IF kind = l.current THEN Append(l.sections[kind], item)
                   ELSE l.sections[kind]
<1>1. /\ l.current \in SectionKind /\ l.sections \in [SectionKind -> Seq(Item)]
      /\ \A kind \in SectionKind : l.sections[kind] \in Seq(Item)
  BY DEF LowererRecord
<1>2. Append(l.sections[l.current], item) \in Seq(Item)
  BY <1>1
<1>3. QED
  BY <1>1, <1>2 DEF Emit, LowererRecord

\* An item of this line or an earlier one that is no label.
LEMMA EmitsItem ==
  ASSUME NEW source, NEW n \in Nat, NEW l, LowererFits(source, l, n),
         NEW item \in Item, Fits(source, item, l.current), item.line <= n,
         item.kind # "label",
         item.kind = "instruction" => item.machine.opcode = source[item.line].mnemonic
  PROVE  /\ LowererFits(source, Emit(l, item), n)
         /\ Emit(l, item).current = l.current
         /\ Len(Emit(l, item).sections[l.current]) = Len(l.sections[l.current]) + 1
         /\ Emit(l, item).sections[l.current][Len(l.sections[l.current]) + 1] = item
<1> DEFINE old == l.sections
           new == Emit(l, item).sections
           c   == l.current
<1>1. /\ Emit(l, item) \in LowererRecord /\ Emit(l, item).current = c
      /\ \A kind \in SectionKind :
           /\ old[kind] \in Seq(Item)
           /\ new[kind] = IF kind = c THEN Append(old[kind], item) ELSE old[kind]
      /\ c \in SectionKind
  BY EmitFacts DEF LowererFits, LowererRecord
<1>2. /\ \A kind \in SectionKind : DOMAIN old[kind] = 1 .. Len(old[kind]) /\ Len(old[kind]) \in Nat
      /\ \A kind \in SectionKind \ {c} : new[kind] = old[kind]
      /\ Len(new[c]) = Len(old[c]) + 1
      /\ DOMAIN new[c] = 1 .. Len(old[c]) + 1
      /\ \A i \in 1 .. Len(old[c]) : new[c][i] = old[c][i]
      /\ new[c][Len(old[c]) + 1] = item
  <2>1. new[c] = Append(old[c], item) /\ old[c] \in Seq(Item)
    BY <1>1
  <2>2. \A kind \in SectionKind : DOMAIN old[kind] = 1 .. Len(old[kind]) /\ Len(old[kind]) \in Nat
    BY <1>1
  <2>3. \A kind \in SectionKind \ {c} : new[kind] = old[kind]
    BY <1>1
  <2> HIDE DEF old, new, c
  <2>4. QED
    BY <2>1, <2>2, <2>3, Appended
<1> HIDE DEF old, new, c
<1>3. \A kind \in SectionKind : \A i \in DOMAIN new[kind] :
        \/ i \in DOMAIN old[kind] /\ new[kind][i] = old[kind][i]
        \/ kind = c /\ i \notin DOMAIN old[kind] /\ new[kind][i] = item
  BY <1>1, <1>2
<1>4. \A kind \in SectionKind : \A i \in DOMAIN old[kind] :
        i \in DOMAIN new[kind] /\ new[kind][i] = old[kind][i]
  BY <1>1, <1>2
<1>5. /\ ItemsFit(source, old) /\ Verbatim(source, old) /\ UniqueLabels(old)
      /\ NoLaterLine(old, n) /\ LabelsUpTo(source, old, n)
  BY DEF LowererFits, old
<1>6. ItemsFit(source, new)
  BY <1>3, <1>5 DEF ItemsFit, c
<1>7. Verbatim(source, new)
  BY <1>3, <1>5 DEF Verbatim
<1>8. UniqueLabels(new)
  BY <1>3, <1>5 DEF UniqueLabels
<1>9. NoLaterLine(new, n)
  BY <1>3, <1>5 DEF NoLaterLine
<1>10. LabelsUpTo(source, new, n)
  <2>1. \A name : HasLabel(old, name) => HasLabel(new, name)
    BY <1>4 DEF HasLabel
  <2>2. QED
    BY <2>1, <1>5 DEF LabelsUpTo
<1>11. QED
  BY <1>1, <1>2, <1>6, <1>7, <1>8, <1>9, <1>10 DEF LowererFits, old, new, c

\* A label of the next line, which no earlier line has.
LEMMA EmitsLabel ==
  ASSUME NEW source \in Seq(Statement), analyze(source) = {}, NEW n \in 1 .. Len(source),
         NEW l, LowererFits(source, l, n - 1), source[n].node = "label"
  PROVE  LowererFits(source, lowerStatement(l, source, n), n)
<1> DEFINE item == [kind |-> "label", line |-> n, name |-> source[n].name]
           old == l.sections
           new == Emit(l, item).sections
           c   == l.current
<1>1. /\ checkStatement(source, n) = {} /\ source[n] \in LabelStatement /\ n \in DOMAIN source
      /\ n \in Nat
  BY StatementsAccepted
<1>2. item \in Item /\ item.kind = "label" /\ item.line = n /\ item.name = source[n].name
  BY <1>1 DEF Item, LabelItem, LabelStatement
<1>3. Fits(source, item, c)
  BY <1>1, <1>2 DEF Fits
<1>4. \A earlier \in 1 .. n - 1 :
        source[earlier].node = "label" => source[earlier].name # source[n].name
  BY <1>1 DEF checkStatement, checkLabel, When
<1>5. lowerStatement(l, source, n) = Emit(l, item)
  BY DEF lowerStatement
<1> HIDE DEF item
<1>6. /\ Emit(l, item) \in LowererRecord /\ Emit(l, item).current = c
      /\ \A kind \in SectionKind :
           /\ old[kind] \in Seq(Item)
           /\ new[kind] = IF kind = c THEN Append(old[kind], item) ELSE old[kind]
      /\ c \in SectionKind
  BY <1>2, EmitFacts DEF LowererFits, LowererRecord
<1>7. /\ \A kind \in SectionKind : DOMAIN old[kind] = 1 .. Len(old[kind]) /\ Len(old[kind]) \in Nat
      /\ \A kind \in SectionKind \ {c} : new[kind] = old[kind]
      /\ DOMAIN new[c] = 1 .. Len(old[c]) + 1
      /\ \A i \in 1 .. Len(old[c]) : new[c][i] = old[c][i]
      /\ new[c][Len(old[c]) + 1] = item
  <2>1. new[c] = Append(old[c], item) /\ old[c] \in Seq(Item)
    BY <1>6
  <2>2. \A kind \in SectionKind : DOMAIN old[kind] = 1 .. Len(old[kind]) /\ Len(old[kind]) \in Nat
    BY <1>6
  <2>3. \A kind \in SectionKind \ {c} : new[kind] = old[kind]
    BY <1>6
  <2> HIDE DEF old, new, c
  <2>4. QED
    BY <2>1, <2>2, <2>3, <1>2, Appended
<1>8. \A kind \in SectionKind : \A i \in DOMAIN old[kind] : old[kind][i] \in Item
  BY <1>6
<1> HIDE DEF old, new, c
<1>9. \A kind \in SectionKind : \A i \in DOMAIN new[kind] :
        \/ i \in DOMAIN old[kind] /\ new[kind][i] = old[kind][i]
        \/ kind = c /\ i = Len(old[c]) + 1 /\ new[kind][i] = item
  BY <1>6, <1>7
<1>10. \A kind \in SectionKind : \A i \in DOMAIN old[kind] :
        i \in DOMAIN new[kind] /\ new[kind][i] = old[kind][i]
  BY <1>6, <1>7
<1>11. /\ ItemsFit(source, old) /\ Verbatim(source, old) /\ UniqueLabels(old)
       /\ NoLaterLine(old, n - 1) /\ LabelsUpTo(source, old, n - 1)
  BY DEF LowererFits, old
<1>12. ItemsFit(source, new)
  BY <1>3, <1>9, <1>11 DEF ItemsFit
<1>13. Verbatim(source, new)
  BY <1>2, <1>9, <1>11 DEF Verbatim
<1>14. \A kind \in SectionKind : \A i \in DOMAIN old[kind] :
         old[kind][i].kind = "label" => old[kind][i].name # item.name
  <2>1. SUFFICES ASSUME NEW kind \in SectionKind, NEW i \in DOMAIN old[kind],
                        old[kind][i].kind = "label"
                 PROVE  old[kind][i].name # item.name
    OBVIOUS
  <2>2. /\ old[kind][i].line \in DOMAIN source /\ old[kind][i].line <= n - 1
        /\ source[old[kind][i].line].node = "label"
        /\ old[kind][i].name = source[old[kind][i].line].name
    BY <2>1, <1>11 DEF ItemsFit, Fits, NoLaterLine
  <2>3. old[kind][i].line \in 1 .. n - 1
    BY <2>2
  <2>4. QED
    BY <2>2, <2>3, <1>2, <1>4
<1>15. UniqueLabels(new)
  BY <1>9, <1>11, <1>14 DEF UniqueLabels
<1>16. NoLaterLine(new, n)
  <2>1. \A kind \in SectionKind : \A i \in DOMAIN old[kind] : old[kind][i].line <= n
    BY <1>8, <1>11, ItemKinds DEF NoLaterLine
  <2>2. QED
    BY <1>2, <1>9, <2>1 DEF NoLaterLine
<1>17. LabelsUpTo(source, new, n)
  <2>1. \A name : HasLabel(old, name) => HasLabel(new, name)
    BY <1>10 DEF HasLabel
  <2>2. HasLabel(new, source[n].name)
    <3>1. Len(old[c]) + 1 \in DOMAIN new[c]
      BY <1>6, <1>7
    <3>2. QED
      BY <3>1, <1>2, <1>6, <1>7 DEF HasLabel
  <2>3. QED
    BY <2>1, <2>2, <1>11 DEF LabelsUpTo
<1>18. QED
  BY <1>5, <1>6, <1>12, <1>13, <1>15, <1>16, <1>17 DEF LowererFits, new, c

\* A line without a label adds none.
LEMMA NextLine ==
  ASSUME NEW source, NEW n \in Nat \ {0}, NEW l, LowererFits(source, l, n - 1),
         source[n].node # "label"
  PROVE  LowererFits(source, l, n)
<1>1. \A kind \in SectionKind : \A i \in DOMAIN l.sections[kind] : l.sections[kind][i].line \in Nat
  <2>1. \A kind \in SectionKind : l.sections[kind] \in Seq(Item)
    BY DEF LowererFits, LowererRecord
  <2>2. \A kind \in SectionKind : \A i \in DOMAIN l.sections[kind] : l.sections[kind][i] \in Item
    BY <2>1
  <2>3. QED
    BY <2>2, ItemKinds
<1>2. NoLaterLine(l.sections, n)
  BY <1>1 DEF LowererFits, NoLaterLine
<1>3. LabelsUpTo(source, l.sections, n)
  BY DEF LowererFits, LabelsUpTo
<1>4. QED
  BY <1>2, <1>3 DEF LowererFits

LEMMA Reports ==
  ASSUME NEW source, NEW n \in Nat, NEW l, LowererFits(source, l, n)
  PROVE  LowererFits(source, Report(l, n, "InvalidSectionReference"), n)
<1> DEFINE m == Report(l, n, "InvalidSectionReference")
<1> DEFINE e == [line |-> n, code |-> "InvalidSectionReference"]
<1>1. m \in LowererRecord /\ m.sections = l.sections
  <2>1. l \in LowererRecord
    BY DEF LowererFits
  <2>2. e \in [line : Nat, code : {"InvalidSectionReference"}]
    OBVIOUS
  <2>3. m = [l EXCEPT !.errors = l.errors \cup {e}]
    BY <2>1 DEF Report, Error, LowererRecord
  <2> HIDE DEF e, m
  <2>4. l.errors \cup {e} \in SUBSET [line : Nat, code : {"InvalidSectionReference"}]
    BY <2>1, <2>2 DEF LowererRecord
  <2>5. QED
    BY <2>1, <2>3, <2>4 DEF LowererRecord
<1>2. QED
  BY <1>1 DEF LowererFits

LEMMA ByteFacts ==
  ASSUME NEW value \in Word, NEW width \in {1, 2, 4, 8}
  PROVE  /\ LowBytes(value, width) \in Seq(Byte) /\ value % ByteModulus \in Byte
         /\ ZeroByte \in Byte
<1>1. value \in Nat /\ ByteModulus \in Nat \ {0} /\ Byte = 0 .. ByteModulus - 1 /\ ZeroByte = 0
  BY FrontEndAssumption, Sizes
<1>2. \A k \in 1 .. width : ByteModulus ^ (k - 1) \in Nat \ {0}
  <2>1. \A k \in 1 .. width : k - 1 \in 0 .. WordSize
    BY Sizes
  <2>2. QED
    BY <2>1, FrontEndAssumption
<1>3. \A x \in Nat \ {0} : (value \div x) % ByteModulus \in Byte
  BY <1>1
<1>4. LowBytes(value, width) \in [1 .. width -> Byte]
  BY <1>2, <1>3 DEF LowBytes
<1>5. QED
  BY <1>1, <1>4

EndsInBytes(l) ==
  /\ Len(l.sections[l.current]) >= 1
  /\ l.sections[l.current][Len(l.sections[l.current])].kind = "bytes"

\* A literal goes on with the run of bytes at the end of the section.
LEMMA ExtendsRun ==
  ASSUME NEW source, NEW n \in Nat, NEW l, LowererFits(source, l, n),
         l.current # "Bss", EndsInBytes(l), NEW bytes \in Seq(Byte)
  PROVE  LET m == [l EXCEPT !.sections[l.current][Len(l.sections[l.current])].data = @ \o bytes]
         IN  LowererFits(source, m, n) /\ m.current = l.current /\ EndsInBytes(m)
<1> DEFINE c == l.current
           old == l.sections
           last == Len(old[c])
           item == old[c][last]
           longer == [item EXCEPT !.data = item.data \o bytes]
           m == [l EXCEPT !.sections[c][last].data = @ \o bytes]
           new == m.sections
<1>1. /\ l \in LowererRecord /\ c \in SectionKind /\ old \in [SectionKind -> Seq(Item)]
      /\ old[c] \in Seq(Item) /\ last \in DOMAIN old[c] /\ item.kind = "bytes"
  BY DEF LowererFits, LowererRecord, EndsInBytes
<1>2. item \in BytesItem
  <2>1. item \in Item
    BY <1>1
  <2>2. QED
    BY <1>1, <2>1, ItemKinds
<1>3. /\ longer \in BytesItem /\ longer.kind = "bytes" /\ longer.line = item.line
      /\ longer \in Item
  <2>1. item.data \o bytes \in Seq(Byte)
    BY <1>2 DEF BytesItem
  <2>2. QED
    BY <1>2, <2>1 DEF BytesItem, Item
<1>4. /\ m = [l EXCEPT !.sections = [old EXCEPT ![c] = [old[c] EXCEPT ![last] = longer]]]
  BY <1>1
<1>5. [old[c] EXCEPT ![last] = longer] \in Seq(Item)
  BY <1>1, <1>3
<1>6. /\ m \in LowererRecord /\ m.current = c
      /\ new = [old EXCEPT ![c] = [old[c] EXCEPT ![last] = longer]]
  BY <1>1, <1>4, <1>5 DEF LowererRecord
<1>7. /\ \A kind \in SectionKind : DOMAIN new[kind] = DOMAIN old[kind]
      /\ \A kind \in SectionKind : \A i \in DOMAIN old[kind] :
           \/ new[kind][i] = old[kind][i]
           \/ /\ kind = c /\ i = last /\ old[kind][i] = item /\ new[kind][i] = longer
      /\ new[c][last] = longer /\ Len(new[c]) = last
  <2>1. \A kind \in SectionKind : kind # c => new[kind] = old[kind]
    BY <1>1, <1>6
  <2>2. new[c] = [old[c] EXCEPT ![last] = longer]
    BY <1>1, <1>6
  <2> HIDE DEF c, old, last, item, longer, m, new
  <2>3. old[c] \in Seq(Item) /\ last \in DOMAIN old[c] /\ item = old[c][last] /\ last = Len(old[c])
    BY <1>1 DEF item, last
  <2>4. /\ DOMAIN new[c] = DOMAIN old[c] /\ Len(new[c]) = last /\ new[c][last] = longer
        /\ \A i \in DOMAIN old[c] : i # last => new[c][i] = old[c][i]
    BY <2>2, <2>3
  <2>5. QED
    BY <2>1, <2>3, <2>4
<1>8. LowererFits(source, l, n)
  OBVIOUS
<1> HIDE DEF c, old, last, item, longer, m, new
<1>9. ItemsFit(source, new)
  BY <1>1, <1>3, <1>7, <1>8 DEF ItemsFit, Fits, LowererFits, old, c
<1>10. Verbatim(source, new)
  BY <1>3, <1>7, <1>8 DEF Verbatim, LowererFits, old
<1>11. UniqueLabels(new)
  BY <1>3, <1>7, <1>8 DEF UniqueLabels, LowererFits, old
<1>12. NoLaterLine(new, n)
  BY <1>3, <1>7, <1>8 DEF NoLaterLine, LowererFits, old
<1>13. LabelsUpTo(source, new, n)
  <2>1. \A name : HasLabel(old, name) => HasLabel(new, name)
    BY <1>1, <1>7 DEF HasLabel
  <2>2. QED
    BY <2>1, <1>8 DEF LabelsUpTo, LowererFits, old
<1>14. LowererFits(source, m, n)
  BY <1>6, <1>9, <1>10, <1>11, <1>12, <1>13 DEF LowererFits, new
<1>15. EndsInBytes(m)
  <2>1. last >= 1
    BY DEF EndsInBytes, last, old, c
  <2>2. QED
    BY <1>3, <1>6, <1>7, <2>1 DEF EndsInBytes, new
<1>16. QED
  BY <1>6, <1>14, <1>15 DEF m, c, last, old

\* One value of a data directive.
LEMMA LowerValue ==
  ASSUME NEW source, NEW n \in Nat, n \in DOMAIN source, NEW l, LowererFits(source, l, n),
         l.current # "Bss", NEW operand \in SourceOperand, NEW width \in {1, 2, 4, 8},
         operand.type = "Symbol" => width \in {4, 8},
         NEW startsRun \in BOOLEAN, ~startsRun => EndsInBytes(l)
  PROVE  LET m == lowerValue(l, operand, width, n, startsRun) IN
         /\ LowererFits(source, m, n) /\ m.current = l.current
         /\ operand.type # "Symbol" => EndsInBytes(m)
<1> DEFINE m == lowerValue(l, operand, width, n, startsRun)
           value == [kind |-> "value", line |-> n, width |-> width,
                     symbol |-> SymbolRef(operand)]
           bytes == LowBytes(operand.immediate, width)
           run == [kind |-> "bytes", line |-> n, data |-> bytes]
<1>1. operand.immediate \in Word /\ operand.symbol \in STRING
  BY DEF SourceOperand
<1>2. bytes \in Seq(Byte)
  BY <1>1, ByteFacts
<1> HIDE DEF bytes
<1>3. CASE operand.type = "Symbol"
  <2>1. m = Emit(l, value)
    BY <1>3 DEF lowerValue
  <2>2. value \in Item /\ value.kind = "value" /\ value.line = n
    BY <1>1, <1>3 DEF Item, ValueItem, SymbolRef, Reference
  <2>3. Fits(source, value, l.current)
    BY <2>2 DEF Fits
  <2> HIDE DEF value, m
  <2>4. LowererFits(source, m, n) /\ m.current = l.current
    BY <2>1, <2>2, <2>3, EmitsItem
  <2>5. QED
    BY <1>3, <2>4 DEF m
<1>4. CASE operand.type # "Symbol" /\ startsRun
  <2>1. m = Emit(l, run)
    BY <1>4 DEF lowerValue, bytes
  <2>2. run \in Item /\ run.kind = "bytes" /\ run.line = n
    BY <1>2 DEF Item, BytesItem
  <2>3. Fits(source, run, l.current)
    BY <2>2 DEF Fits
  <2> HIDE DEF run, m
  <2>4. /\ LowererFits(source, m, n) /\ m.current = l.current
        /\ Len(m.sections[l.current]) = Len(l.sections[l.current]) + 1
        /\ m.sections[l.current][Len(l.sections[l.current]) + 1] = run
    BY <2>1, <2>2, <2>3, EmitsItem
  <2>5. Len(l.sections[l.current]) \in Nat
    BY DEF LowererFits, LowererRecord
  <2>6. EndsInBytes(m)
    BY <2>2, <2>4, <2>5 DEF EndsInBytes
  <2>7. QED
    BY <2>4, <2>6 DEF m
<1>5. CASE operand.type # "Symbol" /\ ~startsRun
  <2>1. m = [l EXCEPT !.sections[l.current][Len(l.sections[l.current])].data = @ \o bytes]
    BY <1>5 DEF lowerValue, bytes
  <2>2. EndsInBytes(l)
    BY <1>5
  <2> DEFINE longer == [l EXCEPT !.sections[l.current][Len(l.sections[l.current])].data
                                   = @ \o bytes]
  <2>3. LowererFits(source, longer, n) /\ longer.current = l.current /\ EndsInBytes(longer)
    BY <2>2, <1>2, ExtendsRun
  <2>4. m = longer
    BY <2>1
  <2> HIDE DEF longer, m
  <2>5. QED
    BY <2>3, <2>4 DEF m
<1>6. QED
  BY <1>3, <1>4, <1>5

\* A data directive.
LEMMA LowersData ==
  ASSUME NEW source, NEW n \in Nat, n \in DOMAIN source, NEW l, LowererFits(source, l, n),
         l.current # "Bss", NEW statement \in DirectiveStatement,
         statement.type \in DataDirective,
         \A k \in DOMAIN statement.operands :
           checkData(statement.operands[k], dataDirectiveWidth(statement.type), n) = {}
  PROVE  LowererFits(source, lowerData(l, statement, n), n)
<1> DEFINE operands == statement.operands
           width == dataDirectiveWidth(statement.type)
           L == LoweringData(l, statement, n)
           startsRun(k) == k = 1 \/ operands[k - 1].type = "Symbol"
           Good(k) == /\ LowererFits(source, L[k], n) /\ L[k].current = l.current
                      /\ k >= 1 /\ operands[k].type # "Symbol" => EndsInBytes(L[k])
           S == {k \in 0 .. Len(operands) : Good(k)}
<1>1. /\ operands \in Seq(SourceOperand) /\ Len(operands) \in Nat
      /\ DOMAIN operands = 1 .. Len(operands)
  BY DEF DirectiveStatement
<1>2. width \in {1, 2, 4, 8}
  BY DEF dataDirectiveWidth, DataDirective
<1>3. \A k \in 1 .. Len(operands) :
        /\ operands[k] \in SourceOperand
        /\ operands[k].type = "Symbol" => width \in {4, 8}
  <2>1. \A k \in 1 .. Len(operands) : checkData(operands[k], width, n) = {}
    BY <1>1
  <2>2. \A k \in 1 .. Len(operands) : operands[k] \in SourceOperand
    BY <1>1
  <2> HIDE DEF operands, width
  <2>3. QED
    BY <2>1, <2>2 DEF checkData, When, isValueOperand
<1>4. /\ L[0] = l
      /\ \A k \in 1 .. Len(operands) :
           L[k] = lowerValue(L[k - 1], operands[k], width, n, startsRun(k))
  BY <1>1, LoweringDataSteps
<1> HIDE DEF operands, width, L
<1>5. 0 \in S
  BY <1>1, <1>4
<1>6. ASSUME NEW k \in 0 .. Len(operands) - 1, Good(k) PROVE Good(k + 1)
  <2>1. k + 1 \in 1 .. Len(operands) /\ (k + 1) - 1 = k /\ startsRun(k + 1) \in BOOLEAN
    BY <1>1
  <2>2. /\ operands[k + 1] \in SourceOperand
        /\ operands[k + 1].type = "Symbol" => width \in {4, 8}
        /\ L[k + 1] = lowerValue(L[k], operands[k + 1], width, n, startsRun(k + 1))
    BY <2>1, <1>3, <1>4
  <2>3. ~startsRun(k + 1) => EndsInBytes(L[k])
    BY <1>6, <2>1
  <2>4. LowererFits(source, L[k], n) /\ L[k].current = l.current /\ L[k].current # "Bss"
    BY <1>6
  <2> HIDE DEF startsRun
  <2>5. /\ LowererFits(source, L[k + 1], n) /\ L[k + 1].current = l.current
        /\ operands[k + 1].type # "Symbol" => EndsInBytes(L[k + 1])
    BY <2>1, <2>2, <2>3, <2>4, <1>2, LowerValue
  <2>6. QED
    BY <2>5
<1>7. \A k \in 0 .. Len(operands) : k \in S
  <2>1. \A k \in 0 .. Len(operands) - 1 : k \in S => k + 1 \in S
    BY <1>1, <1>6
  <2> HIDE DEF S
  <2>2. QED
    <3>1. 0 \in Int /\ Len(operands) \in Int
      BY <1>1
    <3>2. QED
      BY <1>5, <2>1, <3>1, Induction, Zenon
<1>8. QED
  BY <1>1, <1>7 DEF lowerData, L, operands

\* A directive the analysis accepts.
LEMMA LowersDirective ==
  ASSUME NEW source \in Seq(Statement), analyze(source) = {}, NEW n \in 1 .. Len(source),
         NEW l, LowererFits(source, l, n), source[n].node = "directive"
  PROVE  LowererFits(source, lowerDirective(l, source[n], n), n)
<1> DEFINE statement == source[n]
           operands == statement.operands
           type == statement.type
           m == lowerDirective(l, statement, n)
           refused == Report(l, n, "InvalidSectionReference")
<1>1. /\ checkStatement(source, n) = {} /\ statement \in DirectiveStatement
      /\ n \in DOMAIN source /\ n \in Nat
  BY StatementsAccepted
<1>2. /\ checkDirective(statement, n) = {} /\ operands \in Seq(SourceOperand)
      /\ type \in {"Section", "Asciz", "Align", "Space", "Byte", "Word", "Dword", "Qword",
                   "Global", "Extern", "Weak"}
  BY <1>1 DEF checkStatement, DirectiveStatement, DataDirective, Binding
<1> SUFFICES LowererFits(source, m, n)
  OBVIOUS
<1> HIDE DEF statement
<1>3. Len(operands) \in OperandsAllowed(type)
  BY <1>2 DEF checkDirective
<1>4. Len(operands) >= 1 /\ Len(operands) \in Nat /\ operands # <<>>
  BY <1>2, <1>3 DEF OperandsAllowed
<1>5. 1 \in DOMAIN operands /\ operands[1] \in SourceOperand
  BY <1>2, <1>4
<1>6. LowererFits(source, refused, n)
  BY <1>1, Reports
<1>7. l \in LowererRecord /\ l.current \in SectionKind
  BY DEF LowererFits, LowererRecord
<1> HIDE DEF refused
<1>8. CASE type = "Section"
  <2>1. m = refused \/ m = [l EXCEPT !.current = sectionKindFromName(operands[1].symbol)]
    BY <1>4, <1>8 DEF lowerDirective, refused, DataDirective, Binding
  <2>2. m = refused \/ sectionKindFromName(operands[1].symbol) # NoKind
    BY <1>4, <1>8 DEF lowerDirective, refused, DataDirective, Binding
  <2>3. sectionKindFromName(operands[1].symbol) \in SectionKind \cup {NoKind}
    BY DEF sectionKindFromName, SectionKind
  <2> DEFINE kind == sectionKindFromName(operands[1].symbol)
             moved == [l EXCEPT !.current = kind]
  <2> HIDE DEF kind
  <2>4. ASSUME kind \in SectionKind PROVE moved \in LowererRecord /\ moved.sections = l.sections
    BY <1>7, <2>4 DEF LowererRecord
  <2>5. ASSUME kind \in SectionKind PROVE LowererFits(source, moved, n)
    <3> HIDE DEF moved
    <3>1. QED
      BY <2>4, <2>5 DEF LowererFits
  <2>6. QED
    <3> HIDE DEF m, moved
    <3>1. QED
      BY <1>6, <2>1, <2>2, <2>3, <2>5 DEF kind, moved
<1>9. CASE type \in Binding
  <2> DEFINE listed == Names(operands)
  <2>1. listed \in Seq(STRING)
    <3>1. \A k \in 1 .. Len(operands) : operands[k].symbol \in STRING
      <4>1. \A k \in 1 .. Len(operands) : operands[k] \in SourceOperand
        BY <1>2
      <4>2. QED
        BY <4>1 DEF SourceOperand
    <3>2. DOMAIN operands = 1 .. Len(operands)
      BY <1>2
    <3>3. listed \in [1 .. Len(operands) -> STRING]
      BY <3>1, <3>2 DEF Names
    <3>4. QED
      BY <1>4, <3>3
  <2>2. \/ m = [l EXCEPT !.globals = l.globals \o listed]
        \/ m = [l EXCEPT !.externs = l.externs \o listed]
        \/ m = [l EXCEPT !.weaks = l.weaks \o listed]
    BY <1>4, <1>7, <1>9 DEF lowerDirective, Binding, DataDirective, LowererRecord
  <2> HIDE DEF listed, m
  <2>3. /\ l.globals \o listed \in Seq(STRING) /\ l.externs \o listed \in Seq(STRING)
        /\ l.weaks \o listed \in Seq(STRING)
    BY <1>7, <2>1 DEF LowererRecord
  <2>4. m \in LowererRecord /\ m.sections = l.sections
    BY <1>7, <2>2, <2>3 DEF LowererRecord
  <2>5. LowererFits(source, m, n)
    BY <2>4 DEF LowererFits
  <2>6. QED
    BY <2>5
<1>10. CASE type \in DataDirective
  <2>1. m = refused \/ (l.current # "Bss" /\ m = lowerData(l, statement, n))
    BY <1>4, <1>10 DEF lowerDirective, DataDirective, Binding, InitialisableSection, refused
  <2>2. \A k \in DOMAIN operands : checkData(operands[k], dataDirectiveWidth(type), n) = {}
    <3>1. UNION {checkData(operands[k], dataDirectiveWidth(type), n) : k \in DOMAIN operands} = {}
      BY <1>2, <1>3, <1>10 DEF checkDirective, DataDirective, Binding
    <3> HIDE DEF operands, type
    <3>2. QED
      BY <3>1
  <2> HIDE DEF m
  <2>3. QED
    BY <2>1, <2>2, <1>1, <1>6, <1>10, LowersData
<1>11. CASE type = "Asciz"
  <2> DEFINE bytes == operands[1].text \o <<ZeroByte>>
             item == [kind |-> "bytes", line |-> n, data |-> bytes]
  <2>1. m = refused \/ (l.current # "Bss" /\ m = Emit(l, item))
    BY <1>4, <1>11 DEF lowerDirective, DataDirective, Binding, InitialisableSection, refused
  <2>2. bytes \in Seq(Byte)
    <3>1. operands[1].text \in Seq(Byte)
      BY <1>5 DEF SourceOperand
    <3>2. ZeroByte \in Byte
      BY FrontEndAssumption
    <3>3. QED
      BY <3>1, <3>2
  <2> HIDE DEF bytes
  <2>3. item \in Item /\ item.kind = "bytes" /\ item.line = n
    BY <1>1, <2>2 DEF Item, BytesItem
  <2>4. l.current # "Bss" => Fits(source, item, l.current)
    BY <1>1, <2>3 DEF Fits
  <2> HIDE DEF item, m
  <2>5. QED
    BY <2>1, <2>3, <2>4, <1>1, <1>6, EmitsItem
<1>12. CASE type = "Align"
  <2> DEFINE alignment == operands[1].immediate
             item == [kind |-> "align", line |-> n, alignment |-> alignment]
  <2>1. m = Emit(l, item)
    BY <1>4, <1>12 DEF lowerDirective, DataDirective, Binding
  <2>2. alignment \in Word /\ alignment # 0 /\ PowerOfTwo(alignment)
    BY <1>2, <1>3, <1>5, <1>12 DEF SourceOperand, checkDirective, DataDirective, Binding, When
  <2> HIDE DEF alignment
  <2>3. item \in Item /\ item.kind = "align" /\ item.line = n
    BY <1>1, <2>2 DEF Item, AlignItem
  <2>4. Fits(source, item, l.current)
    BY <1>1, <2>3 DEF Fits
  <2> HIDE DEF item, m
  <2>5. QED
    BY <2>1, <2>3, <2>4, <1>1, EmitsItem
<1>13. CASE type = "Space"
  <2> DEFINE fill == IF Len(operands) > 1 THEN operands[2].immediate % ByteModulus ELSE 0
             size == operands[1].immediate
             item == [kind |-> "space", line |-> n, fill |-> fill, size |-> size]
  <2>1. m = refused \/ ((fill # 0 => l.current # "Bss") /\ m = Emit(l, item))
    BY <1>4, <1>13 DEF lowerDirective, DataDirective, Binding, lowerSpace,
                       InitialisableSection, refused
  <2>2. size \in Word
    BY <1>5 DEF SourceOperand
  <2>3. fill \in Byte
    <3>1. ASSUME Len(operands) > 1 PROVE operands[2].immediate \in Word
      <4>1. operands[2] \in SourceOperand
        BY <1>2, <3>1
      <4>2. QED
        BY <4>1 DEF SourceOperand
    <3>2. ASSUME Len(operands) > 1 PROVE operands[2].immediate % ByteModulus \in Byte
      BY <3>1, <3>2, ByteFacts
    <3>3. 0 \in Byte
      BY FrontEndAssumption
    <3>4. QED
      BY <3>2, <3>3
  <2> HIDE DEF fill, size
  <2>4. item \in Item /\ item.kind = "space" /\ item.line = n /\ item.fill = fill
    BY <1>1, <2>2, <2>3 DEF Item, SpaceItem
  <2>5. (fill # 0 => l.current # "Bss") => Fits(source, item, l.current)
    BY <1>1, <2>4, FrontEndAssumption DEF Fits
  <2> HIDE DEF item, m
  <2>6. QED
    BY <2>1, <2>4, <2>5, <1>1, <1>6, EmitsItem
<1>14. QED
  BY <1>2, <1>8, <1>9, <1>10, <1>11, <1>12, <1>13
     DEF Binding, DataDirective

\* An instruction the analysis accepts.
LEMMA LowersInstruction ==
  ASSUME NEW source \in Seq(Statement), analyze(source) = {}, NEW n \in 1 .. Len(source),
         NEW l, LowererFits(source, l, n), source[n].node = "instruction"
  PROVE  LowererFits(source, lowerInstruction(l, source[n], n), n)
<1> DEFINE statement == source[n]
           mnemonic == statement.mnemonic
           operands == statement.operands
           item == [kind |-> "instruction", line |-> n,
                    machine |-> lowerMachine(mnemonic, operands),
                    symbol |-> lowerSymbol(mnemonic, operands)]
           m == lowerInstruction(l, statement, n)
           refused == Report(l, n, "InvalidSectionReference")
<1>1. /\ checkStatement(source, n) = {} /\ statement \in InstructionStatement
      /\ n \in DOMAIN source /\ n \in Nat
  BY StatementsAccepted
<1>2. checkInstruction(statement, n) = {}
  BY <1>1 DEF checkStatement
<1>3. mnemonic \in Opcode /\ Len(operands) = operandCount(Format(mnemonic))
  BY <1>1, <1>2, InstructionsAccepted DEF OperandsFit
<1>4. operandCount(Format(mnemonic)) \in Nat
  BY <1>3, Formats DEF operandCount
<1>5. m = refused \/ (l.current = "Text" /\ m = Emit(l, item))
  BY <1>3, <1>4 DEF lowerInstruction
<1>6. /\ item \in InstructionItem /\ Fits(source, item, "Text")
      /\ item.machine.opcode = mnemonic
  <2>1. DOMAIN source \subseteq Nat
    OBVIOUS
  <2>2. QED
    BY <1>1, <1>2, <2>1, LoweredInstruction
<1>7. item.kind = "instruction" /\ item.line = n
  OBVIOUS
<1>8. LowererFits(source, refused, n)
  BY <1>1, Reports
<1> HIDE DEF item, m, refused
<1>9. item \in Item
  BY <1>6 DEF Item
<1>10. QED
  BY <1>1, <1>5, <1>6, <1>7, <1>8, <1>9, EmitsItem DEF m

\* The whole program.
LEMMA LowersProgram ==
  ASSUME NEW source \in Seq(Statement), analyze(source) = {}
  PROVE  LowererFits(source, lower(source), Len(source))
<1> DEFINE L == Lowering(source)
           S == {n \in 0 .. Len(source) : LowererFits(source, L[n], n)}
<1>1. Len(source) \in Nat
  OBVIOUS
<1>2. /\ L[0] = LowererStart
      /\ \A n \in 1 .. Len(source) : L[n] = lowerStatement(L[n - 1], source, n)
  BY <1>1, LoweringSteps
<1> HIDE DEF L
<1>3. LowererFits(source, LowererStart, 0)
  <2>1. LowererStart \in LowererRecord
    <3>1. <<>> \in Seq(Item) /\ <<>> \in Seq(STRING) /\ "Text" \in SectionKind
      BY DEF SectionKind
    <3>2. QED
      BY <3>1 DEF LowererStart, LowererRecord
  <2>2. \A kind \in SectionKind : LowererStart.sections[kind] = <<>>
    BY DEF LowererStart
  <2>3. \A kind \in SectionKind : DOMAIN LowererStart.sections[kind] = {}
    BY <2>2
  <2>4. QED
    BY <2>1, <2>3 DEF LowererFits, ItemsFit, Verbatim, UniqueLabels, NoLaterLine, LabelsUpTo
<1>4. 0 \in S
  BY <1>1, <1>2, <1>3
<1>5. ASSUME NEW n \in 0 .. Len(source) - 1, LowererFits(source, L[n], n)
      PROVE  LowererFits(source, L[n + 1], n + 1)
  <2>1. n + 1 \in 1 .. Len(source) /\ (n + 1) - 1 = n /\ n + 1 \in Nat \ {0}
    BY <1>1
  <2> DEFINE m == n + 1
  <2>2. /\ m \in 1 .. Len(source) /\ m \in Nat \ {0} /\ LowererFits(source, L[n], m - 1)
        /\ L[m] = lowerStatement(L[n], source, m)
    BY <1>2, <1>5, <2>1
  <2> HIDE DEF m
  <2>3. source[m].node \in {"label", "directive", "instruction"}
    BY <2>2, StatementsAccepted
  <2>4. CASE source[m].node = "label"
    BY <2>2, <2>4, EmitsLabel DEF m
  <2>5. CASE source[m].node # "label"
    <3>1. LowererFits(source, L[n], m)
      BY <2>2, <2>5, NextLine
    <3>2. CASE source[m].node = "directive"
      <4>1. LowererFits(source, lowerDirective(L[n], source[m], m), m)
        BY <2>2, <3>1, <3>2, LowersDirective
      <4>2. L[m] = lowerDirective(L[n], source[m], m)
        BY <2>2, <3>2 DEF lowerStatement
      <4>3. QED
        BY <4>1, <4>2 DEF m
    <3>3. CASE source[m].node = "instruction"
      <4>1. LowererFits(source, lowerInstruction(L[n], source[m], m), m)
        BY <2>2, <3>1, <3>3, LowersInstruction
      <4>2. L[m] = lowerInstruction(L[n], source[m], m)
        BY <2>2, <3>3 DEF lowerStatement
      <4>3. QED
        BY <4>1, <4>2 DEF m
    <3>4. QED
      BY <2>3, <2>5, <3>2, <3>3
  <2>6. QED
    BY <2>4, <2>5
<1>6. \A n \in 0 .. Len(source) : n \in S
  <2>1. \A n \in 0 .. Len(source) - 1 : n \in S => n + 1 \in S
    BY <1>1, <1>5
  <2> HIDE DEF S
  <2>2. QED
    <3>1. 0 \in Int /\ Len(source) \in Int
      BY <1>1
    <3>2. QED
      BY <1>4, <2>1, <3>1, Induction, Zenon
<1>7. QED
  BY <1>1, <1>6 DEF lower, L

-----------------------------------------------------------------------------
(***************************************************************************)
(* What the optimizer keeps.                                               *)
(***************************************************************************)

\* The sections that the assembler gets.
SectionsFit(source, sections) ==
  /\ sections \in [SectionKind -> Seq(Item)]
  /\ ItemsFit(source, sections)
  /\ UniqueLabels(sections)
  /\ LabelsUpTo(source, sections, Len(source))

WithText(sections, text) == [sections EXCEPT !["Text"] = text]

\* An item that may take the place of another.
Replaces(source, new, old) ==
  \/ new = old
  \/ /\ old.kind = "instruction" /\ new.kind = "instruction" /\ new.line = old.line
     /\ Encodable(source, new)

\* Items of .text may be left out, unless they are labels, and replaced.
LEMMA TextRewritten ==
  ASSUME NEW source, NEW sections, NEW old, NEW new \in Seq(Item),
         sections \in [SectionKind -> Seq(Item)],
         SectionsFit(source, WithText(sections, old)),
         NEW from \in [DOMAIN new -> DOMAIN old],
         \A i, j \in DOMAIN new : from[i] = from[j] => i = j,
         \A i \in DOMAIN new : Replaces(source, new[i], old[from[i]]),
         \A i \in DOMAIN old : old[i].kind = "label" => \E j \in DOMAIN new : from[j] = i
  PROVE  SectionsFit(source, WithText(sections, new))
<1> DEFINE a == WithText(sections, old)
           b == WithText(sections, new)
<1>1. /\ b \in [SectionKind -> Seq(Item)] /\ "Text" \in SectionKind
      /\ b["Text"] = new /\ a["Text"] = old
      /\ \A kind \in SectionKind : kind # "Text" => a[kind] = b[kind]
  BY DEF WithText, SectionKind
<1>2. ItemsFit(source, a) /\ UniqueLabels(a) /\ LabelsUpTo(source, a, Len(source))
  BY DEF SectionsFit
<1> HIDE DEF a, b
<1>3. \A i \in DOMAIN new :
        /\ from[i] \in DOMAIN old
        /\ new[i].kind = "label" <=> old[from[i]].kind = "label"
        /\ new[i].kind = "label" => new[i].name = old[from[i]].name
  BY DEF Replaces
<1>4. ItemsFit(source, b)
  <2>1. \A i \in DOMAIN old : Fits(source, old[i], "Text")
    BY <1>1, <1>2 DEF ItemsFit
  <2>2. \A i \in DOMAIN new : Fits(source, new[i], "Text")
    BY <1>3, <2>1 DEF Replaces, Fits
  <2>3. \A kind \in SectionKind : kind # "Text" =>
          \A i \in DOMAIN b[kind] : Fits(source, b[kind][i], kind)
    BY <1>1, <1>2 DEF ItemsFit
  <2>4. QED
    BY <1>1, <2>2, <2>3 DEF ItemsFit
<1>5. UniqueLabels(b)
  <2>1. SUFFICES ASSUME NEW x \in SectionKind, NEW y \in SectionKind, NEW i \in DOMAIN b[x],
                        NEW j \in DOMAIN b[y], b[x][i].kind = "label", b[y][j].kind = "label",
                        b[x][i].name = b[y][j].name
                 PROVE  x = y /\ i = j
    BY DEF UniqueLabels
  <2> DEFINE Was(z, k) == IF z = "Text" THEN from[k] ELSE k
  <2>2. /\ Was(x, i) \in DOMAIN a[x] /\ a[x][Was(x, i)].kind = "label"
        /\ a[x][Was(x, i)].name = b[x][i].name
    BY <1>1, <1>3, <2>1
  <2>3. /\ Was(y, j) \in DOMAIN a[y] /\ a[y][Was(y, j)].kind = "label"
        /\ a[y][Was(y, j)].name = b[y][j].name
    BY <1>1, <1>3, <2>1
  <2>4. x = y /\ Was(x, i) = Was(y, j)
    <3> HIDE DEF Was
    <3>1. QED
      BY <1>2, <2>1, <2>2, <2>3 DEF UniqueLabels
  <2>5. QED
    BY <1>1, <2>1, <2>4
<1>6. LabelsUpTo(source, b, Len(source))
  <2>1. ASSUME NEW name, HasLabel(a, name) PROVE HasLabel(b, name)
    <3>a. PICK x \in SectionKind :
            \E i \in DOMAIN a[x] : a[x][i].kind = "label" /\ a[x][i].name = name
      BY <2>1 DEF HasLabel
    <3>1. PICK i \in DOMAIN a[x] : a[x][i].kind = "label" /\ a[x][i].name = name
      BY <3>a
    <3>2. CASE x = "Text"
      <4>1. PICK j \in DOMAIN new : from[j] = i
        BY <1>1, <3>1, <3>2
      <4>2. new[j].kind = "label" /\ new[j].name = name
        BY <1>1, <1>3, <3>1, <3>2, <4>1
      <4>3. QED
        BY <1>1, <4>2 DEF HasLabel
    <3>3. CASE x # "Text"
      BY <1>1, <3>1, <3>3 DEF HasLabel
    <3>4. QED
      BY <3>2, <3>3
  <2>2. QED
    BY <1>2, <2>1 DEF LabelsUpTo
<1>7. QED
  BY <1>1, <1>4, <1>5, <1>6 DEF SectionsFit, b

\* The same items, some of them replaced.
LEMMA TextReplaced ==
  ASSUME NEW source, NEW sections, NEW old, NEW new \in Seq(Item),
         sections \in [SectionKind -> Seq(Item)],
         SectionsFit(source, WithText(sections, old)), DOMAIN new = DOMAIN old,
         \A i \in DOMAIN new : Replaces(source, new[i], old[i])
  PROVE  SectionsFit(source, WithText(sections, new))
<1> DEFINE from == [i \in DOMAIN new |-> i]
<1>1. from \in [DOMAIN new -> DOMAIN old] /\ \A i \in DOMAIN new : from[i] = i
  OBVIOUS
<1> HIDE DEF from
<1>2. QED
  BY <1>1, TextRewritten

Operations(text) == {i \in DOMAIN text : IsInstruction(text[i])}

Remaining(text, gone) == InOrder(DOMAIN text \ gone)
Rest(text, gone) ==
  [k \in DOMAIN Remaining(text, gone) |-> text[Remaining(text, gone)[k]]]

\* Without the removed instructions there are as many fewer.
LEMMA KeptCount ==
  ASSUME NEW text \in Seq(Item), NEW gone \in SUBSET Operations(text)
  PROVE  LET kept == Remaining(text, gone)
             rest == Rest(text, gone)
         IN  /\ rest \in Seq(Item)
             /\ kept \in [DOMAIN rest -> DOMAIN text]
             /\ \A i, j \in DOMAIN rest : kept[i] = kept[j] => i = j
             /\ \A i \in DOMAIN rest : rest[i] = text[kept[i]]
             /\ \A i \in DOMAIN text : i \notin gone => \E j \in DOMAIN rest : kept[j] = i
             /\ Cardinality(Operations(rest)) = Cardinality(Operations(text)) - Cardinality(gone)
             /\ Cardinality(Operations(rest)) \in Nat
<1> DEFINE n == Len(text)
           S == DOMAIN text \ gone
           kept == InOrder(S)
           c == Cardinality(S)
           rest == Rest(text, gone)
           A == Operations(text)
           B == Operations(rest)
<1>1. n \in Nat /\ DOMAIN text = 1 .. n /\ S \in SUBSET (1 .. n) /\ A \in SUBSET (1 .. n)
  BY DEF Operations
<1> HIDE DEF n, S
<1>2. /\ c \in Nat /\ DOMAIN kept = 1 .. c /\ kept \in Seq(S) /\ Len(kept) = c
      /\ \A k \in 1 .. c : kept[k] \in S
      /\ \A k, l \in 1 .. c : k < l => kept[k] < kept[l]
      /\ \A i \in S : \E k \in 1 .. c : kept[k] = i
  BY <1>1, InOrderFacts
<1>r. rest = [k \in DOMAIN kept |-> text[kept[k]]] /\ kept = Remaining(text, gone)
  BY DEF Rest, Remaining, S
<1> HIDE DEF kept, c, rest
<1>3. \A k \in 1 .. c : kept[k] \in DOMAIN text /\ kept[k] \notin gone
  BY <1>2 DEF S
<1>4. /\ rest \in [1 .. c -> Item] /\ rest \in Seq(Item) /\ DOMAIN rest = 1 .. c
      /\ \A k \in 1 .. c : rest[k] = text[kept[k]]
  <2>1. \A k \in 1 .. c : text[kept[k]] \in Item
    BY <1>3
  <2>2. QED
    BY <1>2, <1>r, <2>1
<1>5. kept \in [DOMAIN rest -> DOMAIN text]
  <2>1. kept \in [1 .. c -> S]
    BY <1>2
  <2>2. QED
    BY <1>2, <1>3, <1>4, <2>1
<1>6. \A i, j \in 1 .. c : kept[i] = kept[j] => i = j
  <2>1. \A k \in 1 .. c : kept[k] \in Int
    BY <1>1, <1>3
  <2>2. \A i, j \in 1 .. c : i < j \/ j < i \/ i = j
    BY <1>2
  <2>3. QED
    BY <1>2, <2>1, <2>2
<1>7. Cardinality(B) = Cardinality(A \ gone)
  <2> DEFINE f == [k \in B |-> kept[k]]
  <2>1. \A k \in B : k \in 1 .. c /\ IsInstruction(rest[k])
    BY <1>4 DEF Operations
  <2>2. \A k \in B : kept[k] \in A \ gone
    BY <1>3, <1>4, <2>1 DEF Operations
  <2>3. f \in Injection(B, A \ gone)
    <3>1. f \in [B -> A \ gone] /\ DOMAIN f = B
      BY <2>2
    <3>2. \A i, j \in B : f[i] = f[j] => i = j
      BY <1>6, <2>1
    <3> HIDE DEF f, B
    <3>3. QED
      BY <3>1, <3>2 DEF Injection, IsInjective
  <2>4. ASSUME NEW i \in A \ gone PROVE \E k \in B : f[k] = i
    <3>1. i \in S /\ IsInstruction(text[i])
      BY DEF S, Operations
    <3>2. PICK k \in 1 .. c : kept[k] = i
      BY <1>2, <3>1
    <3>3. k \in B
      BY <1>4, <3>1, <3>2 DEF Operations
    <3>4. QED
      BY <3>2, <3>3
  <2>5. f \in Surjection(B, A \ gone)
    BY <2>3, <2>4 DEF Surjection, Injection, IsInjective
  <2>6. ExistsBijection(B, A \ gone)
    BY <2>3, <2>5 DEF ExistsBijection, Bijection
  <2>7. IsFiniteSet(B)
    <3>1. B \in SUBSET (1 .. c)
      BY <1>4 DEF Operations
    <3>2. QED
      BY <1>2, <3>1, SmallSets
  <2> HIDE DEF f, B
  <2>8. QED
    BY <2>6, <2>7, FS_Bijection
<1>8. /\ Cardinality(A) \in Nat /\ Cardinality(gone) \in Nat
      /\ Cardinality(A \ gone) = Cardinality(A) - Cardinality(gone)
      /\ Cardinality(A \ gone) \in Nat
  <2>1. gone \in SUBSET (1 .. n) /\ A \ gone \in SUBSET (1 .. n) /\ A \cap gone = gone
    BY <1>1
  <2>2. IsFiniteSet(A)
    BY <1>1, SmallSets
  <2>3. Cardinality(A \ gone) = Cardinality(A) - Cardinality(A \cap gone)
    BY <2>2, FS_Difference
  <2>4. QED
    BY <1>1, <2>1, <2>3, SmallSets
<1>9. QED
  <2>1. \A i \in DOMAIN text : i \notin gone => \E j \in DOMAIN rest : kept[j] = i
    BY <1>2, <1>4 DEF S
  <2>2. QED
    BY <1>4, <1>5, <1>6, <1>7, <1>8, <1>r, <2>1 DEF rest

-----------------------------------------------------------------------------
(***************************************************************************)
(* Constant folding.                                                       *)
(***************************************************************************)
LEMMA LeastOf ==
  ASSUME NEW S, S \subseteq Nat, S # {}
  PROVE  Sets!Min(S) \in S /\ \A y \in S : Sets!Min(S) <= y
<1>1. \E x \in S : \A y \in S : x <= y
  BY LeastNumber
<1>2. QED
  BY <1>1, Zenon DEF Sets!Min

\* The blocks are ranges of items.
LEMMA Blocks ==
  ASSUME items \in Seq(Item)
  PROVE  /\ Len(splitBlocks) \in Nat /\ DOMAIN splitBlocks = 1 .. Len(splitBlocks)
         /\ \A b \in DOMAIN splitBlocks :
              /\ splitBlocks[b].begin \in Nat /\ splitBlocks[b].last \in Nat
              /\ splitBlocks[b].begin >= 1
              /\ splitBlocks[b].begin - 1 <= splitBlocks[b].last
              /\ splitBlocks[b].last <= Len(items)
<1> DEFINE Later(begin) == {i \in Starts : i > begin}
                         \cup {i \in DOMAIN items : i > begin /\ IsLabel(items[i])}
                         \cup {Len(items) + 1}
           From(begin) == [begin |-> begin, last |-> Sets!Min(Later(begin)) - 1]
           begins == InOrder(Starts)
           range(b) == /\ b.begin \in Nat /\ b.last \in Nat /\ b.begin >= 1
                       /\ b.begin - 1 <= b.last /\ b.last <= Len(items)
<1>1. /\ Len(items) \in Nat /\ DOMAIN items = 1 .. Len(items)
      /\ Starts \in SUBSET (1 .. Len(items))
  BY DEF Starts
<1>2. /\ Cardinality(Starts) \in Nat /\ DOMAIN begins = 1 .. Cardinality(Starts)
      /\ \A k \in 1 .. Cardinality(Starts) : begins[k] \in Starts
  BY <1>1, InOrderFacts
<1>3. ASSUME NEW begin \in Starts PROVE range(From(begin))
  <2>1. begin \in 1 .. Len(items)
    BY <1>1
  <2>2. \A i \in Later(begin) : i \in begin + 1 .. Len(items) + 1
    BY <1>1, <2>1
  <2>3. Len(items) + 1 \in Later(begin)
    OBVIOUS
  <2> HIDE DEF Later
  <2>4. Sets!Min(Later(begin)) \in Later(begin)
    <3>1. Later(begin) \subseteq Nat /\ Later(begin) # {}
      BY <2>1, <2>2, <2>3
    <3>2. QED
      BY <3>1, LeastOf
  <2>5. Sets!Min(Later(begin)) \in begin + 1 .. Len(items) + 1
    BY <2>2, <2>4
  <2>6. QED
    BY <1>1, <2>1, <2>5
<1>4. splitBlocks = IF begins = <<>> THEN <<[begin |-> 1, last |-> 0]>>
                    ELSE [b \in DOMAIN begins |-> From(begins[b])]
  BY Zenon DEF splitBlocks
<1> HIDE DEF begins, From
<1>5. CASE begins = <<>>
  <2>1. splitBlocks = <<[begin |-> 1, last |-> 0]>>
    BY <1>4, <1>5
  <2>2. Len(splitBlocks) = 1 /\ DOMAIN splitBlocks = 1 .. 1
        /\ splitBlocks[1] = [begin |-> 1, last |-> 0]
    BY <2>1
  <2>3. QED
    BY <1>1, <2>2
<1>6. CASE begins # <<>>
  <2>1. splitBlocks = [b \in 1 .. Cardinality(Starts) |-> From(begins[b])]
    BY <1>2, <1>4, <1>6
  <2>2. /\ DOMAIN splitBlocks = 1 .. Cardinality(Starts)
        /\ Len(splitBlocks) = Cardinality(Starts)
    BY <1>2, <2>1
  <2>3. \A b \in 1 .. Cardinality(Starts) : range(splitBlocks[b])
    BY <1>2, <1>3, <2>1
  <2>4. QED
    BY <1>2, <2>2, <2>3
<1>7. QED
  BY <1>5, <1>6

\* What folding makes of an item.
Folds(old, new) ==
  \/ new = old
  \/ /\ old.kind = "instruction" /\ old.symbol = NoSymbol
     /\ \E v : Representable(v) /\ new = Rewritten(old, v)

FoldingFits(f) ==
  /\ f = [items |-> f.items, known |-> f.known, folded |-> f.folded]
  /\ DOMAIN f.items = DOMAIN items /\ f.items \in Seq(Item)
  /\ \A i \in DOMAIN items : Folds(items[i], f.items[i])

LEMMA FoldsFits ==
  ASSUME NEW source, NEW old \in Item, NEW new, Folds(old, new)
  PROVE  /\ new \in Item /\ new.kind = old.kind /\ new.line = old.line
         /\ Replaces(source, new, old)
         /\ \A v : /\ Representable(v) /\ old.kind = "instruction" /\ old.symbol = NoSymbol
                   => Folds(old, Rewritten(new, v)) /\ Rewritten(new, v) \in Item
<1>1. ASSUME old.kind = "instruction" PROVE old \in InstructionItem
  BY <1>1, ItemKinds
<1> DEFINE movi(v) == Machine("MOVI", old.machine.dst, 0, v)
<1>2. ASSUME old.kind = "instruction", NEW v, Representable(v)
      PROVE  movi(v) \in MachineRecord /\ EncodeError(movi(v)) = "None"
             /\ movi(v).dst = old.machine.dst
  <2>1. old.machine \in MachineRecord
    BY <1>1, <1>2 DEF InstructionItem
  <2>2. old.machine.dst \in 0 .. RegisterCount - 1 /\ 0 \in 0 .. RegisterCount - 1
    BY <2>1, Sizes DEF MachineRecord
  <2>3. "MOVI" \in Opcode
    BY Opcodes
  <2>4. Format("MOVI") = "RegImm"
    BY <2>3, Formats
  <2>5. v \in Word /\ fitsSigned(v, ImmediateModulus)
    BY <1>2 DEF Representable
  <2>6. QED
    BY <2>2, <2>3, <2>4, <2>5
       DEF Machine, MachineRecord, EncodeError, usesDst, usesSrc, usesImm, ImmediateFits
<1>3. ASSUME old.kind = "instruction", NEW v, Representable(v)
      PROVE  /\ Rewritten(old, v) \in InstructionItem
             /\ Rewritten(old, v).machine = movi(v)
             /\ Rewritten(old, v) = [kind |-> "instruction", line |-> old.line,
                                     machine |-> movi(v), symbol |-> old.symbol]
  <2>1. movi(v) \in MachineRecord
    BY <1>2, <1>3
  <2>2. Rewritten(old, v) = [old EXCEPT !.machine = movi(v)]
    BY DEF Rewritten
  <2>3. old \in InstructionItem
    BY <1>1, <1>3
  <2> HIDE DEF movi
  <2>4. QED
    BY <2>1, <2>2, <2>3 DEF InstructionItem
<1> HIDE DEF movi
<1>4. CASE new = old
  <2>1. new \in Item /\ new.kind = old.kind /\ new.line = old.line /\ Replaces(source, new, old)
    BY <1>4 DEF Replaces
  <2>2. QED
    BY <1>3, <1>4, <2>1 DEF Folds, Item
<1>5. ASSUME NEW w, Representable(w), old.kind = "instruction", old.symbol = NoSymbol,
             new = Rewritten(old, w)
      PROVE  /\ new \in Item /\ new.kind = old.kind /\ new.line = old.line
             /\ Replaces(source, new, old)
             /\ \A v : Representable(v) => /\ Folds(old, Rewritten(new, v))
                                           /\ Rewritten(new, v) \in Item
  <2>1. /\ new \in InstructionItem /\ new.kind = "instruction" /\ new.line = old.line
        /\ new.symbol = NoSymbol /\ new.machine = movi(w)
    BY <1>3, <1>5
  <2>2. Encoded(new) = movi(w)
    BY <2>1 DEF Encoded, isSymbolic
  <2>3. Encodable(source, new)
    BY <1>2, <1>5, <2>2 DEF Encodable
  <2>4. ASSUME NEW v, Representable(v) PROVE Rewritten(new, v) = Rewritten(old, v)
    <3>1. new.machine.dst = old.machine.dst
      BY <1>2, <1>5, <2>1
    <3>2. Rewritten(new, v) = [new EXCEPT !.machine = movi(v)]
      BY <3>1 DEF Rewritten, movi
    <3>3. QED
      BY <1>3, <1>5, <2>1, <2>4, <3>2 DEF InstructionItem
  <2>5. QED
    BY <1>3, <1>5, <2>1, <2>3, <2>4 DEF Folds, Item, Replaces
<1>6. QED
  BY <1>4, <1>5 DEF Folds

LEMMA FoldItemCases ==
  ASSUME NEW folding, NEW i, NEW flagsDead
  PROVE  \/ FoldItem(folding, i, flagsDead) = folding
         \/ \E r, v : FoldItem(folding, i, flagsDead) = Knows(folding, r, v)
         \/ /\ KeptOperation(i) /\ ~isSymbolic(items[i])
            /\ \E v : Representable(v) /\ FoldItem(folding, i, flagsDead) = Folded(folding, i, v)
<1> DEFINE machine == folding.items[i].machine
           known(f) == f = folding \/ \E r, v : f = Knows(folding, r, v)
           folded(f) == \E v : Representable(v) /\ f = Folded(folding, i, v)
<1>1. known(Clobbers(folding, machine))
  BY Zenon DEF Clobbers
<1>2. known(FoldMove(folding, i)) \/ folded(FoldMove(folding, i))
  BY Zenon DEF FoldMove
<1>3. known(FoldAlu(folding, i, flagsDead)) \/ folded(FoldAlu(folding, i, flagsDead))
  <2> DEFINE lhs == folding.known[machine.dst]
             rhs == IF machine.opcode \in BinaryAlu THEN folding.known[machine.src] ELSE 0
             alu == IF machine.opcode \in BinaryAlu
                      THEN EvaluateBinary(machine.opcode, lhs, rhs)
                      ELSE EvaluateUnary(machine.opcode, lhs)
             result == FoldAlu(folding, i, flagsDead)
  <2>1. \/ result = Clobbers(folding, machine) \/ result = Knows(folding, machine.dst, Unknown)
        \/ result = folding \/ result = Knows(folding, machine.dst, alu.value)
        \/ Representable(alu.value) /\ result = Folded(folding, i, alu.value)
    BY Zenon DEF FoldAlu
  <2>2. QED
    BY <1>1, <2>1, Zenon
<1>4. CASE ~KeptOperation(i)
  BY <1>4 DEF FoldItem
<1>5. CASE KeptOperation(i) /\ isSymbolic(items[i])
  <2>1. FoldItem(folding, i, flagsDead) = Knows(folding, machine.dst, Unknown)
    BY <1>5 DEF FoldItem
  <2>2. QED
    BY <2>1, Zenon
<1>6. CASE KeptOperation(i) /\ ~isSymbolic(items[i])
  <2>1. FoldItem(folding, i, flagsDead) =
          CASE machine.opcode \in {"MOVI", "LEA"} -> Knows(folding, machine.dst, machine.imm)
            [] machine.opcode = "MOV" -> FoldMove(folding, i)
            [] machine.opcode \in BinaryAlu \cup UnaryAlu -> FoldAlu(folding, i, flagsDead)
            [] OTHER -> Clobbers(folding, machine)
    BY <1>6 DEF FoldItem
  <2> DEFINE op == machine.opcode
             result == FoldItem(folding, i, flagsDead)
  <2>2. CASE op \in {"MOVI", "LEA"}
    <3>1. result = Knows(folding, machine.dst, machine.imm)
      BY <2>1, <2>2 DEF BinaryAlu, UnaryAlu
    <3>2. QED
      BY <3>1, Zenon
  <2>3. CASE op = "MOV"
    <3>1. result = FoldMove(folding, i)
      BY <2>1, <2>3 DEF BinaryAlu, UnaryAlu
    <3>2. QED
      BY <1>2, <1>6, <3>1, Zenon
  <2>4. CASE op \in BinaryAlu \cup UnaryAlu
    <3>1. result = FoldAlu(folding, i, flagsDead)
      BY <2>1, <2>4 DEF BinaryAlu, UnaryAlu
    <3>2. QED
      BY <1>3, <1>6, <3>1, Zenon
  <2>5. CASE op \notin {"MOVI", "LEA", "MOV"} \cup BinaryAlu \cup UnaryAlu
    <3>1. result = Clobbers(folding, machine)
      BY <2>1, <2>5 DEF BinaryAlu, UnaryAlu
    <3>2. QED
      BY <1>1, <3>1, Zenon
  <2>6. QED
    BY <2>2, <2>3, <2>4, <2>5
<1>7. QED
  BY <1>4, <1>5, <1>6

LEMMA FoldItemFits ==
  ASSUME items \in Seq(Item), NEW folding, FoldingFits(folding), NEW i, NEW flagsDead
  PROVE  FoldingFits(FoldItem(folding, i, flagsDead))
<1>1. ASSUME NEW r, NEW v
      PROVE  /\ FoldingFits(Knows(folding, r, v))
             /\ Knows(folding, r, v).items = folding.items
             /\ Knows(folding, r, v).folded = folding.folded
  <2> DEFINE k == [folding.known EXCEPT ![r] = v]
             f == Knows(folding, r, v)
  <2>1. f = [items |-> folding.items, known |-> k, folded |-> folding.folded]
    BY DEF FoldingFits, Knows
  <2> HIDE DEF k, f
  <2>2. QED
    BY <2>1 DEF FoldingFits, f
<1>2. ASSUME NEW v, Representable(v), KeptOperation(i), ~isSymbolic(items[i])
      PROVE  FoldingFits(Folded(folding, i, v))
  <2> DEFINE dst == folding.items[i].machine.dst
             k == Knows(folding, dst, v)
             old == folding.items
             new == [old EXCEPT ![i] = Rewritten(old[i], v)]
             f == Folded(folding, i, v)
  <2>1. i \in DOMAIN items /\ items[i].kind = "instruction" /\ items[i].symbol = NoSymbol
    BY <1>2 DEF KeptOperation, Kept, IsInstruction, isSymbolic
  <2>2. FoldingFits(k) /\ k.items = old /\ k.folded = folding.folded
    BY <1>1
  <2>3. f = [items |-> new, known |-> k.known, folded |-> folding.folded + 1]
    <3>1. k = [items |-> old, known |-> k.known, folded |-> folding.folded]
      BY <2>2 DEF FoldingFits
    <3>2. f = [k EXCEPT !.items = new, !.folded = folding.folded + 1]
      BY <2>2, Zenon DEF Folded
    <3> HIDE DEF k, old, new, f
    <3>3. QED
      BY <3>1, <3>2
  <2>4. /\ DOMAIN old = DOMAIN items /\ old \in Seq(Item)
        /\ \A j \in DOMAIN items : Folds(items[j], old[j])
    BY DEF FoldingFits
  <2> HIDE DEF k, old, f
  <2>5. Folds(items[i], Rewritten(old[i], v)) /\ Rewritten(old[i], v) \in Item
    BY <1>2, <2>1, <2>4, FoldsFits
  <2>6. new \in Seq(Item) /\ DOMAIN new = DOMAIN items
    BY <2>1, <2>4, <2>5
  <2>7. \A j \in DOMAIN items : Folds(items[j], new[j])
    BY <2>1, <2>4, <2>5
  <2> HIDE DEF new
  <2>8. QED
    BY <2>3, <2>6, <2>7 DEF FoldingFits, f
<1>3. QED
  BY <1>1, <1>2, FoldItemCases

\* Constant folding leaves the items what they are or makes a MOVI of them.
LEMMA FoldBlocksFits ==
  ASSUME items \in Seq(Item), NEW liveOut
  PROVE  FoldingFits(FoldBlocks(splitBlocks, liveOut))
<1> DEFINE blocks == splitBlocks
           F == FoldingBlocks(blocks, liveOut)
           S == {b \in 0 .. Len(blocks) : FoldingFits(F[b])}
<1>1. /\ Len(blocks) \in Nat /\ DOMAIN blocks = 1 .. Len(blocks)
      /\ \A b \in 1 .. Len(blocks) :
           /\ blocks[b].begin \in Int /\ blocks[b].last \in Int
           /\ blocks[b].begin - 1 <= blocks[b].last
  BY Blocks
<1> HIDE DEF blocks
<1>2. /\ F[0] = NothingFolded
      /\ \A b \in 1 .. Len(blocks) : F[b] = FoldBlock(F[b - 1], blocks[b], liveOut[b])
  BY <1>1, FoldingBlocksSteps
<1>3. 0 \in S
  <2>1. FoldingFits(NothingFolded)
    BY DEF FoldingFits, NothingFolded, Folds
  <2>2. QED
    BY <1>1, <1>2, <2>1
<1>4. ASSUME NEW folding, FoldingFits(folding), NEW b \in 1 .. Len(blocks), NEW live
      PROVE  FoldingFits(FoldBlock(folding, blocks[b], live))
  <2> DEFINE block == blocks[b]
             lo == block.begin - 1
             hi == block.last
             G == FoldingBlock(folding, block, live)
             T == {i \in lo .. hi : FoldingFits(G[i])}
  <2>1. lo \in Int /\ hi \in Int /\ lo <= hi /\ lo + 1 = block.begin
    BY <1>1
  <2>2. /\ G[lo] = [folding EXCEPT !.known = NothingKnown]
        /\ \A i \in lo + 1 .. hi :
             G[i] = FoldItem(G[i - 1], i, flagsDeadAfter(block, i, live))
    <3>1. block.begin \in Int /\ block.last \in Int /\ block.begin - 1 <= block.last
      BY <1>1
    <3> HIDE DEF block
    <3>2. QED
      BY <2>1, <3>1, FoldingBlockSteps
  <2> HIDE DEF lo, hi, G, block
  <2>3. lo \in T
    <3>1. [folding EXCEPT !.known = NothingKnown] =
            [items |-> folding.items, known |-> NothingKnown, folded |-> folding.folded]
      BY <1>4 DEF FoldingFits
    <3>2. FoldingFits([folding EXCEPT !.known = NothingKnown])
      BY <1>4, <3>1 DEF FoldingFits
    <3>3. QED
      BY <2>1, <2>2, <3>2
  <2>4. \A i \in lo .. hi - 1 : i \in T => i + 1 \in T
    <3>1. SUFFICES ASSUME NEW i \in lo .. hi - 1, FoldingFits(G[i]) PROVE FoldingFits(G[i + 1])
      BY <2>1
    <3>2. i + 1 \in lo + 1 .. hi /\ (i + 1) - 1 = i
      BY <2>1
    <3>3. G[i + 1] = FoldItem(G[i], i + 1, flagsDeadAfter(block, i + 1, live))
      BY <2>2, <3>2
    <3>4. QED
      BY <3>1, <3>3, FoldItemFits
  <2> HIDE DEF T
  <2>5. \A i \in lo .. hi : i \in T
    BY <2>1, <2>3, <2>4, Induction, Zenon
  <2>6. hi \in lo .. hi
    BY <2>1
  <2>7. QED
    BY <2>5, <2>6 DEF T, FoldBlock, G, hi, block
<1>5. \A b \in 0 .. Len(blocks) - 1 : b \in S => b + 1 \in S
  <2>1. SUFFICES ASSUME NEW b \in 0 .. Len(blocks) - 1, FoldingFits(F[b])
                 PROVE  FoldingFits(F[b + 1])
    BY <1>1
  <2>2. b + 1 \in 1 .. Len(blocks) /\ (b + 1) - 1 = b
    BY <1>1
  <2> HIDE DEF F
  <2>3. F[b + 1] = FoldBlock(F[b], blocks[b + 1], liveOut[b + 1])
    BY <1>2, <2>2
  <2>4. QED
    BY <1>4, <2>1, <2>2, <2>3
<1>6. \A b \in 0 .. Len(blocks) : b \in S
  <2>1. 0 \in Int /\ Len(blocks) \in Int
    BY <1>1
  <2> HIDE DEF S
  <2>2. QED
    BY <1>3, <1>5, <2>1, Induction, Zenon
<1>7. Len(blocks) \in 0 .. Len(blocks)
  BY <1>1
<1>8. QED
  BY <1>6, <1>7 DEF FoldBlocks, blocks

-----------------------------------------------------------------------------
(***************************************************************************)
(* The counters of the optimizer.                                          *)
(***************************************************************************)
Counter == {"identities_eliminated", "dead_stores_removed", "unreachable_removed",
            "peepholes_applied"}

Counts(s) ==
  /\ s = [constants_folded |-> s.constants_folded,
          identities_eliminated |-> s.identities_eliminated,
          dead_stores_removed |-> s.dead_stores_removed,
          unreachable_removed |-> s.unreachable_removed,
          peepholes_applied |-> s.peepholes_applied,
          before |-> s.before, after |-> s.after]
  /\ s.identities_eliminated \in Int /\ s.dead_stores_removed \in Int
  /\ s.unreachable_removed \in Int /\ s.peepholes_applied \in Int
  /\ s.before \in Int

RemovedBy(s) == s.identities_eliminated + s.dead_stores_removed
                  + s.unreachable_removed + s.peepholes_applied

\* Only instructions are marked, and those that are gone or marked are counted.
Balanced ==
  /\ remove \in SUBSET Operations(items)
  /\ Counts(stats)
  /\ stats.before = (Cardinality(Operations(items)) - Cardinality(remove)) + RemovedBy(stats)

LEMMA OperationSets ==
  ASSUME NEW text \in Seq(Item), NEW S \in SUBSET Operations(text)
  PROVE  IsFiniteSet(S) /\ Cardinality(S) \in Nat
<1>1. Len(text) \in Nat /\ S \in SUBSET (1 .. Len(text))
  BY DEF Operations
<1>2. QED
  BY <1>1, SmallSets

LEMMA UnionCount ==
  ASSUME NEW A, NEW B, IsFiniteSet(A), IsFiniteSet(B), A \cap B = {}
  PROVE  Cardinality(A \cup B) = Cardinality(A) + Cardinality(B)
<1>1. Cardinality(A \cup B) = Cardinality(A) + Cardinality(B) - Cardinality(A \cap B)
  BY FS_Union
<1>2. Cardinality(A \cap B) = 0
  BY FS_EmptySet
<1>3. Cardinality(A) \in Nat /\ Cardinality(B) \in Nat
  BY FS_CardinalityType
<1>4. QED
  BY <1>1, <1>2, <1>3

LEMMA CounterAdded ==
  ASSUME NEW s, Counts(s), NEW m \in Nat, NEW counter \in Counter
  PROVE  LET t == [s EXCEPT ![counter] = s[counter] + m] IN
         Counts(t) /\ t.before = s.before /\ RemovedBy(t) = RemovedBy(s) + m
<1> DEFINE t == [s EXCEPT ![counter] = s[counter] + m]
<1>1. CASE counter = "identities_eliminated"
  <2> DEFINE more == s.identities_eliminated + m
  <2>1. t = [s EXCEPT !.identities_eliminated = more]
    BY <1>1
  <2>2. more \in Int
    BY DEF Counts
  <2> HIDE DEF more, t
  <2>3. /\ Counts(t) /\ t.identities_eliminated = more
        /\ t.dead_stores_removed = s.dead_stores_removed
        /\ t.unreachable_removed = s.unreachable_removed
        /\ t.peepholes_applied = s.peepholes_applied
        /\ t.before = s.before
    BY <2>1, <2>2 DEF Counts
  <2>4. QED
    BY <2>3 DEF more, t, RemovedBy, Counts
<1>2. CASE counter = "dead_stores_removed"
  <2> DEFINE more == s.dead_stores_removed + m
  <2>1. t = [s EXCEPT !.dead_stores_removed = more]
    BY <1>2
  <2>2. more \in Int
    BY DEF Counts
  <2> HIDE DEF more, t
  <2>3. /\ Counts(t) /\ t.dead_stores_removed = more
        /\ t.identities_eliminated = s.identities_eliminated
        /\ t.unreachable_removed = s.unreachable_removed
        /\ t.peepholes_applied = s.peepholes_applied
        /\ t.before = s.before
    BY <2>1, <2>2 DEF Counts
  <2>4. QED
    BY <2>3 DEF more, t, RemovedBy, Counts
<1>3. CASE counter = "unreachable_removed"
  <2> DEFINE more == s.unreachable_removed + m
  <2>1. t = [s EXCEPT !.unreachable_removed = more]
    BY <1>3
  <2>2. more \in Int
    BY DEF Counts
  <2> HIDE DEF more, t
  <2>3. /\ Counts(t) /\ t.unreachable_removed = more
        /\ t.identities_eliminated = s.identities_eliminated
        /\ t.dead_stores_removed = s.dead_stores_removed
        /\ t.peepholes_applied = s.peepholes_applied
        /\ t.before = s.before
    BY <2>1, <2>2 DEF Counts
  <2>4. QED
    BY <2>3 DEF more, t, RemovedBy, Counts
<1>4. CASE counter = "peepholes_applied"
  <2> DEFINE more == s.peepholes_applied + m
  <2>1. t = [s EXCEPT !.peepholes_applied = more]
    BY <1>4
  <2>2. more \in Int
    BY DEF Counts
  <2> HIDE DEF more, t
  <2>3. /\ Counts(t) /\ t.peepholes_applied = more
        /\ t.identities_eliminated = s.identities_eliminated
        /\ t.dead_stores_removed = s.dead_stores_removed
        /\ t.unreachable_removed = s.unreachable_removed
        /\ t.before = s.before
    BY <2>1, <2>2 DEF Counts
  <2>4. QED
    BY <2>3 DEF more, t, RemovedBy, Counts
<1>5. QED
  BY <1>1, <1>2, <1>3, <1>4 DEF Counter

LEMMA MarksBalanced ==
  ASSUME items \in Seq(Item), Balanced, NEW STATE marked, marked \in SUBSET Operations(items),
         marked \cap remove = {}, NEW counter \in Counter, Marks(marked, counter),
         Operations(items') = Operations(items)
  PROVE  Balanced'
<1>1. /\ remove' = remove \cup marked
      /\ stats' = [stats EXCEPT ![counter] = stats[counter] + Cardinality(marked)]
  BY DEF Marks
<1>2. /\ Cardinality(marked) \in Nat /\ Cardinality(remove) \in Nat
      /\ Cardinality(Operations(items)) \in Nat /\ IsFiniteSet(marked) /\ IsFiniteSet(remove)
  <2>1. remove \in SUBSET Operations(items) /\ Operations(items) \in SUBSET Operations(items)
    BY DEF Balanced
  <2>2. QED
    BY <2>1, OperationSets
<1>3. Cardinality(remove \cup marked) = Cardinality(remove) + Cardinality(marked)
  <2>1. remove \cap marked = {}
    OBVIOUS
  <2>2. QED
    BY <1>2, <2>1, UnionCount, Zenon
<1>4. Cardinality(remove') = Cardinality(remove) + Cardinality(marked)
  BY <1>1, <1>3
<1>5. remove' \in SUBSET Operations(items')
  BY <1>1 DEF Balanced
<1>6. /\ Counts(stats') /\ stats'.before = stats.before
      /\ RemovedBy(stats') = RemovedBy(stats) + Cardinality(marked)
  <2>1. Counts(stats)
    BY DEF Balanced
  <2>2. QED
    BY <1>1, <1>2, <2>1, CounterAdded
<1>7. RemovedBy(stats) \in Int /\ RemovedBy(stats') \in Int
  BY <1>6 DEF Balanced, Counts, RemovedBy
<1>8. stats'.before = (Cardinality(Operations(items')) - Cardinality(remove')) + RemovedBy(stats')
  BY <1>2, <1>4, <1>6, <1>7 DEF Balanced
<1>9. QED
  BY <1>5, <1>6, <1>8 DEF Balanced

-----------------------------------------------------------------------------
(***************************************************************************)
(* The stages up to the optimizer.                                         *)
(***************************************************************************)
Names3 == [globals : Seq(STRING), weaks : Seq(STRING), externs : Seq(STRING)]

Code == /\ data \in [SectionKind -> Seq(Item)] /\ items \in Seq(Item)
        /\ SectionsFit(build.source, Sections)
        /\ build.opt_level = "O0" => Verbatim(build.source, Sections)
        /\ names \in Names3

Optimizing == /\ Balanced
              /\ phase \in {"idle", "unreachable"} => remove = {}
              /\ build.opt_level = "O0" => phase = "idle"

\* The inductive invariant of the front end and the optimizer.
FrontInv ==
  /\ build \in Builds
  /\ stage \in {"parsed", "analyzed", "lowered", "optimizing", "laidout", "bound", "done",
                "failed"}
  /\ stage \notin {"parsed", "failed"} => analyze(build.source) = {}
  /\ stage # "failed" => errors = {}
  /\ stage \in {"parsed", "analyzed", "lowered"} =>
       stats = NoStats /\ remove = {} /\ phase = "idle"
  /\ stage \in {"parsed", "analyzed", "lowered", "optimizing"} => object = NoObject
  /\ stage \in {"lowered", "optimizing", "laidout", "bound", "done"} => Code
  /\ stage = "optimizing" => Optimizing

LEMMA BuildSource ==
  ASSUME build \in Builds
  PROVE  build.source \in Seq(Statement) /\ build.opt_level \in {"O0", "O1"}
  BY ToolchainAssumption

\* An optimizer step that leaves or replaces the items.
LEMMA CodeReplaced ==
  ASSUME Code, items' \in Seq(Item), DOMAIN items' = DOMAIN items,
         \A i \in DOMAIN items : Replaces(build.source, items'[i], items[i]),
         UNCHANGED <<build, data, names>>, build.opt_level # "O0"
  PROVE  Code' /\ Operations(items') = Operations(items)
<1>1. WithText(data, items) = Sections /\ WithText(data, items') = Sections'
  BY DEF WithText, Sections
<1>2. SectionsFit(build.source, WithText(data, items'))
  <2>1. SectionsFit(build.source, WithText(data, items)) /\ data \in [SectionKind -> Seq(Item)]
    BY <1>1 DEF Code
  <2>2. QED
    BY <2>1, TextReplaced
<1>3. SectionsFit(build.source, Sections')
  BY <1>1, <1>2
<1>4. SectionsFit(build.source, Sections)' /\ build' = build /\ data' = data /\ names' = names
  BY <1>3
<1>5. Operations(items') = Operations(items)
  BY DEF Operations, Replaces, IsInstruction
<1>6. QED
  BY <1>4, <1>5 DEF Code

\* The inductive step of the optimizer.
LEMMA OptimizeKeeps ==
  ASSUME Code, Optimizing, OptimizerStep, UNCHANGED pipeline, build.opt_level \in {"O0", "O1"}
  PROVE  Code' /\ Optimizing'
<1> USE DEF pipeline
<1>1. /\ items \in Seq(Item) /\ Balanced /\ build.opt_level # "O0"
      /\ UNCHANGED <<build, data, names>>
  BY DEF Code, Optimizing, OptimizerStep, RemoveUnreachable, PushPop, JumpToNext, FoldConstants,
         RemoveIdentities, RemoveDeadStores, Compact, Pass
<1>2. ASSUME items' = items PROVE Code' /\ Operations(items') = Operations(items)
  <2>1. /\ items' \in Seq(Item) /\ DOMAIN items' = DOMAIN items
        /\ \A i \in DOMAIN items : Replaces(build.source, items'[i], items[i])
    BY <1>1, <1>2 DEF Replaces
  <2>2. QED
    BY <1>1, <2>1, CodeReplaced
<1>3. ASSUME items' = items, NEW STATE marked, Marks(marked, "unreachable_removed") \/
               Marks(marked, "peepholes_applied") \/ Marks(marked, "identities_eliminated") \/
               Marks(marked, "dead_stores_removed"),
             \A i \in marked : i \in Operations(items) /\ i \notin remove,
             phase' \notin {"idle", "unreachable"}
      PROVE  Code' /\ Optimizing'
  <2>1. marked \in SUBSET Operations(items) /\ marked \cap remove = {}
    BY <1>3
  <2>2. Balanced'
    BY <1>1, <1>2, <1>3, <2>1, MarksBalanced DEF Counter
  <2>3. QED
    BY <1>1, <1>2, <1>3, <2>2 DEF Optimizing
<1>4. CASE RemoveUnreachable
  <2>1. remove = {} /\ items' = items /\ phase' = "pushpop"
    BY <1>4 DEF RemoveUnreachable, Pass, Optimizing
  <2>2. Marks({i \in DOMAIN items : Unreachable(i)}, "unreachable_removed")
    BY <1>4 DEF RemoveUnreachable
  <2>3. \A i \in {i \in DOMAIN items : Unreachable(i)} : i \in Operations(items) /\ i \notin remove
    BY <2>1 DEF Unreachable, Operations
  <2>4. QED
    BY <1>3, <2>1, <2>2, <2>3
<1>5. CASE PushPop
  <2> DEFINE same == {i \in PushPopPairs : items[i].machine.dst = items[i + 1].machine.dst}
             marked == {i + 1 : i \in PushPopPairs} \cup same
  <2>1. /\ items' = [i \in DOMAIN items |->
                       IF i \in PushPopPairs \ same
                         THEN [items[i] EXCEPT !.machine = Moved(i)] ELSE items[i]]
        /\ Marks(marked, "peepholes_applied") /\ phase' = "jump"
    BY <1>5 DEF PushPop, Pass
  <2>2. \A i \in PushPopPairs : /\ KeptOperation(i) /\ KeptOperation(i + 1)
                                /\ i \in DOMAIN items /\ i + 1 \in DOMAIN items
    BY DEF PushPopPairs, Has, KeptOperation, Kept
  <2>3. marked \in SUBSET Operations(items) /\ marked \cap remove = {}
    BY <2>2 DEF KeptOperation, Kept, Operations
  <2>4. ASSUME NEW i \in PushPopPairs
        PROVE  LET new == [items[i] EXCEPT !.machine = Moved(i)] IN
               new \in Item /\ Replaces(build.source, new, items[i])
    <3> DEFINE new == [items[i] EXCEPT !.machine = Moved(i)]
               machine == Moved(i)
    <3>1. items[i].kind = "instruction" /\ items[i + 1].kind = "instruction"
          /\ items[i] \in Item /\ items[i + 1] \in Item
      BY <1>1, <2>2 DEF KeptOperation, IsInstruction
    <3>2. items[i] \in InstructionItem /\ items[i + 1] \in InstructionItem
      BY <3>1, ItemKinds
    <3>3. items[i].machine.dst \in 0 .. RegisterCount - 1
          /\ items[i + 1].machine.dst \in 0 .. RegisterCount - 1
      BY <3>2 DEF InstructionItem, MachineRecord
    <3>4. /\ machine \in MachineRecord /\ EncodeError(machine) = "None"
          /\ [machine EXCEPT !.imm = 0] = machine
      <4>1. "MOV" \in Opcode
        BY Opcodes
      <4>2. Format("MOV") = "Reg2"
        BY <4>1, Formats
      <4>3. QED
        BY <3>3, <4>1, <4>2, Sizes
           DEF Moved, Machine, MachineRecord, EncodeError, usesDst, usesSrc, usesImm
    <3> HIDE DEF machine
    <3>5. /\ new = [kind |-> "instruction", line |-> items[i].line, machine |-> machine,
                    symbol |-> items[i].symbol]
          /\ items[i].line \in Nat /\ items[i].symbol \in Reference \cup {NoSymbol}
      BY <3>2 DEF InstructionItem, machine
    <3> HIDE DEF new
    <3>6. new \in InstructionItem
      BY <3>4, <3>5 DEF InstructionItem
    <3>7. Encoded(new) = machine
      BY <3>4, <3>5 DEF Encoded
    <3>8. Encodable(build.source, new)
      BY <3>4, <3>7 DEF Encodable
    <3>9. QED
      BY <3>1, <3>5, <3>6, <3>8 DEF Replaces, Item, new
  <2> HIDE DEF marked, same
  <2>5. /\ DOMAIN items' = DOMAIN items
        /\ \A i \in DOMAIN items : items'[i] \in Item /\ Replaces(build.source, items'[i], items[i])
    <3>1. \A i \in DOMAIN items : items[i] \in Item
      BY <1>1
    <3>2. QED
      BY <2>1, <2>4, <3>1 DEF Replaces
  <2>6. items' \in Seq(Item)
    <3>1. Len(items) \in Nat /\ DOMAIN items = 1 .. Len(items)
      BY <1>1
    <3>2. items' = [i \in DOMAIN items |-> items'[i]]
      BY <2>1
    <3>3. items' \in [1 .. Len(items) -> Item]
      BY <2>5, <3>1, <3>2
    <3>4. QED
      BY <3>1, <3>3
  <2>7. Code' /\ Operations(items') = Operations(items)
    BY <1>1, <2>5, <2>6, CodeReplaced
  <2>8. Balanced'
    BY <1>1, <2>1, <2>3, <2>7, MarksBalanced DEF Counter
  <2>9. QED
    BY <1>1, <2>1, <2>7, <2>8 DEF Optimizing
<1>6. CASE JumpToNext
  <2>1. items' = items /\ phase' = "fold"
    BY <1>6 DEF JumpToNext, Pass
  <2>2. Marks({i \in DOMAIN items : JumpsToNext(i)}, "peepholes_applied")
    BY <1>6 DEF JumpToNext
  <2>3. \A i \in {i \in DOMAIN items : JumpsToNext(i)} : i \in Operations(items) /\ i \notin remove
    BY DEF JumpsToNext, Has, KeptOperation, Kept, Operations
  <2>4. QED
    BY <1>3, <2>1, <2>2, <2>3
<1>7. CASE FoldConstants
  <2>1. PICK garbage \in BOOLEAN :
          LET folding == FoldBlocks(splitBlocks, computeFlagLiveness(splitBlocks, garbage))
          IN  /\ items' = folding.items /\ remove' = remove /\ phase' = "identity"
              /\ stats' = [stats EXCEPT !.constants_folded = @ + folding.folded]
    BY <1>7, Zenon DEF FoldConstants, Pass
  <2> DEFINE folding == FoldBlocks(splitBlocks, computeFlagLiveness(splitBlocks, garbage))
  <2>2. FoldingFits(folding)
    BY <1>1, FoldBlocksFits
  <2> HIDE DEF folding
  <2>3. /\ items' \in Seq(Item) /\ DOMAIN items' = DOMAIN items
        /\ \A i \in DOMAIN items : Folds(items[i], items'[i])
    BY <2>1, <2>2 DEF FoldingFits, folding
  <2>4. \A i \in DOMAIN items : Replaces(build.source, items'[i], items[i])
    <3>1. \A i \in DOMAIN items : items[i] \in Item
      BY <1>1
    <3>2. QED
      BY <2>3, <3>1, FoldsFits
  <2>5. Code' /\ Operations(items') = Operations(items)
    BY <1>1, <2>3, <2>4, CodeReplaced
  <2>6. Balanced'
    <3> DEFINE total == stats.constants_folded + folding.folded
    <3>1. stats' = [stats EXCEPT !.constants_folded = total]
      BY <2>1 DEF folding
    <3> HIDE DEF total
    <3>2. Counts(stats') /\ stats'.before = stats.before /\ RemovedBy(stats') = RemovedBy(stats)
      BY <1>1, <3>1 DEF Balanced, Counts, RemovedBy
    <3>3. remove' = remove
      BY <2>1
    <3>4. QED
      BY <1>1, <2>5, <3>2, <3>3 DEF Balanced
  <2>7. QED
    BY <1>1, <2>1, <2>5, <2>6 DEF Optimizing
<1>8. CASE RemoveIdentities
  <2>1. items' = items /\ phase' = "deadstore"
    BY <1>8 DEF RemoveIdentities, Pass
  <2>2. Marks({i \in DOMAIN items : Identity(i)}, "identities_eliminated")
    BY <1>8 DEF RemoveIdentities
  <2>3. \A i \in {i \in DOMAIN items : Identity(i)} : i \in Operations(items) /\ i \notin remove
    BY DEF Identity, KeptOperation, Kept, Operations
  <2>4. QED
    BY <1>3, <2>1, <2>2, <2>3
<1>9. CASE RemoveDeadStores
  <2> DEFINE marked == UNION {{i \in Instructions(splitBlocks[b]) : DeadStore(splitBlocks[b], i)} :
                                b \in DOMAIN splitBlocks}
  <2>1. items' = items /\ phase' = "compact"
    BY <1>9 DEF RemoveDeadStores, Pass
  <2>2. Marks(marked, "dead_stores_removed")
    BY <1>9, Zenon DEF RemoveDeadStores
  <2>3. \A i \in marked : i \in Operations(items) /\ i \notin remove
    <3>1. SUFFICES ASSUME NEW i, NEW b \in DOMAIN splitBlocks, DeadStore(splitBlocks[b], i)
                   PROVE  i \in Operations(items) /\ i \notin remove
      OBVIOUS
    <3>2. KeptOperation(i)
      BY <3>1, Zenon DEF DeadStore
    <3>3. QED
      BY <3>2 DEF KeptOperation, Kept, Operations
  <2> HIDE DEF marked
  <2>4. QED
    BY <1>3, <2>1, <2>2, <2>3
<1>10. CASE Compact
  <2> DEFINE kept == Remaining(items, remove)
             rest == Rest(items, remove)
  <2>1. items' = rest /\ remove' = {} /\ (stats' = stats \/ \E n : stats' = [stats EXCEPT !.after = n])
    BY <1>10, Zenon DEF Compact, KeptItems, Rest, Remaining
  <2>2. /\ rest \in Seq(Item) /\ kept \in [DOMAIN rest -> DOMAIN items]
        /\ \A i, j \in DOMAIN rest : kept[i] = kept[j] => i = j
        /\ \A i \in DOMAIN rest : rest[i] = items[kept[i]]
        /\ \A i \in DOMAIN items : i \notin remove => \E j \in DOMAIN rest : kept[j] = i
        /\ Cardinality(Operations(rest)) = Cardinality(Operations(items)) - Cardinality(remove)
        /\ Cardinality(Operations(rest)) \in Nat
    <3>1. remove \in SUBSET Operations(items)
      BY <1>1 DEF Balanced
    <3>2. QED
      BY <1>1, <3>1, KeptCount
  <2> HIDE DEF kept, rest
  <2>3. SectionsFit(build.source, WithText(data, rest))
    <3>1. WithText(data, items) = Sections
      BY DEF WithText, Sections
    <3>2. SectionsFit(build.source, WithText(data, items)) /\ data \in [SectionKind -> Seq(Item)]
      BY <3>1 DEF Code
    <3>3. \A i \in DOMAIN items : items[i].kind = "label" => i \notin remove
      BY <1>1 DEF Balanced, Operations, IsInstruction
    <3>4. \A i \in DOMAIN rest : Replaces(build.source, rest[i], items[kept[i]])
      BY <2>2 DEF Replaces
    <3>5. \A i \in DOMAIN items : items[i].kind = "label" => \E j \in DOMAIN rest : kept[j] = i
      BY <2>2, <3>3
    <3>6. QED
      BY <2>2, <3>2, <3>4, <3>5, TextRewritten
  <2>4. Code'
    <3>1. Sections' = WithText(data, rest)
      BY <1>1, <2>1 DEF Sections, WithText
    <3>2. SectionsFit(build.source, Sections')
      BY <2>3, <3>1
    <3>3. SectionsFit(build.source, Sections)' /\ items' \in Seq(Item)
      BY <1>1, <2>1, <2>2, <3>2
    <3>4. QED
      BY <1>1, <3>3 DEF Code
  <2>5. Balanced'
    <3>1. Counts(stats') /\ stats'.before = stats.before /\ RemovedBy(stats') = RemovedBy(stats)
      BY <1>1, <2>1 DEF Balanced, Counts, RemovedBy
    <3>2. Cardinality(remove') = 0
      BY <2>1, FS_EmptySet
    <3>3. Cardinality(Operations(items')) = Cardinality(Operations(items)) - Cardinality(remove)
          /\ Cardinality(Operations(items')) \in Nat
      BY <2>1, <2>2
    <3>4. Cardinality(Operations(items')) - Cardinality(remove') =
            Cardinality(Operations(items)) - Cardinality(remove)
      BY <3>2, <3>3
    <3>5. stats'.before = (Cardinality(Operations(items')) - Cardinality(remove'))
                            + RemovedBy(stats')
      BY <1>1, <3>1, <3>4 DEF Balanced
    <3>6. remove' \in SUBSET Operations(items')
      BY <2>1
    <3>7. QED
      BY <3>1, <3>5, <3>6 DEF Balanced
  <2>6. QED
    BY <1>1, <2>1, <2>4, <2>5 DEF Optimizing
<1>11. QED
  BY <1>4, <1>5, <1>6, <1>7, <1>8, <1>9, <1>10 DEF OptimizerStep

LEMMA FrontInit == Init => FrontInv
  BY DEF Init, FrontInv

\* What a stage that has nothing to report leads to.
LEMMA Advanced ==
  ASSUME NEW from, NEW to, NEW STATE found, Advance(from, to, found)
  PROVE  /\ stage = from /\ errors' = errors \cup found
         /\ found = {} => stage' = to /\ errors' = errors
         /\ found # {} => stage' = "failed"
  BY DEF Advance

LEMMA LowerKeeps ==
  ASSUME FrontInv, Lower PROVE FrontInv'
<1> DEFINE lowerer == lower(build.source)
           sections == lowerer.sections
<1>1. /\ stage = "analyzed" /\ errors' = errors \cup lowerer.errors
      /\ lowerer.errors = {} => stage' = "lowered" /\ errors' = errors
      /\ lowerer.errors # {} => stage' = "failed"
  <2>1. Advance("analyzed", "lowered", lowerer.errors)
    BY Zenon DEF Lower
  <2>2. QED
    BY <2>1 DEF Advance
<1>2. /\ items' = sections["Text"] /\ data' = [sections EXCEPT !["Text"] = <<>>]
      /\ names' = [globals |-> lowerer.globals, weaks |-> lowerer.weaks,
                   externs |-> lowerer.externs]
      /\ UNCHANGED <<remove, phase, stats, build, object>>
  BY DEF Lower
<1>3. /\ build \in Builds /\ errors = {} /\ analyze(build.source) = {} /\ stats = NoStats
      /\ remove = {} /\ phase = "idle" /\ object = NoObject
  BY <1>1 DEF FrontInv
<1>4. build.source \in Seq(Statement)
  BY <1>3, BuildSource
<1>5. LowererFits(build.source, lowerer, Len(build.source))
  BY <1>3, <1>4, LowersProgram
<1> HIDE DEF lowerer
<1>6. lowerer \in LowererRecord /\ sections \in [SectionKind -> Seq(Item)]
      /\ "Text" \in SectionKind
  BY <1>5 DEF LowererFits, LowererRecord, SectionKind
<1>7. Sections' = sections
  <2>1. [data' EXCEPT !["Text"] = items'] = sections
    <3> HIDE DEF sections
    <3>1. QED
      BY <1>2, <1>6
  <2>2. QED
    BY <2>1 DEF Sections
<1>8. SectionsFit(build.source, Sections') /\ Verbatim(build.source, Sections')
  BY <1>5, <1>6, <1>7 DEF SectionsFit, LowererFits
<1>9. SectionsFit(build.source, Sections)' /\ Verbatim(build.source, Sections)'
  BY <1>2, <1>8
<1>10. /\ items' \in Seq(Item) /\ data' \in [SectionKind -> Seq(Item)]
       /\ names' \in Names3
  <2>1. <<>> \in Seq(Item)
    OBVIOUS
  <2>2. items' \in Seq(Item) /\ data' \in [SectionKind -> Seq(Item)]
    <3> HIDE DEF sections
    <3>1. QED
      BY <1>2, <1>6, <2>1
  <2>3. names' \in Names3
    BY <1>2, <1>6 DEF LowererRecord, Names3
  <2>4. QED
    BY <2>2, <2>3
<1>11. Code'
  BY <1>9, <1>10 DEF Code
<1>12. QED
  BY <1>1, <1>2, <1>3, <1>11 DEF FrontInv

LEMMA FrontNext == FrontInv /\ [Next]_vars => FrontInv'
<1> SUFFICES ASSUME FrontInv, [Next]_vars PROVE FrontInv'
  OBVIOUS
<1>1. ASSUME UNCHANGED <<build, data, names, items>> PROVE Code' <=> Code
  BY <1>1 DEF Code, Sections
<1>2. CASE Analyze
  <2>1. Advance("parsed", "analyzed", analyze(build.source))
        /\ UNCHANGED <<optimizer, build, data, names, object, original>>
    BY <1>2, Zenon DEF Analyze
  <2>2. /\ stage = "parsed" /\ errors' = errors \cup analyze(build.source)
        /\ analyze(build.source) = {} => stage' = "analyzed" /\ errors' = errors
        /\ analyze(build.source) # {} => stage' = "failed"
    BY <2>1 DEF Advance
  <2>3. QED
    BY <2>1, <2>2 DEF FrontInv, optimizer
<1>3. CASE Lower
  BY <1>3, LowerKeeps
<1>4. CASE StartOptimizer
  <2> DEFINE count == Cardinality(Operations(items))
  <2>1. /\ stage = "lowered" /\ stage' = "optimizing" /\ errors' = errors
        /\ phase' = IF build.opt_level = "O0" THEN "idle" ELSE "unreachable"
        /\ stats' = [stats EXCEPT !.before = count, !.after = count]
        /\ UNCHANGED <<items, remove, build, data, names, object>>
    BY <1>4 DEF StartOptimizer, Advance, instructionCount, Operations
  <2>2. /\ build \in Builds /\ errors = {} /\ analyze(build.source) = {} /\ stats = NoStats
        /\ remove = {} /\ object = NoObject /\ Code
    BY <2>1 DEF FrontInv
  <2>3. count \in Nat /\ Cardinality(remove') = 0
    <3>1. items \in Seq(Item) /\ Operations(items) \in SUBSET Operations(items)
      BY <2>2 DEF Code
    <3>2. QED
      BY <2>1, <2>2, <3>1, OperationSets, FS_EmptySet
  <2>4. count = Cardinality(Operations(items'))
    BY <2>1
  <2> HIDE DEF count
  <2>5. Counts(stats') /\ stats'.before = count /\ RemovedBy(stats') = 0
    <3>1. stats' = [constants_folded |-> 0, identities_eliminated |-> 0,
                    dead_stores_removed |-> 0, unreachable_removed |-> 0,
                    peepholes_applied |-> 0, before |-> count, after |-> count]
      BY <2>1, <2>2 DEF NoStats
    <3>2. QED
      BY <2>3, <3>1 DEF Counts, RemovedBy
  <2>6. Balanced'
    <3>1. remove' \in SUBSET Operations(items')
      BY <2>1, <2>2
    <3>2. stats'.before = (Cardinality(Operations(items')) - Cardinality(remove'))
                            + RemovedBy(stats')
      BY <2>3, <2>4, <2>5
    <3>3. QED
      BY <2>5, <3>1, <3>2 DEF Balanced
  <2>7. Optimizing'
    BY <2>1, <2>2, <2>6 DEF Optimizing
  <2>8. QED
    BY <1>1, <2>1, <2>2, <2>7 DEF FrontInv
<1>5. CASE Optimize
  <2>1. stage = "optimizing" /\ OptimizerStep /\ UNCHANGED pipeline
    BY <1>5 DEF Optimize
  <2>2. Code /\ Optimizing /\ build.opt_level \in {"O0", "O1"}
    BY <2>1, BuildSource DEF FrontInv
  <2>3. Code' /\ Optimizing'
    BY <2>1, <2>2, OptimizeKeeps
  <2>4. QED
    BY <2>1, <2>3 DEF FrontInv, pipeline
<1>6. CASE Layout
  BY <1>1, <1>6 DEF Layout, Advance, FrontInv, optimizer
<1>7. CASE Bind
  BY <1>1, <1>7 DEF Bind, Advance, FrontInv, optimizer
<1>8. CASE EmitObject
  <2>1. /\ stage = "bound" /\ (stage' = "failed" \/ (stage' = "done" /\ errors' = errors))
        /\ UNCHANGED <<optimizer, build, data, names>>
    BY <1>8 DEF EmitObject, Advance
  <2>2. QED
    BY <1>1, <2>1 DEF FrontInv, optimizer
<1>9. CASE UNCHANGED vars
  <2>1. UNCHANGED <<build, stage, data, names, errors, object, items, remove, phase, stats>>
    BY <1>9 DEF vars, pipeline, optimizer
  <2>2. Code' <=> Code
    BY <1>1, <2>1
  <2>3. Optimizing' <=> Optimizing
    BY <2>1 DEF Optimizing, Balanced
  <2>4. QED
    BY <2>1, <2>2, <2>3 DEF FrontInv
<1>10. QED
  BY <1>2, <1>3, <1>4, <1>5, <1>6, <1>7, <1>8, <1>9 DEF Next

\* The front end and the optimizer keep their invariant.
LEMMA FrontAlways == Spec => []FrontInv
<1>1. QED
  BY FrontInit, FrontNext, PTL DEF Spec

\* OptStats, for every program: whatever the passes do in however many rounds,
\* each instruction that is gone or marked is counted by one counter, once.
THEOREM StatsAlwaysBalance == Spec => []StatsBalance
<1>1. FrontInv => StatsBalance
  <2>1. SUFFICES ASSUME FrontInv, stage = "optimizing" PROVE StatsBalance
    BY DEF StatsBalance
  <2>2. Balanced /\ items \in Seq(Item)
    BY <2>1 DEF FrontInv, Optimizing, Code
  <2> DEFINE left == Cardinality(Operations(items)) - Cardinality(remove)
  <2>3. left \in Int
    <3>1. remove \in SUBSET Operations(items) /\ Operations(items) \in SUBSET Operations(items)
      BY <2>2 DEF Balanced
    <3>2. Cardinality(remove) \in Nat /\ Cardinality(Operations(items)) \in Nat
      BY <2>2, <3>1, OperationSets
    <3>3. QED
      BY <3>2
  <2>4. stats.before = left + RemovedBy(stats) /\ Counts(stats)
    BY <2>2 DEF Balanced
  <2> HIDE DEF left
  <2>5. stats.before = left + stats.identities_eliminated + stats.dead_stores_removed
                         + stats.unreachable_removed + stats.peepholes_applied
    BY <2>3, <2>4 DEF RemovedBy, Counts
  <2>6. QED
    BY <2>5 DEF StatsBalance, left, instructionCount, Operations
<1>2. QED
  BY <1>1, FrontAlways, PTL

-----------------------------------------------------------------------------
(***************************************************************************)
(* Encoding and decoding.                                                  *)
(***************************************************************************)

\* A digit appended to a number.
LEMMA Digit ==
  ASSUME NEW A \in Nat, NEW B \in Nat, NEW a \in 0 .. A - 1, NEW d \in 0 .. B - 1
  PROVE  /\ a * B + d \in 0 .. A * B - 1 /\ A * B \in Nat
         /\ (a * B + d) \div B = a /\ (a * B + d) % B = d
<1>1. a * B \in Nat /\ A * B \in Nat /\ (A - 1) * B = A * B - B
  OBVIOUS
<1>2. a * B <= (A - 1) * B
  <2>1. \A x, y \in Nat : \A z \in Nat : x <= y => x * z <= y * z
    <3>1. SUFFICES ASSUME NEW x \in Nat, NEW y \in Nat, NEW z \in Nat, x <= y
                   PROVE  x * z <= y * z
      OBVIOUS
    <3>2. y * z = x * z + (y - x) * z /\ (y - x) * z >= 0
      BY <3>1
    <3>3. QED
      BY <3>1, <3>2
  <2>2. a \in Nat /\ A - 1 \in Nat /\ a <= A - 1
    OBVIOUS
  <2>3. QED
    BY <2>1, <2>2
<1>3. a * B + d \in 0 .. A * B - 1
  BY <1>1, <1>2
<1>4. (a * B + d) % B = d /\ (a * B + d) \div B = a
  <2>1. B > 0 /\ B \in Nat
    OBVIOUS
  <2>2. \A q \in Int : \A r \in 0 .. B - 1 : (q * B + r) % B = r /\ (q * B + r) \div B = q
    BY <2>1
  <2>3. QED
    BY <2>2
<1>5. QED
  BY <1>1, <1>3, <1>4

LEMMA OpcodeNumbers ==
  ASSUME NEW opcode \in Opcode
  PROVE  OpcodeNumber[opcode] \in 0 .. 35 /\ kOpcodes[OpcodeNumber[opcode] + 1] = opcode
<1> DEFINE n == CHOOSE n \in DOMAIN kOpcodes : kOpcodes[n] = opcode
<1>1. \E m \in DOMAIN kOpcodes : kOpcodes[m] = opcode
  BY DEF Opcode
<1>2. n \in DOMAIN kOpcodes /\ kOpcodes[n] = opcode
  BY <1>1
<1>3. DOMAIN kOpcodes = 1 .. 36
  BY DEF kOpcodes
<1>4. OpcodeNumber[opcode] = n - 1
  BY DEF OpcodeNumber
<1> HIDE DEF n
<1>5. n \in 1 .. 36 /\ (n - 1) + 1 = n
  BY <1>2, <1>3
<1>6. QED
  BY <1>2, <1>4, <1>5

\* The immediate is read back as it was.
LEMMA ImmediateReadBack ==
  ASSUME NEW imm \in Word
  PROVE  /\ imm % ImmediateModulus \in 0 .. ImmediateModulus - 1
         /\ imm < ImmediateModulus => imm % ImmediateModulus = imm
         /\ fitsSigned(imm, ImmediateModulus) => signExtend(imm % ImmediateModulus) = imm
<1> DEFINE I == ImmediateModulus
           W == WordModulus
           h == I \div 2
<1>1. /\ I \in Nat /\ W \in Nat /\ 0 < I /\ I < W /\ W % I = 0 /\ h + h = I /\ h \in Nat /\ 0 < h
      /\ imm \in 0 .. W - 1
  BY Sizes, FieldAssumption DEF Word
<1>2. fitsSigned(imm, I) <=> imm < h \/ imm >= W - h
  BY DEF fitsSigned
<1>3. \A bits : signExtend(bits) = IF bits < h THEN bits ELSE W - I + bits
  BY DEF signExtend
<1> HIDE DEF I, W, h
<1>4. imm % I \in 0 .. I - 1 /\ (imm < I => imm % I = imm)
  BY <1>1
<1>5. ASSUME imm >= W - h PROVE imm % I = imm - (W - I)
  <2> DEFINE q == W \div I
             r == imm - (W - I)
  <2>1. q \in Nat /\ W = q * I
    BY <1>1
  <2>2. r \in 0 .. I - 1
    BY <1>1, <1>5
  <2>3. imm = (q - 1) * I + r
    <3>1. (q - 1) * I = q * I - I
      BY <1>1, <2>1
    <3>2. QED
      BY <1>1, <2>1, <3>1
  <2>4. q >= 1
    <3>1. q # 0
      BY <1>1, <2>1
    <3>2. QED
      BY <2>1, <3>1
  <2> HIDE DEF q, r
  <2>5. ((q - 1) * I + r) % I = r
    BY <1>1, <2>1, <2>2, <2>4, Digit
  <2>6. QED
    BY <2>3, <2>5 DEF r
<1>6. ASSUME fitsSigned(imm, I) PROVE signExtend(imm % I) = imm
  <2>1. CASE imm < h
    BY <1>1, <1>3, <1>4, <2>1
  <2>2. CASE imm >= W - h
    BY <1>1, <1>3, <1>5, <2>2
  <2>3. QED
    BY <1>2, <1>6, <2>1, <2>2
<1>7. QED
  BY <1>4, <1>6 DEF I

\* decode() finds what encode() was given.
LEMMA DecodesEncoded ==
  ASSUME NEW machine \in MachineRecord, EncodeError(machine) = "None"
  PROVE  encode(machine) \in Word /\ decode(encode(machine)) = machine
<1> DEFINE n == OpcodeNumber[machine.opcode]
           d == machine.dst
           s == machine.src
           R == RegisterCount
           I == ImmediateModulus
           x == machine.imm % I
           format == Format(machine.opcode)
           word == encode(machine)
<1>1. /\ machine.opcode \in Opcode /\ d \in 0 .. R - 1 /\ s \in 0 .. R - 1
      /\ machine.imm \in Word
      /\ machine = [opcode |-> machine.opcode, dst |-> d, src |-> s, imm |-> machine.imm]
  BY DEF MachineRecord
<1>2. n \in 0 .. 35 /\ kOpcodes[n + 1] = machine.opcode
  BY <1>1, OpcodeNumbers
<1>3. R \in Nat /\ I \in Nat /\ 0 < I /\ 0 < R /\ 36 * R * R * I <= WordModulus
      /\ WordModulus \in Nat
  BY Sizes, InstructionSetAssumption
<1>4. /\ x \in 0 .. I - 1 /\ (machine.imm < I => x = machine.imm)
      /\ fitsSigned(machine.imm, I) => signExtend(x) = machine.imm
  BY <1>1, ImmediateReadBack
<1>5. word = ((n * R + d) * R + s) * I + x
  BY DEF encode, Fields
<1>6. /\ usesDst(format) \/ d = 0
      /\ usesSrc(format) \/ s = 0
      /\ usesImm(format) \/ machine.imm = 0
      /\ usesImm(format) => ImmediateFits(format, machine.imm)
  BY <1>1 DEF EncodeError
<1>7. DOMAIN kOpcodes = 1 .. 36
  BY DEF kOpcodes
<1>8. decode(word) =
        LET bits   == word % I
            src    == (word \div I) % R
            dst    == (word \div (I * R)) % R
            number == word \div (I * R * R)
            opcode == kOpcodes[number + 1]
            f      == Format(opcode)
        IN  IF number + 1 \notin DOMAIN kOpcodes THEN Undecodable
            ELSE IF \/ ~usesDst(f) /\ dst # 0
                    \/ ~usesSrc(f) /\ src # 0
                    \/ ~usesImm(f) /\ bits # 0 THEN Undecodable
            ELSE [opcode |-> opcode, dst |-> dst, src |-> src,
                  imm |-> IF usesImm(f) /\ f # "SysImm" THEN signExtend(bits) ELSE bits]
  BY Zenon DEF decode
<1> HIDE DEF n, d, s, R, I, x, format, word
<1>9. /\ word \in 0 .. (((36 * R) * R) * I) - 1 /\ word \div I = (n * R + d) * R + s
      /\ word % I = x /\ (word \div I) % R = s
  <2> DEFINE a == n * R + d
             b == a * R + s
  <2>1. a \in 0 .. (36 * R) - 1 /\ 36 * R \in Nat
    BY <1>1, <1>2, <1>3, Digit
  <2>2. b \in 0 .. ((36 * R) * R) - 1 /\ b % R = s /\ (36 * R) * R \in Nat
    <3> HIDE DEF a
    <3>1. QED
      BY <1>1, <1>3, <2>1, Digit
  <2>3. b * I + x \in 0 .. (((36 * R) * R) * I) - 1 /\ (b * I + x) \div I = b /\ (b * I + x) % I = x
    <3> DEFINE most == (36 * R) * R
    <3>1. most \in Nat /\ b \in 0 .. most - 1
      BY <2>2
    <3> HIDE DEF a, b, most
    <3>2. b * I + x \in 0 .. most * I - 1 /\ (b * I + x) \div I = b /\ (b * I + x) % I = x
      BY <1>3, <1>4, <3>1, Digit
    <3>3. QED
      BY <3>2 DEF most
  <2>4. QED
    BY <1>5, <2>2, <2>3
<1>10. (word \div (I * R)) % R = d
  <2> DEFINE y == s * I + x
             a == n * R + d
  <2>1. y \in 0 .. R * I - 1 /\ R * I \in Nat /\ R * I = I * R
    BY <1>1, <1>3, <1>4, Digit
  <2>2. a \in 0 .. (36 * R) - 1 /\ 36 * R \in Nat /\ a % R = d
    <3> DEFINE most == 36
    <3>1. n \in 0 .. most - 1 /\ most \in Nat
      BY <1>2
    <3> HIDE DEF most
    <3>2. n * R + d \in 0 .. most * R - 1 /\ most * R \in Nat /\ (n * R + d) % R = d
      BY <1>1, <1>3, <3>1, Digit
    <3>3. QED
      BY <3>2 DEF most
  <2>3. word = a * (I * R) + y
    <3>1. \A p, q, r, t \in Nat : (p * q + r) * t = p * (t * q) + r * t
      OBVIOUS
    <3>2. a \in Nat /\ s \in Nat /\ x \in Nat /\ a * R + s \in Nat
      BY <1>1, <1>3, <1>4, <2>2
    <3>3. word = (a * R + s) * I + x
      BY <1>5
    <3> HIDE DEF a
    <3>4. (a * R + s) * I = a * (I * R) + s * I
      BY <1>3, <3>1, <3>2
    <3>5. a * (I * R) \in Nat /\ s * I \in Nat
      BY <1>3, <3>2
    <3>6. QED
      BY <3>2, <3>3, <3>4, <3>5
  <2> HIDE DEF a, y
  <2>4. (a * (I * R) + y) \div (I * R) = a
    <3> DEFINE many == I * R
               most == 36 * R
    <3>1. y \in 0 .. many - 1 /\ many \in Nat /\ a \in 0 .. most - 1 /\ most \in Nat
      BY <2>1, <2>2
    <3> HIDE DEF many, most
    <3>2. (a * many + y) \div many = a
      BY <3>1, Digit
    <3>3. QED
      BY <3>2 DEF many
  <2>5. QED
    BY <2>2, <2>3, <2>4
<1>11. word \div (I * R * R) = n
  <2> DEFINE y == s * I + x
             z == d * (I * R) + y
  <2>1. y \in 0 .. R * I - 1 /\ R * I \in Nat /\ R * I = I * R /\ I * R \in Nat
    BY <1>1, <1>3, <1>4, Digit
  <2>2. z \in 0 .. R * (I * R) - 1 /\ R * (I * R) \in Nat /\ R * (I * R) = I * R * R
    <3> HIDE DEF y
    <3>1. y \in 0 .. (I * R) - 1
      BY <2>1
    <3>2. QED
      BY <1>1, <1>3, <2>1, <3>1, Digit
  <2>3. word = n * (I * R * R) + z
    <3>1. \A p, q, r, t, u \in Nat : ((p * q + r) * q + t) * u = p * (u * q * q) + (r * (u * q) + t * u)
      OBVIOUS
    <3>2. n \in Nat /\ d \in Nat /\ s \in Nat /\ x \in Nat
      BY <1>1, <1>2, <1>3, <1>4
    <3>3. ((n * R + d) * R + s) * I = n * (I * R * R) + (d * (I * R) + s * I)
      BY <1>3, <3>1, <3>2
    <3>4. n * (I * R * R) \in Nat /\ d * (I * R) \in Nat /\ s * I \in Nat
      BY <1>3, <3>2
    <3>5. QED
      BY <1>5, <3>2, <3>3, <3>4
  <2> HIDE DEF y, z
  <2>4. (n * (I * R * R) + z) \div (I * R * R) = n
    <3> DEFINE many == I * R * R
               most == 36
    <3>1. z \in 0 .. many - 1 /\ many \in Nat /\ n \in 0 .. most - 1 /\ most \in Nat
      BY <1>2, <2>2
    <3> HIDE DEF many, most
    <3>2. (n * many + z) \div many = n
      BY <3>1, Digit
    <3>3. QED
      BY <3>2 DEF many
  <2>5. QED
    BY <2>3, <2>4
<1>12. word \in Word
  <2>1. ((36 * R) * R) * I <= WordModulus /\ ((36 * R) * R) * I \in Nat
    BY <1>3
  <2>2. QED
    BY <1>3, <1>9, <2>1 DEF Word
<1>13. n + 1 \in DOMAIN kOpcodes
  BY <1>2, <1>7
<1>14. format \in {"None", "Reg1", "Reg2", "RegImm", "Mem", "Jump", "SysImm"}
  BY <1>1, Formats DEF format
<1>15. (IF usesImm(format) /\ format # "SysImm" THEN signExtend(x) ELSE x) = machine.imm
  <2>1. CASE ~usesImm(format)
    BY <1>3, <1>4, <1>6, <2>1
  <2>2. CASE format = "SysImm"
    BY <1>3, <1>4, <1>6, <2>2 DEF usesImm, ImmediateFits, fitsUnsigned, I
  <2>3. CASE usesImm(format) /\ format # "SysImm"
    BY <1>4, <1>6, <2>3 DEF ImmediateFits, I
  <2>4. QED
    BY <2>1, <2>2, <2>3
<1>16. ~usesImm(format) => x = 0
  BY <1>3, <1>4, <1>6
<1>17. decode(word) = machine
  <2>1. decode(word) = [opcode |-> machine.opcode, dst |-> d, src |-> s, imm |-> machine.imm]
    BY <1>2, <1>6, <1>8, <1>9, <1>10, <1>11, <1>13, <1>15, <1>16 DEF format
  <2>2. QED
    BY <1>1, <2>1
<1>18. QED
  BY <1>12, <1>17 DEF word

-----------------------------------------------------------------------------
(***************************************************************************)
(* The bytes of an item.                                                   *)
(***************************************************************************)

\* The bytes an item takes up when it is at an offset.
Width(item, at) ==
  CASE item.kind = "label"       -> 0
    [] item.kind = "instruction" -> WordSize
    [] item.kind = "bytes"       -> Len(item.data)
    [] item.kind = "value"       -> item.width
    [] item.kind = "space"       -> item.size
    [] item.kind = "align"       -> alignUp(at, item.alignment) - at

BytesOf(item, at) ==
  CASE item.kind = "label"       -> <<>>
    [] item.kind = "instruction" ->
         IF EncodeError(Encoded(item)) # "None" THEN Zeros(WordSize)
         ELSE StoreWord(encode(Encoded(item)))
    [] item.kind = "bytes"       -> item.data
    [] item.kind = "value"       -> Zeros(item.width)
    [] item.kind = "space"       -> [k \in 1 .. item.size |-> item.fill]
    [] item.kind = "align"       -> Zeros(alignUp(at, item.alignment) - at)

LEMMA ZeroBytes ==
  ASSUME NEW n \in Nat
  PROVE  /\ Zeros(n) \in Seq(Byte) /\ Len(Zeros(n)) = n /\ DOMAIN Zeros(n) = 1 .. n
         /\ \A k \in 1 .. n : Zeros(n)[k] = ZeroByte
<1>1. ZeroByte \in Byte
  BY FrontEndAssumption
<1>2. Zeros(n) \in [1 .. n -> Byte] /\ \A k \in 1 .. n : Zeros(n)[k] = ZeroByte
  BY <1>1 DEF Zeros
<1>3. QED
  BY <1>2

LEMMA FunctionIsSequence ==
  ASSUME NEW S, NEW n \in Nat, NEW f \in [1 .. n -> S]
  PROVE  f \in Seq(S) /\ Len(f) = n
  OBVIOUS

LEMMA AlignsUp ==
  ASSUME NEW value \in Nat, NEW alignment \in Nat \ {0}
  PROVE  alignUp(value, alignment) \in Nat /\ alignUp(value, alignment) >= value
<1>1. value % alignment \in 0 .. alignment - 1
  OBVIOUS
<1>2. QED
  BY <1>1 DEF alignUp

LEMMA EncodedMachine ==
  ASSUME NEW item \in InstructionItem
  PROVE  Encoded(item) \in MachineRecord /\ Encoded(item).opcode = item.machine.opcode
<1>1. item.machine \in MachineRecord /\ 0 \in Word
  BY Sizes DEF InstructionItem
<1>2. QED
  BY <1>1 DEF Encoded, MachineRecord

\* Only zeros in .bss.
LEMMA ItemBytes ==
  ASSUME NEW item \in Item, NEW at \in Nat
  PROVE  /\ BytesOf(item, at) \in Seq(Byte) /\ Len(BytesOf(item, at)) = Width(item, at)
         /\ Width(item, at) \in Nat
         /\ \/ item.kind \in {"label", "align"}
            \/ item.kind = "space" /\ item.fill = ZeroByte
            => \A k \in 1 .. Width(item, at) : BytesOf(item, at)[k] = ZeroByte
<1>1. WordSize \in Nat /\ WordSize = 8 /\ Word \subseteq Nat
  BY Sizes
<1>2. CASE item.kind = "label"
  <2>1. BytesOf(item, at) = <<>> /\ Width(item, at) = 0
    BY <1>2 DEF BytesOf, Width
  <2>2. QED
    BY <2>1
<1>3. CASE item.kind = "instruction"
  <2>1. item \in InstructionItem
    BY <1>3, ItemKinds
  <2>2. Encoded(item) \in MachineRecord
    BY <2>1, EncodedMachine
  <2>3. Width(item, at) = WordSize
    BY <1>3 DEF Width
  <2>4. BytesOf(item, at) = IF EncodeError(Encoded(item)) # "None" THEN Zeros(WordSize)
                            ELSE StoreWord(encode(Encoded(item)))
    BY <1>3 DEF BytesOf
  <2>5. ASSUME EncodeError(Encoded(item)) = "None"
        PROVE  /\ StoreWord(encode(Encoded(item))) \in Seq(Byte)
               /\ Len(StoreWord(encode(Encoded(item)))) = WordSize
    <3>1. encode(Encoded(item)) \in Word
      BY <2>2, <2>5, DecodesEncoded
    <3>2. StoreWord(encode(Encoded(item))) \in [1 .. WordSize -> Byte]
      BY <3>1, MemoryAssumption
    <3>3. QED
      BY <1>1, <3>2, FunctionIsSequence, Zenon
  <2>6. QED
    BY <1>1, <1>3, <2>3, <2>4, <2>5, ZeroBytes
<1>4. CASE item.kind = "bytes"
  <2>1. item.data \in Seq(Byte)
    BY <1>4, ItemKinds DEF BytesItem
  <2>2. BytesOf(item, at) = item.data /\ Width(item, at) = Len(item.data)
    BY <1>4 DEF BytesOf, Width
  <2>3. QED
    BY <1>4, <2>1, <2>2
<1>5. CASE item.kind = "value"
  <2>1. item.width \in Nat
    BY <1>5, ItemKinds DEF ValueItem
  <2>2. BytesOf(item, at) = Zeros(item.width) /\ Width(item, at) = item.width
    BY <1>5 DEF BytesOf, Width
  <2>3. QED
    BY <1>5, <2>1, <2>2, ZeroBytes
<1>6. CASE item.kind = "space"
  <2>1. item.size \in Nat /\ item.fill \in Byte
    BY <1>1, <1>6, ItemKinds DEF SpaceItem
  <2>2. /\ BytesOf(item, at) = [k \in 1 .. item.size |-> item.fill]
        /\ Width(item, at) = item.size
    BY <1>6 DEF BytesOf, Width
  <2>3. BytesOf(item, at) \in [1 .. item.size -> Byte]
    BY <2>1, <2>2
  <2>4. QED
    BY <1>6, <2>1, <2>2, <2>3
<1>7. CASE item.kind = "align"
  <2>1. item.alignment \in Nat \ {0}
    BY <1>1, <1>7, ItemKinds DEF AlignItem
  <2> DEFINE n == alignUp(at, item.alignment) - at
  <2>2. n \in Nat
    BY <2>1, AlignsUp
  <2>3. BytesOf(item, at) = Zeros(n) /\ Width(item, at) = n
    BY <1>7 DEF BytesOf, Width
  <2> HIDE DEF n
  <2>4. QED
    BY <2>2, <2>3, ZeroBytes
<1>8. QED
  BY <1>2, <1>3, <1>4, <1>5, <1>6, <1>7, ItemKinds

-----------------------------------------------------------------------------
(***************************************************************************)
(* Objects and their symbols.                                              *)
(***************************************************************************)
SectionRecord == [type : SectionKind, alignment : Nat, size : Nat, data : Seq(Byte)]
SymbolRecord ==
  [name : STRING, binding : SymbolBinding, defined : BOOLEAN, section : Nat, value : Nat]
RelocationRecord ==
  [section : Nat, offset : Nat, type : RelocationType, addend : Word, symbol : Nat]
DebugRecord == [section : Nat, file : {1}, offset : Nat, line : Nat]
ErrorRecord ==
  [line : Nat, code : {"DuplicateSymbol", "SymbolVisibilityConflict", "UndefinedSymbol",
                       "InvalidRegister", "NonCanonicalOperand", "ImmediateOutOfRange",
                       "InternalError"}]
ObjectRecord(n) ==
  [sections : [1 .. n -> SectionRecord], symbols : Seq(SymbolRecord),
   relocations : Seq(RelocationRecord), debug_info : Seq(DebugRecord),
   source_files : {<<File>>}, errors : SUBSET ErrorRecord]

UniqueNames(symbols) ==
  \A i, j \in DOMAIN symbols : symbols[i].name = symbols[j].name => i = j

\* A symbol keeps its place, its name and its definition.
SymbolsGrow(old, new) ==
  /\ DOMAIN old \subseteq DOMAIN new
  /\ \A i \in DOMAIN old :
       /\ new[i].name = old[i].name /\ new[i].defined = old[i].defined
       /\ new[i].section = old[i].section /\ new[i].value = old[i].value
  /\ \A i \in DOMAIN new \ DOMAIN old : ~new[i].defined /\ new[i].section = Undefined
  /\ UniqueNames(old) => UniqueNames(new)

Dangles(symbol) == ~symbol.defined /\ symbol.binding = "Local"

\* A name in the table, and one symbol more if it was not there.
LEMMA FindsOrAdds ==
  ASSUME NEW symbols \in Seq(SymbolRecord), NEW name \in STRING
  PROVE  LET t == findOrAdd(symbols, name)
             i == SymbolIndex(t, name)
         IN  /\ t \in Seq(SymbolRecord) /\ SymbolsGrow(symbols, t)
             /\ i \in DOMAIN t /\ t[i].name = name
             /\ \A j \in DOMAIN t : j # i => j \in DOMAIN symbols /\ t[j] = symbols[j]
             /\ i \in DOMAIN symbols => t = symbols
             /\ i \notin DOMAIN symbols =>
                  /\ Dangles(t[i])
                  /\ \A j \in DOMAIN symbols : symbols[j].name # name
<1> DEFINE t == findOrAdd(symbols, name)
           i == SymbolIndex(t, name)
           fresh == [name |-> name, binding |-> "Local", defined |-> FALSE,
                     section |-> Undefined, value |-> 0]
           known == \E j \in DOMAIN symbols : symbols[j].name = name
<1>1. t = IF known THEN symbols ELSE Append(symbols, fresh)
  BY DEF findOrAdd
<1>2. i = CHOOSE j \in DOMAIN t : t[j].name = name
  BY DEF SymbolIndex
<1>3. fresh \in SymbolRecord /\ fresh.name = name /\ Dangles(fresh) /\ fresh.section = Undefined
  BY DEF SymbolRecord, SymbolBinding, Undefined, Dangles
<1> HIDE DEF fresh, t, i
<1>4. CASE known
  <2>1. t = symbols
    BY <1>1, <1>4
  <2>2. i \in DOMAIN symbols /\ symbols[i].name = name
    BY <1>2, <1>4, <2>1
  <2>3. SymbolsGrow(symbols, symbols)
    BY DEF SymbolsGrow
  <2>4. QED
    BY <2>1, <2>2, <2>3 DEF t, i
<1>5. CASE ~known
  <2> DEFINE last == Len(symbols) + 1
  <2>1. t = Append(symbols, fresh)
    BY <1>1, <1>5
  <2>2. /\ t \in Seq(SymbolRecord) /\ DOMAIN symbols = 1 .. Len(symbols) /\ Len(symbols) \in Nat
        /\ DOMAIN t = 1 .. last /\ t[last] = fresh
        /\ \A j \in 1 .. Len(symbols) : t[j] = symbols[j]
    BY <1>3, <2>1, Appended
  <2>3. \A j \in DOMAIN symbols : symbols[j].name # name
    BY <1>5
  <2>4. /\ last \in DOMAIN t /\ last \notin DOMAIN symbols
        /\ \A j \in DOMAIN t : j # last => j \in DOMAIN symbols /\ t[j] = symbols[j]
        /\ \A j \in DOMAIN symbols : j \in DOMAIN t /\ t[j] = symbols[j]
    BY <2>2
  <2> HIDE DEF last
  <2>5. \E j \in DOMAIN t : t[j].name = name
    BY <1>3, <2>2, <2>4
  <2>6. i \in DOMAIN t /\ t[i].name = name
    BY <1>2, <2>5
  <2>7. i = last
    BY <2>3, <2>4, <2>6
  <2>8. UniqueNames(symbols) => UniqueNames(t)
    BY <1>3, <2>2, <2>3, <2>4 DEF UniqueNames
  <2>9. SymbolsGrow(symbols, t)
    BY <1>3, <2>2, <2>4, <2>8 DEF SymbolsGrow, Dangles
  <2>10. QED
    BY <1>3, <2>2, <2>3, <2>4, <2>6, <2>7, <2>9 DEF t, i
<1>6. QED
  BY <1>4, <1>5

\* Giving a symbol another binding.
LEMMA Rebinds ==
  ASSUME NEW symbols \in Seq(SymbolRecord), NEW t \in Seq(SymbolRecord),
         SymbolsGrow(symbols, t), NEW i \in DOMAIN t, NEW binding \in SymbolBinding
  PROVE  LET u == [t EXCEPT ![i].binding = binding]
         IN  /\ u \in Seq(SymbolRecord) /\ SymbolsGrow(symbols, u) /\ DOMAIN u = DOMAIN t
             /\ u[i].binding = binding
             /\ \A j \in DOMAIN t : u[j].name = t[j].name
             /\ \A j \in DOMAIN t : j # i => u[j] = t[j]
<1> DEFINE u == [t EXCEPT ![i].binding = binding]
           s == [t[i] EXCEPT !.binding = binding]
<1>1. t[i] \in SymbolRecord
  OBVIOUS
<1>2. /\ s \in SymbolRecord /\ s.binding = binding /\ s.name = t[i].name
      /\ s.defined = t[i].defined /\ s.section = t[i].section /\ s.value = t[i].value
  BY <1>1 DEF SymbolRecord
<1>3. u = [t EXCEPT ![i] = s]
  OBVIOUS
<1> HIDE DEF s, u
<1>4. /\ u \in Seq(SymbolRecord) /\ DOMAIN u = DOMAIN t /\ u[i] = s
      /\ \A j \in DOMAIN t : j # i => u[j] = t[j]
  <2>1. DOMAIN t = 1 .. Len(t) /\ Len(t) \in Nat /\ t \in [1 .. Len(t) -> SymbolRecord]
    OBVIOUS
  <2>2. DOMAIN u = DOMAIN t /\ u[i] = s /\ \A j \in DOMAIN t : j # i => u[j] = t[j]
    BY <1>3, <2>1
  <2>3. u \in [1 .. Len(t) -> SymbolRecord]
    BY <1>2, <1>3, <2>1
  <2>4. u \in Seq(SymbolRecord)
    BY <2>1, <2>3, FunctionIsSequence, Zenon
  <2>5. QED
    BY <2>2, <2>4
<1>5. \A j \in DOMAIN t :
        /\ u[j].name = t[j].name /\ u[j].defined = t[j].defined
        /\ u[j].section = t[j].section /\ u[j].value = t[j].value
  BY <1>2, <1>4
<1>6. UniqueNames(t) => UniqueNames(u)
  BY <1>4, <1>5 DEF UniqueNames
<1>7. SymbolsGrow(symbols, u)
  BY <1>4, <1>5, <1>6 DEF SymbolsGrow
<1>8. QED
  BY <1>2, <1>4, <1>5, <1>7 DEF u

-----------------------------------------------------------------------------
(***************************************************************************)
(* Pass 2, item by item.                                                   *)
(***************************************************************************)

\* As long as there is no error, every local symbol is defined.
Clean(o) == o.errors = {} => \A i \in DOMAIN o.symbols : ~Dangles(o.symbols[i])

\* An object with some of its fields replaced.
WithSymbols(o, t, E) == [o EXCEPT !.symbols = t, !.errors = E]
WithRelocations(o, v) == [o EXCEPT !.relocations = v]
WithDebug(o, v) == [o EXCEPT !.debug_info = v]
WithSections(o, v, E) == [o EXCEPT !.errors = E, !.sections = v]

LEMMA SymbolsReplaced ==
  ASSUME NEW n, NEW o \in ObjectRecord(n), NEW t \in Seq(SymbolRecord),
         NEW E \in SUBSET ErrorRecord
  PROVE  LET r == WithSymbols(o, t, E)
         IN  /\ r \in ObjectRecord(n) /\ r.sections = o.sections
             /\ r.relocations = o.relocations /\ r.debug_info = o.debug_info
             /\ r.symbols = t /\ r.errors = E
<1> DEFINE r == WithSymbols(o, t, E)
           A == [1 .. n -> SectionRecord]
           B == Seq(SymbolRecord)
           C == Seq(RelocationRecord)
           D == Seq(DebugRecord)
           F == {<<File>>}
           G == SUBSET ErrorRecord
<1>1. ObjectRecord(n) = [sections : A, symbols : B, relocations : C, debug_info : D,
                         source_files : F, errors : G]
  BY DEF ObjectRecord
<1>2. t \in B /\ E \in G
  OBVIOUS
<1> HIDE DEF A, B, C, D, F, G
<1>3. o \in [sections : A, symbols : B, relocations : C, debug_info : D,
             source_files : F, errors : G]
  BY <1>1
<1>4. r \in [sections : A, symbols : B, relocations : C, debug_info : D,
             source_files : F, errors : G]
  BY <1>2, <1>3 DEF WithSymbols
<1>5. /\ r.sections = o.sections
      /\ r.relocations = o.relocations /\ r.debug_info = o.debug_info
      /\ r.symbols = t /\ r.errors = E
  BY <1>3 DEF WithSymbols
<1>6. QED
  BY <1>1, <1>4, <1>5

LEMMA RelocationsReplaced ==
  ASSUME NEW n, NEW o \in ObjectRecord(n), NEW v \in Seq(RelocationRecord)
  PROVE  LET r == WithRelocations(o, v)
         IN  /\ r \in ObjectRecord(n) /\ r.sections = o.sections
             /\ r.relocations = v /\ r.debug_info = o.debug_info
             /\ r.symbols = o.symbols /\ r.errors = o.errors
<1> DEFINE r == WithRelocations(o, v)
           A == [1 .. n -> SectionRecord]
           B == Seq(SymbolRecord)
           C == Seq(RelocationRecord)
           D == Seq(DebugRecord)
           F == {<<File>>}
           G == SUBSET ErrorRecord
<1>1. ObjectRecord(n) = [sections : A, symbols : B, relocations : C, debug_info : D,
                         source_files : F, errors : G]
  BY DEF ObjectRecord
<1>2. v \in C
  OBVIOUS
<1> HIDE DEF A, B, C, D, F, G
<1>3. o \in [sections : A, symbols : B, relocations : C, debug_info : D,
             source_files : F, errors : G]
  BY <1>1
<1>4. r \in [sections : A, symbols : B, relocations : C, debug_info : D,
             source_files : F, errors : G]
  BY <1>2, <1>3 DEF WithRelocations
<1>5. /\ r.sections = o.sections
      /\ r.relocations = v /\ r.debug_info = o.debug_info
      /\ r.symbols = o.symbols /\ r.errors = o.errors
  BY <1>3 DEF WithRelocations
<1>6. QED
  BY <1>1, <1>4, <1>5

LEMMA DebugReplaced ==
  ASSUME NEW n, NEW o \in ObjectRecord(n), NEW v \in Seq(DebugRecord)
  PROVE  LET r == WithDebug(o, v)
         IN  /\ r \in ObjectRecord(n) /\ r.sections = o.sections
             /\ r.relocations = o.relocations /\ r.debug_info = v
             /\ r.symbols = o.symbols /\ r.errors = o.errors
<1> DEFINE r == WithDebug(o, v)
           A == [1 .. n -> SectionRecord]
           B == Seq(SymbolRecord)
           C == Seq(RelocationRecord)
           D == Seq(DebugRecord)
           F == {<<File>>}
           G == SUBSET ErrorRecord
<1>1. ObjectRecord(n) = [sections : A, symbols : B, relocations : C, debug_info : D,
                         source_files : F, errors : G]
  BY DEF ObjectRecord
<1>2. v \in D
  OBVIOUS
<1> HIDE DEF A, B, C, D, F, G
<1>3. o \in [sections : A, symbols : B, relocations : C, debug_info : D,
             source_files : F, errors : G]
  BY <1>1
<1>4. r \in [sections : A, symbols : B, relocations : C, debug_info : D,
             source_files : F, errors : G]
  BY <1>2, <1>3 DEF WithDebug
<1>5. /\ r.sections = o.sections
      /\ r.relocations = o.relocations /\ r.debug_info = v
      /\ r.symbols = o.symbols /\ r.errors = o.errors
  BY <1>3 DEF WithDebug
<1>6. QED
  BY <1>1, <1>4, <1>5

LEMMA SectionsReplaced ==
  ASSUME NEW n, NEW o \in ObjectRecord(n), NEW v \in [1 .. n -> SectionRecord],
         NEW E \in SUBSET ErrorRecord
  PROVE  LET r == WithSections(o, v, E)
         IN  /\ r \in ObjectRecord(n) /\ r.sections = v
             /\ r.relocations = o.relocations /\ r.debug_info = o.debug_info
             /\ r.symbols = o.symbols /\ r.errors = E
<1> DEFINE r == WithSections(o, v, E)
           A == [1 .. n -> SectionRecord]
           B == Seq(SymbolRecord)
           C == Seq(RelocationRecord)
           D == Seq(DebugRecord)
           F == {<<File>>}
           G == SUBSET ErrorRecord
<1>1. ObjectRecord(n) = [sections : A, symbols : B, relocations : C, debug_info : D,
                         source_files : F, errors : G]
  BY DEF ObjectRecord
<1>2. v \in A /\ E \in G
  OBVIOUS
<1> HIDE DEF A, B, C, D, F, G
<1>3. o \in [sections : A, symbols : B, relocations : C, debug_info : D,
             source_files : F, errors : G]
  BY <1>1
<1>4. r \in [sections : A, symbols : B, relocations : C, debug_info : D,
             source_files : F, errors : G]
  BY <1>2, <1>3 DEF WithSections
<1>5. /\ r.sections = v
      /\ r.relocations = o.relocations /\ r.debug_info = o.debug_info
      /\ r.symbols = o.symbols /\ r.errors = E
  BY <1>3 DEF WithSections
<1>6. QED
  BY <1>1, <1>4, <1>5

LEMMA ObjectFields ==
  ASSUME NEW n, NEW o \in ObjectRecord(n)
  PROVE  /\ o.sections \in [1 .. n -> SectionRecord] /\ o.symbols \in Seq(SymbolRecord)
         /\ o.relocations \in Seq(RelocationRecord) /\ o.debug_info \in Seq(DebugRecord)
         /\ o.errors \in SUBSET ErrorRecord /\ o.source_files = <<File>>
  BY DEF ObjectRecord

\* A reference to a name finds it in the table.
LEMMA RefersTo ==
  ASSUME NEW n, NEW o \in ObjectRecord(n), NEW name \in STRING, NEW line \in Nat
  PROVE  LET r == referenceSymbol(o, name, line)
             i == SymbolIndex(r.symbols, name)
         IN  /\ r \in ObjectRecord(n) /\ r.sections = o.sections
             /\ r.relocations = o.relocations /\ r.debug_info = o.debug_info
             /\ SymbolsGrow(o.symbols, r.symbols)
             /\ i \in DOMAIN r.symbols /\ r.symbols[i].name = name
             /\ r.errors \in {o.errors, o.errors \cup {Error(line, "UndefinedSymbol")}}
             /\ Clean(o) => Clean(r)
<1> DEFINE t == findOrAdd(o.symbols, name)
           i == SymbolIndex(t, name)
           r == referenceSymbol(o, name, line)
           u == [t EXCEPT ![i].binding = "Extern"]
           more == o.errors \cup {Error(line, "UndefinedSymbol")}
           j == SymbolIndex(r.symbols, name)
<1>1. o.symbols \in Seq(SymbolRecord) /\ o.errors \in SUBSET ErrorRecord
  BY ObjectFields
<1>2. /\ t \in Seq(SymbolRecord) /\ SymbolsGrow(o.symbols, t)
      /\ i \in DOMAIN t /\ t[i].name = name
      /\ \A k \in DOMAIN t : k # i => k \in DOMAIN o.symbols /\ t[k] = o.symbols[k]
  BY <1>1, FindsOrAdds
<1>3. more \in SUBSET ErrorRecord
  <2>1. Error(line, "UndefinedSymbol") \in ErrorRecord
    BY DEF Error, ErrorRecord
  <2>2. QED
    BY <1>1, <2>1
<1>4. /\ u \in Seq(SymbolRecord) /\ SymbolsGrow(o.symbols, u) /\ DOMAIN u = DOMAIN t
      /\ u[i].binding = "Extern" /\ u[i].name = name
      /\ \A k \in DOMAIN t : k # i => u[k] = t[k]
  <2>1. "Extern" \in SymbolBinding
    BY DEF SymbolBinding
  <2> HIDE DEF t, i
  <2>2. /\ u \in Seq(SymbolRecord) /\ SymbolsGrow(o.symbols, u) /\ DOMAIN u = DOMAIN t
        /\ u[i].binding = "Extern" /\ \A k \in DOMAIN t : u[k].name = t[k].name
        /\ \A k \in DOMAIN t : k # i => u[k] = t[k]
    BY <1>1, <1>2, <2>1, Rebinds
  <2> HIDE DEF u
  <2>3. QED
    BY <1>2, <2>2
<1>5. \/ ~Dangles(t[i]) /\ r = [o EXCEPT !.symbols = t]
      \/ r = [o EXCEPT !.symbols = t, !.errors = @ \cup {Error(line, "UndefinedSymbol")}]
      \/ r = [o EXCEPT !.symbols = u]
  BY DEF referenceSymbol, Dangles
<1>6. /\ [o EXCEPT !.symbols = t] = WithSymbols(o, t, o.errors)
      /\ [o EXCEPT !.symbols = u] = WithSymbols(o, u, o.errors)
      /\ [o EXCEPT !.symbols = t, !.errors = @ \cup {Error(line, "UndefinedSymbol")}]
           = WithSymbols(o, t, more)
  <2> HIDE DEF t, u
  <2>1. QED
    BY DEF ObjectRecord, WithSymbols
<1>7. j = CHOOSE k \in DOMAIN r.symbols : r.symbols[k].name = name
  BY DEF SymbolIndex
<1> HIDE DEF t, i, u, more, r, j
<1>8. more # {}
  BY DEF more
<1>9. CASE ~Dangles(t[i]) /\ r = [o EXCEPT !.symbols = t]
  <2>1. /\ r \in ObjectRecord(n) /\ r.sections = o.sections /\ r.symbols = t
        /\ r.relocations = o.relocations /\ r.debug_info = o.debug_info
        /\ r.errors = o.errors
    <3>1. r = WithSymbols(o, t, o.errors)
      BY <1>6, <1>9
    <3>2. QED
      BY <1>1, <1>2, <3>1, SymbolsReplaced
  <2>2. j \in DOMAIN r.symbols /\ r.symbols[j].name = name
    BY <1>2, <1>7, <2>1
  <2>3. Clean(o) => Clean(r)
    BY <1>2, <1>9, <2>1 DEF Clean
  <2>4. QED
    BY <1>2, <2>1, <2>2, <2>3 DEF r, j
<1>10. CASE r = [o EXCEPT !.symbols = t, !.errors = @ \cup {Error(line, "UndefinedSymbol")}]
  <2>1. /\ r \in ObjectRecord(n) /\ r.sections = o.sections /\ r.symbols = t
        /\ r.relocations = o.relocations /\ r.debug_info = o.debug_info
        /\ r.errors = more
    <3>1. r = WithSymbols(o, t, more)
      BY <1>6, <1>10
    <3>2. QED
      BY <1>2, <1>3, <3>1, SymbolsReplaced
  <2>2. j \in DOMAIN r.symbols /\ r.symbols[j].name = name
    BY <1>2, <1>7, <2>1
  <2>3. Clean(r)
    BY <1>8, <2>1 DEF Clean
  <2>4. QED
    BY <1>2, <2>1, <2>2, <2>3 DEF r, j, more
<1>11. CASE r = [o EXCEPT !.symbols = u]
  <2>1. /\ r \in ObjectRecord(n) /\ r.sections = o.sections /\ r.symbols = u
        /\ r.relocations = o.relocations /\ r.debug_info = o.debug_info
        /\ r.errors = o.errors
    <3>1. r = WithSymbols(o, u, o.errors)
      BY <1>6, <1>11
    <3>2. QED
      BY <1>1, <1>4, <3>1, SymbolsReplaced
  <2>2. j \in DOMAIN r.symbols /\ r.symbols[j].name = name
    BY <1>2, <1>4, <1>7, <2>1
  <2>3. Clean(o) => Clean(r)
    BY <1>2, <1>4, <2>1 DEF Clean, Dangles
  <2>4. QED
    BY <1>4, <2>1, <2>2, <2>3 DEF r, j
<1>12. QED
  BY <1>5, <1>9, <1>10, <1>11

\* A relocation is of the place that is written next and of the symbol named.
IsRelocation(r, o, m, symbol, s) ==
  /\ r.section = s /\ r.offset = Written(o, s) /\ r.symbol \in DOMAIN m.symbols
  /\ symbol = [name |-> m.symbols[r.symbol].name, addend |-> r.addend]

LEMMA Relocates ==
  ASSUME NEW n \in Nat, NEW o \in ObjectRecord(n), NEW s \in 1 .. n,
         NEW type \in RelocationType, NEW symbol \in Reference, NEW line \in Nat
  PROVE  LET m == addRelocation(o, s, type, symbol, line)
         IN  /\ m \in ObjectRecord(n) /\ m.sections = o.sections
             /\ m.debug_info = o.debug_info
             /\ SymbolsGrow(o.symbols, m.symbols)
             /\ m.errors \in {o.errors, o.errors \cup {Error(line, "UndefinedSymbol")}}
             /\ Clean(o) => Clean(m)
             /\ \E r \in RelocationRecord :
                  /\ m.relocations = Append(o.relocations, r) /\ r.type = type
                  /\ IsRelocation(r, o, m, symbol, s)
<1> DEFINE q == referenceSymbol(o, symbol.name, line)
           i == SymbolIndex(q.symbols, symbol.name)
           r == [section |-> s, offset |-> Written(o, s), type |-> type,
                 addend |-> symbol.addend, symbol |-> i]
           m == [q EXCEPT !.relocations = Append(@, r)]
<1>1. addRelocation(o, s, type, symbol, line) = m
  BY DEF addRelocation
<1>2. /\ symbol.name \in STRING /\ symbol.addend \in Word
      /\ symbol = [name |-> symbol.name, addend |-> symbol.addend]
  BY DEF Reference
<1>3. /\ q \in ObjectRecord(n) /\ q.sections = o.sections
      /\ q.relocations = o.relocations /\ q.debug_info = o.debug_info
      /\ SymbolsGrow(o.symbols, q.symbols)
      /\ i \in DOMAIN q.symbols /\ q.symbols[i].name = symbol.name
      /\ q.errors \in {o.errors, o.errors \cup {Error(line, "UndefinedSymbol")}}
      /\ Clean(o) => Clean(q)
  BY <1>2, RefersTo
<1>4. Written(o, s) \in Nat
  <2>1. o.sections[s] \in SectionRecord
    BY ObjectFields
  <2>2. QED
    BY <2>1 DEF Written, SectionRecord
<1> HIDE DEF q
<1>5. i \in Nat
  <2>1. q.symbols \in Seq(SymbolRecord)
    BY <1>3, ObjectFields
  <2> HIDE DEF i
  <2>2. QED
    BY <1>3, <2>1
<1> HIDE DEF i
<1>6. r \in RelocationRecord
  BY <1>2, <1>4, <1>5 DEF RelocationRecord
<1>7. /\ r.section = s /\ r.offset = Written(o, s) /\ r.type = type /\ r.addend = symbol.addend
      /\ r.symbol = i
  OBVIOUS
<1>8. m = WithRelocations(q, Append(o.relocations, r))
  <2> HIDE DEF r
  <2>1. QED
    BY <1>3 DEF ObjectRecord, WithRelocations
<1> HIDE DEF r, m
<1>9. Append(o.relocations, r) \in Seq(RelocationRecord)
  BY <1>6, ObjectFields, Appended
<1>10. /\ m \in ObjectRecord(n) /\ m.sections = q.sections /\ m.symbols = q.symbols
       /\ m.relocations = Append(o.relocations, r) /\ m.debug_info = q.debug_info
       /\ m.errors = q.errors
  <2> DEFINE v == Append(o.relocations, r)
  <2>1. v \in Seq(RelocationRecord) /\ m = WithRelocations(q, v)
    BY <1>8, <1>9
  <2> HIDE DEF v
  <2>2. /\ m \in ObjectRecord(n) /\ m.sections = q.sections /\ m.symbols = q.symbols
        /\ m.relocations = v /\ m.debug_info = q.debug_info /\ m.errors = q.errors
    BY <1>3, <2>1, RelocationsReplaced
  <2>3. QED
    BY <2>2 DEF v
<1>11. Clean(o) => Clean(m)
  BY <1>3, <1>10 DEF Clean
<1>12. IsRelocation(r, o, m, symbol, s)
  BY <1>2, <1>3, <1>7, <1>10 DEF IsRelocation
<1>13. QED
  BY <1>1, <1>3, <1>6, <1>7, <1>10, <1>11, <1>12

\* The object that an item adds its relocation, its line or its error to.
Marked(o, item, s) ==
  CASE item.kind = "instruction" ->
         LET r == IF isSymbolic(item)
                    THEN addRelocation(o, s, relocationForInstruction(Encoded(item).opcode),
                                       item.symbol, item.line)
                    ELSE o
         IN  IF EncodeError(Encoded(item)) # "None"
               THEN [r EXCEPT !.errors = @ \cup {Error(item.line, EncodeError(Encoded(item)))}]
               ELSE [r EXCEPT !.debug_info =
                       Append(@, [section |-> s, file |-> 1, offset |-> Written(o, s),
                                  line |-> item.line])]
    [] item.kind = "value" ->
         addRelocation(o, s, IF item.width = 4 THEN "ABS32" ELSE "ABS64",
                       item.symbol, item.line)
    [] OTHER -> o

ErrorsOf(item) ==
  {Error(item.line, "UndefinedSymbol")} \cup
  {e \in {Error(item.line, EncodeError(Encoded(item)))} :
     item.kind = "instruction" /\ EncodeError(Encoded(item)) # "None"}

Noted(o, m, item, s, n) ==
  /\ m \in ObjectRecord(n) /\ m.sections = o.sections
  /\ SymbolsGrow(o.symbols, m.symbols)
  /\ m.errors \subseteq o.errors \cup ErrorsOf(item)
  /\ Clean(o) => Clean(m)
  /\ \/ m.relocations = o.relocations
     \/ \E r \in RelocationRecord :
          /\ m.relocations = Append(o.relocations, r) /\ IsRelocation(r, o, m, item.symbol, s)
          /\ item.kind \in {"instruction", "value"} /\ isSymbolic(item)
          /\ relocationWidth(r.type) = Width(item, Written(o, s))
  /\ \/ m.debug_info = o.debug_info
     \/ \E d \in DebugRecord :
          /\ m.debug_info = Append(o.debug_info, d)
          /\ d.section = s /\ d.offset = Written(o, s) /\ d.line = item.line
          /\ item.kind = "instruction" /\ EncodeError(Encoded(item)) = "None"

LEMMA Growth ==
  ASSUME NEW symbols PROVE SymbolsGrow(symbols, symbols)
  BY DEF SymbolsGrow

LEMMA WrittenSize ==
  ASSUME NEW n \in Nat, NEW o \in ObjectRecord(n), NEW s \in 1 .. n
  PROVE  /\ o.sections[s] \in SectionRecord /\ o.sections[s].data \in Seq(Byte)
         /\ Written(o, s) = Len(o.sections[s].data) /\ Written(o, s) \in Nat
<1>1. o.sections[s] \in SectionRecord
  BY ObjectFields
<1>2. o.sections[s].data \in Seq(Byte)
  BY <1>1 DEF SectionRecord
<1>3. QED
  BY <1>1, <1>2 DEF Written

LEMMA EncodeErrors ==
  ASSUME NEW machine
  PROVE  EncodeError(machine) \in
           {"None", "InvalidRegister", "NonCanonicalOperand", "ImmediateOutOfRange"}
  BY DEF EncodeError

LEMMA ItemNoted ==
  ASSUME NEW n \in Nat, NEW o \in ObjectRecord(n), NEW s \in 1 .. n, NEW item \in Item
  PROVE  Noted(o, Marked(o, item, s), item, s, n)
<1> DEFINE m == Marked(o, item, s)
           at == Written(o, s)
<1>1. at \in Nat /\ WordSize = 8 /\ item.line \in Nat
  BY WrittenSize, Sizes, ItemKinds
<1>2. CASE item.kind = "instruction"
  <2> DEFINE type == relocationForInstruction(Encoded(item).opcode)
             q == addRelocation(o, s, type, item.symbol, item.line)
             r == IF isSymbolic(item) THEN q ELSE o
             bad == EncodeError(Encoded(item))
             E == r.errors \cup {Error(item.line, bad)}
             d == [section |-> s, file |-> 1, offset |-> at, line |-> item.line]
  <2>1. item \in InstructionItem
    BY <1>2, ItemKinds
  <2>2. type \in {"PCREL48", "IMM48"} /\ type \in RelocationType /\ relocationWidth(type) = WordSize
    BY DEF relocationForInstruction, RelocationType, relocationWidth
  <2>3. Width(item, at) = WordSize
    BY <1>2 DEF Width
  <2>4. isSymbolic(item) => item.symbol \in Reference
    BY <2>1 DEF InstructionItem, isSymbolic
  <2>5. /\ r \in ObjectRecord(n) /\ r.sections = o.sections /\ r.debug_info = o.debug_info
        /\ SymbolsGrow(o.symbols, r.symbols)
        /\ r.errors \subseteq o.errors \cup ErrorsOf(item)
        /\ Clean(o) => Clean(r)
        /\ \/ r.relocations = o.relocations
           \/ \E x \in RelocationRecord :
                /\ r.relocations = Append(o.relocations, x)
                /\ IsRelocation(x, o, r, item.symbol, s)
                /\ item.kind \in {"instruction", "value"} /\ isSymbolic(item)
                /\ relocationWidth(x.type) = Width(item, at)
    <3>1. CASE isSymbolic(item)
      <4>1. /\ q \in ObjectRecord(n) /\ q.sections = o.sections
            /\ q.debug_info = o.debug_info
            /\ SymbolsGrow(o.symbols, q.symbols)
            /\ q.errors \in {o.errors, o.errors \cup {Error(item.line, "UndefinedSymbol")}}
            /\ Clean(o) => Clean(q)
            /\ \E x \in RelocationRecord :
                 /\ q.relocations = Append(o.relocations, x) /\ x.type = type
                 /\ IsRelocation(x, o, q, item.symbol, s)
        <5> HIDE DEF type
        <5>1. QED
          BY <1>1, <2>2, <2>4, <3>1, Relocates
      <4>2. r = q
        BY <3>1
      <4> HIDE DEF q, r, type
      <4>3. q.errors \subseteq o.errors \cup ErrorsOf(item)
        BY <4>1 DEF ErrorsOf
      <4>4. QED
        BY <1>2, <2>2, <2>3, <3>1, <4>1, <4>2, <4>3
    <3>2. CASE ~isSymbolic(item)
      BY <3>2, Growth
    <3>3. QED
      BY <3>1, <3>2
  <2>6. m = IF bad # "None" THEN [r EXCEPT !.errors = @ \cup {Error(item.line, bad)}]
            ELSE [r EXCEPT !.debug_info = Append(@, d)]
    BY <1>2 DEF Marked
  <2>7. d \in DebugRecord /\ d.section = s /\ d.offset = at /\ d.line = item.line
    BY <1>1 DEF DebugRecord
  <2> HIDE DEF r, d, m
  <2>8. CASE bad # "None"
    <3>1. Error(item.line, bad) \in ErrorRecord
      BY <1>1, <2>8, EncodeErrors DEF Error, ErrorRecord
    <3>2. E \in SUBSET ErrorRecord
      <4>1. r.errors \in SUBSET ErrorRecord
        BY <2>5, ObjectFields
      <4>2. QED
        BY <3>1, <4>1
    <3>3. E \subseteq o.errors \cup ErrorsOf(item)
      BY <1>2, <2>5, <2>8 DEF ErrorsOf
    <3>4. E # {}
      OBVIOUS
    <3> HIDE DEF E, bad
    <3>5. m = WithSections(r, r.sections, E)
      BY <2>5, <2>6, <2>8 DEF ObjectRecord, WithSections, E
    <3>6. r.sections \in [1 .. n -> SectionRecord]
      BY <2>5, ObjectFields
    <3>7. /\ m \in ObjectRecord(n) /\ m.sections = r.sections
          /\ m.relocations = r.relocations /\ m.debug_info = r.debug_info
          /\ m.symbols = r.symbols /\ m.errors = E
      BY <2>5, <3>2, <3>5, <3>6, SectionsReplaced
    <3>8. Clean(m)
      BY <3>4, <3>7 DEF Clean
    <3>9. \A x : IsRelocation(x, o, r, item.symbol, s) => IsRelocation(x, o, m, item.symbol, s)
      BY <3>7 DEF IsRelocation
    <3>10. Noted(o, m, item, s, n)
      BY <2>5, <3>3, <3>7, <3>8, <3>9 DEF Noted
    <3>11. QED
      BY <3>10 DEF m
  <2>9. CASE bad = "None"
    <3> DEFINE v == Append(o.debug_info, d)
    <3>1. v \in Seq(DebugRecord)
      BY <2>7, ObjectFields, Appended
    <3>2. m = WithDebug(r, v)
      BY <2>5, <2>6, <2>9 DEF ObjectRecord, WithDebug
    <3> HIDE DEF v
    <3>3. /\ m \in ObjectRecord(n) /\ m.sections = r.sections
          /\ m.relocations = r.relocations /\ m.debug_info = v
          /\ m.symbols = r.symbols /\ m.errors = r.errors
      BY <2>5, <3>1, <3>2, DebugReplaced
    <3>4. Clean(r) => Clean(m)
      BY <3>3 DEF Clean
    <3>5. \A x : IsRelocation(x, o, r, item.symbol, s) => IsRelocation(x, o, m, item.symbol, s)
      BY <3>3 DEF IsRelocation
    <3>6. m.debug_info = Append(o.debug_info, d)
      BY <3>3 DEF v
    <3>7. Noted(o, m, item, s, n)
      BY <1>2, <2>5, <2>7, <2>9, <3>3, <3>4, <3>5, <3>6 DEF Noted
    <3>8. QED
      BY <3>7 DEF m
  <2>10. QED
    BY <2>8, <2>9
<1>3. CASE item.kind = "value"
  <2> DEFINE type == IF item.width = 4 THEN "ABS32" ELSE "ABS64"
             q == addRelocation(o, s, type, item.symbol, item.line)
  <2>1. item.symbol \in Reference /\ item.width \in {4, 8} /\ isSymbolic(item)
    BY <1>3, ItemKinds, FrontEndAssumption DEF ValueItem, isSymbolic, Reference
  <2>2. type \in RelocationType /\ relocationWidth(type) = item.width
    BY <1>1, <2>1 DEF RelocationType, relocationWidth
  <2>3. Width(item, at) = item.width
    BY <1>3 DEF Width
  <2>4. m = q
    BY <1>3 DEF Marked
  <2> HIDE DEF type, m
  <2>5. /\ q \in ObjectRecord(n) /\ q.sections = o.sections
        /\ q.debug_info = o.debug_info
        /\ SymbolsGrow(o.symbols, q.symbols)
        /\ q.errors \in {o.errors, o.errors \cup {Error(item.line, "UndefinedSymbol")}}
        /\ Clean(o) => Clean(q)
        /\ \E x \in RelocationRecord :
             /\ q.relocations = Append(o.relocations, x) /\ x.type = type
             /\ IsRelocation(x, o, q, item.symbol, s)
    BY <1>1, <2>1, <2>2, Relocates
  <2> HIDE DEF q
  <2>6. q.errors \subseteq o.errors \cup ErrorsOf(item)
    BY <2>5 DEF ErrorsOf
  <2>7. Noted(o, m, item, s, n)
    BY <1>3, <2>1, <2>2, <2>3, <2>4, <2>5, <2>6 DEF Noted
  <2>8. QED
    BY <2>7 DEF m
<1>4. CASE item.kind \notin {"instruction", "value"}
  <2>1. m = o
    BY <1>4 DEF Marked
  <2>2. QED
    BY <2>1, Growth DEF Noted
<1>5. QED
  BY <1>2, <1>3, <1>4

LEMMA SectionChanged ==
  ASSUME NEW n, NEW S \in [1 .. n -> SectionRecord], NEW s \in 1 .. n,
         NEW new \in SectionRecord
  PROVE  LET v == [S EXCEPT ![s] = new]
         IN  /\ v \in [1 .. n -> SectionRecord] /\ v[s] = new
             /\ \A t \in 1 .. n : t # s => v[t] = S[t]
  OBVIOUS

LEMMA SectionData ==
  ASSUME NEW section \in SectionRecord, NEW bytes \in Seq(Byte)
  PROVE  LET new == [section EXCEPT !.data = bytes]
         IN  /\ new \in SectionRecord /\ new.type = section.type /\ new.size = section.size
             /\ new.alignment = section.alignment /\ new.data = bytes
  BY DEF SectionRecord

\* An object with other bytes in one of its sections.
Rewrites(o, p, s, bytes) ==
  /\ p.relocations = o.relocations /\ p.debug_info = o.debug_info /\ p.symbols = o.symbols
  /\ \A t \in DOMAIN o.sections : t # s => p.sections[t] = o.sections[t]
  /\ p.sections[s].type = o.sections[s].type /\ p.sections[s].size = o.sections[s].size
  /\ p.sections[s].alignment = o.sections[s].alignment /\ p.sections[s].data = bytes

LEMMA PutsBytes ==
  ASSUME NEW n \in Nat, NEW o \in ObjectRecord(n), NEW s \in 1 .. n, NEW bytes \in Seq(Byte)
  PROVE  LET p == PutBytes(o, s, bytes)
         IN  /\ p \in ObjectRecord(n) /\ p.errors = o.errors
             /\ Rewrites(o, p, s, o.sections[s].data \o bytes)
<1> DEFINE p == PutBytes(o, s, bytes)
           all == o.sections[s].data \o bytes
           new == [o.sections[s] EXCEPT !.data = all]
           v == [o.sections EXCEPT ![s] = new]
<1>1. /\ o.sections \in [1 .. n -> SectionRecord] /\ o.sections[s] \in SectionRecord
      /\ o.sections[s].data \in Seq(Byte) /\ o.errors \in SUBSET ErrorRecord
      /\ DOMAIN o.sections = 1 .. n
  <2>1. o.sections \in [1 .. n -> SectionRecord] /\ o.errors \in SUBSET ErrorRecord
    BY ObjectFields
  <2>2. QED
    BY <2>1 DEF SectionRecord
<1>2. all \in Seq(Byte)
  BY <1>1
<1>3. p = [o EXCEPT !.sections = v]
  <2> HIDE DEF all
  <2>1. p = [o EXCEPT !.sections[s].data = all]
    BY DEF PutBytes, all
  <2>2. QED
    BY <2>1
<1> HIDE DEF all, p
<1>4. /\ new \in SectionRecord /\ new.type = o.sections[s].type
      /\ new.size = o.sections[s].size /\ new.alignment = o.sections[s].alignment
      /\ new.data = all
  BY <1>1, <1>2, SectionData
<1> HIDE DEF new
<1>5. /\ v \in [1 .. n -> SectionRecord] /\ v[s] = new
      /\ \A t \in 1 .. n : t # s => v[t] = o.sections[t]
  BY <1>1, <1>4
<1> HIDE DEF v
<1>6. p = WithSections(o, v, o.errors)
  BY <1>3 DEF WithSections, ObjectRecord
<1>7. /\ p \in ObjectRecord(n) /\ p.sections = v
      /\ p.relocations = o.relocations /\ p.debug_info = o.debug_info
      /\ p.symbols = o.symbols /\ p.errors = o.errors
  BY <1>1, <1>5, <1>6, SectionsReplaced
<1>8. Rewrites(o, p, s, all)
  BY <1>1, <1>4, <1>5, <1>7 DEF Rewrites
<1>9. QED
  BY <1>7, <1>8 DEF all, p

\* A label does nothing; any other item leaves its note and puts its bytes.
LEMMA EmitsNoted ==
  ASSUME NEW n \in Nat, NEW o \in ObjectRecord(n), NEW s \in 1 .. n, NEW item \in Item
  PROVE  emitItem(o, item, s) =
           IF item.kind = "label" THEN o
           ELSE PutBytes(Marked(o, item, s), s, BytesOf(item, Written(o, s)))
<1>1. item.kind \in {"instruction", "label", "bytes", "value", "space", "align"}
  BY ItemKinds
<1>2. CASE item.kind = "instruction"
  <2>1. emitItem(o, item, s) = emitInstruction(o, item, s)
    BY <1>2 DEF emitItem
  <2>2. emitInstruction(o, item, s) = PutBytes(Marked(o, item, s), s,
                                               BytesOf(item, Written(o, s)))
    <3>1. CASE EncodeError(Encoded(item)) # "None"
      BY <1>2, <3>1 DEF emitInstruction, Marked, BytesOf, Encoded
    <3>2. CASE EncodeError(Encoded(item)) = "None"
      BY <1>2, <3>2 DEF emitInstruction, Marked, BytesOf, Encoded
    <3>3. QED
      BY <3>1, <3>2
  <2>3. QED
    BY <1>2, <2>1, <2>2
<1>3. CASE item.kind = "value"
  BY <1>3 DEF emitItem, emitSymbolValue, Marked, BytesOf
<1>4. CASE item.kind \in {"bytes", "space", "align"}
  BY <1>4 DEF emitItem, Marked, BytesOf
<1>5. CASE item.kind = "label"
  BY <1>5 DEF emitItem
<1>6. QED
  BY <1>1, <1>2, <1>3, <1>4, <1>5

\* The item leaves a note and puts its bytes.
Emits(o, e, item, s, n) ==
  /\ e \in ObjectRecord(n)
  /\ SymbolsGrow(o.symbols, e.symbols)
  /\ e.errors \subseteq o.errors \cup ErrorsOf(item)
  /\ Clean(o) => Clean(e)
  /\ \A t \in 1 .. n : t # s => e.sections[t] = o.sections[t]
  /\ e.sections[s].type = o.sections[s].type /\ e.sections[s].size = o.sections[s].size
  /\ e.sections[s].alignment = o.sections[s].alignment
  /\ e.sections[s].data = o.sections[s].data \o BytesOf(item, Written(o, s))
  /\ \/ e.relocations = o.relocations
     \/ \E r \in RelocationRecord :
          /\ e.relocations = Append(o.relocations, r) /\ IsRelocation(r, o, e, item.symbol, s)
          /\ item.kind \in {"instruction", "value"} /\ isSymbolic(item)
          /\ relocationWidth(r.type) = Width(item, Written(o, s))
  /\ \/ e.debug_info = o.debug_info
     \/ \E d \in DebugRecord :
          /\ e.debug_info = Append(o.debug_info, d)
          /\ d.section = s /\ d.offset = Written(o, s) /\ d.line = item.line
          /\ item.kind = "instruction" /\ EncodeError(Encoded(item)) = "None"

LEMMA ItemEmits ==
  ASSUME NEW n \in Nat, NEW o \in ObjectRecord(n), NEW s \in 1 .. n, NEW item \in Item
  PROVE  Emits(o, emitItem(o, item, s), item, s, n)
<1> DEFINE e == emitItem(o, item, s)
           m == Marked(o, item, s)
           bytes == BytesOf(item, Written(o, s))
<1>1. /\ o.sections[s].data \in Seq(Byte) /\ Written(o, s) \in Nat
      /\ o.sections \in [1 .. n -> SectionRecord]
  BY WrittenSize, ObjectFields
<1>2. bytes \in Seq(Byte)
  BY <1>1, ItemBytes
<1>3. CASE item.kind = "label"
  <2>1. e = o
    BY <1>3, EmitsNoted
  <2>2. bytes = <<>>
    BY <1>3 DEF BytesOf
  <2>3. o.sections[s].data \o bytes = o.sections[s].data
    BY <1>1, <2>2
  <2>4. QED
    BY <2>1, <2>3, Growth DEF Emits
<1>4. CASE item.kind # "label"
  <2>1. e = PutBytes(m, s, bytes)
    BY <1>4, EmitsNoted
  <2>2. Noted(o, m, item, s, n)
    BY ItemNoted
  <2> HIDE DEF e, m, bytes
  <2>3. m \in ObjectRecord(n) /\ m.sections = o.sections
    BY <2>2 DEF Noted
  <2>4. /\ e \in ObjectRecord(n) /\ e.errors = m.errors
        /\ Rewrites(m, e, s, m.sections[s].data \o bytes)
    BY <1>2, <2>1, <2>3, PutsBytes
  <2>5. \A x : IsRelocation(x, o, m, item.symbol, s) => IsRelocation(x, o, e, item.symbol, s)
    BY <2>4 DEF IsRelocation, Rewrites
  <2>6. Clean(o) => Clean(e)
    BY <2>2, <2>4 DEF Noted, Clean, Rewrites
  <2>7. DOMAIN m.sections = 1 .. n
    BY <1>1, <2>3
  <2>8. Emits(o, e, item, s, n)
    BY <2>2, <2>3, <2>4, <2>5, <2>6, <2>7 DEF Noted, Rewrites, Emits, bytes
  <2>9. QED
    BY <2>8 DEF e
<1>5. QED
  BY <1>3, <1>4

-----------------------------------------------------------------------------
(***************************************************************************)
(* How many bytes the items of a section make.                             *)
(***************************************************************************)

\* The bytes of the first k items.
Pos(contents, k) == BytesBefore(contents, k + 1)

LEMMA EmptyObjects ==
  ASSUME NEW n \in Nat, NEW kinds \in [1 .. n -> SectionKind]
  PROVE  LET o == EmptyObject(File, kinds)
         IN  /\ o \in ObjectRecord(n) /\ o.symbols = <<>> /\ o.relocations = <<>>
             /\ o.debug_info = <<>> /\ o.errors = {}
             /\ \A s \in 1 .. n : o.sections[s] =
                  [type |-> kinds[s], alignment |-> WordSize, size |-> 0, data |-> <<>>]
<1> DEFINE o == EmptyObject(File, kinds)
           S == [s \in DOMAIN kinds |-> [type |-> kinds[s], alignment |-> WordSize,
                                         size |-> 0, data |-> <<>>]]
<1>1. S \in [1 .. n -> SectionRecord] /\ DOMAIN kinds = 1 .. n
  BY Sizes DEF SectionRecord
<1>2. o = [sections |-> S, symbols |-> <<>>, relocations |-> <<>>, debug_info |-> <<>>,
           source_files |-> <<File>>, errors |-> {}]
  BY DEF EmptyObject
<1>3. \A s \in 1 .. n : S[s] =
        [type |-> kinds[s], alignment |-> WordSize, size |-> 0, data |-> <<>>]
  BY <1>1
<1> HIDE DEF S, o
<1>4. o \in ObjectRecord(n)
  BY <1>1, <1>2 DEF ObjectRecord
<1>5. /\ o.sections = S /\ o.symbols = <<>> /\ o.relocations = <<>>
      /\ o.debug_info = <<>> /\ o.errors = {}
  BY <1>2
<1>6. QED
  BY <1>3, <1>4, <1>5 DEF o

LEMMA EmitLength ==
  ASSUME NEW n \in Nat, NEW o \in ObjectRecord(n), NEW s \in 1 .. n, NEW item \in Item
  PROVE  /\ emitItem(o, item, s) \in ObjectRecord(n)
         /\ Written(emitItem(o, item, s), s) = Written(o, s) + Width(item, Written(o, s))
<1> DEFINE e == emitItem(o, item, s)
           old == o.sections[s].data
           bytes == BytesOf(item, Written(o, s))
<1>1. Emits(o, e, item, s, n)
  BY ItemEmits
<1>2. old \in Seq(Byte) /\ Written(o, s) = Len(old) /\ Written(o, s) \in Nat
  BY WrittenSize
<1>3. bytes \in Seq(Byte) /\ Len(bytes) = Width(item, Written(o, s))
  BY <1>2, ItemBytes
<1> HIDE DEF e, old, bytes
<1>4. e \in ObjectRecord(n) /\ e.sections[s].data = old \o bytes
  BY <1>1 DEF Emits, old, bytes
<1>5. Written(e, s) = Len(old) + Len(bytes)
  <2>1. Written(e, s) = Len(old \o bytes)
    BY <1>4 DEF Written
  <2>2. Len(old \o bytes) = Len(old) + Len(bytes)
    BY <1>2, <1>3
  <2>3. QED
    BY <2>1, <2>2
<1>6. QED
  BY <1>2, <1>3, <1>4, <1>5 DEF e

LEMMA BytesCount ==
  ASSUME NEW contents \in Seq(Item)
  PROVE  /\ Pos(contents, 0) = 0
         /\ \A k \in 0 .. Len(contents) : Pos(contents, k) \in Nat
         /\ \A k \in 1 .. Len(contents) :
              Pos(contents, k) = Pos(contents, k - 1) + Width(contents[k], Pos(contents, k - 1))
<1> DEFINE o == EmptyObject(File, <<"Text">>)
           E == Emitting(o, 1, contents)
           last == Len(contents)
           S == {k \in 0 .. last : E[k] \in ObjectRecord(1)}
<1>1. last \in Nat /\ \A k \in 1 .. last : contents[k] \in Item
  OBVIOUS
<1>2. E[0] = o /\ \A k \in 1 .. last : E[k] = emitItem(E[k - 1], contents[k], 1)
  BY <1>1, EmittingSteps
<1>3. o \in ObjectRecord(1) /\ Written(o, 1) = 0
  <2> DEFINE kinds == <<"Text">>
  <2>1. kinds \in [1 .. 1 -> SectionKind] /\ 1 \in Nat /\ 1 \in 1 .. 1
    BY DEF SectionKind
  <2>2. o = EmptyObject(File, kinds)
    OBVIOUS
  <2> HIDE DEF o, kinds
  <2>3. o \in ObjectRecord(1) /\ o.sections[1] =
          [type |-> kinds[1], alignment |-> WordSize, size |-> 0, data |-> <<>>]
    BY <2>1, <2>2, EmptyObjects
  <2>4. o.sections[1].data = <<>>
    BY <2>3
  <2>5. QED
    BY <2>3, <2>4 DEF Written
<1>4. \A k \in 0 .. last : Pos(contents, k) = Written(E[k], 1)
  <2>1. \A k \in 0 .. last : (k + 1) - 1 = k
    BY <1>1
  <2>2. \A k \in 0 .. last : Pos(contents, k) = Written(E[(k + 1) - 1], 1)
    BY DEF Pos, BytesBefore
  <2> HIDE DEF E
  <2>3. QED
    BY <2>1, <2>2
<1> HIDE DEF E, last, o
<1>5. \A k \in 1 .. last : E[k - 1] \in ObjectRecord(1) =>
        /\ E[k] \in ObjectRecord(1)
        /\ Written(E[k], 1) = Written(E[k - 1], 1)
                                + Width(contents[k], Written(E[k - 1], 1))
  BY <1>1, <1>2, EmitLength
<1>6. \A k \in 0 .. last : k \in S
  <2>1. 0 \in Int /\ last \in Int /\ 0 \in S
    BY <1>1, <1>2, <1>3
  <2>2. \A k \in 0 .. last - 1 : k \in S => k + 1 \in S
    <3>1. SUFFICES ASSUME NEW k \in 0 .. last - 1, E[k] \in ObjectRecord(1)
                   PROVE  k + 1 \in S
      OBVIOUS
    <3>2. k + 1 \in 1 .. last /\ (k + 1) - 1 = k /\ k + 1 \in 0 .. last
      BY <1>1
    <3>3. QED
      BY <1>5, <3>1, <3>2
  <2> HIDE DEF S
  <2>3. QED
    BY <2>1, <2>2, Induction, Zenon
<1>7. \A k \in 0 .. last : E[k] \in ObjectRecord(1)
  BY <1>6
<1>8. \A k \in 0 .. last : Written(E[k], 1) \in Nat
  BY <1>7, WrittenSize
<1>9. \A k \in 1 .. last : k - 1 \in 0 .. last /\ k \in 0 .. last
  BY <1>1
<1>10. 0 \in 0 .. last
  BY <1>1
<1>11. QED
  BY <1>2, <1>3, <1>4, <1>5, <1>7, <1>8, <1>9, <1>10 DEF last

-----------------------------------------------------------------------------
(***************************************************************************)
(* Pass 1.  Section t of the object has the kind K[t] and the items C[t].  *)
(***************************************************************************)
Contents(source, n, K, C) ==
  /\ n \in Nat /\ K \in [1 .. n -> SectionKind] /\ C \in [1 .. n -> Seq(Item)]
  /\ \A t \in 1 .. n : \A j \in DOMAIN C[t] : Fits(source, C[t][j], K[t])
  /\ \A t, u \in 1 .. n : \A j \in DOMAIN C[t], k \in DOMAIN C[u] :
       /\ C[t][j].kind = "label" /\ C[u][k].kind = "label"
       /\ C[t][j].name = C[u][k].name
       => t = u /\ j = k

\* Item j of section t comes before the assembler is done with item k of s.
Reached(t, j, s, k) == t < s \/ (t = s /\ j <= k)

\* The item a defined symbol is the label of.
IsPlace(contents, symbol, j) ==
  /\ j \in DOMAIN contents /\ contents[j].kind = "label"
  /\ contents[j].name = symbol.name /\ symbol.value = Pos(contents, j - 1)

Placed(n, C, symbols, s, k) ==
  /\ symbols \in Seq(SymbolRecord) /\ UniqueNames(symbols)
  /\ \A i \in DOMAIN symbols :
       /\ symbols[i].defined /\ symbols[i].section \in 1 .. n
       /\ \E j \in DOMAIN C[symbols[i].section] :
            /\ Reached(symbols[i].section, j, s, k)
            /\ IsPlace(C[symbols[i].section], symbols[i], j)
  /\ \A t \in 1 .. n : \A j \in DOMAIN C[t] :
       Reached(t, j, s, k) /\ C[t][j].kind = "label" =>
         \E i \in DOMAIN symbols : symbols[i].name = C[t][j].name

LayoutRecord ==
  [offset : Nat, alignment : Nat, symbols : Seq(SymbolRecord), errors : SUBSET ErrorRecord]

LayoutFits(n, C, layout, s, k) ==
  /\ layout \in LayoutRecord /\ layout.errors = {}
  /\ layout.offset = Pos(C[s], k)
  /\ layout.alignment # 0 /\ PowerOfTwo(layout.alignment)
  /\ Placed(n, C, layout.symbols, s, k)

\* A symbol that is now defined.
DefinedAt(t, i, section, value) ==
  [t EXCEPT ![i].defined = TRUE, ![i].section = section,
            ![i].value = value, ![i].binding = "Local"]

LEMMA DefinesSymbol ==
  ASSUME NEW t \in Seq(SymbolRecord), NEW i \in DOMAIN t, NEW section \in Nat,
         NEW value \in Nat
  PROVE  LET u == DefinedAt(t, i, section, value)
         IN  /\ u \in Seq(SymbolRecord) /\ DOMAIN u = DOMAIN t
             /\ \A j \in DOMAIN t : j # i => u[j] = t[j]
             /\ u[i].defined /\ u[i].section = section /\ u[i].value = value
             /\ u[i].name = t[i].name
<1> DEFINE t1 == [t EXCEPT ![i].defined = TRUE]
           t2 == [t1 EXCEPT ![i].section = section]
           t3 == [t2 EXCEPT ![i].value = value]
           u == [t3 EXCEPT ![i].binding = "Local"]
           s1 == [t[i] EXCEPT !.defined = TRUE]
           s2 == [s1 EXCEPT !.section = section]
           s3 == [s2 EXCEPT !.value = value]
           s == [s3 EXCEPT !.binding = "Local"]
<1>1. u = DefinedAt(t, i, section, value)
  BY DEF DefinedAt
<1>2. t[i] \in SymbolRecord
  OBVIOUS
<1>3. u = [t EXCEPT ![i] = s]
  <2>1. t1 = [t EXCEPT ![i] = s1] /\ t1[i] = s1 /\ i \in DOMAIN t1
    OBVIOUS
  <2> HIDE DEF t1, s1
  <2>2. t2 = [t EXCEPT ![i] = s2] /\ t2[i] = s2 /\ i \in DOMAIN t2
    BY <2>1
  <2> HIDE DEF t2, s2
  <2>3. t3 = [t EXCEPT ![i] = s3] /\ t3[i] = s3 /\ i \in DOMAIN t3
    BY <2>2
  <2> HIDE DEF t3, s3
  <2>4. QED
    BY <2>3
<1>4. /\ s \in SymbolRecord /\ s.defined /\ s.section = section /\ s.value = value
      /\ s.name = t[i].name
  <2>1. s1 \in SymbolRecord /\ s1.defined /\ s1.name = t[i].name
    BY <1>2 DEF SymbolRecord
  <2> HIDE DEF s1
  <2>2. s2 \in SymbolRecord /\ s2.defined /\ s2.name = t[i].name /\ s2.section = section
    BY <2>1 DEF SymbolRecord
  <2> HIDE DEF s2
  <2>3. /\ s3 \in SymbolRecord /\ s3.defined /\ s3.name = t[i].name /\ s3.section = section
        /\ s3.value = value
    BY <2>2 DEF SymbolRecord
  <2> HIDE DEF s3
  <2>4. QED
    BY <2>3 DEF SymbolRecord, SymbolBinding
<1> HIDE DEF s, u
<1>5. /\ u \in Seq(SymbolRecord) /\ DOMAIN u = DOMAIN t /\ u[i] = s
      /\ \A j \in DOMAIN t : j # i => u[j] = t[j]
  <2>1. DOMAIN t = 1 .. Len(t) /\ Len(t) \in Nat /\ t \in [1 .. Len(t) -> SymbolRecord]
    OBVIOUS
  <2>2. DOMAIN u = DOMAIN t /\ u[i] = s /\ \A j \in DOMAIN t : j # i => u[j] = t[j]
    BY <1>3, <2>1
  <2>3. u \in [1 .. Len(t) -> SymbolRecord]
    BY <1>3, <1>4, <2>1
  <2>4. u \in Seq(SymbolRecord)
    BY <2>1, <2>3, FunctionIsSequence, Zenon
  <2>5. QED
    BY <2>2, <2>4
<1>6. QED
  BY <1>1, <1>4, <1>5

\* A layout with some of its fields replaced.
WithTable(layout, v) == [layout EXCEPT !.symbols = v]
WithOffset(layout, offset) == [layout EXCEPT !.offset = offset]
WithAlignment(layout, offset, alignment) ==
  [layout EXCEPT !.offset = offset, !.alignment = alignment]

LEMMA TableReplaced ==
  ASSUME NEW layout \in LayoutRecord, NEW v \in Seq(SymbolRecord)
  PROVE  LET l == WithTable(layout, v)
         IN  /\ l \in LayoutRecord /\ l.symbols = v /\ l.offset = layout.offset
             /\ l.alignment = layout.alignment /\ l.errors = layout.errors
<1> DEFINE B == Seq(SymbolRecord)
           G == SUBSET ErrorRecord
           l == WithTable(layout, v)
<1>1. LayoutRecord = [offset : Nat, alignment : Nat, symbols : B, errors : G]
  BY DEF LayoutRecord
<1>2. v \in B
  OBVIOUS
<1> HIDE DEF B, G
<1>3. layout \in [offset : Nat, alignment : Nat, symbols : B, errors : G]
  BY <1>1
<1>4. l \in [offset : Nat, alignment : Nat, symbols : B, errors : G]
  BY <1>2, <1>3 DEF WithTable
<1>5. /\ l.symbols = v /\ l.offset = layout.offset
      /\ l.alignment = layout.alignment /\ l.errors = layout.errors
  BY <1>3 DEF WithTable
<1>6. QED
  BY <1>1, <1>4, <1>5

LEMMA OffsetReplaced ==
  ASSUME NEW layout \in LayoutRecord, NEW offset \in Nat
  PROVE  LET l == WithOffset(layout, offset)
         IN  /\ l \in LayoutRecord /\ l.symbols = layout.symbols /\ l.offset = offset
             /\ l.alignment = layout.alignment /\ l.errors = layout.errors
<1> DEFINE B == Seq(SymbolRecord)
           G == SUBSET ErrorRecord
           l == WithOffset(layout, offset)
<1>1. LayoutRecord = [offset : Nat, alignment : Nat, symbols : B, errors : G]
  BY DEF LayoutRecord
<1> HIDE DEF B, G
<1>3. layout \in [offset : Nat, alignment : Nat, symbols : B, errors : G]
  BY <1>1
<1>4. l \in [offset : Nat, alignment : Nat, symbols : B, errors : G]
  BY <1>3 DEF WithOffset
<1>5. /\ l.symbols = layout.symbols /\ l.offset = offset
      /\ l.alignment = layout.alignment /\ l.errors = layout.errors
  BY <1>3 DEF WithOffset
<1>6. QED
  BY <1>1, <1>4, <1>5

LEMMA AlignmentReplaced ==
  ASSUME NEW layout \in LayoutRecord, NEW offset \in Nat, NEW alignment \in Nat
  PROVE  LET l == WithAlignment(layout, offset, alignment)
         IN  /\ l \in LayoutRecord /\ l.symbols = layout.symbols /\ l.offset = offset
             /\ l.alignment = alignment /\ l.errors = layout.errors
<1> DEFINE B == Seq(SymbolRecord)
           G == SUBSET ErrorRecord
           l == WithAlignment(layout, offset, alignment)
<1>1. LayoutRecord = [offset : Nat, alignment : Nat, symbols : B, errors : G]
  BY DEF LayoutRecord
<1> HIDE DEF B, G
<1>3. layout \in [offset : Nat, alignment : Nat, symbols : B, errors : G]
  BY <1>1
<1>4. l \in [offset : Nat, alignment : Nat, symbols : B, errors : G]
  BY <1>3 DEF WithAlignment
<1>5. /\ l.symbols = layout.symbols /\ l.offset = offset
      /\ l.alignment = alignment /\ l.errors = layout.errors
  BY <1>3 DEF WithAlignment
<1>6. QED
  BY <1>1, <1>4, <1>5

\* A label that is not in the table.
AddsLabel(symbols, name, section, value, u, i) ==
  /\ u \in Seq(SymbolRecord) /\ i \in DOMAIN u /\ i \notin DOMAIN symbols
  /\ u[i].defined /\ u[i].section = section /\ u[i].value = value /\ u[i].name = name
  /\ \A j \in DOMAIN u : j # i => j \in DOMAIN symbols /\ u[j] = symbols[j]
  /\ \A j \in DOMAIN symbols : j \in DOMAIN u /\ u[j] = symbols[j]

LEMMA LabelAdded ==
  ASSUME NEW symbols \in Seq(SymbolRecord), NEW name \in STRING, NEW section \in Nat,
         NEW value \in Nat, \A j \in DOMAIN symbols : symbols[j].name # name
  PROVE  LET t == findOrAdd(symbols, name)
             i == SymbolIndex(t, name)
         IN  /\ ~t[i].defined
             /\ AddsLabel(symbols, name, section, value, DefinedAt(t, i, section, value), i)
<1> DEFINE t == findOrAdd(symbols, name)
           i == SymbolIndex(t, name)
           u == DefinedAt(t, i, section, value)
<1>1. /\ t \in Seq(SymbolRecord) /\ SymbolsGrow(symbols, t)
      /\ i \in DOMAIN t /\ t[i].name = name
      /\ \A j \in DOMAIN t : j # i => j \in DOMAIN symbols /\ t[j] = symbols[j]
      /\ i \in DOMAIN symbols => t = symbols
      /\ i \notin DOMAIN symbols => Dangles(t[i])
  BY FindsOrAdds
<1> HIDE DEF t, i
<1>2. i \notin DOMAIN symbols /\ ~t[i].defined
  BY <1>1 DEF Dangles
<1>3. /\ u \in Seq(SymbolRecord) /\ DOMAIN u = DOMAIN t
      /\ \A j \in DOMAIN t : j # i => u[j] = t[j]
      /\ u[i].defined /\ u[i].section = section /\ u[i].value = value
      /\ u[i].name = t[i].name
  <2>1. t \in Seq(SymbolRecord) /\ i \in DOMAIN t
    BY <1>1
  <2>2. u \in Seq(SymbolRecord)
    BY <2>1, DefinesSymbol
  <2>3. DOMAIN u = DOMAIN t
    BY <2>1, DefinesSymbol
  <2>4. \A j \in DOMAIN t : j # i => u[j] = t[j]
    BY <2>1, DefinesSymbol
  <2>5. u[i].defined
    BY <2>1, DefinesSymbol
  <2>6. u[i].section = section
    BY <2>1, DefinesSymbol
  <2>7. u[i].value = value
    BY <2>1, DefinesSymbol
  <2>8. u[i].name = t[i].name
    BY <2>1, DefinesSymbol
  <2>9. QED
    BY <2>2, <2>4, <2>5, <2>6, <2>3, <2>7, <2>8
<1> HIDE DEF u
<1>4. AddsLabel(symbols, name, section, value, u, i)
  BY <1>1, <1>2, <1>3 DEF AddsLabel, SymbolsGrow
<1>5. QED
  BY <1>2, <1>4 DEF t, i, u

LEMMA PlacesLabel ==
  ASSUME NEW source, NEW n, NEW K, NEW C, Contents(source, n, K, C),
         NEW s \in 1 .. n, NEW k \in 1 .. Len(C[s]), NEW layout,
         LayoutFits(n, C, layout, s, k - 1), C[s][k].kind = "label"
  PROVE  LayoutFits(n, C, defineLabel(layout, C[s][k], s), s, k)
<1> DEFINE item == C[s][k]
           symbols == layout.symbols
           t == findOrAdd(symbols, item.name)
           i == SymbolIndex(t, item.name)
           offset == layout.offset
           u == DefinedAt(t, i, s, offset)
           l == WithTable(layout, u)
<1>1. /\ n \in Nat /\ C[s] \in Seq(Item) /\ k \in DOMAIN C[s] /\ s \in Nat /\ k \in Nat
      /\ Len(C[s]) \in Nat
  BY DEF Contents
<1>2. item \in LabelItem /\ item.name \in STRING
  <2>1. item \in Item
    BY <1>1
  <2>2. QED
    BY <2>1, ItemKinds DEF LabelItem
<1>3. /\ layout \in LayoutRecord /\ layout.errors = {} /\ offset \in Nat
      /\ offset = Pos(C[s], k - 1) /\ layout.alignment # 0 /\ PowerOfTwo(layout.alignment)
  BY DEF LayoutFits, LayoutRecord
<1>4. Placed(n, C, symbols, s, k - 1) /\ symbols \in Seq(SymbolRecord)
  BY DEF LayoutFits, Placed
<1>5. Pos(C[s], k) = offset
  <2>1. Pos(C[s], k) = Pos(C[s], k - 1) + Width(C[s][k], Pos(C[s], k - 1))
        /\ Width(C[s][k], Pos(C[s], k - 1)) = 0
    BY <1>1, BytesCount DEF Width
  <2>2. QED
    BY <1>3, <2>1
<1>7. defineLabel(layout, item, s) =
        IF t[i].defined
          THEN [layout EXCEPT !.errors = @ \cup {Error(item.line, "DuplicateSymbol")}]
          ELSE l
  BY DEF defineLabel, DefinedAt, WithTable
<1> HIDE DEF symbols
<1>8. \A j \in DOMAIN symbols : symbols[j].name # item.name
  <2> SUFFICES ASSUME NEW j \in DOMAIN symbols, symbols[j].name = item.name PROVE FALSE
    OBVIOUS
  <2>1. symbols[j].section \in 1 .. n
    BY <1>4 DEF Placed
  <2> DEFINE w == symbols[j].section
  <2>2. PICK x \in DOMAIN C[w] : Reached(w, x, s, k - 1) /\ IsPlace(C[w], symbols[j], x)
    BY <1>4 DEF Placed
  <2>3. C[w][x].kind = "label" /\ C[w][x].name = item.name
    BY <2>2 DEF IsPlace
  <2>4. w = s /\ x = k
    BY <1>1, <2>1, <2>2, <2>3 DEF Contents
  <2>5. QED
    BY <1>1, <2>2, <2>4 DEF Reached
<1>9. ~t[i].defined /\ AddsLabel(symbols, item.name, s, offset, u, i)
  BY <1>1, <1>2, <1>3, <1>4, <1>8, LabelAdded
<1>10. defineLabel(layout, item, s) = l
  BY <1>7, <1>9
<1> HIDE DEF t, i, u
<1>11. /\ u \in Seq(SymbolRecord) /\ i \in DOMAIN u /\ i \notin DOMAIN symbols
       /\ u[i].defined /\ u[i].section = s /\ u[i].value = offset /\ u[i].name = item.name
       /\ \A j \in DOMAIN u : j # i => j \in DOMAIN symbols /\ u[j] = symbols[j]
       /\ \A j \in DOMAIN symbols : j \in DOMAIN u /\ u[j] = symbols[j]
  BY <1>9 DEF AddsLabel
<1>13. /\ l \in LayoutRecord /\ l.symbols = u /\ l.offset = offset
       /\ l.alignment = layout.alignment /\ l.errors = {}
  BY <1>3, <1>11, TableReplaced
<1> HIDE DEF l
<1>15. Placed(n, C, u, s, k)
  <2>1. UniqueNames(u)
    BY <1>4, <1>8, <1>11 DEF UniqueNames, Placed
  <2>2. \A x, y : Reached(x, y, s, k - 1) /\ x \in 1 .. n /\ y \in DOMAIN C[x] => Reached(x, y, s, k)
    <3>1. \A x \in 1 .. n : \A y \in DOMAIN C[x] : y \in Nat
      BY DEF Contents
    <3>2. QED
      BY <1>1, <3>1 DEF Reached
  <2>3. ASSUME NEW j \in DOMAIN u
        PROVE  /\ u[j].defined /\ u[j].section \in 1 .. n
               /\ \E x \in DOMAIN C[u[j].section] :
                    Reached(u[j].section, x, s, k) /\ IsPlace(C[u[j].section], u[j], x)
    <3>1. CASE j = i
      <4>1. IsPlace(C[s], u[i], k) /\ Reached(s, k, s, k)
        BY <1>1, <1>3, <1>11 DEF IsPlace, Reached
      <4>2. QED
        BY <1>1, <1>11, <3>1, <4>1
    <3>2. CASE j # i
      <4>1. j \in DOMAIN symbols /\ u[j] = symbols[j]
        BY <1>11, <3>2
      <4>2. QED
        BY <1>4, <2>2, <4>1 DEF Placed
    <3>3. QED
      BY <3>1, <3>2
  <2>4. ASSUME NEW x \in 1 .. n, NEW y \in DOMAIN C[x], Reached(x, y, s, k),
               C[x][y].kind = "label"
        PROVE  \E j \in DOMAIN u : u[j].name = C[x][y].name
    <3>1. CASE x = s /\ y = k
      BY <1>11, <3>1
    <3>2. CASE ~(x = s /\ y = k)
      <4>1. y \in Nat
        BY DEF Contents
      <4>2. Reached(x, y, s, k - 1)
        BY <1>1, <2>4, <3>2, <4>1 DEF Reached
      <4>3. \E j \in DOMAIN symbols : symbols[j].name = C[x][y].name
        BY <1>4, <2>4, <4>2 DEF Placed
      <4>4. PICK j \in DOMAIN symbols : symbols[j].name = C[x][y].name
        BY <4>3
      <4>5. j \in DOMAIN u /\ u[j].name = C[x][y].name
        BY <1>11, <4>4
      <4>6. QED
        BY <4>5
    <3>3. QED
      BY <3>1, <3>2
  <2>5. QED
    BY <1>11, <2>1, <2>3, <2>4 DEF Placed
<1>16. LayoutFits(n, C, l, s, k)
  BY <1>3, <1>5, <1>13, <1>15 DEF LayoutFits
<1>17. QED
  BY <1>10, <1>16

\* Passing an item that is not a label.
LEMMA PlacedNext ==
  ASSUME NEW source, NEW n, NEW K, NEW C, Contents(source, n, K, C),
         NEW s \in 1 .. n, NEW k \in 1 .. Len(C[s]), NEW symbols,
         Placed(n, C, symbols, s, k - 1), C[s][k].kind # "label"
  PROVE  Placed(n, C, symbols, s, k)
<1>1. /\ n \in Nat /\ C[s] \in Seq(Item) /\ k \in DOMAIN C[s] /\ s \in Nat /\ k \in Nat
      /\ \A x \in 1 .. n : \A y \in DOMAIN C[x] : y \in Nat
  BY DEF Contents
<1>2. \A x \in 1 .. n : \A y \in DOMAIN C[x] :
        /\ Reached(x, y, s, k - 1) => Reached(x, y, s, k)
        /\ Reached(x, y, s, k) => Reached(x, y, s, k - 1) \/ (x = s /\ y = k)
  BY <1>1 DEF Reached
<1>3. ASSUME NEW j \in DOMAIN symbols
      PROVE  /\ symbols[j].defined /\ symbols[j].section \in 1 .. n
             /\ \E x \in DOMAIN C[symbols[j].section] :
                  /\ Reached(symbols[j].section, x, s, k)
                  /\ IsPlace(C[symbols[j].section], symbols[j], x)
  BY <1>2 DEF Placed
<1>4. ASSUME NEW x \in 1 .. n, NEW y \in DOMAIN C[x], Reached(x, y, s, k),
             C[x][y].kind = "label"
      PROVE  \E j \in DOMAIN symbols : symbols[j].name = C[x][y].name
  BY <1>2, <1>4 DEF Placed
<1>5. QED
  BY <1>3, <1>4 DEF Placed

LEMMA LaysItem ==
  ASSUME NEW source, NEW n, NEW K, NEW C, Contents(source, n, K, C),
         NEW s \in 1 .. n, NEW k \in 1 .. Len(C[s]), NEW layout,
         LayoutFits(n, C, layout, s, k - 1)
  PROVE  LayoutFits(n, C, layoutItem(layout, C[s][k], s), s, k)
<1> DEFINE item == C[s][k]
           at == layout.offset
           l == layoutItem(layout, item, s)
<1>1. CASE item.kind = "label"
  BY <1>1, PlacesLabel DEF layoutItem
<1>2. CASE item.kind # "label"
  <2>1. C[s] \in Seq(Item) /\ k \in DOMAIN C[s] /\ item \in Item
    BY DEF Contents
  <2>2. /\ layout \in LayoutRecord /\ layout.errors = {} /\ at \in Nat
        /\ at = Pos(C[s], k - 1) /\ layout.alignment # 0 /\ PowerOfTwo(layout.alignment)
        /\ layout.alignment \in Nat /\ layout.symbols \in Seq(SymbolRecord)
    BY DEF LayoutFits, LayoutRecord
  <2>3. Placed(n, C, layout.symbols, s, k)
    BY <1>2, PlacedNext DEF LayoutFits
  <2>4. Pos(C[s], k) = at + Width(item, at) /\ Width(item, at) \in Nat
    BY <2>1, <2>2, BytesCount, ItemBytes
  <2> DEFINE off == at + Width(item, at)
             wider == IF layout.alignment < item.alignment THEN item.alignment
                      ELSE layout.alignment
  <2>5. off \in Nat
    BY <2>2, <2>4
  <2>6. CASE item.kind # "align"
    <3>1. l = WithOffset(layout, off)
      <4>1. item.kind \in {"instruction", "bytes", "value", "space"}
        BY <1>2, <2>1, <2>6, ItemKinds
      <4>2. QED
        BY <4>1 DEF layoutItem, Width, WithOffset
    <3> HIDE DEF l, off
    <3>2. /\ l \in LayoutRecord /\ l.symbols = layout.symbols /\ l.offset = off
          /\ l.alignment = layout.alignment /\ l.errors = layout.errors
      BY <2>2, <2>5, <3>1, OffsetReplaced
    <3>3. LayoutFits(n, C, l, s, k)
      BY <2>2, <2>3, <2>4, <3>2 DEF LayoutFits, off
    <3>4. QED
      BY <3>3 DEF l
  <2>7. CASE item.kind = "align"
    <3>1. item.alignment \in Nat /\ item.alignment # 0 /\ PowerOfTwo(item.alignment)
      BY <2>1, <2>7, ItemKinds, Sizes DEF AlignItem
    <3>2. alignUp(at, item.alignment) \in Nat
      BY <2>2, <3>1, AlignsUp
    <3>3. off = alignUp(at, item.alignment)
      BY <2>2, <2>7, <3>2 DEF Width
    <3>4. l = WithAlignment(layout, off, wider)
      BY <2>2, <2>7, <3>3 DEF layoutItem, LayoutRecord, WithAlignment
    <3>5. wider \in Nat /\ wider # 0 /\ PowerOfTwo(wider)
      BY <2>2, <3>1
    <3> HIDE DEF l, off, wider
    <3>6. /\ l \in LayoutRecord /\ l.symbols = layout.symbols /\ l.offset = off
          /\ l.alignment = wider /\ l.errors = layout.errors
      <4>1. layout \in LayoutRecord /\ off \in Nat /\ wider \in Nat
        BY <2>2, <2>5, <3>5
      <4>2. l \in LayoutRecord
        BY <3>4, <4>1, AlignmentReplaced
      <4>3. l.symbols = layout.symbols /\ l.errors = layout.errors
        BY <3>4, <4>1, AlignmentReplaced
      <4>4. l.offset = off /\ l.alignment = wider
        BY <3>4, <4>1, AlignmentReplaced
      <4>5. QED
        BY <4>2, <4>3, <4>4
    <3>7. LayoutFits(n, C, l, s, k)
      BY <2>2, <2>3, <2>4, <3>5, <3>6 DEF LayoutFits, off
    <3>8. QED
      BY <3>7 DEF l
  <2>8. QED
    BY <2>6, <2>7
<1>3. QED
  BY <1>1, <1>2

\* The sections of the object, in the order of the kinds.
LEMMA Collects ==
  ASSUME NEW sections \in [SectionKind -> Seq(Item)]
  PROVE  LET K == collectSections(sections)
             n == Len(K)
         IN  /\ n \in Nat /\ K \in [1 .. n -> SectionKind]
             /\ \A t, u \in 1 .. n : K[t] = K[u] => t = u
             /\ \A kind \in SectionKind : sections[kind] # <<>> =>
                  \E t \in 1 .. n : K[t] = kind
<1> DEFINE S == {x \in DOMAIN kSectionOrder : sections[kSectionOrder[x]] # <<>>}
           used == InOrder(S)
           c == Cardinality(S)
           K == collectSections(sections)
<1>1. /\ DOMAIN kSectionOrder = 1 .. 4
      /\ \A x \in 1 .. 4 : kSectionOrder[x] \in SectionKind
      /\ \A x, y \in 1 .. 4 : kSectionOrder[x] = kSectionOrder[y] => x = y
      /\ \A kind \in SectionKind : \E x \in 1 .. 4 : kSectionOrder[x] = kind
  <2>1. /\ DOMAIN kSectionOrder = 1 .. 4
        /\ kSectionOrder[1] = "Text" /\ kSectionOrder[2] = "Rodata"
        /\ kSectionOrder[3] = "Data" /\ kSectionOrder[4] = "Bss"
    BY DEF kSectionOrder
  <2>2. \A x \in 1 .. 4 : x = 1 \/ x = 2 \/ x = 3 \/ x = 4
    OBVIOUS
  <2>3. 1 \in 1 .. 4 /\ 2 \in 1 .. 4 /\ 3 \in 1 .. 4 /\ 4 \in 1 .. 4
    OBVIOUS
  <2>4. QED
    BY <2>1, <2>2, <2>3 DEF SectionKind
<1>2. S \in SUBSET (1 .. 4) /\ 4 \in Nat
  BY <1>1
<1>3. K = [t \in DOMAIN used |-> kSectionOrder[used[t]]]
  BY DEF collectSections
<1> HIDE DEF K, S
<1>4. /\ c \in Nat /\ DOMAIN used = 1 .. c
      /\ \A k \in 1 .. c : used[k] \in S
      /\ \A k, l \in 1 .. c : k < l => used[k] < used[l]
      /\ \A x \in S : \E k \in 1 .. c : used[k] = x
  BY <1>2, InOrderFacts
<1> HIDE DEF used, c
<1>5. \A k \in 1 .. c : used[k] \in 1 .. 4
  BY <1>2, <1>4
<1>6. /\ K \in [1 .. c -> SectionKind]
      /\ \A t \in 1 .. c : K[t] = kSectionOrder[used[t]]
  BY <1>1, <1>3, <1>4, <1>5
<1>7. Len(K) = c
  BY <1>4, <1>6, FunctionIsSequence, Zenon
<1>8. \A t, u \in 1 .. c : K[t] = K[u] => t = u
  <2>1. \A t, u \in 1 .. c : used[t] = used[u] => t = u
    <3>1. \A t, u \in 1 .. c : t < u \/ u < t \/ t = u
      BY <1>4
    <3>2. \A t, u \in 1 .. c : t < u => used[t] # used[u]
      BY <1>4, <1>5
    <3>3. QED
      BY <3>1, <3>2
  <2>2. SUFFICES ASSUME NEW t \in 1 .. c, NEW u \in 1 .. c, K[t] = K[u] PROVE t = u
    OBVIOUS
  <2>3. kSectionOrder[used[t]] = kSectionOrder[used[u]]
    BY <1>6, <2>2
  <2>4. used[t] = used[u]
    BY <1>1, <1>5, <2>3
  <2>5. QED
    BY <2>1, <2>4
<1>9. ASSUME NEW kind \in SectionKind, sections[kind] # <<>>
      PROVE  \E t \in 1 .. c : K[t] = kind
  <2>1. PICK x \in 1 .. 4 : kSectionOrder[x] = kind
    BY <1>1
  <2>2. x \in S
    BY <1>1, <1>9, <2>1 DEF S
  <2>3. PICK t \in 1 .. c : used[t] = x
    BY <1>4, <2>2
  <2>4. QED
    BY <1>6, <2>1, <2>3
<1>10. QED
  BY <1>4, <1>6, <1>7, <1>8, <1>9 DEF K

\* The items of section t.
ItemsOf(sections) ==
  [t \in 1 .. Len(collectSections(sections)) |-> sections[collectSections(sections)[t]]]

LEMMA ContentsOfSections ==
  ASSUME NEW source, NEW sections, SectionsFit(source, sections)
  PROVE  Contents(source, Len(collectSections(sections)), collectSections(sections),
                  ItemsOf(sections))
<1> DEFINE K == collectSections(sections)
           n == Len(K)
           C == ItemsOf(sections)
<1>1. sections \in [SectionKind -> Seq(Item)]
  BY DEF SectionsFit
<1>2. /\ n \in Nat /\ K \in [1 .. n -> SectionKind]
      /\ \A t, u \in 1 .. n : K[t] = K[u] => t = u
  BY <1>1, Collects
<1>3. C = [t \in 1 .. n |-> sections[K[t]]]
  BY DEF ItemsOf
<1> HIDE DEF K, n, C
<1>4. C \in [1 .. n -> Seq(Item)] /\ \A t \in 1 .. n : C[t] = sections[K[t]] /\ K[t] \in SectionKind
  BY <1>1, <1>2, <1>3
<1>5. \A t \in 1 .. n : \A j \in DOMAIN C[t] : Fits(source, C[t][j], K[t])
  BY <1>4 DEF SectionsFit, ItemsFit
<1>6. ASSUME NEW t \in 1 .. n, NEW u \in 1 .. n, NEW j \in DOMAIN C[t], NEW k \in DOMAIN C[u],
             C[t][j].kind = "label", C[u][k].kind = "label", C[t][j].name = C[u][k].name
      PROVE  t = u /\ j = k
  <2>1. K[t] = K[u] /\ j = k
    BY <1>4, <1>6 DEF SectionsFit, UniqueLabels
  <2>2. QED
    BY <1>2, <2>1
<1>7. Contents(source, n, K, C)
  BY <1>2, <1>4, <1>5, <1>6 DEF Contents
<1>8. QED
  BY <1>7 DEF K, n, C

\* An object with one section replaced.
WithSection(o, s, new) == [o EXCEPT !.sections = [o.sections EXCEPT ![s] = new]]

LEMMA SectionReplaced ==
  ASSUME NEW n \in Nat, NEW o \in ObjectRecord(n), NEW s \in 1 .. n,
         NEW new \in SectionRecord
  PROVE  LET q == WithSection(o, s, new)
         IN  /\ q \in ObjectRecord(n) /\ q.sections[s] = new
             /\ q.relocations = o.relocations /\ q.debug_info = o.debug_info
             /\ q.symbols = o.symbols /\ q.errors = o.errors
             /\ \A t \in 1 .. n : t # s => q.sections[t] = o.sections[t]
<1> DEFINE q == WithSection(o, s, new)
           v == [o.sections EXCEPT ![s] = new]
<1>1. o.sections \in [1 .. n -> SectionRecord] /\ o.errors \in SUBSET ErrorRecord
  BY ObjectFields
<1>2. /\ v \in [1 .. n -> SectionRecord] /\ v[s] = new
      /\ \A t \in 1 .. n : t # s => v[t] = o.sections[t]
  BY <1>1
<1>3. q = [o EXCEPT !.sections = v]
  BY DEF WithSection
<1> HIDE DEF v, q
<1>4. q = WithSections(o, v, o.errors)
  BY <1>3 DEF WithSections, ObjectRecord
<1>5. /\ q \in ObjectRecord(n) /\ q.sections = v
      /\ q.relocations = o.relocations /\ q.debug_info = o.debug_info
      /\ q.symbols = o.symbols /\ q.errors = o.errors
  BY <1>1, <1>2, <1>4, SectionsReplaced
<1>6. QED
  BY <1>2, <1>5 DEF q


\* The size and the alignment that pass 1 finds, and its symbols.
Relaid(o, s, l) ==
  [o EXCEPT !.sections[s].alignment = l.alignment, !.sections[s].size = l.offset,
            !.symbols = l.symbols, !.errors = l.errors]

LEMMA LayoutStored ==
  ASSUME NEW n \in Nat, NEW o \in ObjectRecord(n), NEW s \in 1 .. n,
         NEW l \in LayoutRecord
  PROVE  LET p == Relaid(o, s, l)
         IN  /\ p \in ObjectRecord(n) /\ p.relocations = o.relocations
             /\ p.debug_info = o.debug_info /\ p.symbols = l.symbols /\ p.errors = l.errors
             /\ \A t \in 1 .. n : t # s => p.sections[t] = o.sections[t]
             /\ p.sections[s].type = o.sections[s].type
             /\ p.sections[s].data = o.sections[s].data
             /\ p.sections[s].size = l.offset /\ p.sections[s].alignment = l.alignment
<1> DEFINE new1 == [o.sections[s] EXCEPT !.alignment = l.alignment]
           o1 == [o EXCEPT !.sections[s].alignment = l.alignment]
           new2 == [o1.sections[s] EXCEPT !.size = l.offset]
           o2 == [o1 EXCEPT !.sections[s].size = l.offset]
           p == [o2 EXCEPT !.symbols = l.symbols, !.errors = l.errors]
<1>1. /\ l.alignment \in Nat /\ l.offset \in Nat /\ l.symbols \in Seq(SymbolRecord)
      /\ l.errors \in SUBSET ErrorRecord
  BY DEF LayoutRecord
<1>2. o.sections[s] \in SectionRecord
  BY ObjectFields
<1>3. /\ new1 \in SectionRecord /\ new1.type = o.sections[s].type
      /\ new1.size = o.sections[s].size /\ new1.alignment = l.alignment
      /\ new1.data = o.sections[s].data
  BY <1>1, <1>2 DEF SectionRecord
<1>4. o1 = WithSection(o, s, new1)
  BY DEF WithSection
<1>5. p = Relaid(o, s, l)
  BY DEF Relaid
<1> HIDE DEF new1, o1
<1>6. /\ o1 \in ObjectRecord(n) /\ o1.sections[s] = new1
      /\ o1.relocations = o.relocations /\ o1.debug_info = o.debug_info
      /\ o1.symbols = o.symbols /\ o1.errors = o.errors
      /\ \A t \in 1 .. n : t # s => o1.sections[t] = o.sections[t]
  BY <1>3, <1>4, SectionReplaced
<1>7. /\ new2 \in SectionRecord /\ new2.type = new1.type /\ new2.size = l.offset
      /\ new2.alignment = new1.alignment /\ new2.data = new1.data
  BY <1>1, <1>3, <1>6 DEF SectionRecord
<1>8. o2 = WithSection(o1, s, new2)
  BY DEF WithSection
<1> HIDE DEF new2, o2
<1>9. /\ o2 \in ObjectRecord(n) /\ o2.sections[s] = new2
      /\ o2.relocations = o1.relocations /\ o2.debug_info = o1.debug_info
      /\ \A t \in 1 .. n : t # s => o2.sections[t] = o1.sections[t]
  BY <1>6, <1>7, <1>8, SectionReplaced
<1>10. p = WithSymbols(o2, l.symbols, l.errors)
  BY DEF WithSymbols
<1> HIDE DEF p
<1>11. /\ p \in ObjectRecord(n) /\ p.sections = o2.sections
       /\ p.relocations = o2.relocations /\ p.debug_info = o2.debug_info
       /\ p.symbols = l.symbols /\ p.errors = l.errors
  BY <1>1, <1>9, <1>10, SymbolsReplaced
<1>12. /\ \A t \in 1 .. n : t # s => p.sections[t] = o.sections[t]
       /\ p.sections[s].type = o.sections[s].type
       /\ p.sections[s].data = o.sections[s].data
       /\ p.sections[s].size = l.offset /\ p.sections[s].alignment = l.alignment
  BY <1>3, <1>6, <1>7, <1>9, <1>11
<1>13. QED
  BY <1>5, <1>6, <1>9, <1>11, <1>12

\* The object when pass 1 is done with the first s sections.
LaidOut(n, K, C, o, s) ==
  /\ o \in ObjectRecord(n) /\ o.relocations = <<>> /\ o.debug_info = <<>> /\ o.errors = {}
  /\ \A t \in 1 .. n :
       /\ o.sections[t].type = K[t] /\ o.sections[t].data = <<>>
       /\ o.sections[t].alignment # 0 /\ PowerOfTwo(o.sections[t].alignment)
  /\ \A t \in 1 .. s : o.sections[t].size = Pos(C[t], Len(C[t]))
  /\ Placed(n, C, o.symbols, s + 1, 0)

LEMMA LaysSection ==
  ASSUME NEW source, NEW n, NEW K, NEW C, Contents(source, n, K, C),
         NEW s \in 1 .. n, NEW o, LaidOut(n, K, C, o, s - 1)
  PROVE  LaidOut(n, K, C, layoutSection(o, s, C[s]), s)
<1> DEFINE L == LayingOut(o, s, C[s])
           last == Len(C[s])
           S == {k \in 0 .. last : LayoutFits(n, C, L[k], s, k)}
           l == L[last]
           p == layoutSection(o, s, C[s])
<1>1. /\ n \in Nat /\ C[s] \in Seq(Item) /\ last \in Nat /\ s \in Nat
      /\ DOMAIN C[s] = 1 .. last
  BY DEF Contents
<1>2. /\ L[0] = [offset |-> 0, alignment |-> o.sections[s].alignment,
                 symbols |-> o.symbols, errors |-> o.errors]
      /\ \A k \in 1 .. last : L[k] = layoutItem(L[k - 1], C[s][k], s)
  BY <1>1, LayingOutSteps
<1>3. /\ o \in ObjectRecord(n) /\ o.errors = {} /\ o.relocations = <<>>
      /\ o.debug_info = <<>> /\ o.sections[s].alignment # 0
      /\ PowerOfTwo(o.sections[s].alignment)
  BY DEF LaidOut
<1>4. /\ o.symbols \in Seq(SymbolRecord) /\ o.sections[s] \in SectionRecord
      /\ o.errors \in SUBSET ErrorRecord
  BY <1>1, <1>3, ObjectFields
<1>5. Placed(n, C, o.symbols, s, 0)
  <2>1. (s - 1) + 1 = s
    BY <1>1
  <2>2. Placed(n, C, o.symbols, (s - 1) + 1, 0)
    BY DEF LaidOut
  <2>3. QED
    BY <2>1, <2>2
<1> HIDE DEF L, last
<1>6. LayoutFits(n, C, L[0], s, 0)
  <2>1. o.sections[s].alignment \in Nat
    BY <1>4 DEF SectionRecord
  <2>2. L[0] \in LayoutRecord
    BY <1>2, <1>4, <2>1 DEF LayoutRecord
  <2>3. Pos(C[s], 0) = 0
    BY <1>1, BytesCount
  <2>4. /\ L[0].offset = 0 /\ L[0].alignment = o.sections[s].alignment
        /\ L[0].symbols = o.symbols /\ L[0].errors = o.errors
    BY <1>2
  <2>5. QED
    BY <1>3, <1>5, <2>2, <2>3, <2>4 DEF LayoutFits
<1>7. \A k \in 0 .. last : k \in S
  <2>1. 0 \in Int /\ last \in Int /\ 0 \in S
    BY <1>1, <1>6
  <2>2. \A k \in 0 .. last - 1 : k \in S => k + 1 \in S
    <3>1. SUFFICES ASSUME NEW k \in 0 .. last - 1, LayoutFits(n, C, L[k], s, k)
                   PROVE  k + 1 \in S
      OBVIOUS
    <3>2. k + 1 \in 1 .. last /\ (k + 1) - 1 = k /\ k + 1 \in 0 .. last
      BY <1>1
    <3>3. L[k + 1] = layoutItem(L[k], C[s][k + 1], s)
      BY <1>2, <3>2
    <3>4. LayoutFits(n, C, L[k], s, (k + 1) - 1)
      BY <3>1, <3>2
    <3> DEFINE j == k + 1
    <3>5. j \in 1 .. Len(C[s]) /\ LayoutFits(n, C, L[k], s, j - 1)
      BY <3>2, <3>4 DEF last
    <3> HIDE DEF j
    <3>6. LayoutFits(n, C, layoutItem(L[k], C[s][j], s), s, j)
      BY <3>5, LaysItem
    <3>7. LayoutFits(n, C, L[k + 1], s, k + 1)
      BY <3>3, <3>6 DEF j
    <3>8. QED
      BY <3>2, <3>7
  <2> HIDE DEF S
  <2>3. QED
    BY <2>1, <2>2, Induction, Zenon
<1>8. LayoutFits(n, C, l, s, last)
  BY <1>1, <1>7
<1>9. p = Relaid(o, s, l)
  BY DEF layoutSection, L, last, Relaid
<1> HIDE DEF l, p
<1>10. /\ l \in LayoutRecord /\ l.errors = {} /\ l.offset = Pos(C[s], last)
       /\ l.alignment # 0 /\ PowerOfTwo(l.alignment) /\ Placed(n, C, l.symbols, s, last)
  BY <1>8 DEF LayoutFits
<1>11. /\ p \in ObjectRecord(n) /\ p.relocations = o.relocations
       /\ p.debug_info = o.debug_info /\ p.symbols = l.symbols /\ p.errors = l.errors
       /\ \A t \in 1 .. n : t # s => p.sections[t] = o.sections[t]
       /\ p.sections[s].type = o.sections[s].type
       /\ p.sections[s].data = o.sections[s].data
       /\ p.sections[s].size = l.offset /\ p.sections[s].alignment = l.alignment
  <2>1. n \in Nat /\ o \in ObjectRecord(n) /\ l \in LayoutRecord
    BY <1>1, <1>3, <1>10
  <2>2. QED
    BY <1>9, <2>1, LayoutStored
<1>12. Placed(n, C, p.symbols, s + 1, 0)
  <2>1. \A t \in 1 .. n : \A j \in DOMAIN C[t] : t \in Nat /\ j \in Nat /\ ~(j <= 0)
    BY <1>1 DEF Contents
  <2>2. \A t \in 1 .. n : \A j \in DOMAIN C[t] : t = s => j <= last
    BY <1>1
  <2>3. \A t \in 1 .. n : \A j \in DOMAIN C[t] :
          Reached(t, j, s, last) <=> Reached(t, j, s + 1, 0)
    BY <1>1, <2>1, <2>2 DEF Reached
  <2> DEFINE v == p.symbols
  <2>4. Placed(n, C, v, s, last)
    BY <1>10, <1>11
  <2> HIDE DEF v
  <2>5. ASSUME NEW i \in DOMAIN v
        PROVE  /\ v[i].defined /\ v[i].section \in 1 .. n
               /\ \E j \in DOMAIN C[v[i].section] :
                    /\ Reached(v[i].section, j, s + 1, 0)
                    /\ IsPlace(C[v[i].section], v[i], j)
    BY <2>3, <2>4 DEF Placed
  <2>6. ASSUME NEW t \in 1 .. n, NEW j \in DOMAIN C[t], Reached(t, j, s + 1, 0),
               C[t][j].kind = "label"
        PROVE  \E i \in DOMAIN v : v[i].name = C[t][j].name
    BY <2>3, <2>4, <2>6 DEF Placed
  <2>7. Placed(n, C, v, s + 1, 0)
    BY <2>4, <2>5, <2>6 DEF Placed
  <2>8. QED
    BY <2>7 DEF v
<1>13. \A t \in 1 .. n :
         /\ p.sections[t].type = K[t] /\ p.sections[t].data = <<>>
         /\ p.sections[t].alignment # 0 /\ PowerOfTwo(p.sections[t].alignment)
  BY <1>10, <1>11 DEF LaidOut
<1>14. \A t \in 1 .. s : p.sections[t].size = Pos(C[t], Len(C[t]))
  <2>1. \A t \in 1 .. s : t \in 1 .. n /\ (t = s \/ t \in 1 .. s - 1)
    BY <1>1
  <2>2. \A t \in 1 .. s - 1 : o.sections[t].size = Pos(C[t], Len(C[t]))
    BY DEF LaidOut
  <2>3. QED
    BY <1>10, <1>11, <2>1, <2>2 DEF last
<1>15. LaidOut(n, K, C, p, s)
  BY <1>3, <1>10, <1>11, <1>12, <1>13, <1>14 DEF LaidOut
<1>16. QED
  BY <1>15 DEF p

LEMMA LaysOut ==
  ASSUME NEW source, NEW sections, SectionsFit(source, sections)
  PROVE  LET K == collectSections(sections)
         IN  LaidOut(Len(K), K, ItemsOf(sections), layoutAndDefineSymbols(File, sections), Len(K))
<1> DEFINE K == collectSections(sections)
           n == Len(K)
           C == ItemsOf(sections)
           L == LayingOutSections(File, sections)
           S == {s \in 0 .. n : LaidOut(n, K, C, L[s], s)}
<1>1. Contents(source, n, K, C)
  BY ContentsOfSections
<1>2. n \in Nat /\ K \in [1 .. n -> SectionKind] /\ \A t \in 1 .. n : C[t] = sections[K[t]]
  BY <1>1 DEF Contents, ItemsOf
<1>3. /\ L[0] = EmptyObject(File, K)
      /\ \A s \in 1 .. n : L[s] = layoutSection(L[s - 1], s, sections[K[s]])
  BY <1>2, LayingOutSectionsSteps
<1>4. layoutAndDefineSymbols(File, sections) = L[n]
  BY DEF layoutAndDefineSymbols
<1> HIDE DEF K, n, C, L
<1>5. LaidOut(n, K, C, L[0], 0)
  <2> DEFINE o == L[0]
  <2>1. /\ o \in ObjectRecord(n) /\ o.symbols = <<>> /\ o.relocations = <<>>
        /\ o.debug_info = <<>> /\ o.errors = {}
        /\ \A s \in 1 .. n : o.sections[s] =
             [type |-> K[s], alignment |-> WordSize, size |-> 0, data |-> <<>>]
    BY <1>2, <1>3, EmptyObjects
  <2> HIDE DEF o
  <2>2. WordSize # 0 /\ PowerOfTwo(WordSize)
    BY FrontEndAssumption
  <2>3. \A t \in 1 .. n :
          /\ o.sections[t].type = K[t] /\ o.sections[t].data = <<>>
          /\ o.sections[t].alignment = WordSize
    <3> SUFFICES ASSUME NEW t \in 1 .. n
                 PROVE  /\ o.sections[t].type = K[t] /\ o.sections[t].data = <<>>
                        /\ o.sections[t].alignment = WordSize
      OBVIOUS
    <3>1. o.sections[t] = [type |-> K[t], alignment |-> WordSize, size |-> 0, data |-> <<>>]
      BY <2>1
    <3>2. QED
      BY <3>1
  <2>4. Placed(n, C, o.symbols, 0 + 1, 0)
    <3>1. DOMAIN o.symbols = {} /\ o.symbols \in Seq(SymbolRecord)
      BY <2>1
    <3>2. \A t \in 1 .. n : \A j \in DOMAIN C[t] : ~Reached(t, j, 0 + 1, 0)
      <4>1. \A t \in 1 .. n : \A j \in DOMAIN C[t] : t \in Nat /\ j \in Nat /\ ~(j <= 0) /\ ~(t < 1)
        BY <1>1 DEF Contents
      <4>2. QED
        BY <4>1 DEF Reached
    <3>3. QED
      BY <3>1, <3>2 DEF Placed, UniqueNames
  <2>5. \A t \in 1 .. 0 : FALSE
    OBVIOUS
  <2>6. LaidOut(n, K, C, o, 0)
    BY <2>1, <2>2, <2>3, <2>4, <2>5 DEF LaidOut
  <2>7. QED
    BY <2>6 DEF o
<1>6. \A s \in 0 .. n : s \in S
  <2>1. 0 \in Int /\ n \in Int /\ 0 \in S
    BY <1>2, <1>5
  <2>2. \A s \in 0 .. n - 1 : s \in S => s + 1 \in S
    <3>1. SUFFICES ASSUME NEW s \in 0 .. n - 1, LaidOut(n, K, C, L[s], s)
                   PROVE  s + 1 \in S
      OBVIOUS
    <3> DEFINE t == s + 1
    <3>2. t \in 1 .. n /\ t - 1 = s /\ t \in 0 .. n
      BY <1>2
    <3> HIDE DEF t
    <3>3. L[t] = layoutSection(L[s], t, C[t])
      BY <1>2, <1>3, <3>2
    <3>4. LaidOut(n, K, C, L[s], t - 1)
      BY <3>1, <3>2
    <3>5. LaidOut(n, K, C, L[t], t)
      BY <1>1, <3>2, <3>3, <3>4, LaysSection
    <3>6. t \in S
      BY <3>2, <3>5
    <3>7. QED
      BY <3>6 DEF t
  <2> HIDE DEF S
  <2>3. QED
    BY <2>1, <2>2, Induction, Zenon
<1>7. LaidOut(n, K, C, L[n], n)
  BY <1>2, <1>6
<1>8. QED
  BY <1>4, <1>7 DEF K, n, C

-----------------------------------------------------------------------------
(***************************************************************************)
(* The bindings.                                                           *)
(***************************************************************************)
SymbolsFit(n, C, symbols) ==
  /\ symbols \in Seq(SymbolRecord) /\ UniqueNames(symbols)
  /\ \A i \in DOMAIN symbols : symbols[i].defined =>
       /\ symbols[i].section \in 1 .. n
       /\ \E j \in DOMAIN C[symbols[i].section] :
            IsPlace(C[symbols[i].section], symbols[i], j)
  /\ \A i \in DOMAIN symbols : ~symbols[i].defined => symbols[i].section = Undefined
  /\ \A t \in 1 .. n : \A j \in DOMAIN C[t] : C[t][j].kind = "label" =>
       \E i \in DOMAIN symbols : symbols[i].defined /\ symbols[i].name = C[t][j].name

LEMMA PlacedFits ==
  ASSUME NEW source, NEW n, NEW K, NEW C, Contents(source, n, K, C), NEW symbols,
         Placed(n, C, symbols, n + 1, 0)
  PROVE  SymbolsFit(n, C, symbols)
<1>1. n \in Nat
  BY DEF Contents
<1>2. \A t \in 1 .. n : \A j \in DOMAIN C[t] : Reached(t, j, n + 1, 0)
  BY <1>1 DEF Reached
<1>3. \A i \in DOMAIN symbols :
        /\ symbols[i].defined /\ symbols[i].section \in 1 .. n
        /\ \E j \in DOMAIN C[symbols[i].section] :
             IsPlace(C[symbols[i].section], symbols[i], j)
  BY DEF Placed
<1>4. \A t \in 1 .. n : \A j \in DOMAIN C[t] : C[t][j].kind = "label" =>
        \E i \in DOMAIN symbols : symbols[i].name = C[t][j].name
  BY <1>2 DEF Placed
<1>5. symbols \in Seq(SymbolRecord) /\ UniqueNames(symbols)
  BY DEF Placed
<1>6. QED
  BY <1>3, <1>4, <1>5 DEF SymbolsFit

LEMMA FitsGrow ==
  ASSUME NEW n, NEW C, NEW old, SymbolsFit(n, C, old), NEW new \in Seq(SymbolRecord),
         SymbolsGrow(old, new)
  PROVE  SymbolsFit(n, C, new)
<1>1. UniqueNames(new)
  BY DEF SymbolsFit, SymbolsGrow
<1>2. \A i \in DOMAIN new : i \in DOMAIN old \/ (~new[i].defined /\ new[i].section = Undefined)
  BY DEF SymbolsGrow
<1>3. \A i \in DOMAIN old :
        /\ i \in DOMAIN new /\ new[i].name = old[i].name /\ new[i].defined = old[i].defined
        /\ new[i].section = old[i].section /\ new[i].value = old[i].value
  BY DEF SymbolsGrow
<1>4. ASSUME NEW i \in DOMAIN new, new[i].defined
      PROVE  /\ new[i].section \in 1 .. n
             /\ \E j \in DOMAIN C[new[i].section] : IsPlace(C[new[i].section], new[i], j)
  <2>1. i \in DOMAIN old /\ old[i].defined
    BY <1>2, <1>3, <1>4
  <2>2. PICK j \in DOMAIN C[old[i].section] : IsPlace(C[old[i].section], old[i], j)
    BY <2>1 DEF SymbolsFit
  <2>3. IsPlace(C[new[i].section], new[i], j) /\ new[i].section \in 1 .. n
    BY <1>3, <2>1, <2>2 DEF IsPlace, SymbolsFit
  <2>4. QED
    BY <1>3, <2>1, <2>2, <2>3
<1>5. ASSUME NEW i \in DOMAIN new, ~new[i].defined PROVE new[i].section = Undefined
  BY <1>2, <1>3, <1>5 DEF SymbolsFit
<1>6. ASSUME NEW t \in 1 .. n, NEW j \in DOMAIN C[t], C[t][j].kind = "label"
      PROVE  \E i \in DOMAIN new : new[i].defined /\ new[i].name = C[t][j].name
  <2>1. PICK i \in DOMAIN old : old[i].defined /\ old[i].name = C[t][j].name
    BY <1>6 DEF SymbolsFit
  <2>2. i \in DOMAIN new /\ new[i].defined /\ new[i].name = C[t][j].name
    BY <1>3, <2>1
  <2>3. QED
    BY <2>2
<1>7. QED
  BY <1>1, <1>4, <1>5, <1>6 DEF SymbolsFit

NoneDangles(symbols) == \A i \in DOMAIN symbols : ~Dangles(symbols[i])

Request == [name : STRING, binding : {"Global", "Weak", "Extern"}]
Conflict == Error(0, "SymbolVisibilityConflict")

\* What a request may do.
Binds(o, r, n) ==
  /\ r \in ObjectRecord(n) /\ r.sections = o.sections
  /\ r.relocations = o.relocations /\ r.debug_info = o.debug_info
  /\ SymbolsGrow(o.symbols, r.symbols)
  /\ NoneDangles(o.symbols) => NoneDangles(r.symbols)
  /\ r.errors \subseteq o.errors \cup {Conflict}

LEMMA BindsName ==
  ASSUME NEW n, NEW o \in ObjectRecord(n), NEW name \in STRING,
         NEW binding \in {"Global", "Weak", "Extern"}
  PROVE  Binds(o, bind(o, name, binding), n)
<1> DEFINE t == findOrAdd(o.symbols, name)
           i == SymbolIndex(t, name)
           u == [t EXCEPT ![i].binding = binding]
           r == bind(o, name, binding)
<1>1. o.symbols \in Seq(SymbolRecord) /\ o.errors \in SUBSET ErrorRecord
  BY ObjectFields
<1>2. /\ t \in Seq(SymbolRecord) /\ SymbolsGrow(o.symbols, t)
      /\ i \in DOMAIN t
      /\ \A k \in DOMAIN t : k # i => k \in DOMAIN o.symbols /\ t[k] = o.symbols[k]
  BY <1>1, FindsOrAdds
<1>3. binding \in SymbolBinding /\ binding # "Local"
  BY DEF SymbolBinding
<1>4. r = [o EXCEPT !.symbols = u]
  BY DEF bind
<1> HIDE DEF t, i, r
<1>5. /\ u \in Seq(SymbolRecord) /\ SymbolsGrow(o.symbols, u) /\ DOMAIN u = DOMAIN t
      /\ u[i].binding = binding
      /\ \A k \in DOMAIN t : k # i => u[k] = t[k]
  BY <1>1, <1>2, <1>3, Rebinds
<1> HIDE DEF u
<1>6. r = WithSymbols(o, u, o.errors)
  BY <1>4 DEF WithSymbols, ObjectRecord
<1>7. /\ r \in ObjectRecord(n) /\ r.sections = o.sections /\ r.symbols = u
      /\ r.relocations = o.relocations /\ r.debug_info = o.debug_info
      /\ r.errors = o.errors
  BY <1>1, <1>5, <1>6, SymbolsReplaced
<1>8. NoneDangles(o.symbols) => NoneDangles(u)
  BY <1>2, <1>3, <1>5 DEF NoneDangles, Dangles
<1>9. Binds(o, r, n)
  BY <1>5, <1>7, <1>8 DEF Binds
<1>10. QED
  BY <1>9 DEF r

LEMMA BindsRequest ==
  ASSUME NEW n, NEW o \in ObjectRecord(n), NEW request \in Request
  PROVE  Binds(o, applyBinding(o, request), n)
<1> DEFINE r == applyBinding(o, request)
           E == o.errors \cup {Conflict}
<1>1. request.name \in STRING /\ request.binding \in {"Global", "Weak", "Extern"}
  BY DEF Request
<1>2. \/ r = bind(o, request.name, request.binding)
      \/ r = [o EXCEPT !.errors = @ \cup {Conflict}]
  BY DEF applyBinding, bindExtern, Conflict
<1>3. CASE r = bind(o, request.name, request.binding)
  <2> HIDE DEF r
  <2>1. Binds(o, r, n)
    BY <1>1, <1>3, BindsName
  <2>2. QED
    BY <2>1 DEF r
<1>4. CASE r = [o EXCEPT !.errors = @ \cup {Conflict}]
  <2>1. Conflict \in ErrorRecord
    BY DEF Conflict, Error, ErrorRecord
  <2>2. o.errors \in SUBSET ErrorRecord /\ o.symbols \in Seq(SymbolRecord)
    BY ObjectFields
  <2>3. E \in SUBSET ErrorRecord
    BY <2>1, <2>2
  <2>4. r = WithSymbols(o, o.symbols, E)
    <3> HIDE DEF r
    <3>1. QED
      BY <1>4 DEF WithSymbols, ObjectRecord
  <2> HIDE DEF E, r
  <2>5. /\ r \in ObjectRecord(n) /\ r.sections = o.sections /\ r.symbols = o.symbols
        /\ r.relocations = o.relocations /\ r.debug_info = o.debug_info
        /\ r.errors = E
    BY <2>2, <2>3, <2>4, SymbolsReplaced
  <2>6. Binds(o, r, n)
    BY <2>5, Growth DEF Binds, E
  <2>7. QED
    BY <2>6 DEF r
<1>5. QED
  BY <1>2, <1>3, <1>4

LEMMA RequestsMade ==
  ASSUME NEW globals \in Seq(STRING), NEW weaks \in Seq(STRING), NEW externs \in Seq(STRING)
  PROVE  AllRequests(globals, weaks, externs) \in Seq(Request)
<1>1. ASSUME NEW s \in Seq(STRING), NEW binding \in {"Global", "Weak", "Extern"}
      PROVE  Requests(s, binding) \in Seq(Request)
  <2>1. Len(s) \in Nat /\ DOMAIN s = 1 .. Len(s) /\ \A k \in 1 .. Len(s) : s[k] \in STRING
    OBVIOUS
  <2>2. Requests(s, binding) \in [1 .. Len(s) -> Request]
    BY <2>1 DEF Requests, Request
  <2>3. QED
    BY <2>1, <2>2, FunctionIsSequence, Zenon
<1> DEFINE a == Requests(globals, "Global")
           b == Requests(weaks, "Weak")
           c == Requests(externs, "Extern")
<1>2. a \in Seq(Request) /\ b \in Seq(Request) /\ c \in Seq(Request)
  BY <1>1
<1>3. AllRequests(globals, weaks, externs) = a \o b \o c
  BY DEF AllRequests
<1> HIDE DEF a, b, c
<1>4. QED
  BY <1>2, <1>3

\* The object that pass 2 gets.
BoundObject(n, K, C, o) ==
  /\ o \in ObjectRecord(n) /\ o.relocations = <<>> /\ o.debug_info = <<>>
  /\ o.errors \subseteq {Conflict}
  /\ \A t \in 1 .. n :
       /\ o.sections[t].type = K[t] /\ o.sections[t].data = <<>>
       /\ o.sections[t].alignment # 0 /\ PowerOfTwo(o.sections[t].alignment)
       /\ o.sections[t].size = Pos(C[t], Len(C[t]))
  /\ SymbolsFit(n, C, o.symbols) /\ NoneDangles(o.symbols)

LEMMA BindsStep ==
  ASSUME NEW n, NEW K, NEW C, NEW o, BoundObject(n, K, C, o), NEW request \in Request
  PROVE  BoundObject(n, K, C, applyBinding(o, request))
<1> DEFINE r == applyBinding(o, request)
<1>1. o \in ObjectRecord(n) /\ SymbolsFit(n, C, o.symbols) /\ NoneDangles(o.symbols)
  BY DEF BoundObject
<1>2. Binds(o, r, n)
  BY <1>1, BindsRequest
<1> HIDE DEF r
<1>3. r \in ObjectRecord(n) /\ r.symbols \in Seq(SymbolRecord)
  BY <1>2, ObjectFields DEF Binds
<1>4. SymbolsFit(n, C, r.symbols) /\ NoneDangles(r.symbols)
  BY <1>1, <1>2, <1>3, FitsGrow DEF Binds
<1>5. BoundObject(n, K, C, r)
  BY <1>2, <1>3, <1>4 DEF Binds, BoundObject
<1>6. QED
  BY <1>5 DEF r

LEMMA BindsAll ==
  ASSUME NEW source, NEW n, NEW K, NEW C, Contents(source, n, K, C), NEW o,
         LaidOut(n, K, C, o, n), NEW globals \in Seq(STRING), NEW weaks \in Seq(STRING),
         NEW externs \in Seq(STRING)
  PROVE  BoundObject(n, K, C, applyBindings(o, globals, weaks, externs))
<1> DEFINE requests == AllRequests(globals, weaks, externs)
           last == Len(requests)
           L == ApplyingBindings(o, requests)
           S == {k \in 0 .. last : BoundObject(n, K, C, L[k])}
<1>1. requests \in Seq(Request)
  BY RequestsMade
<1>2. applyBindings(o, globals, weaks, externs) = L[last]
  BY DEF applyBindings
<1> HIDE DEF requests
<1>3. last \in Nat /\ \A k \in 1 .. last : requests[k] \in Request
  BY <1>1
<1>4. L[0] = o /\ \A k \in 1 .. last : L[k] = applyBinding(L[k - 1], requests[k])
  BY <1>3, ApplyingBindingsSteps
<1> HIDE DEF L, last
<1>5. BoundObject(n, K, C, o)
  <2>1. SymbolsFit(n, C, o.symbols)
    BY PlacedFits DEF LaidOut
  <2>2. NoneDangles(o.symbols)
    BY DEF LaidOut, Placed, NoneDangles, Dangles
  <2>3. QED
    BY <2>1, <2>2 DEF LaidOut, BoundObject
<1>6. \A k \in 0 .. last : k \in S
  <2>1. 0 \in Int /\ last \in Int /\ 0 \in S
    BY <1>3, <1>4, <1>5
  <2>2. \A k \in 0 .. last - 1 : k \in S => k + 1 \in S
    <3>1. SUFFICES ASSUME NEW k \in 0 .. last - 1, BoundObject(n, K, C, L[k])
                   PROVE  k + 1 \in S
      OBVIOUS
    <3>2. k + 1 \in 1 .. last /\ (k + 1) - 1 = k /\ k + 1 \in 0 .. last
      BY <1>3
    <3>3. L[k + 1] = applyBinding(L[k], requests[k + 1]) /\ requests[k + 1] \in Request
      BY <1>3, <1>4, <3>2
    <3>4. BoundObject(n, K, C, L[k + 1])
      BY <3>1, <3>3, BindsStep
    <3>5. QED
      BY <3>2, <3>4
  <2> HIDE DEF S
  <2>3. QED
    BY <2>1, <2>2, Induction, Zenon
<1>7. QED
  BY <1>2, <1>3, <1>6

-----------------------------------------------------------------------------
(***************************************************************************)
(* Pass 2, section by section.                                             *)
(***************************************************************************)

\* The item a relocation is for.
IsReferring(contents, o, r, j) ==
  /\ contents[j].kind \in {"instruction", "value"} /\ isSymbolic(contents[j])
  /\ contents[j].symbol = [name |-> o.symbols[r.symbol].name, addend |-> r.addend]
  /\ r.offset = Pos(contents, j - 1)

RelocationFits(n, K, C, o, r) ==
  /\ r.section \in 1 .. n /\ K[r.section] # "Bss" /\ r.symbol \in DOMAIN o.symbols
  /\ r.offset + relocationWidth(r.type) <= Len(o.sections[r.section].data)
  /\ \E j \in DOMAIN C[r.section] : IsReferring(C[r.section], o, r, j)

\* The bytes from an offset on are the instruction of an item.
HoldsInstruction(bytes, offset, item) ==
  \A x \in 1 .. WordSize : bytes[offset + x] = StoreWord(encode(Encoded(item)))[x]

EntryFits(n, K, C, o, d) ==
  /\ d.section \in 1 .. n /\ K[d.section] = "Text"
  /\ d.offset + WordSize <= Len(o.sections[d.section].data)
  /\ \E j \in DOMAIN C[d.section] :
       /\ C[d.section][j].kind = "instruction" /\ C[d.section][j].line = d.line
       /\ EncodeError(Encoded(C[d.section][j])) = "None"
       /\ HoldsInstruction(o.sections[d.section].data, d.offset, C[d.section][j])

\* The one error of the encoder is the displacement of a memory operand.
ErrorFits(source, e) ==
  \/ e.code \in {"SymbolVisibilityConflict", "UndefinedSymbol"}
  \/ e.code = "ImmediateOutOfRange" /\ source[e.line].mnemonic \in {"LOAD", "STORE"}

\* What pass 2 has written of section t when it has done k items of section s.
SectionWritten(K, C, section, t, s, k) ==
  /\ section.type = K[t] /\ section.alignment # 0 /\ PowerOfTwo(section.alignment)
  /\ section.size = Pos(C[t], Len(C[t]))
  /\ t < s => Len(section.data) = IF K[t] = "Bss" THEN 0 ELSE Pos(C[t], Len(C[t]))
  /\ t = s => /\ Len(section.data) = Pos(C[t], k)
              /\ K[t] = "Bss" => \A x \in DOMAIN section.data : section.data[x] = ZeroByte
  /\ t > s => section.data = <<>>

Emitted(source, n, K, C, o, s, k) ==
  /\ o \in ObjectRecord(n) /\ SymbolsFit(n, C, o.symbols) /\ Clean(o)
  /\ \A t \in 1 .. n : SectionWritten(K, C, o.sections[t], t, s, k)
  /\ \A i \in DOMAIN o.relocations : RelocationFits(n, K, C, o, o.relocations[i])
  /\ \A i \in DOMAIN o.debug_info : EntryFits(n, K, C, o, o.debug_info[i])
  /\ \A e \in o.errors : ErrorFits(source, e)

\* Bytes that are written stay, but for those of .bss.
Prefix(a, b) == Len(a) <= Len(b) /\ \A x \in 1 .. Len(a) : b[x] = a[x]

LaterObject(n, K, o, p) ==
  /\ SymbolsGrow(o.symbols, p.symbols)
  /\ \A t \in 1 .. n : K[t] # "Bss" => Prefix(o.sections[t].data, p.sections[t].data)

LEMMA DataLength ==
  ASSUME NEW n \in Nat, NEW o \in ObjectRecord(n), NEW t \in 1 .. n
  PROVE  Len(o.sections[t].data) \in Nat
  BY WrittenSize

LEMMA RelocationKept ==
  ASSUME NEW n \in Nat, NEW K, NEW C, NEW o \in ObjectRecord(n), NEW p \in ObjectRecord(n),
         LaterObject(n, K, o, p), NEW r \in RelocationRecord, RelocationFits(n, K, C, o, r)
  PROVE  RelocationFits(n, K, C, p, r)
<1> DEFINE a == Len(o.sections[r.section].data)
           b == Len(p.sections[r.section].data)
           e == r.offset + relocationWidth(r.type)
<1>1. r.section \in 1 .. n /\ K[r.section] # "Bss" /\ r.symbol \in DOMAIN o.symbols /\ e <= a
  BY DEF RelocationFits
<1>2. p.symbols[r.symbol].name = o.symbols[r.symbol].name /\ r.symbol \in DOMAIN p.symbols
  BY <1>1 DEF LaterObject, SymbolsGrow
<1>3. a \in Nat /\ b \in Nat /\ a <= b
  BY <1>1, DataLength DEF LaterObject, Prefix
<1>4. e \in Int
  BY Sizes DEF RelocationRecord, relocationWidth
<1> HIDE DEF a, b, e
<1>5. e <= b
  BY <1>1, <1>3, <1>4
<1>6. PICK j \in DOMAIN C[r.section] : IsReferring(C[r.section], o, r, j)
  BY DEF RelocationFits
<1>7. IsReferring(C[r.section], p, r, j)
  BY <1>2, <1>6 DEF IsReferring
<1>8. QED
  BY <1>1, <1>2, <1>5, <1>6, <1>7 DEF RelocationFits, b, e

LEMMA EntryKept ==
  ASSUME NEW n \in Nat, NEW K, NEW C, NEW o \in ObjectRecord(n), NEW p \in ObjectRecord(n),
         LaterObject(n, K, o, p), NEW d \in DebugRecord, EntryFits(n, K, C, o, d)
  PROVE  EntryFits(n, K, C, p, d)
<1> DEFINE a == o.sections[d.section].data
           b == p.sections[d.section].data
<1>1. /\ d.section \in 1 .. n /\ K[d.section] = "Text" /\ d.offset + WordSize <= Len(a)
      /\ d.offset \in Nat
  BY DEF EntryFits, DebugRecord
<1>2. Len(a) \in Nat /\ Len(b) \in Nat /\ Prefix(a, b)
  BY <1>1, DataLength DEF LaterObject
<1> HIDE DEF a, b
<1>3. WordSize \in Nat
  BY Sizes
<1>4. d.offset + WordSize <= Len(b)
  BY <1>1, <1>2, <1>3 DEF Prefix
<1>5. \A x \in 1 .. WordSize : b[d.offset + x] = a[d.offset + x]
  <2>1. \A x \in 1 .. WordSize : d.offset + x \in 1 .. Len(a)
    BY <1>1, <1>2, <1>3
  <2>2. QED
    BY <1>2, <2>1 DEF Prefix
<1>6. PICK j \in DOMAIN C[d.section] :
        /\ C[d.section][j].kind = "instruction" /\ C[d.section][j].line = d.line
        /\ EncodeError(Encoded(C[d.section][j])) = "None"
        /\ HoldsInstruction(a, d.offset, C[d.section][j])
  BY DEF EntryFits, a
<1>7. HoldsInstruction(b, d.offset, C[d.section][j])
  BY <1>5, <1>6 DEF HoldsInstruction
<1>8. QED
  BY <1>1, <1>4, <1>6, <1>7 DEF EntryFits, b

\* Bytes appended to bytes.
LEMMA BytesAppended ==
  ASSUME NEW a \in Seq(Byte), NEW b \in Seq(Byte)
  PROVE  /\ a \o b \in Seq(Byte) /\ Len(a) \in Nat /\ Len(b) \in Nat
         /\ Len(a \o b) = Len(a) + Len(b) /\ DOMAIN (a \o b) = 1 .. Len(a) + Len(b)
         /\ \A x \in 1 .. Len(a) : (a \o b)[x] = a[x]
         /\ \A x \in 1 .. Len(b) : (a \o b)[Len(a) + x] = b[x]
         /\ \A x \in 1 .. Len(a) + Len(b) : x \in 1 .. Len(a) \/ x - Len(a) \in 1 .. Len(b)
         /\ \A x \in 1 .. Len(a) + Len(b) : Len(a) + (x - Len(a)) = x
         /\ Prefix(a, a \o b)
<1>1. /\ a \o b \in Seq(Byte) /\ Len(a) \in Nat /\ Len(b) \in Nat
      /\ Len(a \o b) = Len(a) + Len(b) /\ DOMAIN (a \o b) = 1 .. Len(a) + Len(b)
  OBVIOUS
<1>2. \A x \in 1 .. Len(a) : (a \o b)[x] = a[x]
  OBVIOUS
<1>3. \A x \in 1 .. Len(b) : (a \o b)[Len(a) + x] = b[x]
  OBVIOUS
<1>4. /\ \A x \in 1 .. Len(a) + Len(b) : x \in 1 .. Len(a) \/ x - Len(a) \in 1 .. Len(b)
      /\ \A x \in 1 .. Len(a) + Len(b) : Len(a) + (x - Len(a)) = x
  BY <1>1
<1>5. Prefix(a, a \o b)
  BY <1>1, <1>2 DEF Prefix
<1>6. QED
  BY <1>1, <1>2, <1>3, <1>4, <1>5

\* The errors of an item.
LEMMA ItemErrors ==
  ASSUME NEW source, NEW item \in Item, NEW kind, Fits(source, item, kind),
         NEW e \in ErrorsOf(item)
  PROVE  ErrorFits(source, e)
<1>1. CASE e = Error(item.line, "UndefinedSymbol")
  BY <1>1 DEF ErrorFits, Error
<1>2. CASE e # Error(item.line, "UndefinedSymbol")
  <2>1. /\ e = Error(item.line, EncodeError(Encoded(item))) /\ item.kind = "instruction"
        /\ EncodeError(Encoded(item)) # "None"
    BY <1>2 DEF ErrorsOf
  <2>2. /\ EncodeError(Encoded(item)) = "ImmediateOutOfRange"
        /\ source[item.line].mnemonic \in {"LOAD", "STORE"}
    BY <2>1 DEF Fits, Encodable
  <2>3. e.code = "ImmediateOutOfRange" /\ e.line = item.line
    BY <2>1, <2>2 DEF Error
  <2>4. QED
    BY <2>2, <2>3 DEF ErrorFits
<1>3. QED
  BY <1>1, <1>2

\* One item more.
LEMMA EmitsNext ==
  ASSUME NEW source, NEW n, NEW K, NEW C, Contents(source, n, K, C),
         NEW s \in 1 .. n, NEW k \in 1 .. Len(C[s]), NEW o,
         Emitted(source, n, K, C, o, s, k - 1)
  PROVE  Emitted(source, n, K, C, emitItem(o, C[s][k], s), s, k)
<1> DEFINE item == C[s][k]
           e == emitItem(o, item, s)
           at == Written(o, s)
           old == o.sections[s].data
           bytes == BytesOf(item, at)
           end == Pos(C[s], k)
<1>1. /\ n \in Nat /\ C[s] \in Seq(Item) /\ s \in Nat /\ k \in DOMAIN C[s] /\ item \in Item
      /\ Fits(source, item, K[s])
  BY DEF Contents
<1>2. /\ o \in ObjectRecord(n) /\ SymbolsFit(n, C, o.symbols) /\ Clean(o)
      /\ \A t \in 1 .. n : SectionWritten(K, C, o.sections[t], t, s, k - 1)
      /\ \A i \in DOMAIN o.relocations : RelocationFits(n, K, C, o, o.relocations[i])
      /\ \A i \in DOMAIN o.debug_info : EntryFits(n, K, C, o, o.debug_info[i])
      /\ \A x \in o.errors : ErrorFits(source, x)
  BY DEF Emitted
<1>3. Emits(o, e, item, s, n)
  BY <1>1, <1>2, ItemEmits
<1>4. old \in Seq(Byte) /\ at = Len(old) /\ at \in Nat
  BY <1>1, <1>2, WrittenSize
<1>5. /\ bytes \in Seq(Byte) /\ Len(bytes) = Width(item, at)
      /\ \/ item.kind \in {"label", "align"}
         \/ item.kind = "space" /\ item.fill = ZeroByte
         => \A x \in 1 .. Len(bytes) : bytes[x] = ZeroByte
  BY <1>1, <1>4, ItemBytes
<1>6. at = Pos(C[s], k - 1)
  BY <1>2, <1>4 DEF SectionWritten
<1>7. end = at + Width(item, at) /\ end = at + Len(bytes)
  BY <1>1, <1>5, <1>6, BytesCount
<1> HIDE DEF item, e, at, old, bytes, end
<1>8. /\ e \in ObjectRecord(n) /\ SymbolsGrow(o.symbols, e.symbols)
      /\ e.errors \subseteq o.errors \cup ErrorsOf(item) /\ Clean(e)
      /\ \A t \in 1 .. n : t # s => e.sections[t] = o.sections[t]
      /\ e.sections[s].type = o.sections[s].type /\ e.sections[s].size = o.sections[s].size
      /\ e.sections[s].alignment = o.sections[s].alignment
      /\ e.sections[s].data = old \o bytes
  BY <1>2, <1>3 DEF Emits, old, bytes, at
<1> DEFINE new == e.sections[s].data
<1>9. /\ Len(new) = end /\ end \in Nat /\ Prefix(old, new) /\ DOMAIN new = 1 .. Len(old) + Len(bytes)
      /\ \A x \in 1 .. Len(old) : new[x] = old[x]
      /\ \A x \in 1 .. Len(bytes) : new[Len(old) + x] = bytes[x]
      /\ \A x \in 1 .. Len(old) + Len(bytes) :
           /\ x \in 1 .. Len(old) \/ x - Len(old) \in 1 .. Len(bytes)
           /\ Len(old) + (x - Len(old)) = x
  <2>1. end = Len(old) + Len(bytes)
    BY <1>4, <1>7
  <2> HIDE DEF new
  <2>2. new = old \o bytes
    BY <1>8 DEF new
  <2>3. QED
    BY <1>4, <1>5, <2>1, <2>2, BytesAppended
<1> HIDE DEF new
<1>10. LaterObject(n, K, o, e)
  <2>1. \A t \in 1 .. n : Prefix(o.sections[t].data, e.sections[t].data)
    <3>1. ASSUME NEW t \in 1 .. n, t # s PROVE Prefix(o.sections[t].data, e.sections[t].data)
      <4>1. Len(o.sections[t].data) \in Nat /\ e.sections[t] = o.sections[t]
        BY <1>1, <1>2, <1>8, <3>1, DataLength
      <4>2. QED
        BY <4>1 DEF Prefix
    <3>2. QED
      BY <1>9, <3>1 DEF old, new
  <2>2. QED
    BY <1>8, <2>1 DEF LaterObject
<1>11. SymbolsFit(n, C, e.symbols)
  BY <1>1, <1>2, <1>8, FitsGrow, ObjectFields
<1>12. ASSUME NEW t \in 1 .. n PROVE SectionWritten(K, C, e.sections[t], t, s, k)
  <2>1. CASE t # s
    BY <1>2, <1>8, <2>1 DEF SectionWritten
  <2>2. CASE t = s
    <3>1. K[s] = "Bss" => \A x \in 1 .. Len(bytes) : bytes[x] = ZeroByte
      BY <1>1, <1>5 DEF Fits
    <3>2. K[s] = "Bss" => \A x \in 1 .. Len(old) : old[x] = ZeroByte
      BY <1>2, <1>4 DEF SectionWritten, old
    <3>3. K[s] = "Bss" => \A x \in DOMAIN new : new[x] = ZeroByte
      BY <1>9, <3>1, <3>2
    <3>4. /\ e.sections[s].type = K[s] /\ e.sections[s].alignment # 0
          /\ PowerOfTwo(e.sections[s].alignment)
          /\ e.sections[s].size = Pos(C[s], Len(C[s]))
      BY <1>2, <1>8 DEF SectionWritten
    <3>5. ~(s < s) /\ ~(s > s)
      BY <1>1
    <3>6. QED
      BY <1>9, <2>2, <3>3, <3>4, <3>5 DEF SectionWritten, new, end
  <2>3. QED
    BY <2>1, <2>2
<1>13. ASSUME NEW i \in DOMAIN e.relocations PROVE RelocationFits(n, K, C, e, e.relocations[i])
  <2> DEFINE was == o.relocations
  <2>1. was \in Seq(RelocationRecord)
    BY <1>2, ObjectFields
  <2>2. ASSUME NEW j \in DOMAIN was PROVE RelocationFits(n, K, C, e, was[j])
    <3>1. was[j] \in RelocationRecord
      BY <2>1
    <3>2. RelocationFits(n, K, C, o, was[j])
      BY <1>2
    <3> HIDE DEF was
    <3>3. QED
      BY <1>1, <1>2, <1>8, <1>10, <3>1, <3>2, RelocationKept
  <2>3. CASE e.relocations = was
    BY <2>2, <2>3
  <2>4. CASE e.relocations # was
    <3>1. PICK r \in RelocationRecord :
            /\ e.relocations = Append(was, r) /\ IsRelocation(r, o, e, item.symbol, s)
            /\ item.kind \in {"instruction", "value"} /\ isSymbolic(item)
            /\ relocationWidth(r.type) = Width(item, at)
      BY <1>3, <2>4 DEF Emits, at
    <3>2. /\ r.section = s /\ r.offset = at /\ r.symbol \in DOMAIN e.symbols
          /\ item.symbol = [name |-> e.symbols[r.symbol].name, addend |-> r.addend]
      BY <3>1 DEF IsRelocation, at
    <3>3. K[s] # "Bss"
      BY <1>1, <3>1 DEF Fits
    <3>4. IsReferring(C[s], e, r, k)
      BY <1>6, <3>1, <3>2 DEF IsReferring, item
    <3>5. at + relocationWidth(r.type) <= Len(new)
      <4>1. at + relocationWidth(r.type) = end
        BY <1>7, <3>1
      <4>2. QED
        BY <1>9, <4>1
    <3>6. RelocationFits(n, K, C, e, r)
      BY <1>1, <3>2, <3>3, <3>4, <3>5 DEF RelocationFits, new
    <3>7. i \in DOMAIN was \/ e.relocations[i] = r
      <4> HIDE DEF was
      <4>1. DOMAIN e.relocations = 1 .. Len(was) + 1 /\ Len(was) \in Nat
            /\ DOMAIN was = 1 .. Len(was) /\ e.relocations[Len(was) + 1] = r
        BY <2>1, <3>1, Appended
      <4>2. QED
        BY <4>1
    <3>8. i \in DOMAIN was => e.relocations[i] = was[i]
      <4> HIDE DEF was
      <4>1. QED
        BY <2>1, <3>1, Appended
    <3>9. QED
      BY <2>2, <3>6, <3>7, <3>8
  <2>5. QED
    BY <2>3, <2>4
<1>14. ASSUME NEW i \in DOMAIN e.debug_info PROVE EntryFits(n, K, C, e, e.debug_info[i])
  <2> DEFINE was == o.debug_info
  <2>1. was \in Seq(DebugRecord)
    BY <1>2, ObjectFields
  <2>2. ASSUME NEW j \in DOMAIN was PROVE EntryFits(n, K, C, e, was[j])
    <3>1. was[j] \in DebugRecord
      BY <2>1
    <3>2. EntryFits(n, K, C, o, was[j])
      BY <1>2
    <3> HIDE DEF was
    <3>3. QED
      BY <1>1, <1>2, <1>8, <1>10, <3>1, <3>2, EntryKept
  <2>3. CASE e.debug_info = was
    BY <2>2, <2>3
  <2>4. CASE e.debug_info # was
    <3>1. PICK d \in DebugRecord :
            /\ e.debug_info = Append(was, d)
            /\ d.section = s /\ d.offset = at /\ d.line = item.line
            /\ item.kind = "instruction" /\ EncodeError(Encoded(item)) = "None"
      BY <1>3, <2>4 DEF Emits, at
    <3>2. K[s] = "Text"
      BY <1>1, <3>1 DEF Fits
    <3>3. bytes = StoreWord(encode(Encoded(item))) /\ Width(item, at) = WordSize
      BY <3>1 DEF BytesOf, Width, bytes
    <3>4. HoldsInstruction(new, at, item)
      BY <1>4, <1>5, <1>9, <3>3 DEF HoldsInstruction
    <3>5. at + WordSize <= Len(new)
      BY <1>7, <1>9, <3>3
    <3>6. EntryFits(n, K, C, e, d)
      BY <1>1, <3>1, <3>2, <3>4, <3>5 DEF EntryFits, new, item
    <3>7. i \in DOMAIN was \/ e.debug_info[i] = d
      <4> HIDE DEF was
      <4>1. DOMAIN e.debug_info = 1 .. Len(was) + 1 /\ Len(was) \in Nat
            /\ DOMAIN was = 1 .. Len(was) /\ e.debug_info[Len(was) + 1] = d
        BY <2>1, <3>1, Appended
      <4>2. QED
        BY <4>1
    <3>8. i \in DOMAIN was => e.debug_info[i] = was[i]
      <4> HIDE DEF was
      <4>1. QED
        BY <2>1, <3>1, Appended
    <3>9. QED
      BY <2>2, <3>6, <3>7, <3>8
  <2>5. QED
    BY <2>3, <2>4
<1>15. \A x \in e.errors : ErrorFits(source, x)
  BY <1>1, <1>2, <1>8, ItemErrors
<1>16. Emitted(source, n, K, C, e, s, k)
  BY <1>8, <1>11, <1>12, <1>13, <1>14, <1>15 DEF Emitted
<1>17. QED
  BY <1>16 DEF e, item

\* The end of a section: pass 1 counted right, and .bss is all zeros.
LEMMA Finishes ==
  ASSUME NEW source, NEW n, NEW K, NEW C, Contents(source, n, K, C),
         NEW s \in 1 .. n, NEW o, Emitted(source, n, K, C, o, s, Len(C[s]))
  PROVE  Emitted(source, n, K, C, finishSection(o, s), s + 1, 0)
<1> DEFINE this == o.sections[s]
           kept == IF this.type = "Bss" THEN <<>> ELSE this.data
           new == [this EXCEPT !.data = kept]
           v == [o.sections EXCEPT ![s] = new]
           p == finishSection(o, s)
<1>1. n \in Nat /\ s \in Nat /\ \A t \in 1 .. n : C[t] \in Seq(Item) /\ t \in Nat
  BY DEF Contents
<1>2. /\ o \in ObjectRecord(n) /\ SymbolsFit(n, C, o.symbols) /\ Clean(o)
      /\ \A t \in 1 .. n : SectionWritten(K, C, o.sections[t], t, s, Len(C[s]))
      /\ \A i \in DOMAIN o.relocations : RelocationFits(n, K, C, o, o.relocations[i])
      /\ \A i \in DOMAIN o.debug_info : EntryFits(n, K, C, o, o.debug_info[i])
      /\ \A x \in o.errors : ErrorFits(source, x)
  BY DEF Emitted
<1>3. /\ o.sections \in [1 .. n -> SectionRecord] /\ this \in SectionRecord
      /\ this.data \in Seq(Byte) /\ o.errors \in SUBSET ErrorRecord
  BY <1>1, <1>2, ObjectFields, WrittenSize
<1>4. /\ this.type = K[s] /\ Len(this.data) = Pos(C[s], Len(C[s]))
      /\ this.size = Pos(C[s], Len(C[s])) /\ this.alignment # 0 /\ PowerOfTwo(this.alignment)
      /\ K[s] = "Bss" => \A x \in DOMAIN this.data : this.data[x] = ZeroByte
  BY <1>2 DEF SectionWritten
<1>5. kept \in Seq(Byte)
  BY <1>3
<1>6. p = WithSections(o, v, o.errors)
  <2> DEFINE bad == IF this.type = "Bss"
                      THEN \E x \in DOMAIN this.data : this.data[x] # ZeroByte
                      ELSE Len(this.data) # this.size
             E == o.errors \cup When(bad, 0, InternalError)
  <2>1. ~bad
    BY <1>4
  <2>2. When(bad, 0, InternalError) = {}
    BY <2>1 DEF When
  <2>3. E = o.errors
    BY <2>2
  <2>4. p = [o EXCEPT !.errors = E, !.sections[s].data = kept]
    BY DEF finishSection
  <2> HIDE DEF E, kept
  <2>5. p = [o EXCEPT !.errors = E, !.sections = v]
    BY <2>4
  <2>6. QED
    BY <2>3, <2>5 DEF WithSections
<1> HIDE DEF kept, p
<1>7. /\ new \in SectionRecord /\ new.type = this.type /\ new.size = this.size
      /\ new.alignment = this.alignment /\ new.data = kept
  BY <1>3, <1>5, SectionData
<1> HIDE DEF new
<1>8. /\ v \in [1 .. n -> SectionRecord] /\ v[s] = new
      /\ \A t \in 1 .. n : t # s => v[t] = o.sections[t]
  BY <1>3, <1>7
<1> HIDE DEF v
<1>9. /\ p \in ObjectRecord(n) /\ p.sections = v
      /\ p.relocations = o.relocations /\ p.debug_info = o.debug_info
      /\ p.symbols = o.symbols /\ p.errors = o.errors
  BY <1>2, <1>3, <1>6, <1>8, SectionsReplaced
<1>10. LaterObject(n, K, o, p)
  <2>1. ASSUME NEW t \in 1 .. n, K[t] # "Bss"
        PROVE  Prefix(o.sections[t].data, p.sections[t].data)
    <3>1. p.sections[t].data = o.sections[t].data
      BY <1>4, <1>7, <1>8, <1>9, <2>1 DEF kept
    <3>2. Len(o.sections[t].data) \in Nat
      BY <1>1, <1>2, DataLength
    <3>3. QED
      BY <3>1, <3>2 DEF Prefix
  <2>2. SymbolsGrow(o.symbols, p.symbols)
    BY <1>9, Growth
  <2>3. QED
    BY <2>1, <2>2 DEF LaterObject
<1>11. SymbolsFit(n, C, p.symbols) /\ Clean(p)
  BY <1>2, <1>9 DEF Clean
<1>12. ASSUME NEW t \in 1 .. n PROVE SectionWritten(K, C, p.sections[t], t, s + 1, 0)
  <2>1. Pos(C[t], 0) = 0 /\ t \in Nat
    BY <1>1, BytesCount
  <2>2. CASE t = s
    <3>1. t < s + 1 /\ ~(t = s + 1) /\ ~(t > s + 1)
      BY <1>1, <2>2
    <3>2. Len(kept) = IF K[s] = "Bss" THEN 0 ELSE Pos(C[s], Len(C[s]))
      BY <1>4 DEF kept
    <3>3. p.sections[t] = new
      BY <1>8, <1>9, <2>2
    <3>4. QED
      BY <1>4, <1>7, <2>2, <3>1, <3>2, <3>3 DEF SectionWritten
  <2>3. CASE t < s
    <3>1. t < s + 1 /\ ~(t = s + 1) /\ ~(t > s + 1) /\ t # s /\ ~(t > s)
      BY <1>1, <2>1, <2>3
    <3>2. p.sections[t] = o.sections[t]
      BY <1>8, <1>9, <3>1
    <3>3. QED
      BY <1>2, <2>3, <3>1, <3>2 DEF SectionWritten
  <2>4. CASE t > s
    <3>1. ~(t < s + 1) /\ t # s /\ ~(t < s)
      BY <1>1, <2>1, <2>4
    <3>2. p.sections[t] = o.sections[t] /\ o.sections[t].data = <<>>
      BY <1>2, <1>8, <1>9, <2>4, <3>1 DEF SectionWritten
    <3>3. Len(<<>>) = 0 /\ DOMAIN <<>> = {}
      OBVIOUS
    <3>4. QED
      BY <1>2, <2>1, <2>4, <3>1, <3>2, <3>3 DEF SectionWritten
  <2>5. QED
    BY <1>1, <2>1, <2>2, <2>3, <2>4
<1>13. ASSUME NEW i \in DOMAIN p.relocations PROVE RelocationFits(n, K, C, p, p.relocations[i])
  <2>1. i \in DOMAIN o.relocations /\ p.relocations[i] \in RelocationRecord
    BY <1>2, <1>9, ObjectFields
  <2>2. RelocationFits(n, K, C, o, p.relocations[i])
    BY <1>2, <1>9, <2>1
  <2>3. QED
    BY <1>1, <1>2, <1>9, <1>10, <2>1, <2>2, RelocationKept
<1>14. ASSUME NEW i \in DOMAIN p.debug_info PROVE EntryFits(n, K, C, p, p.debug_info[i])
  <2>1. i \in DOMAIN o.debug_info /\ p.debug_info[i] \in DebugRecord
    BY <1>2, <1>9, ObjectFields
  <2>2. EntryFits(n, K, C, o, p.debug_info[i])
    BY <1>2, <1>9, <2>1
  <2>3. QED
    BY <1>1, <1>2, <1>9, <1>10, <2>1, <2>2, EntryKept
<1>15. \A x \in p.errors : ErrorFits(source, x)
  BY <1>2, <1>9
<1>16. Emitted(source, n, K, C, p, s + 1, 0)
  BY <1>9, <1>11, <1>12, <1>13, <1>14, <1>15 DEF Emitted
<1>17. QED
  BY <1>16 DEF p

LEMMA EmitsSection ==
  ASSUME NEW source, NEW n, NEW K, NEW C, Contents(source, n, K, C),
         NEW s \in 1 .. n, NEW o, Emitted(source, n, K, C, o, s, 0)
  PROVE  Emitted(source, n, K, C, emitSection(o, s, C[s]), s + 1, 0)
<1> DEFINE L == Emitting(o, s, C[s])
           last == Len(C[s])
           S == {k \in 0 .. last : Emitted(source, n, K, C, L[k], s, k)}
<1>1. last \in Nat
  BY DEF Contents
<1>2. L[0] = o /\ \A k \in 1 .. last : L[k] = emitItem(L[k - 1], C[s][k], s)
  BY <1>1, EmittingSteps
<1>3. emitSection(o, s, C[s]) = finishSection(L[last], s)
  BY DEF emitSection
<1> HIDE DEF L, last
<1>4. \A k \in 0 .. last : k \in S
  <2>1. 0 \in Int /\ last \in Int /\ 0 \in S
    BY <1>1, <1>2
  <2>2. \A k \in 0 .. last - 1 : k \in S => k + 1 \in S
    <3>1. SUFFICES ASSUME NEW k \in 0 .. last - 1, Emitted(source, n, K, C, L[k], s, k)
                   PROVE  k + 1 \in S
      OBVIOUS
    <3> DEFINE j == k + 1
    <3>2. j \in 1 .. last /\ j - 1 = k /\ j \in 0 .. last
      BY <1>1
    <3> HIDE DEF j
    <3>3. L[j] = emitItem(L[k], C[s][j], s)
      BY <1>2, <3>2
    <3>4. Emitted(source, n, K, C, L[k], s, j - 1) /\ j \in 1 .. Len(C[s])
      BY <3>1, <3>2 DEF last
    <3>5. Emitted(source, n, K, C, emitItem(L[k], C[s][j], s), s, j)
      BY <3>4, EmitsNext
    <3>6. j \in S
      BY <3>2, <3>3, <3>5
    <3>7. QED
      BY <3>6 DEF j
  <2> HIDE DEF S
  <2>3. QED
    BY <2>1, <2>2, Induction, Zenon
<1>5. Emitted(source, n, K, C, L[last], s, Len(C[s]))
  <2>1. last \in 0 .. last
    BY <1>1
  <2>2. QED
    BY <1>4, <2>1 DEF last
<1>6. QED
  BY <1>3, <1>5, Finishes

\* Pass 2 as a whole.
LEMMA EmitsAll ==
  ASSUME NEW source, NEW sections, SectionsFit(source, sections), NEW o,
         BoundObject(Len(collectSections(sections)), collectSections(sections),
                     ItemsOf(sections), o)
  PROVE  LET K == collectSections(sections)
         IN  Emitted(source, Len(K), K, ItemsOf(sections), emit(o, sections), Len(K) + 1, 0)
<1> DEFINE K == collectSections(sections)
           n == Len(K)
           C == ItemsOf(sections)
           L == EmittingSections(o, sections)
           S == {s \in 0 .. n : Emitted(source, n, K, C, L[s], s + 1, 0)}
<1>1. Contents(source, n, K, C)
  BY ContentsOfSections
<1>2. n \in Nat /\ K \in [1 .. n -> SectionKind] /\ \A t \in 1 .. n : C[t] = sections[K[t]]
  BY <1>1 DEF Contents, ItemsOf
<1>3. L[0] = o /\ \A s \in 1 .. n : L[s] = emitSection(L[s - 1], s, sections[K[s]])
  BY <1>2, EmittingSectionsSteps
<1>4. emit(o, sections) = L[n]
  BY DEF emit
<1>5. BoundObject(n, K, C, o)
  OBVIOUS
<1> HIDE DEF K, n, C, L
<1>6. Emitted(source, n, K, C, o, 1, 0)
  <2>1. /\ o \in ObjectRecord(n) /\ SymbolsFit(n, C, o.symbols) /\ Clean(o)
        /\ o.relocations = <<>> /\ o.debug_info = <<>>
    BY <1>5 DEF BoundObject, Clean, NoneDangles
  <2>2. \A x \in o.errors : ErrorFits(source, x)
    <3>1. \A x \in o.errors : x.code = "SymbolVisibilityConflict"
      BY <1>5 DEF BoundObject, Conflict, Error
    <3>2. QED
      BY <3>1 DEF ErrorFits
  <2>3. ASSUME NEW t \in 1 .. n PROVE SectionWritten(K, C, o.sections[t], t, 1, 0)
    <3>1. ~(t < 1)
      BY <1>2
    <3>2. C[t] \in Seq(Item)
      BY <1>1 DEF Contents
    <3>3. Pos(C[t], 0) = 0
      BY <3>2, BytesCount
    <3>4. Len(<<>>) = 0 /\ DOMAIN <<>> = {}
      OBVIOUS
    <3>5. QED
      BY <1>5, <3>1, <3>3, <3>4 DEF BoundObject, SectionWritten
  <2>4. DOMAIN o.relocations = {} /\ DOMAIN o.debug_info = {}
    BY <2>1
  <2>5. QED
    BY <2>1, <2>2, <2>3, <2>4 DEF Emitted
<1>7. \A s \in 0 .. n : s \in S
  <2>1. 0 \in Int /\ n \in Int /\ 0 \in S
    <3>1. 0 + 1 = 1
      OBVIOUS
    <3>2. Emitted(source, n, K, C, L[0], 0 + 1, 0)
      BY <1>3, <1>6, <3>1
    <3>3. QED
      BY <1>2, <3>2
  <2>2. \A s \in 0 .. n - 1 : s \in S => s + 1 \in S
    <3>1. SUFFICES ASSUME NEW s \in 0 .. n - 1, Emitted(source, n, K, C, L[s], s + 1, 0)
                   PROVE  s + 1 \in S
      OBVIOUS
    <3> DEFINE t == s + 1
    <3>2. t \in 1 .. n /\ t - 1 = s /\ t \in 0 .. n
      BY <1>2
    <3>3. Emitted(source, n, K, C, L[s], t, 0)
      BY <3>1
    <3> HIDE DEF t
    <3>4. L[t] = emitSection(L[s], t, C[t])
      BY <1>2, <1>3, <3>2
    <3>5. Emitted(source, n, K, C, L[t], t + 1, 0)
      BY <1>1, <3>2, <3>3, <3>4, EmitsSection
    <3>6. t \in S
      BY <3>2, <3>5
    <3>7. QED
      BY <3>6 DEF t
  <2> HIDE DEF S
  <2>3. QED
    BY <2>1, <2>2, Induction, Zenon
<1>8. Emitted(source, n, K, C, L[n], n + 1, 0)
  BY <1>2, <1>7
<1>9. QED
  BY <1>4, <1>8 DEF K, n, C

-----------------------------------------------------------------------------
(***************************************************************************)
(* The pipeline.                                                           *)
(***************************************************************************)

\* What the analysis may find.
AnalysisCode == {"DuplicateSymbol", "IntegerOverflow", "InvalidOperand", "InvalidOpcode",
                 "InvalidDirective", "InvalidRelocation", "InvalidSectionReference"}

Coded(found) == \A e \in found : e.code \in AnalysisCode

LEMMA WhenCoded ==
  ASSUME NEW condition, NEW line, NEW code \in AnalysisCode
  PROVE  Coded(When(condition, line, code)) /\ Coded({Error(line, code)}) /\ Coded({})
  BY DEF Coded, When, Error

LEMMA CodesJoined ==
  ASSUME NEW A, NEW B, Coded(A), Coded(B) PROVE Coded(A \cup B)
  BY DEF Coded

LEMMA InstructionCodes ==
  ASSUME NEW statement \in InstructionStatement, NEW line
  PROVE  Coded(checkInstruction(statement, line))
<1> DEFINE operands == statement.operands
           mnemonic == statement.mnemonic
           format == Format(mnemonic)
           invalid == {Error(line, "InvalidOperand")}
<1>1. /\ "InvalidOperand" \in AnalysisCode /\ "IntegerOverflow" \in AnalysisCode
      /\ "InvalidOpcode" \in AnalysisCode
  BY DEF AnalysisCode
<1>2. Coded(invalid) /\ Coded({Error(line, "InvalidOpcode")}) /\ Coded({})
  BY <1>1, WhenCoded
<1> HIDE DEF invalid
<1>3. \A operand, wanted : Coded(requireKind(operand, wanted, line))
  BY <1>1, WhenCoded DEF requireKind
<1>4. \A operand : Coded(checkSignedRange(operand, line))
  BY <1>1, WhenCoded DEF checkSignedRange
<1>5. Coded(checkRegImm(operands, line))
  <2> DEFINE A == requireKind(operands[1], "Register", line)
             B == checkSignedRange(operands[2], line)
             D == IF operands[1].type = "Register" /\ ~isValueOperand(operands[2])
                    THEN invalid ELSE B
  <2>1. Coded(A) /\ Coded(B)
    BY <1>3, <1>4
  <2>2. Coded(D)
    BY <1>2, <2>1
  <2>3. checkRegImm(operands, line) = A \cup D
    BY DEF checkRegImm, invalid
  <2> HIDE DEF A, D
  <2>4. QED
    BY <2>1, <2>2, <2>3, CodesJoined
<1>6. Coded(checkMem(mnemonic, operands, line))
  <2> DEFINE memory == MemoryOperand(mnemonic, operands)
             A == requireKind(RegisterOperand(mnemonic, operands), "Register", line)
             B == checkSignedRange(memory, line)
             D == IF memory.type = "Memory" THEN B ELSE invalid
  <2>1. Coded(A) /\ Coded(B)
    BY <1>3, <1>4
  <2>2. Coded(D)
    BY <1>2, <2>1
  <2>3. checkMem(mnemonic, operands, line) = A \cup D
    BY DEF checkMem, invalid
  <2> HIDE DEF A, D
  <2>4. QED
    BY <2>1, <2>2, <2>3, CodesJoined
<1>7. Coded(checkJump(operands[1], line))
  <2> DEFINE A == When(operands[1].type = "Immediate" /\ operands[1].immediate % WordSize # 0,
                       line, "InvalidOperand")
             B == checkSignedRange(operands[1], line)
  <2>1. Coded(A)
    BY <1>1, WhenCoded
  <2>2. Coded(B)
    BY <1>4
  <2>3. checkJump(operands[1], line) \in {invalid, B, A}
    BY DEF checkJump, invalid
  <2> HIDE DEF A, B
  <2>4. QED
    BY <1>2, <2>1, <2>2, <2>3
<1>8. Coded(checkSysImm(operands[1], line))
  <2> DEFINE A == When(~ImmediateFits("SysImm", operands[1].immediate), line, "IntegerOverflow")
  <2>1. Coded(A)
    BY <1>1, WhenCoded
  <2>2. checkSysImm(operands[1], line) \in {invalid, A}
    BY DEF checkSysImm, invalid
  <2> HIDE DEF A
  <2>3. QED
    BY <1>2, <2>1, <2>2
<1>9. CASE mnemonic \notin Opcode
  BY <1>2, <1>9 DEF checkInstruction
<1>10. CASE mnemonic \in Opcode /\ Len(operands) # operandCount(format)
  BY <1>2, <1>10 DEF checkInstruction, invalid
<1>11. CASE mnemonic \in Opcode /\ Len(operands) = operandCount(format)
  <2>1. format \in {"None", "Reg1", "Reg2", "RegImm", "Mem", "Jump", "SysImm"}
    BY <1>11, Formats
  <2> DEFINE A == requireKind(operands[1], "Register", line)
             B == requireKind(operands[2], "Register", line)
             found == checkInstruction(statement, line)
  <2>2. Coded(A) /\ Coded(B)
    BY <1>3
  <2>3. Coded(A \cup B)
    BY <2>2, CodesJoined
  <2>4. found = CASE format = "None"   -> {}
                  [] format = "Reg1"   -> A
                  [] format = "Reg2"   -> A \cup B
                  [] format = "RegImm" -> checkRegImm(operands, line)
                  [] format = "Mem"    -> checkMem(mnemonic, operands, line)
                  [] format = "Jump"   -> checkJump(operands[1], line)
                  [] format = "SysImm" -> checkSysImm(operands[1], line)
    BY <1>11 DEF checkInstruction
  <2> HIDE DEF A, B, found, format
  <2>5. found \in {{}, A, A \cup B, checkRegImm(operands, line),
                   checkMem(mnemonic, operands, line), checkJump(operands[1], line),
                   checkSysImm(operands[1], line)}
    BY <2>1, <2>4
  <2>6. Coded(found)
    BY <1>2, <1>5, <1>6, <1>7, <1>8, <2>2, <2>3, <2>5
  <2>7. QED
    BY <2>6 DEF found
<1>12. QED
  BY <1>9, <1>10, <1>11

LEMMA DirectiveCodes ==
  ASSUME NEW statement \in DirectiveStatement, NEW line
  PROVE  Coded(checkDirective(statement, line))
<1> DEFINE operands == statement.operands
           type == statement.type
           first == operands[1]
           invalid == {Error(line, "InvalidDirective")}
           found == checkDirective(statement, line)
           A == When(sectionKindFromName(first.symbol) = NoKind, line, "InvalidSectionReference")
           B == When(\E k \in DOMAIN operands :
                       operands[k].type # "Symbol" \/ operands[k].immediate # 0,
                     line, "InvalidDirective")
           D == UNION {checkData(operands[k], dataDirectiveWidth(type), line) :
                         k \in DOMAIN operands}
           E == When(first.type # "String", line, "InvalidDirective")
           F == When(\/ first.type # "Immediate" \/ first.immediate = 0
                     \/ IsNegative(first.immediate) \/ ~PowerOfTwo(first.immediate),
                     line, "InvalidDirective")
           G == When(\/ first.type # "Immediate" \/ IsNegative(first.immediate)
                     \/ /\ Len(operands) = 2
                        /\ \/ operands[2].type # "Immediate"
                           \/ ~fitsInWidth(operands[2].immediate, 1),
                     line, "InvalidDirective")
<1>1. /\ "InvalidDirective" \in AnalysisCode /\ "InvalidSectionReference" \in AnalysisCode
      /\ "InvalidRelocation" \in AnalysisCode /\ "IntegerOverflow" \in AnalysisCode
  BY DEF AnalysisCode
<1>2. Coded(A) /\ Coded(invalid)
  BY <1>1, WhenCoded
<1>3. Coded(B)
  BY <1>1, WhenCoded
<1>4. Coded(E) /\ Coded(F)
  BY <1>1, WhenCoded
<1>5. Coded(G)
  BY <1>1, WhenCoded
<1>6. \A operand, width : Coded(checkData(operand, width, line))
  <2> SUFFICES ASSUME NEW operand, NEW width PROVE Coded(checkData(operand, width, line))
    OBVIOUS
  <2> DEFINE P == When(width \notin {4, 8}, line, "InvalidRelocation")
             Q == When(~fitsInWidth(operand.immediate, width), line, "IntegerOverflow")
  <2>1. Coded(P) /\ Coded(Q)
    BY <1>1, WhenCoded
  <2>2. checkData(operand, width, line) \in {invalid, P, Q}
    BY DEF checkData
  <2> HIDE DEF P, Q, invalid
  <2>3. QED
    BY <1>2, <2>1, <2>2
<1>7. Coded(D)
  BY <1>6 DEF Coded
<1>8. type \in {"Section", "Asciz", "Align", "Space"} \cup DataDirective \cup Binding
  BY DEF DirectiveStatement
<1>9. found =
        IF Len(operands) \notin OperandsAllowed(type) THEN invalid
        ELSE CASE type = "Section" -> IF first.type # "Symbol" THEN invalid ELSE A
               [] type \in Binding -> B
               [] type \in DataDirective -> D
               [] type = "Asciz" -> E
               [] type = "Align" -> F
               [] type = "Space" -> G
  BY Zenon DEF checkDirective
<1> HIDE DEF A, B, D, E, F, G, invalid, found
<1>10. found \in {invalid, A, B, D, E, F, G}
  BY <1>8, <1>9 DEF DataDirective, Binding
<1>11. Coded(found)
  BY <1>2, <1>3, <1>4, <1>5, <1>7, <1>10
<1>12. QED
  BY <1>11 DEF found

\* The analysis has its own errors, which are none of the later stages'.
LEMMA AnalysisCodes ==
  ASSUME NEW source \in Seq(Statement)
  PROVE  Coded(analyze(source))
<1>1. ASSUME NEW line \in DOMAIN source PROVE Coded(checkStatement(source, line))
  <2>1. source[line] \in Statement
    OBVIOUS
  <2>2. CASE source[line] \in LabelStatement
    <3>1. source[line].node = "label"
      BY <2>2 DEF LabelStatement
    <3>2. checkStatement(source, line) = checkLabel(source, line)
      BY <3>1 DEF checkStatement
    <3>3. "DuplicateSymbol" \in AnalysisCode
      BY DEF AnalysisCode
    <3> DEFINE again == \E earlier \in 1 .. line - 1 :
                          /\ source[earlier].node = "label"
                          /\ source[earlier].name = source[line].name
               found == When(again, line, "DuplicateSymbol")
    <3>4. checkLabel(source, line) = found
      BY DEF checkLabel
    <3> HIDE DEF again
    <3>5. Coded(found)
      BY <3>3, WhenCoded
    <3>6. QED
      BY <3>2, <3>4, <3>5
  <2>3. CASE source[line] \in DirectiveStatement
    <3>1. source[line].node = "directive"
      BY <2>3 DEF DirectiveStatement
    <3>2. checkStatement(source, line) = checkDirective(source[line], line)
      BY <3>1 DEF checkStatement
    <3>3. QED
      BY <2>3, <3>2, DirectiveCodes
  <2>4. CASE source[line] \in InstructionStatement
    <3>1. source[line].node = "instruction"
      BY <2>4 DEF InstructionStatement
    <3>2. checkStatement(source, line) = checkInstruction(source[line], line)
      BY <3>1 DEF checkStatement
    <3>3. QED
      BY <2>4, <3>2, InstructionCodes
  <2>5. QED
    BY <2>1, <2>2, <2>3, <2>4 DEF Statement
<1>2. QED
  BY <1>1 DEF analyze, Coded

\* The sections of the object, by their number.
Kinds == collectSections(Sections)
Parts == ItemsOf(Sections)

\* The object at the end, which may have lost its lines.
Built(o) ==
  /\ Emitted(build.source, Len(Kinds), Kinds, Parts, o, Len(Kinds) + 1, 0)
  /\ o.errors = {}
  /\ object = IF build.emit_debug_info THEN o ELSE Stripped(o)

\* The inductive invariant of the whole pipeline.
PipelineInv ==
  /\ FrontInv
  /\ stage = "laidout" => LaidOut(Len(Kinds), Kinds, Parts, object, Len(Kinds))
  /\ stage = "bound" => BoundObject(Len(Kinds), Kinds, Parts, object)
  /\ stage = "done" => \E o : Built(o)
  /\ SemaSuffices

LEMMA PipelineInit == Init => PipelineInv
<1>1. Init => SemaSuffices
  BY DEF Init, SemaSuffices
<1>2. QED
  BY <1>1, FrontInit DEF Init, PipelineInv

LEMMA SectionsSame ==
  ASSUME UNCHANGED <<data, items>>
  PROVE  Sections' = Sections /\ Kinds' = Kinds /\ Parts' = Parts
  BY DEF Sections, Kinds, Parts

\* A step that finds no error keeps SemaSuffices.
LEMMA NothingFound ==
  ASSUME errors' = {} PROVE SemaSuffices'
  BY DEF SemaSuffices

LEMMA PipelineNext == PipelineInv /\ [Next]_vars => PipelineInv'
<1> SUFFICES ASSUME PipelineInv, [Next]_vars PROVE PipelineInv'
  OBVIOUS
<1>1. FrontInv /\ FrontInv'
  BY FrontNext DEF PipelineInv
<1>2. build \in Builds /\ build.source \in Seq(Statement)
  BY <1>1, BuildSource DEF FrontInv
<1>3. CASE Analyze
  <2>1. /\ stage = "parsed" /\ errors' = errors \cup analyze(build.source)
        /\ stage' \in {"analyzed", "failed"} /\ object' = object
    BY <1>3 DEF Analyze, Advance
  <2>2. errors = {} /\ object = NoObject
    BY <1>1, <2>1 DEF FrontInv
  <2>3. \A e \in errors' : e.code \in AnalysisCode
    BY <1>2, <2>1, <2>2, AnalysisCodes DEF Coded
  <2>4. SemaSuffices'
    BY <2>1, <2>2, <2>3 DEF SemaSuffices, AnalysisCode, InternalError
  <2>5. QED
    BY <1>1, <2>1, <2>4 DEF PipelineInv
<1>4. CASE Lower
  <2>1. /\ stage = "analyzed" /\ errors' = errors \cup lower(build.source).errors
        /\ stage' \in {"lowered", "failed"}
    BY <1>4 DEF Lower, Advance
  <2>2. errors = {} /\ analyze(build.source) = {}
    BY <1>1, <2>1 DEF FrontInv
  <2>3. LowererFits(build.source, lower(build.source), Len(build.source))
    BY <1>2, <2>2, LowersProgram
  <2>4. lower(build.source).errors \subseteq [line : Nat, code : {"InvalidSectionReference"}]
    BY <2>3 DEF LowererFits, LowererRecord
  <2>5. \A e \in errors' : e.code = "InvalidSectionReference"
    BY <2>1, <2>2, <2>4
  <2>6. SemaSuffices'
    BY <2>5 DEF SemaSuffices, InternalError
  <2>7. QED
    BY <1>1, <2>1, <2>6 DEF PipelineInv
<1>5. CASE StartOptimizer
  <2>1. stage = "lowered" /\ stage' = "optimizing" /\ errors' = errors
    BY <1>5 DEF StartOptimizer, Advance
  <2>2. errors' = {}
    BY <1>1, <2>1 DEF FrontInv
  <2>3. QED
    BY <1>1, <2>1, <2>2, NothingFound DEF PipelineInv
<1>6. CASE Optimize
  <2>1. stage = "optimizing" /\ stage' = stage /\ errors' = errors
    BY <1>6 DEF Optimize, pipeline
  <2>2. errors' = {}
    BY <1>1, <2>1 DEF FrontInv
  <2>3. QED
    BY <1>1, <2>1, <2>2, NothingFound DEF PipelineInv
<1>7. CASE Layout
  <2>1. /\ stage = "optimizing" /\ stage' = "laidout" /\ errors' = errors
        /\ object' = layoutAndDefineSymbols(File, Sections)
        /\ UNCHANGED <<optimizer, build, data, names, original>>
    BY <1>7 DEF Layout, Advance
  <2>2. errors' = {} /\ SectionsFit(build.source, Sections)
    BY <1>1, <2>1 DEF FrontInv, Code
  <2>3. Sections' = Sections /\ Kinds' = Kinds /\ Parts' = Parts
    BY <2>1, SectionsSame DEF optimizer
  <2>4. LaidOut(Len(Kinds), Kinds, Parts, object', Len(Kinds))
    BY <2>1, <2>2, LaysOut DEF Kinds, Parts
  <2>5. LaidOut(Len(Kinds'), Kinds', Parts', object', Len(Kinds'))
    BY <2>3, <2>4
  <2>6. QED
    BY <1>1, <2>1, <2>2, <2>5, NothingFound DEF PipelineInv
<1>8. CASE Bind
  <2>1. /\ stage = "laidout" /\ stage' = "bound" /\ errors' = errors
        /\ object' = applyBindings(object, names.globals, names.weaks, names.externs)
        /\ UNCHANGED <<optimizer, build, data, names, original>>
    BY <1>8 DEF Bind, Advance
  <2>2. errors' = {} /\ SectionsFit(build.source, Sections) /\ names \in Names3
    BY <1>1, <2>1 DEF FrontInv, Code
  <2>3. Sections' = Sections /\ Kinds' = Kinds /\ Parts' = Parts
    BY <2>1, SectionsSame DEF optimizer
  <2>4. /\ Contents(build.source, Len(Kinds), Kinds, Parts)
        /\ LaidOut(Len(Kinds), Kinds, Parts, object, Len(Kinds))
    BY <2>1, <2>2, ContentsOfSections DEF Kinds, Parts, PipelineInv
  <2>5. /\ names.globals \in Seq(STRING) /\ names.weaks \in Seq(STRING)
        /\ names.externs \in Seq(STRING)
    BY <2>2 DEF Names3
  <2>6. BoundObject(Len(Kinds), Kinds, Parts, object')
    BY <2>1, <2>4, <2>5, BindsAll
  <2>7. BoundObject(Len(Kinds'), Kinds', Parts', object')
    BY <2>3, <2>6
  <2>8. QED
    BY <1>1, <2>1, <2>2, <2>7, NothingFound DEF PipelineInv
<1>9. CASE EmitObject
  <2> DEFINE o == emit(object, Sections)
  <2>1. /\ stage = "bound" /\ errors' = errors \cup o.errors
        /\ o.errors = {} => stage' = "done" /\ errors' = errors
        /\ o.errors # {} => stage' = "failed"
        /\ object' = IF build.emit_debug_info THEN o ELSE Stripped(o)
        /\ UNCHANGED <<optimizer, build, data, names, original>>
    BY <1>9 DEF EmitObject, Advance
  <2>2. errors = {} /\ SectionsFit(build.source, Sections)
    BY <1>1, <2>1 DEF FrontInv, Code
  <2>3. Sections' = Sections /\ Kinds' = Kinds /\ Parts' = Parts
    BY <2>1, SectionsSame DEF optimizer
  <2>4. Emitted(build.source, Len(Kinds), Kinds, Parts, o, Len(Kinds) + 1, 0)
    <3>1. BoundObject(Len(Kinds), Kinds, Parts, object)
      BY <2>1 DEF PipelineInv
    <3>2. QED
      BY <2>2, <3>1, EmitsAll DEF Kinds, Parts
  <2> HIDE DEF o
  <2>5. SemaSuffices'
    <3>1. \A e \in errors' : ErrorFits(build.source, e)
      BY <2>1, <2>2, <2>4 DEF Emitted
    <3>2. build' = build
      BY <2>1
    <3>3. QED
      BY <3>1, <3>2 DEF ErrorFits, SemaSuffices, InternalError
  <2>6. stage' = "done" => \E q : Built(q)'
    <3>1. SUFFICES ASSUME stage' = "done" PROVE \E q : Built(q)'
      OBVIOUS
    <3>2. o.errors = {}
      BY <2>1, <3>1
    <3>3. build' = build
      BY <2>1
    <3>4. PICK q : q = o
      OBVIOUS
    <3>5. Built(q)'
      BY <2>1, <2>3, <2>4, <3>2, <3>3, <3>4 DEF Built
    <3>6. QED
      BY <3>5
  <2>7. stage' \in {"done", "failed"}
    BY <2>1
  <2>8. QED
    BY <1>1, <2>5, <2>6, <2>7 DEF PipelineInv
<1>10. CASE UNCHANGED vars
  <2>1. UNCHANGED <<build, stage, data, names, errors, object, items>>
    BY <1>10 DEF vars, pipeline, optimizer
  <2>2. Kinds' = Kinds /\ Parts' = Parts
    BY <2>1, SectionsSame
  <2>3. SemaSuffices'
    BY <2>1 DEF PipelineInv, SemaSuffices
  <2>4. ASSUME NEW o, Built(o) PROVE Built(o)'
    BY <2>1, <2>2, <2>4 DEF Built
  <2>5. stage' = "done" => (\E o : Built(o))'
    BY <2>1, <2>4 DEF PipelineInv
  <2>6. QED
    BY <1>1, <2>1, <2>2, <2>3, <2>5 DEF PipelineInv
<1>11. QED
  BY <1>3, <1>4, <1>5, <1>6, <1>7, <1>8, <1>9, <1>10 DEF Next

\* The pipeline keeps its invariant.
LEMMA PipelineAlways == Spec => []PipelineInv
<1>1. QED
  BY PipelineInit, PipelineNext, PTL DEF Spec

\* What the analysis accepts, the later stages can handle, for every program: the
\* only errors they find are a section that cannot hold an item, a symbol nobody
\* defines or two requests that contradict each other, and the displacement of a
\* memory operand.
THEOREM SemaAlwaysSuffices == Spec => []SemaSuffices
<1>1. PipelineInv => SemaSuffices
  BY DEF PipelineInv
<1>2. QED
  BY <1>1, PipelineAlways, PTL

-----------------------------------------------------------------------------
(***************************************************************************)
(* The object.                                                             *)
(***************************************************************************)

\* The finished object: its parts are those that pass 2 made.
Finished(o, n) ==
  /\ n = Len(Kinds) /\ n \in Nat /\ o \in ObjectRecord(n) /\ o.errors = {}
  /\ Contents(build.source, n, Kinds, Parts)
  /\ Emitted(build.source, n, Kinds, Parts, o, n + 1, 0)
  /\ object.sections = o.sections /\ object.symbols = o.symbols
  /\ object.relocations = o.relocations
  /\ \/ object.debug_info = <<>>
     \/ object.debug_info = o.debug_info /\ object.source_files = <<File>>

LEMMA ObjectFinished ==
  ASSUME PipelineInv, stage = "done"
  PROVE  /\ \E o, n : Finished(o, n)
         /\ \A t \in 1 .. Len(Kinds) : Parts[t] = Sections[Kinds[t]]
         /\ Sections["Text"] = items /\ SectionsFit(build.source, Sections) /\ Code
<1>1. PICK o : Built(o)
  BY DEF PipelineInv
<1> DEFINE n == Len(Kinds)
<1>2. Code /\ SectionsFit(build.source, Sections)
  BY DEF PipelineInv, FrontInv, Code
<1>3. Contents(build.source, n, Kinds, Parts)
  BY <1>2, ContentsOfSections DEF Kinds, Parts
<1>4. n \in Nat
  BY <1>3 DEF Contents
<1>5. /\ Emitted(build.source, n, Kinds, Parts, o, n + 1, 0) /\ o.errors = {}
      /\ object = IF build.emit_debug_info THEN o ELSE Stripped(o)
  BY <1>1 DEF Built
<1> HIDE DEF n
<1>6. o \in ObjectRecord(n)
  BY <1>5 DEF Emitted
<1>7. /\ object.sections = o.sections /\ object.symbols = o.symbols
      /\ object.relocations = o.relocations
      /\ \/ object.debug_info = <<>>
         \/ object.debug_info = o.debug_info /\ object.source_files = <<File>>
  <2>1. CASE object = o
    BY <1>6, <2>1, ObjectFields
  <2>2. CASE object = Stripped(o)
    <3>1. /\ Stripped(o).sections = o.sections /\ Stripped(o).symbols = o.symbols
          /\ Stripped(o).relocations = o.relocations /\ Stripped(o).debug_info = <<>>
      BY <1>6 DEF Stripped, ObjectRecord
    <3>2. QED
      BY <2>2, <3>1
  <2>3. QED
    BY <1>5, <2>1, <2>2
<1>8. Finished(o, n)
  BY <1>3, <1>4, <1>5, <1>6, <1>7 DEF Finished, n
<1>9. \A t \in 1 .. Len(Kinds) : Parts[t] = Sections[Kinds[t]]
  BY DEF Parts, Kinds, ItemsOf
<1>10. Sections["Text"] = items
  <2>1. "Text" \in SectionKind /\ data \in [SectionKind -> Seq(Item)]
    BY <1>2 DEF Code, SectionKind
  <2>2. QED
    BY <2>1 DEF Sections
<1>11. QED
  BY <1>2, <1>8, <1>9, <1>10

\* The section of a number, and what was written of it.
LEMMA SectionFinished ==
  ASSUME NEW o, NEW n, Finished(o, n), NEW t \in 1 .. n,
         \A u \in 1 .. Len(Kinds) : Parts[u] = Sections[Kinds[u]]
  PROVE  /\ object.sections[t].type = Kinds[t]
         /\ Sections[object.sections[t].type] = Parts[t]
         /\ t \in DOMAIN object.sections /\ Parts[t] \in Seq(Item)
         /\ SectionWritten(Kinds, Parts, object.sections[t], t, n + 1, 0)
<1>1. SectionWritten(Kinds, Parts, object.sections[t], t, n + 1, 0)
  BY DEF Finished, Emitted
<1>2. object.sections[t].type = Kinds[t]
  BY <1>1 DEF SectionWritten
<1>3. t \in 1 .. Len(Kinds)
  BY DEF Finished
<1>4. Sections[object.sections[t].type] = Parts[t]
  BY <1>2, <1>3
<1>5. t \in DOMAIN object.sections
  <2>1. object.sections \in [1 .. n -> SectionRecord]
    BY ObjectFields DEF Finished
  <2>2. QED
    BY <2>1
<1>6. Parts[t] \in Seq(Item)
  BY DEF Finished, Contents
<1>7. QED
  BY <1>1, <1>2, <1>4, <1>5, <1>6

LEMMA BytesBeforeItem ==
  ASSUME NEW contents \in Seq(Item), NEW j \in DOMAIN contents
  PROVE  BytesBefore(contents, j) = Pos(contents, j - 1)
<1>1. (j - 1) + 1 = j
  OBVIOUS
<1>2. QED
  BY <1>1 DEF Pos

\* Every label denotes the byte it is at, for every program: pass 1, which counts,
\* and pass 2, which writes, agree on every item of every section.
THEOREM LabelsAlwaysDenoteTheirBytes == Spec => []LabelsDenoteTheirBytes
<1>1. PipelineInv => LabelsDenoteTheirBytes
  <2> SUFFICES ASSUME PipelineInv, stage = "done"
               PROVE  /\ \A line \in DOMAIN build.source :
                           build.source[line].node = "label" =>
                             \E i \in DOMAIN object.symbols :
                               /\ object.symbols[i].name = build.source[line].name
                               /\ object.symbols[i].defined
                      /\ \A i \in DOMAIN object.symbols :
                           LET symbol   == object.symbols[i]
                               contents == Sections[object.sections[symbol.section].type]
                           IN  symbol.defined =>
                                 \E k \in DOMAIN contents :
                                   /\ IsLabel(contents[k]) /\ contents[k].name = symbol.name
                                   /\ symbol.value = BytesBefore(contents, k)
    BY DEF LabelsDenoteTheirBytes
  <2>1. PICK o, n : Finished(o, n)
    BY ObjectFinished
  <2>2. /\ \A t \in 1 .. Len(Kinds) : Parts[t] = Sections[Kinds[t]]
        /\ SectionsFit(build.source, Sections)
    BY ObjectFinished
  <2>3. n = Len(Kinds) /\ n \in Nat /\ SymbolsFit(n, Parts, object.symbols)
    BY <2>1 DEF Finished, Emitted
  <2>4. ASSUME NEW line \in DOMAIN build.source, build.source[line].node = "label"
        PROVE  \E i \in DOMAIN object.symbols :
                 object.symbols[i].name = build.source[line].name /\ object.symbols[i].defined
    <3>1. line \in 1 .. Len(build.source)
      <4>1. build.source \in Seq(Statement)
        BY BuildSource DEF PipelineInv, FrontInv
      <4>2. QED
        BY <4>1
    <3>2. HasLabel(Sections, build.source[line].name)
      BY <2>2, <2>4, <3>1 DEF SectionsFit, LabelsUpTo
    <3>3. PICK kind \in SectionKind : \E j \in DOMAIN Sections[kind] :
            /\ Sections[kind][j].kind = "label"
            /\ Sections[kind][j].name = build.source[line].name
      BY <3>2 DEF HasLabel
    <3>4. PICK j \in DOMAIN Sections[kind] :
            /\ Sections[kind][j].kind = "label"
            /\ Sections[kind][j].name = build.source[line].name
      BY <3>3
    <3>5. Sections \in [SectionKind -> Seq(Item)]
      BY <2>2 DEF SectionsFit
    <3>6. Sections[kind] # <<>>
      BY <3>4
    <3>7. PICK t \in 1 .. n : Kinds[t] = kind
      BY <2>3, <3>5, <3>6, Collects DEF Kinds
    <3>8. Parts[t] = Sections[kind]
      BY <2>2, <2>3, <3>7
    <3>9. QED
      BY <2>3, <3>4, <3>7, <3>8 DEF SymbolsFit
  <2>5. ASSUME NEW i \in DOMAIN object.symbols, object.symbols[i].defined
        PROVE  LET symbol   == object.symbols[i]
                   contents == Sections[object.sections[symbol.section].type]
               IN  \E k \in DOMAIN contents :
                     /\ IsLabel(contents[k]) /\ contents[k].name = symbol.name
                     /\ symbol.value = BytesBefore(contents, k)
    <3> DEFINE symbol == object.symbols[i]
               contents == Sections[object.sections[symbol.section].type]
    <3>1. symbol.section \in 1 .. n
      BY <2>3, <2>5 DEF SymbolsFit
    <3>2. contents = Parts[symbol.section] /\ contents \in Seq(Item)
      BY <2>1, <2>2, <3>1, SectionFinished
    <3> HIDE DEF contents
    <3>3. PICK j \in DOMAIN contents : IsPlace(contents, symbol, j)
      BY <2>3, <2>5, <3>2 DEF SymbolsFit
    <3>4. BytesBefore(contents, j) = Pos(contents, j - 1)
      BY <3>2, BytesBeforeItem
    <3>5. /\ IsLabel(contents[j]) /\ contents[j].name = symbol.name
          /\ symbol.value = BytesBefore(contents, j)
      BY <3>3, <3>4 DEF IsPlace, IsLabel
    <3>6. QED
      BY <3>5 DEF contents
  <2>6. QED
    BY <2>4, <2>5
<1>2. QED
  BY <1>1, PipelineAlways, PTL

\* Every relocation is for the item that names its symbol, for every program, and
\* the object is one that the linker's reader accepts.
THEOREM RelocationsAlwaysFollowReferences == Spec => []RelocationsFollowReferences
<1>1. PipelineInv => RelocationsFollowReferences
  <2>1. SUFFICES ASSUME PipelineInv, stage = "done" PROVE RelocationsFollowReferences
    BY DEF RelocationsFollowReferences
  <2>2. PICK o, n : Finished(o, n)
    BY <2>1, ObjectFinished
  <2>3. \A t \in 1 .. Len(Kinds) : Parts[t] = Sections[Kinds[t]]
    BY <2>1, ObjectFinished
  <2>4. /\ n \in Nat /\ o \in ObjectRecord(n) /\ SymbolsFit(n, Parts, object.symbols)
        /\ object.sections = o.sections /\ object.symbols = o.symbols
        /\ object.relocations = o.relocations /\ Clean(o) /\ o.errors = {}
        /\ \A i \in DOMAIN object.relocations :
             RelocationFits(n, Kinds, Parts, o, object.relocations[i])
        /\ \A i \in DOMAIN o.debug_info : EntryFits(n, Kinds, Parts, o, o.debug_info[i])
    BY <2>2 DEF Finished, Emitted
  <2>5. DOMAIN object.sections = 1 .. n /\ o.debug_info \in Seq(DebugRecord)
    <3>1. object.sections \in [1 .. n -> SectionRecord] /\ o.debug_info \in Seq(DebugRecord)
      BY <2>4, ObjectFields
    <3>2. QED
      BY <3>1
  <2>6. ASSUME NEW t \in 1 .. n PROVE ReadsSection(object.sections[t])
    <3>1. SectionWritten(Kinds, Parts, object.sections[t], t, n + 1, 0) /\ Parts[t] \in Seq(Item)
      BY <2>2, <2>3, SectionFinished
    <3> DEFINE end == Pos(Parts[t], Len(Parts[t]))
    <3>2. t < n + 1
      BY <2>4
    <3>3. /\ object.sections[t].alignment # 0 /\ PowerOfTwo(object.sections[t].alignment)
          /\ object.sections[t].size = end
          /\ Len(object.sections[t].data) = IF Kinds[t] = "Bss" THEN 0 ELSE end
      BY <3>1, <3>2 DEF SectionWritten
    <3>4. end \in Nat
      <4>1. Len(Parts[t]) \in 0 .. Len(Parts[t])
        BY <3>1
      <4>2. QED
        BY <3>1, <4>1, BytesCount
    <3> HIDE DEF end
    <3>5. Len(object.sections[t].data) <= object.sections[t].size
      BY <3>3, <3>4
    <3>6. QED
      BY <3>3, <3>5 DEF ReadsSection
  <2>7. ReadsSymbols(object)
    <3>1. \A i \in DOMAIN object.symbols :
            object.symbols[i].section \in {Undefined} \cup DOMAIN object.sections
      BY <2>4, <2>5 DEF SymbolsFit
    <3>2. QED
      BY <2>4, <3>1 DEF ReadsSymbols, SymbolsFit, UniqueNames
  <2>8. \A i \in DOMAIN object.relocations : ReadsRelocation(object, object.relocations[i])
    BY <2>4, <2>5 DEF ReadsRelocation, RelocationFits
  <2>9. \A i \in DOMAIN object.debug_info : ReadsDebugEntry(object, object.debug_info[i])
    <3>1. CASE object.debug_info = <<>>
      BY <3>1
    <3>2. CASE object.debug_info = o.debug_info /\ object.source_files = <<File>>
      <4> SUFFICES ASSUME NEW i \in DOMAIN o.debug_info
                   PROVE  ReadsDebugEntry(object, o.debug_info[i])
        BY <3>2
      <4>1. o.debug_info[i] \in DebugRecord
        BY <2>5
      <4>2. o.debug_info[i].file = 1 /\ o.debug_info[i].section \in 1 .. n
        BY <2>4, <4>1 DEF DebugRecord, EntryFits
      <4>3. 1 \in DOMAIN object.source_files
        BY <3>2
      <4>4. QED
        BY <2>5, <4>2, <4>3 DEF ReadsDebugEntry
    <3>3. QED
      BY <2>2, <3>1, <3>2 DEF Finished
  <2>10. Readable(object)
    BY <2>5, <2>6, <2>7, <2>8, <2>9 DEF Readable
  <2>11. ASSUME NEW m \in DOMAIN object.relocations
         PROVE  LET r        == object.relocations[m]
                    contents == Sections[object.sections[r.section].type]
                IN  \E k \in DOMAIN contents :
                      /\ contents[k].kind \in {"instruction", "value"}
                      /\ isSymbolic(contents[k])
                      /\ contents[k].symbol = [name |-> object.symbols[r.symbol].name,
                                               addend |-> r.addend]
                      /\ r.offset = BytesBefore(contents, k)
    <3> DEFINE r == object.relocations[m]
               contents == Sections[object.sections[r.section].type]
    <3>1. r.section \in 1 .. n /\ RelocationFits(n, Kinds, Parts, o, r)
      BY <2>4 DEF RelocationFits
    <3>2. contents = Parts[r.section] /\ contents \in Seq(Item)
      BY <2>2, <2>3, <3>1, SectionFinished
    <3> HIDE DEF contents
    <3>3. PICK j \in DOMAIN contents : IsReferring(contents, o, r, j)
      BY <3>1, <3>2 DEF RelocationFits
    <3>4. BytesBefore(contents, j) = Pos(contents, j - 1)
      BY <3>2, BytesBeforeItem
    <3>5. /\ contents[j].kind \in {"instruction", "value"} /\ isSymbolic(contents[j])
          /\ contents[j].symbol = [name |-> object.symbols[r.symbol].name,
                                   addend |-> r.addend]
          /\ r.offset = BytesBefore(contents, j)
      BY <2>4, <3>3, <3>4 DEF IsReferring
    <3>6. QED
      BY <3>5 DEF contents
  <2>12. \A i \in DOMAIN object.symbols :
           object.symbols[i].binding = "Local" => object.symbols[i].defined
    BY <2>4 DEF Clean, Dangles
  <2>13. QED
    BY <2>1, <2>10, <2>11, <2>12 DEF RelocationsFollowReferences
<1>2. QED
  BY <1>1, PipelineAlways, PTL

\* The words that bytes hold.
LEMMA LoadsInstruction ==
  ASSUME NEW bytes \in Seq(Byte), NEW offset \in Nat, offset + WordSize <= Len(bytes),
         NEW item \in InstructionItem, EncodeError(Encoded(item)) = "None",
         HoldsInstruction(bytes, offset, item)
  PROVE  decode(LoadWord(SubSeq(bytes, offset + 1, offset + WordSize))) = Encoded(item)
<1> DEFINE field == SubSeq(bytes, offset + 1, offset + WordSize)
           word == encode(Encoded(item))
<1>1. word \in Word /\ decode(word) = Encoded(item)
  BY EncodedMachine, DecodesEncoded
<1> HIDE DEF word
<1>2. StoreWord(word) \in [1 .. WordSize -> Byte] /\ LoadWord(StoreWord(word)) = word
  BY <1>1, MemoryAssumption
<1>3. WordSize = 8
  BY Sizes
<1>4. /\ field \in Seq(Byte) /\ Len(field) = WordSize
      /\ \A x \in 1 .. WordSize : field[x] = bytes[offset + x]
  <2>1. /\ offset + 1 \in 1 .. Len(bytes) + 1 /\ offset + WordSize \in 0 .. Len(bytes)
        /\ (offset + WordSize) - (offset + 1) + 1 = WordSize
    BY <1>3
  <2>2. \A x \in 1 .. WordSize : (offset + 1) + x - 1 = offset + x
    BY <1>3
  <2> DEFINE lo == offset + 1
             hi == offset + WordSize
  <2>3. lo \in 1 .. Len(bytes) + 1 /\ hi \in 0 .. Len(bytes) /\ hi - lo + 1 = WordSize
    BY <2>1
  <2>4. \A x \in 1 .. WordSize : lo + x - 1 = offset + x
    BY <2>2
  <2> HIDE DEF lo, hi
  <2>5. /\ SubSeq(bytes, lo, hi) \in Seq(Byte) /\ Len(SubSeq(bytes, lo, hi)) = WordSize
        /\ \A x \in 1 .. WordSize : SubSeq(bytes, lo, hi)[x] = bytes[lo + x - 1]
    BY <1>3, <2>3
  <2>6. QED
    BY <2>4, <2>5 DEF lo, hi
<1> HIDE DEF field
<1>5. field = StoreWord(word)
  <2>1. \A x \in 1 .. WordSize : field[x] = StoreWord(word)[x]
    BY <1>4 DEF HoldsInstruction, word
  <2>2. DOMAIN field = 1 .. WordSize /\ field = [x \in 1 .. WordSize |-> field[x]]
    BY <1>4
  <2>3. StoreWord(word) = [x \in 1 .. WordSize |-> StoreWord(word)[x]]
    BY <1>2
  <2>4. QED
    BY <2>1, <2>2, <2>3
<1>6. QED
  BY <1>1, <1>2, <1>5 DEF field

\* The word at every debug entry is the instruction of its line, for every program.
THEOREM DebugEntriesAlwaysDecode == Spec => []DebugEntriesDecode
<1>1. PipelineInv => DebugEntriesDecode
  <2>1. SUFFICES ASSUME PipelineInv, stage = "done", NEW m \in DOMAIN object.debug_info
                 PROVE  LET entry == object.debug_info[m]
                            bytes == object.sections[entry.section].data
                            word  == LoadWord(SubSeq(bytes, entry.offset + 1,
                                                     entry.offset + WordSize))
                        IN  /\ \E k \in DOMAIN items :
                                 /\ IsInstruction(items[k]) /\ items[k].line = entry.line
                                 /\ decode(word) = IF isSymbolic(items[k])
                                                     THEN [items[k].machine EXCEPT !.imm = 0]
                                                     ELSE items[k].machine
                            /\ build.opt_level = "O0" =>
                                 decode(word).opcode = build.source[entry.line].mnemonic
    BY DEF DebugEntriesDecode
  <2> DEFINE entry == object.debug_info[m]
             bytes == object.sections[entry.section].data
             word == LoadWord(SubSeq(bytes, entry.offset + 1, entry.offset + WordSize))
  <2>2. PICK o, n : Finished(o, n)
    BY <2>1, ObjectFinished
  <2>3. /\ \A t \in 1 .. Len(Kinds) : Parts[t] = Sections[Kinds[t]]
        /\ Sections["Text"] = items /\ Code
    BY <2>1, ObjectFinished
  <2>4. /\ n \in Nat /\ n = Len(Kinds) /\ o \in ObjectRecord(n) /\ object.sections = o.sections
        /\ object.debug_info = <<>> \/ object.debug_info = o.debug_info
        /\ \A i \in DOMAIN o.debug_info : EntryFits(n, Kinds, Parts, o, o.debug_info[i])
    BY <2>2 DEF Finished, Emitted
  <2>5. object.debug_info = o.debug_info
    BY <2>1, <2>4
  <2>6. EntryFits(n, Kinds, Parts, o, entry) /\ entry \in DebugRecord
    <3>1. o.debug_info \in Seq(DebugRecord)
      BY <2>4, ObjectFields
    <3>2. QED
      BY <2>1, <2>4, <2>5, <3>1
  <2> HIDE DEF entry
  <2>7. /\ entry.section \in 1 .. n /\ Kinds[entry.section] = "Text"
        /\ entry.offset + WordSize <= Len(bytes) /\ entry.offset \in Nat
    BY <2>4, <2>6 DEF EntryFits, DebugRecord
  <2>8. bytes \in Seq(Byte)
    BY <2>4, <2>7, WrittenSize
  <2>9. Parts[entry.section] = items
    BY <2>3, <2>4, <2>7
  <2>10. PICK j \in DOMAIN items :
           /\ items[j].kind = "instruction" /\ items[j].line = entry.line
           /\ EncodeError(Encoded(items[j])) = "None"
           /\ HoldsInstruction(bytes, entry.offset, items[j])
    BY <2>4, <2>6, <2>9 DEF EntryFits
  <2>11. items[j] \in Item /\ items[j] \in InstructionItem
    <3>1. items[j] \in Item
      BY <2>3 DEF Code
    <3>2. QED
      BY <2>10, <3>1, ItemKinds
  <2> HIDE DEF bytes
  <2>12. decode(word) = Encoded(items[j])
    BY <2>7, <2>8, <2>10, <2>11, LoadsInstruction
  <2>13. ASSUME build.opt_level = "O0"
         PROVE  decode(word).opcode = build.source[entry.line].mnemonic
    <3>1. Verbatim(build.source, Sections) /\ "Text" \in SectionKind
      BY <2>3, <2>13 DEF Code, SectionKind
    <3>2. items[j].machine.opcode = build.source[items[j].line].mnemonic
      BY <2>3, <2>10, <3>1 DEF Verbatim
    <3>3. Encoded(items[j]).opcode = items[j].machine.opcode
      BY <2>11, EncodedMachine
    <3> HIDE DEF word
    <3>4. QED
      BY <2>10, <2>12, <3>2, <3>3
  <2> HIDE DEF word
  <2>14. /\ IsInstruction(items[j]) /\ items[j].line = entry.line
         /\ decode(word) = IF isSymbolic(items[j]) THEN [items[j].machine EXCEPT !.imm = 0]
                           ELSE items[j].machine
    BY <2>10, <2>12 DEF IsInstruction, Encoded
  <2>15. QED
    BY <2>10, <2>13, <2>14 DEF entry, bytes, word
<1>2. QED
  BY <1>1, PipelineAlways, PTL

=============================================================================
