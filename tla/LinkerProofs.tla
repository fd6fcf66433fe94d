----------------------------- MODULE LinkerProofs -----------------------------
(***************************************************************************)
(* The linker keeps its promises for every command line of readable        *)
(* objects, every region layout that leaves room for kRegionSize bytes and *)
(* every word size.                                                        *)
(***************************************************************************)
EXTENDS Linker, VirtualMemoryProofs, FiniteSetTheorems, SequenceTheorems, TLAPS

-----------------------------------------------------------------------------
(***************************************************************************)
(* Arithmetic.                                                             *)
(***************************************************************************)

\* The four regions fit below the end of the address space, so that twice the
\* size of one is a word.
LEMMA RegionConstants ==
  /\ kRegionSize \in Nat /\ 2 * kRegionSize < WordModulus
  /\ \A type \in RegionType :
       Base(type) \in Nat /\ Base(type) + kRegionSize < WordModulus
<1>1. /\ WordModulus \in Nat /\ TextBase \in 0 .. WordModulus - 1
      /\ RodataBase \in 0 .. WordModulus - 1 /\ DataBase \in 0 .. WordModulus - 1
      /\ BssBase \in 0 .. WordModulus - 1 /\ kRegionSize \in 0 .. WordModulus - 1
  BY LinkerAssumption, WordTypes DEF Word
<1>2. /\ TextBase + kRegionSize <= RodataBase
      /\ RodataBase + kRegionSize <= DataBase
      /\ DataBase + kRegionSize <= BssBase
      /\ BssBase + kRegionSize < WordModulus
  BY LinkerAssumption
<1>3. /\ TextBase + kRegionSize < WordModulus
      /\ RodataBase + kRegionSize < WordModulus
      /\ DataBase + kRegionSize < WordModulus
      /\ 2 * kRegionSize < WordModulus
  BY <1>1, <1>2
<1>4. ASSUME NEW type \in RegionType
      PROVE  Base(type) \in Nat /\ Base(type) + kRegionSize < WordModulus
  BY <1>1, <1>2, <1>3 DEF Base, RegionType
<1>5. QED
  BY <1>1, <1>3, <1>4

\* A remainder by any divisor, and the multiple it belongs to.
LEMMA Remainders ==
  ASSUME NEW a \in Nat, NEW m \in Nat, m > 0
  PROVE  /\ a % m \in 0 .. m - 1
         /\ a \div m \in Nat
         /\ a = m * (a \div m) + (a % m)
<1>1. a % m \in 0 .. m - 1 /\ a \div m \in Int /\ a = m * (a \div m) + (a % m)
  OBVIOUS
<1>2. ASSUME NEW q \in Int, NEW r \in 0 .. m - 1, a = m * q + r PROVE q \in Nat
  <2>1. SUFFICES ASSUME q <= -1 PROVE FALSE
    OBVIOUS
  <2>2. m * q <= m * (-1)
    BY <2>1
  <2>3. m * (-1) = -m
    OBVIOUS
  <2>4. QED
    BY <1>2, <2>2, <2>3
<1>3. a \div m \in Nat
  BY <1>1, <1>2
<1>4. QED
  BY <1>1, <1>3

\* The next multiple is one.
LEMMA NextMultiple ==
  ASSUME NEW q \in Nat, NEW m \in Nat, m > 0
  PROVE  (m * q + m) % m = 0
<1>1. m * q + m = m * (q + 1) + 0
  OBVIOUS
<1>2. ASSUME NEW n \in Nat PROVE (m * n + 0) % m = 0
  OBVIOUS
<1>3. QED
  BY <1>1, <1>2

\* alignUp() gives a multiple of the alignment that is not below the value.  Its
\* sum does not wrap: it stays below the alignment or twice the value.
LEMMA AlignedUp ==
  ASSUME NEW value \in Nat, value <= kRegionSize,
         NEW alignment \in Word, alignment # 0
  PROVE  LET offset == alignUp(value, alignment) IN
         /\ offset \in Nat
         /\ offset >= value
         /\ offset % alignment = 0
<1> DEFINE r == value % alignment
           q == value \div alignment
<1>1. alignment \in Nat /\ alignment > 0 /\ alignment < WordModulus /\ WordModulus \in Nat
  BY WordTypes DEF Word
<1>2. r \in 0 .. alignment - 1 /\ q \in Nat /\ value = alignment * q + r
  BY <1>1, Remainders
<1>3. CASE alignment = 1
  <2>1. value % 1 = 0
    BY <1>2, <1>3
  <2>2. QED
    BY <1>3, <2>1 DEF alignUp
<1>4. CASE r = 0 /\ alignment # 1
  BY <1>1, <1>4 DEF alignUp
<1>5. CASE r # 0 /\ alignment # 1
  <2>1. value + (alignment - r) = alignment * q + alignment
    <3> DEFINE n == alignment * q
    <3>1. n \in Nat
      BY <1>1, <1>2
    <3> HIDE DEF n, r
    <3>2. value = n + r
      BY <1>2 DEF n
    <3>3. value + (alignment - r) = n + alignment
      BY <1>1, <1>2, <3>1, <3>2
    <3>4. QED
      BY <3>3 DEF n
  <2>2. value + (alignment - r) < WordModulus
    <3>1. CASE q = 0
      BY <1>1, <2>1, <3>1
    <3>2. CASE q # 0
      <4>1. alignment <= alignment * q
        BY <1>1, <1>2, <3>2
      <4>2. alignment <= value
        BY <1>1, <1>2, <4>1
      <4>3. QED
        BY <1>1, <1>2, <4>2, RegionConstants
    <3>3. QED
      BY <3>1, <3>2
  <2>3. alignUp(value, alignment) = value + (alignment - r)
    BY <1>1, <1>2, <1>5, <2>2 DEF alignUp, Add
  <2>4. (value + (alignment - r)) % alignment = 0
    BY <1>1, <1>2, <2>1, NextMultiple
  <2>5. QED
    BY <1>1, <1>2, <2>3, <2>4
<1>6. QED
  BY <1>3, <1>4, <1>5

-----------------------------------------------------------------------------
(***************************************************************************)
(* What the objects of a command line are.                                 *)
(***************************************************************************)

LEMMA CommandLineFacts ==
  ASSUME objects \in CommandLines
  PROVE  /\ Len(objects) \in Nat /\ DOMAIN objects = 1 .. Len(objects)
         /\ \A o \in DOMAIN objects : objects[o] \in Object /\ Readable(objects[o])
  BY LinkerAssumption

\* The tables of an object are sequences.
LEMMA TableFacts ==
  ASSUME NEW object \in Object
  PROVE  /\ object.sections \in Seq(ObjectSection) /\ object.symbols \in Seq(Symbol)
         /\ object.relocations \in Seq(Relocation)
         /\ object.debug_info \in Seq(DebugEntry)
         /\ object.source_files \in Seq(FileName)
  BY DEF Object

\* The sections of a readable object.
LEMMA SectionFacts ==
  ASSUME NEW object \in Object, Readable(object), NEW s \in DOMAIN object.sections
  PROVE  LET section == object.sections[s] IN
         /\ s \in Nat /\ s > 0
         /\ section.type \in SectionType
         /\ section.alignment \in Word /\ section.alignment # 0
         /\ section.size \in Nat
         /\ section.data \in Seq(Byte) /\ Len(section.data) <= section.size
<1>1. object.sections \in Seq(ObjectSection)
  BY TableFacts
<1>2. object.sections[s] \in ObjectSection /\ s \in Nat /\ s > 0
  BY <1>1
<1>3. ReadsSection(object.sections[s])
  BY DEF Readable
<1>4. object.sections[s].size \in Nat
  BY <1>2, WordTypes DEF ObjectSection, Word
<1>5. QED
  BY <1>2, <1>3, <1>4 DEF ObjectSection, ReadsSection

-----------------------------------------------------------------------------
(***************************************************************************)
(* The layout.                                                             *)
(***************************************************************************)
Stages ==
  {"begin", "merge", "resolve", "references", "relocate", "entry", "debug",
   "build", "done", "failed"}

RegionsFit ==
  /\ DOMAIN regions = RegionType
  /\ \A type \in RegionType :
       /\ DOMAIN regions[type] = {"size", "data"}
       /\ regions[type].size \in Nat /\ regions[type].size <= kRegionSize

\* The types of the variables that the layout depends on.
LayoutTypes ==
  /\ objects \in CommandLines
  /\ stage \in Stages
  /\ at \in [object: Nat \ {0}, item: Nat \ {0}]
  /\ RegionsFit

SectionOf(p) == objects[p[1]].sections[p[2]]

\* A placement is that of a section, which lies in the region of its type.
PlacementFits(p) ==
  /\ p = <<p[1], p[2]>>
  /\ p[1] \in DOMAIN objects /\ p[2] \in DOMAIN objects[p[1]].sections
  /\ placements[p].type = SectionOf(p).type
  /\ placements[p].type \in RegionType
  /\ placements[p].offset \in Nat
  /\ placements[p].offset % SectionOf(p).alignment = 0
  /\ placements[p].offset + SectionOf(p).size <= regions[placements[p].type].size

\* One of two contributions to a region ends before the other starts.
Apart(p, q) ==
  \/ placements[p].offset + SectionOf(p).size <= placements[q].offset
  \/ placements[q].offset + SectionOf(q).size <= placements[p].offset

Layout ==
  /\ \A p \in DOMAIN placements : PlacementFits(p)
  /\ \A p, q \in DOMAIN placements :
       p # q /\ placements[p].type = placements[q].type => Apart(p, q)

LayoutInv == LayoutTypes /\ Layout

LEMMA LayoutInit == Init => LayoutInv
<1> SUFFICES ASSUME Init PROVE LayoutInv
  OBVIOUS
<1>1. at \in [object: Nat \ {0}, item: Nat \ {0}]
  BY DEF Init, Start
<1>2. RegionsFit
  BY RegionConstants DEF Init, RegionsFit
<1>3. LayoutTypes
  BY <1>1, <1>2 DEF Init, LayoutTypes, Stages
<1>4. DOMAIN placements = {}
  BY DEF Init
<1>5. QED
  BY <1>3, <1>4 DEF LayoutInv, Layout

\* A step that changes neither regions nor placements keeps the layout.
LEMMA LayoutKept ==
  ASSUME LayoutInv, UNCHANGED <<objects, regions, placements>>,
         stage' \in Stages, at' \in [object: Nat \ {0}, item: Nat \ {0}]
  PROVE  LayoutInv'
  BY DEF LayoutInv, LayoutTypes, RegionsFit, Layout, PlacementFits, Apart, SectionOf

\* The object and the item the link is at.
LEMMA ItemFacts ==
  ASSUME LayoutTypes, HasItem
  PROVE  /\ at.object \in DOMAIN objects
         /\ ThisObject \in Object /\ Readable(ThisObject)
         /\ at.item \in Nat /\ at.item > 0
         /\ stage = "merge" => at.item \in DOMAIN ThisObject.sections
         /\ stage \in {"resolve", "references"} => at.item \in DOMAIN ThisObject.symbols
         /\ stage = "relocate" => at.item \in DOMAIN ThisObject.relocations
         /\ stage = "debug" => at.item \in DOMAIN ThisObject.debug_info
<1>1. /\ at.object \in Nat /\ at.object > 0 /\ at.item \in Nat /\ at.item > 0
      /\ at.object <= Len(objects) /\ at.item <= Len(Items)
  BY DEF LayoutTypes, HasItem, AtObject
<1>2. at.object \in DOMAIN objects
  BY <1>1, CommandLineFacts DEF LayoutTypes
<1>3. ThisObject \in Object /\ Readable(ThisObject)
  BY <1>2, CommandLineFacts DEF LayoutTypes, ThisObject
<1>4. /\ ThisObject.sections \in Seq(ObjectSection) /\ ThisObject.symbols \in Seq(Symbol)
      /\ ThisObject.relocations \in Seq(Relocation)
      /\ ThisObject.debug_info \in Seq(DebugEntry)
  BY <1>3, TableFacts
<1>5. /\ stage = "merge" => at.item \in DOMAIN ThisObject.sections
      /\ stage \in {"resolve", "references"} => at.item \in DOMAIN ThisObject.symbols
      /\ stage = "relocate" => at.item \in DOMAIN ThisObject.relocations
      /\ stage = "debug" => at.item \in DOMAIN ThisObject.debug_info
  BY <1>1, <1>4 DEF Items
<1>6. QED
  BY <1>1, <1>2, <1>3, <1>5

LEMMA PositionTypes ==
  ASSUME LayoutTypes
  PROVE  /\ Onwards => at' \in [object: Nat \ {0}, item: Nat \ {0}]
         /\ at' = [object |-> at.object + 1, item |-> 1]
              => at' \in [object: Nat \ {0}, item: Nat \ {0}]
         /\ at' = Start => at' \in [object: Nat \ {0}, item: Nat \ {0}]
  BY DEF LayoutTypes, Onwards, Start

\* mergeSections() puts a section behind all that is in its region.
LEMMA LayoutMerged ==
  ASSUME LayoutInv, stage = "merge", HasItem, NEW section, section = Item,
         NEW here, here = <<at.object, at.item>>,
         NEW offset, offset = alignUp(regions[section.type].size, section.alignment),
         NEW data, section.type # "Null", ~Outgrows(offset, section.size),
         regions' = [regions EXCEPT ![section.type] =
                       [size |-> offset + section.size, data |-> data]],
         placements' = With(placements, here,
                            [type |-> section.type, offset |-> offset]),
         Onwards
  PROVE  LayoutInv'
<1>1. /\ objects' = objects /\ stage' = stage /\ LayoutTypes
      /\ here[1] \in DOMAIN objects /\ here[2] \in DOMAIN objects[here[1]].sections
      /\ section = SectionOf(here)
  BY ItemFacts DEF Onwards, LayoutInv, Item, Items, ThisObject, SectionOf
<1>2. /\ section.type \in RegionType /\ section.size \in Nat
      /\ section.alignment \in Word /\ section.alignment # 0
  <2>1. objects[here[1]] \in Object /\ Readable(objects[here[1]])
    BY <1>1, CommandLineFacts DEF LayoutTypes
  <2>2. section.type \in SectionType
    BY <1>1, <2>1, SectionFacts DEF SectionOf
  <2>3. QED
    BY <1>1, <2>1, <2>2, SectionFacts DEF SectionOf, SectionType, RegionType
<1>3. /\ DOMAIN regions = RegionType
      /\ \A type \in RegionType :
           /\ DOMAIN regions[type] = {"size", "data"}
           /\ regions[type].size \in Nat /\ regions[type].size <= kRegionSize
  BY <1>1 DEF LayoutTypes, RegionsFit
<1>4. /\ offset \in Nat /\ offset >= regions[section.type].size
      /\ offset % section.alignment = 0
  BY <1>2, <1>3, AlignedUp
<1>5. offset + section.size <= kRegionSize
  BY <1>2, <1>4, RegionConstants DEF Outgrows
<1>6. /\ DOMAIN regions' = RegionType
      /\ regions'[section.type].size = offset + section.size
      /\ DOMAIN (regions'[section.type]) = {"size", "data"}
      /\ \A type \in RegionType : type # section.type => regions'[type] = regions[type]
      /\ \A type \in RegionType : regions[type].size <= regions'[type].size
  BY <1>2, <1>3, <1>4
<1>7. RegionsFit'
  BY <1>2, <1>3, <1>4, <1>5, <1>6 DEF RegionsFit
<1>8. LayoutTypes'
  BY <1>1, <1>7, PositionTypes DEF LayoutTypes
<1>9. /\ DOMAIN placements' = DOMAIN placements \cup {here}
      /\ placements'[here] = [type |-> section.type, offset |-> offset]
      /\ \A p \in DOMAIN placements : p # here => placements'[p] = placements[p]
  BY DEF With
<1>10. \A p : SectionOf(p)' = SectionOf(p)
  BY <1>1 DEF SectionOf
<1>11. PlacementFits(here)'
  <2>1. here = <<here[1], here[2]>>
    OBVIOUS
  <2>2. /\ (placements[here].type)' = section.type
        /\ (placements[here].offset)' = offset
        /\ SectionOf(here)' = section
    <3>1. placements'[here].type = section.type /\ placements'[here].offset = offset
      BY <1>9
    <3>2. SectionOf(here)' = section
      BY <1>1, <1>10
    <3>3. QED
      BY <3>1, <3>2
  <2>3. (placements[here].offset + SectionOf(here).size
           <= regions[placements[here].type].size)'
    BY <1>2, <1>4, <1>6, <2>2
  <2>4. QED
    BY <1>1, <1>2, <1>4, <2>1, <2>2, <2>3 DEF PlacementFits
<1>12. ASSUME NEW p \in DOMAIN placements, p # here
       PROVE  /\ PlacementFits(p)'
              /\ SectionOf(p).size \in Nat /\ placements[p].offset \in Nat
              /\ placements[p].type = section.type =>
                   placements[p].offset + SectionOf(p).size <= offset
  <2>1. PlacementFits(p)
    BY DEF LayoutInv, Layout
  <2>2. SectionOf(p).size \in Nat
    <3>1. objects[p[1]] \in Object /\ Readable(objects[p[1]])
      BY <1>1, <2>1, CommandLineFacts DEF LayoutTypes, PlacementFits
    <3>2. QED
      BY <2>1, <3>1, SectionFacts DEF PlacementFits, SectionOf
  <2>3. placements[p].offset + SectionOf(p).size <= regions[placements[p].type].size
    BY <2>1 DEF PlacementFits
  <2>4. regions[placements[p].type].size <= regions'[placements[p].type].size
    BY <1>6, <2>1 DEF PlacementFits
  <2>5. /\ regions[placements[p].type].size \in Nat
        /\ regions'[placements[p].type].size \in Nat
        /\ placements[p].offset \in Nat
    BY <1>2, <1>3, <1>4, <1>6, <2>1 DEF PlacementFits
  <2>6. placements[p].offset + SectionOf(p).size <= regions'[placements[p].type].size
    BY <2>2, <2>3, <2>4, <2>5
  <2>7. PlacementFits(p)'
    BY <1>1, <1>9, <1>10, <1>12, <2>1, <2>6 DEF PlacementFits
  <2>8. QED
    BY <1>4, <2>2, <2>3, <2>5, <2>7
<1>13. ASSUME NEW p \in DOMAIN placements', NEW q \in DOMAIN placements',
              p # q, (placements[p].type)' = (placements[q].type)'
       PROVE  Apart(p, q)'
  <2>1. CASE p # here /\ q # here
    <3>1. Apart(p, q)
      BY <1>9, <1>13, <2>1 DEF LayoutInv, Layout
    <3>2. QED
      BY <1>9, <1>10, <2>1, <3>1 DEF Apart
  <2>2. CASE p = here
    BY <1>9, <1>10, <1>12, <1>13, <2>2 DEF Apart
  <2>3. CASE q = here
    BY <1>9, <1>10, <1>12, <1>13, <2>3 DEF Apart
  <2>4. QED
    BY <2>1, <2>2, <2>3
<1>14. QED
  BY <1>8, <1>9, <1>11, <1>12, <1>13 DEF LayoutInv, Layout

\* applyRelocations() changes the bytes of a region and nothing of the layout.
LEMMA LayoutPatched ==
  ASSUME LayoutInv, NEW type \in RegionType, NEW data,
         regions' = [regions EXCEPT ![type].data = data],
         placements' = placements, Onwards
  PROVE  LayoutInv'
<1>1. objects' = objects /\ stage' = stage /\ LayoutTypes
  BY DEF Onwards, LayoutInv
<1>2. /\ DOMAIN regions' = RegionType
      /\ \A t \in RegionType : /\ DOMAIN (regions'[t]) = {"size", "data"}
                               /\ regions'[t].size = regions[t].size
  BY <1>1 DEF LayoutTypes, RegionsFit
<1>3. LayoutTypes'
  BY <1>1, <1>2, PositionTypes DEF LayoutTypes, RegionsFit
<1>4. Layout'
  <2>1. \A p : SectionOf(p)' = SectionOf(p)
    BY <1>1 DEF SectionOf
  <2>2. ASSUME NEW p \in DOMAIN placements PROVE PlacementFits(p)'
    BY <1>1, <1>2, <2>1 DEF LayoutInv, Layout, PlacementFits
  <2>3. \A p, q : Apart(p, q)' <=> Apart(p, q)
    BY <2>1 DEF Apart
  <2>4. QED
    BY <2>2, <2>3 DEF LayoutInv, Layout
<1>5. QED
  BY <1>3, <1>4 DEF LayoutInv

\* A section that was placed has a region.
LEMMA PlacedFacts ==
  ASSUME LayoutInv, NEW o, NEW s, Placed(o, s)
  PROVE  /\ o \in DOMAIN objects /\ s \in DOMAIN objects[o].sections
         /\ placements[<<o, s>>].type \in RegionType
         /\ placements[<<o, s>>].type = objects[o].sections[s].type
         /\ placements[<<o, s>>].offset \in Nat
         /\ objects[o].sections[s].size \in Nat
         /\ placements[<<o, s>>].offset + objects[o].sections[s].size
              <= regions[placements[<<o, s>>].type].size
<1>1. PlacementFits(<<o, s>>)
  BY DEF LayoutInv, Layout, Placed
<1>2. /\ o \in DOMAIN objects /\ s \in DOMAIN objects[o].sections
      /\ SectionOf(<<o, s>>) = objects[o].sections[s]
  BY <1>1 DEF PlacementFits, SectionOf
<1>3. objects[o].sections[s].size \in Nat
  BY <1>2, CommandLineFacts, SectionFacts DEF LayoutInv, LayoutTypes
<1>4. QED
  BY <1>1, <1>2, <1>3 DEF PlacementFits

LEMMA LayoutStep == LayoutInv /\ [Next]_vars => LayoutInv'
<1> SUFFICES ASSUME LayoutInv, [Next]_vars PROVE LayoutInv'
  OBVIOUS
<1> USE DEF tables
<1>1. LayoutTypes /\ at \in [object: Nat \ {0}, item: Nat \ {0}] /\ stage \in Stages
  BY DEF LayoutInv, LayoutTypes
<1>2. ASSUME NEW code, Fail(code) PROVE LayoutInv'
  BY <1>1, <1>2, LayoutKept DEF Fail, Stages
<1>3. ASSUME Onwards, UNCHANGED <<regions, placements>> PROVE LayoutInv'
  BY <1>1, <1>3, LayoutKept, PositionTypes DEF Onwards
<1>4. CASE Begin
  BY <1>1, <1>2, <1>4, LayoutKept DEF Begin, Stages
<1>5. CASE MergeSection
  <2> DEFINE section == Item
             offset  == alignUp(regions[section.type].size, section.alignment)
             here    == <<at.object, at.item>>
             data    == IF section.type = "Bss" THEN <<>>
                        ELSE Appended(regions[section.type].data, offset, section)
  <2>1. stage = "merge" /\ HasItem
    BY <1>5 DEF MergeSection
  <2>2. CASE section.type = "Null" /\ Onwards /\ UNCHANGED <<regions, tables, debug>>
    BY <1>3, <2>2
  <2>3. CASE Fail("RelocationOverflow")
    BY <1>2, <2>3
  <2>4. CASE /\ section.type # "Null"
             /\ ~Outgrows(offset, section.size)
             /\ regions' = [regions EXCEPT ![section.type] =
                              [size |-> offset + section.size, data |-> data]]
             /\ placements' = With(placements, here,
                                   [type |-> section.type, offset |-> offset])
             /\ Onwards
    <3> HIDE DEF section, offset, here, data
    <3>1. /\ section = Item /\ here = <<at.object, at.item>>
          /\ offset = alignUp(regions[section.type].size, section.alignment)
      BY DEF section, offset, here
    <3>2. QED
      BY <2>1, <2>4, <3>1, LayoutMerged
  <2>5. QED
    BY <1>5, <2>2, <2>3, <2>4 DEF MergeSection
<1>6. CASE ResolveSymbol
  BY <1>2, <1>3, <1>6 DEF ResolveSymbol
<1>7. CASE CheckReference
  BY <1>2, <1>3, <1>7 DEF CheckReference
<1>8. CASE Relocate
  <2> DEFINE relocation == Item
             type == placements[<<at.object, relocation.section>>].type
  <2>1. CASE \E code : Fail(code)
    BY <1>2, <2>1
  <2>2. CASE /\ Patchable(at.object, relocation)
             /\ \E data : regions' = [regions EXCEPT ![type].data = data]
             /\ Onwards /\ placements' = placements
    <3>1. type \in RegionType
      BY <2>2, PlacedFacts DEF Patchable
    <3> HIDE DEF type, relocation
    <3>2. QED
      BY <2>2, <3>1, LayoutPatched
  <2>3. QED
    BY <1>8, <2>1, <2>2 DEF Relocate
<1>9. CASE FindEntry
  BY <1>1, <1>2, <1>9, LayoutKept DEF FindEntry, Stages
<1>10. CASE AddLine
  BY <1>3, <1>10 DEF AddLine
<1>11. CASE Build
  BY <1>1, <1>2, <1>11, LayoutKept DEF Build, Stages
<1>12. CASE NextObject
  BY <1>1, <1>12, LayoutKept, PositionTypes DEF NextObject
<1>13. CASE NextStage
  BY <1>1, <1>13, LayoutKept, PositionTypes DEF NextStage, Looping, StageAfter, Stages
<1>14. CASE UNCHANGED vars
  BY <1>1, <1>14, LayoutKept DEF vars
<1>15. QED
  BY <1>4, <1>5, <1>6, <1>7, <1>8, <1>9, <1>10, <1>11, <1>12, <1>13, <1>14 DEF Next

LEMMA LayoutAlways == Spec => []LayoutInv
  BY LayoutInit, LayoutStep, PTL DEF Spec

LEMMA LayoutGivesDisjoint == LayoutInv => ContributionsDisjoint
<1> SUFFICES ASSUME LayoutInv, NEW type \in RegionType
             PROVE  /\ regions[type].size <= kRegionSize
                    /\ \A p \in Contributions(type) :
                         /\ placements[p].offset % objects[p[1]].sections[p[2]].alignment = 0
                         /\ Occupied(p) \subseteq 1 .. regions[type].size
                         /\ \A q \in Contributions(type) \ {p} :
                              Occupied(p) \cap Occupied(q) = {}
  BY DEF ContributionsDisjoint
<1>1. regions[type].size \in Nat /\ regions[type].size <= kRegionSize
  BY DEF LayoutInv, LayoutTypes, RegionsFit
<1>2. ASSUME NEW p \in Contributions(type)
      PROVE  /\ p \in DOMAIN placements /\ placements[p].type = type
             /\ placements[p].offset % SectionOf(p).alignment = 0
             /\ placements[p].offset \in Nat /\ SectionOf(p).size \in Nat
             /\ placements[p].offset + SectionOf(p).size <= regions[type].size
             /\ Occupied(p) = placements[p].offset + 1
                                .. placements[p].offset + SectionOf(p).size
  <2>1. p \in DOMAIN placements /\ placements[p].type = type
    BY <1>2 DEF Contributions
  <2>2. PlacementFits(p)
    BY <2>1 DEF LayoutInv, Layout
  <2>3. SectionOf(p).size \in Nat
    BY <2>2, CommandLineFacts, SectionFacts
    DEF LayoutInv, LayoutTypes, PlacementFits, SectionOf
  <2>4. QED
    BY <2>1, <2>2, <2>3 DEF PlacementFits, Occupied, SectionOf
<1>3. ASSUME NEW p \in Contributions(type), NEW q \in Contributions(type), p # q
      PROVE  Occupied(p) \cap Occupied(q) = {}
  <2>1. Apart(p, q)
    BY <1>2, <1>3 DEF LayoutInv, Layout
  <2>2. QED
    BY <1>2, <2>1 DEF Apart
<1>4. ASSUME NEW p \in Contributions(type)
      PROVE  Occupied(p) \subseteq 1 .. regions[type].size
  BY <1>1, <1>2
<1>5. QED
  BY <1>1, <1>2, <1>3, <1>4 DEF SectionOf

\* mergeSections(): whatever the objects, their order and the room there is, the
\* contributions to a region stay apart, aligned and inside the region.
THEOREM ContributionsStayDisjoint == Spec => []ContributionsDisjoint
  BY LayoutAlways, LayoutGivesDisjoint, PTL

-----------------------------------------------------------------------------
(***************************************************************************)
(* The symbols.  While resolveSymbols() runs, the table has the right      *)
(* definition of each name among the symbols it has been through.          *)
(***************************************************************************)
Reached(o, i) == o < at.object \/ (o = at.object /\ i < at.item)

AfterResolve == {"references", "relocate", "entry", "debug", "build", "done"}

Resolved(o, i) == stage \in AfterResolve \/ (stage = "resolve" /\ Reached(o, i))

\* The i-th symbol of object o defines the name with the binding.
Defines(o, i, name, binding) ==
  /\ objects[o].symbols[i].defined
  /\ objects[o].symbols[i].name = name
  /\ objects[o].symbols[i].binding = binding

Seen(o, i, name, binding) == Resolved(o, i) /\ Defines(o, i, name, binding)

NoneSeen(name, binding) ==
  \A o \in DOMAIN objects : \A i \in DOMAIN objects[o].symbols :
    ~Seen(o, i, name, binding)

AddressIn(o, i) == addressOf(o, objects[o].symbols[i])

\* The table has the one strong definition of the name,
HasStrong(name) ==
  \E o \in DOMAIN objects : \E i \in DOMAIN objects[o].symbols :
    /\ Seen(o, i, name, "Global")
    /\ definitions[name] = [address |-> AddressIn(o, i), binding |-> "Global"]
    /\ \A p \in DOMAIN objects : \A k \in DOMAIN objects[p].symbols :
         Seen(p, k, name, "Global") => p = o /\ k = i

\* or there is none and it has the first weak one,
HasWeak(name) ==
  /\ NoneSeen(name, "Global")
  /\ \E o \in DOMAIN objects : \E i \in DOMAIN objects[o].symbols :
       /\ Seen(o, i, name, "Weak")
       /\ definitions[name] = [address |-> AddressIn(o, i), binding |-> "Weak"]
       /\ \A p \in DOMAIN objects : \A k \in DOMAIN objects[p].symbols :
            Seen(p, k, name, "Weak") => o <= p

\* or nobody defines it.
HasNothing(name) ==
  /\ stage \in AfterResolve
  /\ NoneSeen(name, "Global") /\ NoneSeen(name, "Weak")
  /\ definitions[name] = [address |-> 0, binding |-> "Weak"]

\* A definition that was seen is of a placed section, and in the table if it is
\* not local.
Entered(o, i) ==
  LET symbol == objects[o].symbols[i] IN
  Resolved(o, i) /\ symbol.defined =>
    /\ Placed(o, symbol.section)
    /\ symbol.binding # "Local" => symbol.name \in DOMAIN definitions

Resolution ==
  /\ \A o \in DOMAIN objects : \A i \in DOMAIN objects[o].symbols : Entered(o, i)
  /\ \A name \in DOMAIN definitions :
       HasStrong(name) \/ HasWeak(name) \/ HasNothing(name)

ResolutionInv == stage # "failed" => Resolution

LEMMA ResolutionInit == Init => Resolution
<1> SUFFICES ASSUME Init PROVE Resolution
  OBVIOUS
<1>1. DOMAIN definitions = {}
  BY DEF Init
<1>2. ASSUME NEW o, NEW i PROVE ~Resolved(o, i)
  BY DEF Init, Resolved, AfterResolve
<1>3. QED
  BY <1>1, <1>2 DEF Resolution, Entered

\* A step that leaves the table as it is and has been through no more symbols.
LEMMA ResolutionKept ==
  ASSUME Resolution, UNCHANGED <<objects, placements, definitions>>,
         stage \in AfterResolve => stage' \in AfterResolve,
         \A o \in DOMAIN objects : \A i \in DOMAIN objects[o].symbols :
           Resolved(o, i)' <=> Resolved(o, i)
  PROVE  Resolution'
<1>1. ASSUME NEW o \in DOMAIN objects, NEW i \in DOMAIN objects[o].symbols
      PROVE  /\ \A name, binding : Seen(o, i, name, binding)' <=> Seen(o, i, name, binding)
             /\ AddressIn(o, i)' = AddressIn(o, i)
             /\ Entered(o, i)'
  <2>1. Entered(o, i)
    BY DEF Resolution
  <2>2. QED
    BY <2>1 DEF Seen, Defines, AddressIn, addressOf, Entered, Placed
<1>2. ASSUME NEW name, NEW binding, NoneSeen(name, binding)
      PROVE  NoneSeen(name, binding)'
  BY <1>1, <1>2 DEF NoneSeen
<1>3. ASSUME NEW name, HasStrong(name) PROVE HasStrong(name)'
  BY <1>1, <1>3 DEF HasStrong
<1>4. ASSUME NEW name, HasWeak(name) PROVE HasWeak(name)'
  BY <1>1, <1>2, <1>4 DEF HasWeak
<1>5. ASSUME NEW name, HasNothing(name) PROVE HasNothing(name)'
  BY <1>2, <1>5 DEF HasNothing
<1>6. QED
  BY <1>1, <1>3, <1>4, <1>5 DEF Resolution

\* Going on to the next item adds this one to those reached; going on to the
\* next object, or to the next stage, adds none.
LEMMA ReachedOnwards ==
  ASSUME LayoutTypes, Onwards, NEW o \in Nat, NEW i \in Nat
  PROVE  /\ Reached(o, i)' <=> Reached(o, i) \/ (o = at.object /\ i = at.item)
         /\ ~Reached(at.object, at.item)
         /\ Reached(o, i) => o <= at.object
  BY DEF LayoutTypes, Onwards, Reached

LEMMA ReachedNextObject ==
  ASSUME LayoutTypes, NextObject, NEW o \in DOMAIN objects, NEW i \in Nat, i > 0,
         o = at.object => i <= Len(Items)
  PROVE  Reached(o, i)' <=> Reached(o, i)
<1>1. /\ at.object \in Nat /\ at.item \in Nat /\ o \in Nat
      /\ at' = [object |-> at.object + 1, item |-> 1] /\ at.item > Len(Items)
  BY CommandLineFacts DEF LayoutTypes, NextObject
<1>2. o = at.object => Len(Items) \in Nat
  <2>1. o = at.object => ThisObject \in Object
    BY CommandLineFacts DEF LayoutTypes, ThisObject
  <2>2. QED
    BY <2>1, TableFacts DEF NextObject, AtObject, Looping, Items
<1>3. QED
  BY <1>1, <1>2 DEF Reached

LEMMA ReachedNextStage ==
  ASSUME LayoutTypes, NextStage, NEW o \in DOMAIN objects, NEW i \in Nat, i > 0
  PROVE  ~Reached(o, i)' /\ Reached(o, i)
<1>1. at.object \in Nat /\ at.object > Len(objects) /\ at' = [object |-> 1, item |-> 1]
  BY DEF LayoutTypes, NextStage, Start
<1>2. o \in Nat /\ o > 0 /\ Len(objects) \in Nat /\ o <= Len(objects)
  BY CommandLineFacts DEF LayoutTypes
<1>3. QED
  BY <1>1, <1>2 DEF Reached

LEMMA SymbolFacts ==
  ASSUME objects \in CommandLines,
         NEW o \in DOMAIN objects, NEW i \in DOMAIN objects[o].symbols
  PROVE  LET symbol == objects[o].symbols[i] IN
         /\ o \in Nat /\ o > 0 /\ i \in Nat /\ i > 0 /\ i <= Len(objects[o].symbols)
         /\ symbol.name \in SymbolName /\ symbol.binding \in SymbolBinding
         /\ symbol.defined \in BOOLEAN /\ symbol.value \in Word
         /\ symbol.defined => symbol.binding \in {"Local", "Global", "Weak"}
         /\ \A k \in DOMAIN objects[o].symbols :
              objects[o].symbols[k].name = symbol.name => k = i
<1>1. objects[o] \in Object /\ Readable(objects[o]) /\ o \in Nat /\ o > 0
  BY CommandLineFacts
<1>2. objects[o].symbols \in Seq(Symbol)
  BY <1>1, TableFacts
<1>3. /\ i \in Nat /\ i > 0 /\ i <= Len(objects[o].symbols)
      /\ objects[o].symbols[i] \in Symbol
  BY <1>2
<1>4. objects[o].symbols[i].defined => objects[o].symbols[i].binding # "Extern"
  BY ExternAssumption
<1>5. \A k \in DOMAIN objects[o].symbols :
        objects[o].symbols[k].name = objects[o].symbols[i].name => k = i
  BY <1>1 DEF Readable, ReadsSymbols
<1>6. QED
  BY <1>1, <1>3, <1>4, <1>5 DEF Symbol, SymbolBinding

\* resolveSymbols() goes through one more symbol.
LEMMA OneMoreSeen ==
  ASSUME LayoutInv, stage = "resolve", HasItem, Onwards, placements' = placements,
         NEW here, here = at.object, NEW item, item = at.item,
         NEW o \in DOMAIN objects, NEW i \in DOMAIN objects[o].symbols
  PROVE  /\ Resolved(o, i)' <=> Resolved(o, i) \/ (o = here /\ i = item)
         /\ Resolved(o, i) => o <= here
         /\ ~Resolved(here, item)
         /\ AddressIn(o, i)' = AddressIn(o, i)
         /\ \A name, binding :
              Seen(o, i, name, binding)' <=>
                \/ Seen(o, i, name, binding)
                \/ o = here /\ i = item /\ Defines(o, i, name, binding)
<1>1. objects' = objects /\ stage' = "resolve" /\ o \in Nat /\ i \in Nat /\ LayoutTypes
  BY SymbolFacts DEF Onwards, LayoutInv, LayoutTypes
<1>2. /\ Reached(o, i)' <=> Reached(o, i) \/ (o = here /\ i = item)
      /\ ~Reached(here, item)
      /\ Reached(o, i) => o <= here
  BY <1>1, ReachedOnwards
<1>3. /\ Resolved(o, i)' <=> Resolved(o, i) \/ (o = here /\ i = item)
      /\ Resolved(o, i) => o <= here
      /\ ~Resolved(here, item)
  BY <1>1, <1>2 DEF Resolved, AfterResolve
<1>4. AddressIn(o, i)' = AddressIn(o, i)
  BY <1>1 DEF AddressIn, addressOf
<1>5. \A name, binding : Defines(o, i, name, binding)' <=> Defines(o, i, name, binding)
  BY <1>1 DEF Defines
<1>6. QED
  BY <1>3, <1>4, <1>5 DEF Seen

\* A name the symbol does not define keeps its definition.
LEMMA OthersKeep ==
  ASSUME LayoutInv, stage = "resolve", HasItem, Onwards, placements' = placements,
         NEW name, definitions'[name] = definitions[name],
         ~Defines(at.object, at.item, name, "Global"),
         ~Defines(at.object, at.item, name, "Weak"),
         HasStrong(name) \/ HasWeak(name) \/ HasNothing(name)
  PROVE  HasStrong(name)' \/ HasWeak(name)' \/ HasNothing(name)'
<1>1. objects' = objects /\ stage \notin AfterResolve
  BY DEF Onwards, AfterResolve
<1>2. ASSUME NEW o \in DOMAIN objects, NEW i \in DOMAIN objects[o].symbols
      PROVE  /\ Seen(o, i, name, "Global")' <=> Seen(o, i, name, "Global")
             /\ Seen(o, i, name, "Weak")' <=> Seen(o, i, name, "Weak")
             /\ AddressIn(o, i)' = AddressIn(o, i)
  BY OneMoreSeen
<1>3. CASE HasStrong(name)
  BY <1>1, <1>2, <1>3 DEF HasStrong
<1>4. CASE HasWeak(name)
  BY <1>1, <1>2, <1>4 DEF HasWeak, NoneSeen
<1>5. QED
  BY <1>1, <1>3, <1>4 DEF HasNothing

\* Only names that are defined are in the table, and only one way.
LEMMA TableBindings ==
  ASSUME NEW name
  PROVE  /\ HasStrong(name) => definitions[name].binding = "Global"
         /\ HasWeak(name) \/ HasNothing(name) => definitions[name].binding = "Weak"
<1>1. HasStrong(name) => definitions[name].binding = "Global"
  BY DEF HasStrong
<1>2. HasWeak(name) => definitions[name].binding = "Weak"
  BY DEF HasWeak
<1>3. HasNothing(name) => definitions[name].binding = "Weak"
  BY DEF HasNothing
<1>4. QED
  BY <1>1, <1>2, <1>3

\* The symbol that is entered as a new definition is the right one.
LEMMA NewDefinition ==
  ASSUME LayoutInv, Resolution, stage = "resolve", HasItem, Onwards,
         placements' = placements, NEW symbol, symbol = Item, symbol.defined,
         symbol.binding # "Local",
         \/ symbol.name \notin DOMAIN definitions
         \/ symbol.name \in DOMAIN definitions /\ Overrides(symbol),
         definitions'[symbol.name] = [address |-> addressOf(at.object, symbol),
                                      binding |-> symbol.binding]
  PROVE  HasStrong(symbol.name)' \/ HasWeak(symbol.name)'
<1>1. PICK here, item : here = at.object /\ item = at.item
  OBVIOUS
<1>2. /\ here \in DOMAIN objects /\ item \in DOMAIN objects[here].symbols
      /\ symbol = objects[here].symbols[item] /\ objects' = objects
      /\ objects \in CommandLines
  BY <1>1, ItemFacts DEF LayoutInv, LayoutTypes, Item, Items, ThisObject, Onwards
<1>3. symbol.binding \in {"Global", "Weak"}
  BY <1>2, SymbolFacts
<1>4. NoneSeen(symbol.name, "Global")
  <2>1. CASE symbol.name \notin DOMAIN definitions
    BY <2>1 DEF Resolution, Entered, NoneSeen, Seen, Defines
  <2>2. CASE symbol.name \in DOMAIN definitions /\ Overrides(symbol)
    <3>1. HasWeak(symbol.name) \/ HasNothing(symbol.name)
      BY <2>2, TableBindings DEF Resolution, Overrides
    <3>2. QED
      BY <3>1 DEF HasWeak, HasNothing
  <2>3. QED
    BY <2>1, <2>2
<1>5. symbol.binding = "Weak" => NoneSeen(symbol.name, "Weak")
  BY DEF Overrides, Resolution, Entered, NoneSeen, Seen, Defines
<1>6. ASSUME NEW o \in DOMAIN objects, NEW i \in DOMAIN objects[o].symbols
      PROVE  \A binding : Seen(o, i, symbol.name, binding)' <=>
               \/ Seen(o, i, symbol.name, binding)
               \/ o = here /\ i = item /\ binding = symbol.binding
  BY <1>1, <1>2, OneMoreSeen DEF Defines
<1>7. AddressIn(here, item)' = addressOf(here, symbol)
  BY <1>1, <1>2, OneMoreSeen DEF AddressIn
<1>8. CASE symbol.binding = "Global"
  <2>1. HasStrong(symbol.name)'
    BY <1>1, <1>2, <1>4, <1>6, <1>7, <1>8, SMTT(30) DEF HasStrong, NoneSeen
  <2>2. QED
    BY <2>1
<1>9. CASE symbol.binding = "Weak"
  <2>1. NoneSeen(symbol.name, "Global")'
    BY <1>2, <1>4, <1>6, <1>9 DEF NoneSeen
  <2>2. here \in Nat
    BY <1>2, CommandLineFacts
  <2>3. ASSUME NEW p \in DOMAIN objects, NEW k \in DOMAIN objects[p].symbols,
               Seen(p, k, symbol.name, "Weak")'
        PROVE  here <= p
    BY <1>5, <1>6, <1>9, <2>2, <2>3 DEF NoneSeen
  <2>4. HasWeak(symbol.name)'
    BY <1>1, <1>2, <1>6, <1>7, <1>9, <2>1, <2>3, ZenonT(30) DEF HasWeak
  <2>5. QED
    BY <2>4
<1>10. QED
  BY <1>3, <1>8, <1>9

\* A definition that does not override the one in the table leaves it right.
LEMMA OldDefinition ==
  ASSUME LayoutInv, Resolution, stage = "resolve", HasItem, Onwards,
         placements' = placements, NEW symbol, symbol = Item, symbol.defined,
         symbol.binding # "Local", symbol.name \in DOMAIN definitions,
         ~BothStrong(symbol), ~Overrides(symbol), definitions' = definitions
  PROVE  HasStrong(symbol.name)' \/ HasWeak(symbol.name)'
<1>1. PICK here, item : here = at.object /\ item = at.item
  OBVIOUS
<1>2. /\ here \in DOMAIN objects /\ item \in DOMAIN objects[here].symbols
      /\ symbol = objects[here].symbols[item] /\ objects' = objects
      /\ objects \in CommandLines /\ stage \notin AfterResolve
  BY <1>1, ItemFacts
  DEF LayoutInv, LayoutTypes, Item, Items, ThisObject, Onwards, AfterResolve
<1>3. symbol.binding \in {"Global", "Weak"}
  BY <1>2, SymbolFacts
<1>4. HasStrong(symbol.name) \/ HasWeak(symbol.name)
  BY <1>2 DEF Resolution, HasNothing
<1>5. symbol.binding = "Weak"
  BY <1>3, <1>4, TableBindings DEF BothStrong, Overrides
<1>6. ASSUME NEW o \in DOMAIN objects, NEW i \in DOMAIN objects[o].symbols
      PROVE  /\ Seen(o, i, symbol.name, "Global")' <=> Seen(o, i, symbol.name, "Global")
             /\ Seen(o, i, symbol.name, "Weak")' <=>
                  Seen(o, i, symbol.name, "Weak") \/ (o = here /\ i = item)
             /\ Resolved(o, i) => o <= here
             /\ AddressIn(o, i)' = AddressIn(o, i)
  BY <1>1, <1>2, <1>5, OneMoreSeen DEF Defines
<1>7. CASE HasStrong(symbol.name)
  BY <1>2, <1>6, <1>7 DEF HasStrong
<1>8. CASE HasWeak(symbol.name)
  <2>1. NoneSeen(symbol.name, "Global")'
    BY <1>2, <1>6, <1>8 DEF HasWeak, NoneSeen
  <2>2. PICK o \in DOMAIN objects : \E i \in DOMAIN objects[o].symbols :
          /\ Seen(o, i, symbol.name, "Weak")
          /\ definitions[symbol.name] = [address |-> AddressIn(o, i), binding |-> "Weak"]
          /\ \A p \in DOMAIN objects : \A k \in DOMAIN objects[p].symbols :
               Seen(p, k, symbol.name, "Weak") => o <= p
    BY <1>8 DEF HasWeak
  <2>3. o <= here
    BY <1>6, <2>2 DEF Seen
  <2>4. QED
    BY <1>2, <1>6, <2>1, <2>2, <2>3 DEF HasWeak
<1>9. QED
  BY <1>4, <1>7, <1>8

LEMMA ResolutionResolved ==
  ASSUME LayoutInv, Resolution, ResolveSymbol
  PROVE  ResolutionInv'
<1> USE DEF tables
<1>1. PICK here, item, symbol :
        here = at.object /\ item = at.item /\ symbol = Item
  OBVIOUS
<1>2. /\ stage = "resolve" /\ HasItem /\ objects \in CommandLines
      /\ here \in DOMAIN objects /\ item \in DOMAIN objects[here].symbols
      /\ symbol = objects[here].symbols[item]
  BY <1>1, ItemFacts
  DEF ResolveSymbol, LayoutInv, LayoutTypes, Item, Items, ThisObject
<1>3. CASE Fail("InvalidSectionReference") \/ Fail("DuplicateSymbol")
  BY <1>3 DEF Fail, ResolutionInv
<1>4. ASSUME Onwards, placements' = placements,
             symbol.defined => Placed(here, symbol.section),
             symbol.defined /\ symbol.binding # "Local" =>
               symbol.name \in DOMAIN definitions',
             DOMAIN definitions \subseteq DOMAIN definitions'
      PROVE  \A o \in DOMAIN objects' : \A i \in DOMAIN objects'[o].symbols : Entered(o, i)'
  <2> SUFFICES ASSUME NEW o \in DOMAIN objects, NEW i \in DOMAIN objects[o].symbols
               PROVE  Entered(o, i)'
    BY <1>4 DEF Onwards
  <2>1. objects' = objects /\ Entered(o, i)
    BY <1>4 DEF Onwards, Resolution
  <2>2. Resolved(o, i)' <=> Resolved(o, i) \/ (o = here /\ i = item)
    BY <1>1, <1>2, <1>4, OneMoreSeen
  <2>3. CASE o = here /\ i = item
    BY <1>2, <1>4, <2>1, <2>3 DEF Entered, Placed
  <2>4. CASE ~(o = here /\ i = item)
    BY <1>4, <2>1, <2>2, <2>4 DEF Entered, Placed
  <2>5. QED
    BY <2>3, <2>4
<1>5. CASE /\ Onwards /\ UNCHANGED <<placements, definitions>>
           /\ ~symbol.defined \/ symbol.binding = "Local"
           /\ symbol.defined => Placed(here, symbol.section)
  <2>1. \A o \in DOMAIN objects' : \A i \in DOMAIN objects'[o].symbols : Entered(o, i)'
    BY <1>4, <1>5
  <2>2. ASSUME NEW name \in DOMAIN definitions
        PROVE  HasStrong(name)' \/ HasWeak(name)' \/ HasNothing(name)'
    <3>1. ~Defines(at.object, at.item, name, "Global") /\ ~Defines(at.object, at.item, name, "Weak")
      BY <1>1, <1>2, <1>5 DEF Defines
    <3>2. QED
      BY <1>2, <1>5, <3>1, OthersKeep DEF Resolution
  <2>3. QED
    BY <1>5, <2>1, <2>2 DEF ResolutionInv, Resolution
<1>6. CASE /\ Onwards /\ placements' = placements
           /\ symbol.defined /\ Placed(here, symbol.section) /\ symbol.binding # "Local"
           /\ ~(symbol.name \in DOMAIN definitions /\ BothStrong(symbol))
           /\ definitions' = IF symbol.name \in DOMAIN definitions /\ ~Overrides(symbol)
                             THEN definitions
                             ELSE With(definitions, symbol.name,
                                       [address |-> addressOf(here, symbol),
                                        binding |-> symbol.binding])
  <2>1. CASE symbol.name \in DOMAIN definitions /\ ~Overrides(symbol)
    <3>1. definitions' = definitions
      BY <1>6, <2>1
    <3>2. \A o \in DOMAIN objects' : \A i \in DOMAIN objects'[o].symbols : Entered(o, i)'
      BY <1>4, <1>6, <2>1, <3>1
    <3>3. HasStrong(symbol.name)' \/ HasWeak(symbol.name)'
      BY <1>1, <1>2, <1>6, <2>1, <3>1, OldDefinition
    <3>4. ASSUME NEW name \in DOMAIN definitions, name # symbol.name
          PROVE  HasStrong(name)' \/ HasWeak(name)' \/ HasNothing(name)'
      <4>1. /\ ~Defines(at.object, at.item, name, "Global")
            /\ ~Defines(at.object, at.item, name, "Weak")
        BY <1>1, <1>2, <3>4 DEF Defines
      <4>2. QED
        BY <1>2, <1>6, <3>1, <4>1, OthersKeep DEF Resolution
    <3>5. QED
      BY <3>1, <3>2, <3>3, <3>4 DEF ResolutionInv, Resolution
  <2>2. CASE ~(symbol.name \in DOMAIN definitions /\ ~Overrides(symbol))
    <3>1. /\ DOMAIN definitions' = DOMAIN definitions \cup {symbol.name}
          /\ definitions'[symbol.name] = [address |-> addressOf(here, symbol),
                                          binding |-> symbol.binding]
          /\ \A name \in DOMAIN definitions :
               name # symbol.name => definitions'[name] = definitions[name]
      BY <1>6, <2>2 DEF With
    <3>2. \A o \in DOMAIN objects' : \A i \in DOMAIN objects'[o].symbols : Entered(o, i)'
      BY <1>4, <1>6, <3>1
    <3>3. HasStrong(symbol.name)' \/ HasWeak(symbol.name)'
      BY <1>1, <1>2, <1>6, <2>2, <3>1, NewDefinition
    <3>4. ASSUME NEW name \in DOMAIN definitions, name # symbol.name
          PROVE  HasStrong(name)' \/ HasWeak(name)' \/ HasNothing(name)'
      <4>1. /\ ~Defines(at.object, at.item, name, "Global")
            /\ ~Defines(at.object, at.item, name, "Weak")
        BY <1>1, <1>2, <3>4 DEF Defines
      <4>2. QED
        BY <1>2, <1>6, <3>1, <3>4, <4>1, OthersKeep DEF Resolution
    <3>5. QED
      BY <3>1, <3>2, <3>3, <3>4 DEF ResolutionInv, Resolution
  <2>3. QED
    BY <2>1, <2>2
<1>7. QED
  BY <1>1, <1>3, <1>5, <1>6 DEF ResolveSymbol

\* A weak reference to what nobody defines is entered as such.
LEMMA ResolutionReferenced ==
  ASSUME LayoutInv, Resolution, CheckReference
  PROVE  ResolutionInv'
<1> USE DEF tables
<1>1. PICK symbol : symbol = Item
  OBVIOUS
<1>2. stage = "references" /\ stage \in AfterResolve
  BY DEF CheckReference, AfterResolve
<1>3. CASE Fail("UndefinedSymbol")
  BY <1>3 DEF Fail, ResolutionInv
<1>4. CASE Onwards /\ UNCHANGED <<placements, definitions>>
  BY <1>2, <1>4, ResolutionKept DEF Onwards, Resolved, ResolutionInv
<1>5. CASE /\ Onwards /\ placements' = placements
           /\ symbol.name \notin DOMAIN definitions
           /\ definitions' = With(definitions, symbol.name,
                                  [address |-> 0, binding |-> "Weak"])
  <2>1. objects' = objects /\ stage' \in AfterResolve
    BY <1>2, <1>5 DEF Onwards
  <2>2. /\ DOMAIN definitions' = DOMAIN definitions \cup {symbol.name}
        /\ definitions'[symbol.name] = [address |-> 0, binding |-> "Weak"]
        /\ \A name \in DOMAIN definitions : definitions'[name] = definitions[name]
    BY <1>5 DEF With
  <2>3. ASSUME NEW o \in DOMAIN objects, NEW i \in DOMAIN objects[o].symbols
        PROVE  /\ \A name, binding :
                    Seen(o, i, name, binding)' <=> Seen(o, i, name, binding)
               /\ AddressIn(o, i)' = AddressIn(o, i)
               /\ Entered(o, i)'
    <3>1. Entered(o, i) /\ Resolved(o, i)' /\ Resolved(o, i)
      BY <1>2, <2>1 DEF Resolution, Resolved
    <3>2. QED
      BY <1>5, <2>1, <2>2, <3>1 DEF Seen, Defines, AddressIn, addressOf, Entered, Placed
  <2>4. ASSUME NEW name, NEW binding, NoneSeen(name, binding)
        PROVE  NoneSeen(name, binding)'
    BY <2>1, <2>3, <2>4 DEF NoneSeen
  <2>5. HasNothing(symbol.name)'
    <3>1. NoneSeen(symbol.name, "Global") /\ NoneSeen(symbol.name, "Weak")
      BY <1>5 DEF Resolution, Entered, NoneSeen, Seen, Defines
    <3>2. QED
      BY <2>1, <2>2, <2>4, <3>1 DEF HasNothing
  <2>6. ASSUME NEW name \in DOMAIN definitions
        PROVE  HasStrong(name)' \/ HasWeak(name)' \/ HasNothing(name)'
    <3>1. CASE HasStrong(name)
      BY <2>1, <2>2, <2>3, <3>1 DEF HasStrong
    <3>2. CASE HasWeak(name)
      BY <2>1, <2>2, <2>3, <2>4, <3>2 DEF HasWeak
    <3>3. CASE HasNothing(name)
      BY <2>1, <2>2, <2>4, <3>3 DEF HasNothing
    <3>4. QED
      BY <3>1, <3>2, <3>3 DEF Resolution
  <2>7. QED
    BY <2>1, <2>2, <2>3, <2>5, <2>6 DEF ResolutionInv, Resolution
<1>6. QED
  BY <1>1, <1>3, <1>4, <1>5 DEF CheckReference

LEMMA ResolutionStep ==
  LayoutInv /\ ResolutionInv /\ [Next]_vars => ResolutionInv'
<1> SUFFICES ASSUME LayoutInv, ResolutionInv, [Next]_vars, stage' # "failed"
             PROVE  Resolution'
  BY DEF ResolutionInv
<1> USE DEF tables
<1>1. LayoutTypes /\ objects \in CommandLines /\ stage \in Stages
  BY DEF LayoutInv, LayoutTypes
<1>2. ASSUME UNCHANGED <<objects, stage, placements, definitions>>, stage \notin {"resolve", "failed"}
      PROVE  Resolution'
  BY <1>2, ResolutionKept DEF ResolutionInv, Resolved
<1>3. CASE Begin
  BY <1>3, ResolutionKept DEF Begin, Fail, ResolutionInv, Resolved, AfterResolve
<1>4. CASE MergeSection
  <2>1. CASE Fail("RelocationOverflow")
    BY <2>1 DEF Fail
  <2>2. CASE Onwards /\ UNCHANGED definitions
    <3>1. stage = "merge" /\ stage' = "merge" /\ objects' = objects /\ Resolution
      BY <1>4, <2>2 DEF MergeSection, Onwards, ResolutionInv
    <3>2. DOMAIN definitions = {}
      BY <3>1 DEF Resolution, HasStrong, HasWeak, HasNothing, Seen, Resolved, AfterResolve
    <3>3. \A o, i : ~Resolved(o, i)'
      BY <3>1 DEF Resolved, AfterResolve
    <3>4. QED
      BY <2>2, <3>2, <3>3 DEF Resolution, Entered
  <2>3. QED
    BY <1>4, <2>1, <2>2 DEF MergeSection
<1>5. CASE ResolveSymbol
  BY <1>5, ResolutionResolved DEF ResolutionInv, ResolveSymbol
<1>6. CASE CheckReference
  BY <1>6, ResolutionReferenced DEF ResolutionInv, CheckReference
<1>7. CASE Relocate
  BY <1>2, <1>7 DEF Relocate, Fail, Onwards
<1>8. CASE FindEntry
  BY <1>8, ResolutionKept DEF FindEntry, Fail, ResolutionInv, Resolved, AfterResolve
<1>9. CASE AddLine
  BY <1>2, <1>9 DEF AddLine, Onwards
<1>10. CASE Build
  BY <1>10, ResolutionKept DEF Build, Fail, ResolutionInv, Resolved, AfterResolve
<1>11. CASE NextObject
  <2>1. UNCHANGED <<objects, stage, placements, definitions>> /\ Looping
    BY <1>11 DEF NextObject, AtObject
  <2>2. ASSUME NEW o \in DOMAIN objects, NEW i \in DOMAIN objects[o].symbols
        PROVE  Resolved(o, i)' <=> Resolved(o, i)
    <3>1. CASE stage = "resolve"
      <4>1. o = at.object => Items = objects[o].symbols
        BY <3>1 DEF Items, ThisObject
      <4>2. Reached(o, i)' <=> Reached(o, i)
        BY <1>1, <1>11, <4>1, SymbolFacts, ReachedNextObject
      <4>3. QED
        BY <2>1, <4>2 DEF Resolved
    <3>2. QED
      BY <2>1, <3>1 DEF Resolved
  <2>3. QED
    BY <2>1, <2>2, ResolutionKept DEF ResolutionInv, Looping
<1>12. CASE NextStage
  <2>1. UNCHANGED <<objects, placements, definitions>> /\ Looping /\ stage' = StageAfter(stage)
    BY <1>12 DEF NextStage
  <2>2. ASSUME NEW o \in DOMAIN objects, NEW i \in DOMAIN objects[o].symbols
        PROVE  Resolved(o, i)' <=> Resolved(o, i)
    <3>1. Reached(o, i) /\ ~Reached(o, i)'
      BY <1>1, <1>12, SymbolFacts, ReachedNextStage
    <3>2. QED
      BY <2>1, <3>1 DEF Resolved, AfterResolve, Looping, StageAfter
  <2>3. stage \in AfterResolve => stage' \in AfterResolve
    BY <2>1 DEF AfterResolve, Looping, StageAfter
  <2>4. QED
    BY <2>1, <2>2, <2>3, ResolutionKept DEF ResolutionInv, Looping
<1>13. CASE UNCHANGED vars
  BY <1>13, ResolutionKept DEF vars, ResolutionInv, Resolved, Reached
<1>14. QED
  BY <1>3, <1>4, <1>5, <1>6, <1>7, <1>8, <1>9, <1>10, <1>11, <1>12, <1>13 DEF Next

LEMMA ResolutionAlways == Spec => [](LayoutInv /\ ResolutionInv)
<1>1. Init => ResolutionInv
  BY ResolutionInit DEF ResolutionInv
<1>2. QED
  BY <1>1, LayoutInit, LayoutStep, ResolutionStep, PTL DEF Spec

\* The symbols of an object that define a name: there is at most one.
LEMMA DefinedHereIs ==
  ASSUME NEW o, NEW name, NEW binding
  PROVE  DefinedHere(o, name, binding) =
           {objects[o].symbols[i] :
              i \in {k \in DOMAIN objects[o].symbols : Defines(o, k, name, binding)}}
  BY DEF DefinedHere, Range, Defines

LEMMA OneDefinitionHere ==
  ASSUME objects \in CommandLines, NEW name, NEW binding,
         NEW o \in DOMAIN objects, NEW i \in DOMAIN objects[o].symbols,
         Defines(o, i, name, binding)
  PROVE  DefinedHere(o, name, binding) = {objects[o].symbols[i]}
<1>1. \A k \in DOMAIN objects[o].symbols : Defines(o, k, name, binding) => k = i
  BY SymbolFacts DEF Defines
<1>2. QED
  BY <1>1, DefinedHereIs

LEMMA DefinersFacts ==
  ASSUME NEW o, NEW name, NEW binding
  PROVE  o \in Definers(name, binding) <=>
           /\ o \in DOMAIN objects
           /\ \E i \in DOMAIN objects[o].symbols : Defines(o, i, name, binding)
<1> DEFINE Here == {k \in DOMAIN objects[o].symbols : Defines(o, k, name, binding)}
           F(i) == objects[o].symbols[i]
<1>1. DefinedHere(o, name, binding) = {F(i) : i \in Here}
  BY DefinedHereIs
<1> HIDE DEF F
<1>2. DefinedHere(o, name, binding) # {} <=> Here # {}
  BY <1>1
<1>3. QED
  BY <1>2 DEF Definers

LEMMA FirstAddressIs ==
  ASSUME objects \in CommandLines, NEW name, NEW binding,
         NEW o \in DOMAIN objects, NEW i \in DOMAIN objects[o].symbols,
         Defines(o, i, name, binding),
         \A p \in DOMAIN objects : \A k \in DOMAIN objects[p].symbols :
           Defines(p, k, name, binding) => o <= p
  PROVE  FirstAddress(name, binding) = AddressIn(o, i)
<1>1. o \in Definers(name, binding) /\ \A p \in Definers(name, binding) : p \in Nat /\ o <= p
  BY DefinersFacts, CommandLineFacts
<1>2. Min(Definers(name, binding)) = o
  <2>1. \A x \in Definers(name, binding) :
          (\A y \in Definers(name, binding) : x <= y) => x = o
    BY <1>1
  <2>2. QED
    BY <1>1, <2>1 DEF Min
<1>3. DefinedHere(o, name, binding) = {objects[o].symbols[i]}
  BY OneDefinitionHere
<1>4. QED
  BY <1>2, <1>3 DEF FirstAddress, AddressIn

\* What the table says of a name once every symbol was seen.
LEMMA NameIsRight ==
  ASSUME LayoutInv, ResolutionInv, stage \in AfterResolve, NEW name
  PROVE  /\ Cardinality(Definers(name, "Global")) <= 1
         /\ Definers(name, "Global") \cup Definers(name, "Weak") # {}
              => name \in DOMAIN definitions
         /\ name \in DOMAIN definitions
              => definitions[name].address = SharedMeaning(name)
<1>1. Resolution /\ stage \in AfterResolve /\ objects \in CommandLines
  BY DEF ResolutionInv, LayoutInv, LayoutTypes, AfterResolve
<1>2. \A o, i, n, b : Seen(o, i, n, b) <=> Defines(o, i, n, b)
  BY <1>1 DEF Seen, Resolved
<1>3. ASSUME NEW b \in {"Global", "Weak"}, Definers(name, b) # {}
      PROVE  name \in DOMAIN definitions
  <2>1. PICK o \in DOMAIN objects :
          \E i \in DOMAIN objects[o].symbols : Defines(o, i, name, b)
    BY <1>1, <1>3, DefinersFacts
  <2>2. QED
    BY <1>1, <1>3, <2>1 DEF Resolution, Entered, Resolved, Defines
<1>4. ASSUME NEW b, NoneSeen(name, b) PROVE Definers(name, b) = {}
  BY <1>1, <1>2, <1>4, DefinersFacts DEF NoneSeen
<1>5. ASSUME HasStrong(name)
      PROVE  /\ \E o : Definers(name, "Global") = {o}
             /\ definitions[name].address = SharedMeaning(name)
  <2>1. PICK o \in DOMAIN objects : \E i \in DOMAIN objects[o].symbols :
          /\ Seen(o, i, name, "Global")
          /\ definitions[name] = [address |-> AddressIn(o, i), binding |-> "Global"]
          /\ \A p \in DOMAIN objects : \A k \in DOMAIN objects[p].symbols :
               Seen(p, k, name, "Global") => p = o /\ k = i
    BY <1>5 DEF HasStrong
  <2>2. PICK i \in DOMAIN objects[o].symbols :
          /\ Defines(o, i, name, "Global")
          /\ definitions[name] = [address |-> AddressIn(o, i), binding |-> "Global"]
          /\ \A p \in DOMAIN objects : \A k \in DOMAIN objects[p].symbols :
               Defines(p, k, name, "Global") => p = o /\ k = i
    BY <1>2, <2>1
  <2>3. Definers(name, "Global") = {o}
    BY <1>1, <2>2, DefinersFacts
  <2>4. o \in Nat
    BY <1>1, CommandLineFacts
  <2>5. FirstAddress(name, "Global") = AddressIn(o, i)
    BY <1>1, <2>2, <2>4, FirstAddressIs
  <2>6. QED
    BY <2>2, <2>3, <2>5 DEF SharedMeaning
<1>6. ASSUME HasWeak(name)
      PROVE  /\ Definers(name, "Global") = {}
             /\ definitions[name].address = SharedMeaning(name)
  <2>1. Definers(name, "Global") = {}
    BY <1>4, <1>6 DEF HasWeak
  <2>2. PICK o \in DOMAIN objects : \E i \in DOMAIN objects[o].symbols :
          /\ Seen(o, i, name, "Weak")
          /\ definitions[name] = [address |-> AddressIn(o, i), binding |-> "Weak"]
          /\ \A p \in DOMAIN objects : \A k \in DOMAIN objects[p].symbols :
               Seen(p, k, name, "Weak") => o <= p
    BY <1>6 DEF HasWeak
  <2>3. PICK i \in DOMAIN objects[o].symbols :
          /\ Defines(o, i, name, "Weak")
          /\ definitions[name] = [address |-> AddressIn(o, i), binding |-> "Weak"]
          /\ \A p \in DOMAIN objects : \A k \in DOMAIN objects[p].symbols :
               Defines(p, k, name, "Weak") => o <= p
    BY <1>2, <2>2
  <2>4. Definers(name, "Weak") # {}
    BY <1>1, <2>3, DefinersFacts
  <2>5. FirstAddress(name, "Weak") = AddressIn(o, i)
    BY <1>1, <2>3, FirstAddressIs
  <2>6. QED
    BY <2>1, <2>3, <2>4, <2>5 DEF SharedMeaning
<1>7. ASSUME HasNothing(name)
      PROVE  /\ Definers(name, "Global") = {}
             /\ definitions[name].address = SharedMeaning(name)
  <2>1. /\ Definers(name, "Global") = {} /\ Definers(name, "Weak") = {}
        /\ definitions[name].address = 0
    BY <1>4, <1>7 DEF HasNothing
  <2>2. QED
    BY <2>1 DEF SharedMeaning
<1>8. Cardinality(Definers(name, "Global")) <= 1
  <2>1. Definers(name, "Global") = {} \/ \E o : Definers(name, "Global") = {o}
    BY <1>1, <1>3, <1>5, <1>6, <1>7 DEF Resolution
  <2>2. Cardinality({}) = 0 /\ \A o : Cardinality({o}) = 1
    BY FS_EmptySet, FS_Singleton
  <2>3. CASE Definers(name, "Global") = {}
    BY <2>2, <2>3
  <2>4. ASSUME NEW o, Definers(name, "Global") = {o}
        PROVE  Cardinality(Definers(name, "Global")) = 1
    BY <2>2, <2>4
  <2>5. QED
    BY <2>1, <2>3, <2>4
<1>9. QED
  BY <1>1, <1>3, <1>5, <1>6, <1>7, <1>8 DEF Resolution

LEMMA ResolutionGivesRight == LayoutInv /\ ResolutionInv => RightDefinition
<1> SUFFICES ASSUME LayoutInv, ResolutionInv,
                    stage \notin {"begin", "merge", "resolve", "failed"}
             PROVE  RightDefinition
  BY DEF RightDefinition
<1>1. stage \in AfterResolve
  BY DEF LayoutInv, LayoutTypes, Stages, AfterResolve
<1>2. QED
  BY <1>1, NameIsRight DEF RightDefinition

\* resolveSymbols(): for every command line of objects, in every order, the table
\* ends with each name's one strong definition, or the first of its weak ones.
THEOREM DefinitionsAreRight == Spec => []RightDefinition
  BY ResolutionAlways, ResolutionGivesRight, PTL

-----------------------------------------------------------------------------
(***************************************************************************)
(* What the linker puts into the image: every reference resolved, every    *)
(* byte of a section in its place, every field patched, every line with    *)
(* its source, and no image refused but for its entry.                     *)
(***************************************************************************)
-----------------------------------------------------------------------------
(***************************************************************************)
(* How far the loops over references, relocations and lines have come.     *)
(***************************************************************************)
LateStage == {"references", "relocate", "debug"}

ItemsOf(s, o) ==
  CASE s = "references" -> objects[o].symbols
    [] s = "relocate"   -> objects[o].relocations
    [] s = "debug"      -> objects[o].debug_info

StagesAfter(s) ==
  CASE s = "references" -> {"relocate", "entry", "debug", "build", "done"}
    [] s = "relocate"   -> {"entry", "debug", "build", "done"}
    [] s = "debug"      -> {"build", "done"}

\* Stage s has been through the i-th item of object o.
Through(s, o, i) == stage \in StagesAfter(s) \/ (stage = s /\ Reached(o, i))

\* The entry is looked up between two loops.
AtStart == stage = "entry" => at = Start

\* A step goes through the item the stage is at, and through no other.
LEMMA ThroughStep ==
  ASSUME LayoutInv, AtStart, [Next]_vars, stage' # "failed", NEW s \in LateStage,
         NEW o \in DOMAIN objects, NEW i \in DOMAIN ItemsOf(s, o)
  PROVE  \/ Through(s, o, i)' <=> Through(s, o, i)
         \/ stage = s /\ HasItem /\ o = at.object /\ i = at.item /\ Onwards
<1>1. LayoutTypes /\ objects \in CommandLines /\ stage \in Stages
  BY DEF LayoutInv, LayoutTypes
<1>2. i \in Nat /\ i > 0 /\ i <= Len(ItemsOf(s, o)) /\ o \in Nat /\ o > 0
  <2>1. objects[o] \in Object /\ o \in Nat /\ o > 0
    BY <1>1, CommandLineFacts
  <2>2. \/ ItemsOf(s, o) \in Seq(Symbol)
        \/ ItemsOf(s, o) \in Seq(Relocation)
        \/ ItemsOf(s, o) \in Seq(DebugEntry)
    BY <2>1, TableFacts DEF ItemsOf, LateStage
  <2>3. QED
    BY <2>1, <2>2
<1>3. ASSUME UNCHANGED <<stage, at>> PROVE Through(s, o, i)' <=> Through(s, o, i)
  BY <1>3 DEF Through, Reached
<1>4. ASSUME Onwards, HasItem
      PROVE  \/ Through(s, o, i)' <=> Through(s, o, i)
             \/ stage = s /\ HasItem /\ o = at.object /\ i = at.item /\ Onwards
  <2>1. Reached(o, i)' <=> Reached(o, i) \/ (o = at.object /\ i = at.item)
    BY <1>1, <1>2, <1>4, ReachedOnwards
  <2>2. stage' = stage
    BY <1>4 DEF Onwards
  <2>3. QED
    BY <1>4, <2>1, <2>2 DEF Through
<1>5. ASSUME stage \in {"begin", "merge", "resolve"}, stage' \in {"merge", "resolve"}
      PROVE  Through(s, o, i)' <=> Through(s, o, i)
  BY <1>5 DEF Through, StagesAfter, LateStage
<1>6. CASE Begin
  BY <1>5, <1>6 DEF Begin, Fail
<1>7. CASE MergeSection
  BY <1>5, <1>7 DEF MergeSection, Fail, Onwards
<1>8. CASE ResolveSymbol
  BY <1>5, <1>8 DEF ResolveSymbol, Fail, Onwards
<1>9. CASE CheckReference
  BY <1>4, <1>9 DEF CheckReference, Fail
<1>10. CASE Relocate
  BY <1>4, <1>10 DEF Relocate, Fail
<1>11. CASE FindEntry
  <2>1. stage = "entry" /\ stage' = "debug" /\ at' = at /\ at = Start
    BY <1>11 DEF FindEntry, Fail, AtStart
  <2>2. ~Reached(o, i)'
    BY <1>2, <2>1 DEF Reached, Start
  <2>3. QED
    BY <2>1, <2>2 DEF Through, StagesAfter, LateStage
<1>12. CASE AddLine
  BY <1>4, <1>12 DEF AddLine
<1>13. CASE Build
  BY <1>13 DEF Build, Fail, Through, StagesAfter, LateStage
<1>14. CASE NextObject
  <2>1. CASE stage = s
    <3>1. o = at.object => Items = ItemsOf(s, o)
      BY <2>1 DEF Items, ItemsOf, ThisObject, LateStage
    <3>2. Reached(o, i)' <=> Reached(o, i)
      BY <1>1, <1>2, <1>14, <3>1, ReachedNextObject
    <3>3. QED
      BY <1>14, <2>1, <3>2 DEF Through, NextObject
  <2>2. CASE stage # s
    BY <1>14, <2>2 DEF Through, NextObject
  <2>3. QED
    BY <2>1, <2>2
<1>15. CASE NextStage
  <2>1. Reached(o, i) /\ ~Reached(o, i)'
    BY <1>1, <1>2, <1>15, ReachedNextStage
  <2>2. Looping /\ stage' = StageAfter(stage)
    BY <1>15 DEF NextStage
  <2>3. QED
    BY <2>1, <2>2 DEF Through, StagesAfter, LateStage, Looping, StageAfter
<1>16. CASE UNCHANGED vars
  BY <1>3, <1>16 DEF vars
<1>17. QED
  BY <1>6, <1>7, <1>8, <1>9, <1>10, <1>11, <1>12, <1>13, <1>14, <1>15, <1>16 DEF Next

-----------------------------------------------------------------------------
(***************************************************************************)
(* What every reference means.                                             *)
(***************************************************************************)

\* A symbol that was checked has a definition, if only that of a weak reference.
Known(symbol) == symbol.defined \/ symbol.name \in DOMAIN definitions

References ==
  /\ \A o \in DOMAIN objects : \A i \in DOMAIN objects[o].symbols :
       Through("references", o, i) => Known(objects[o].symbols[i])
  /\ stage \in {"debug", "build", "done"} => Entry \in DOMAIN definitions

ReferencesInv == AtStart /\ (stage # "failed" => References)

\* A step keeps the names of the table, and the objects.
LEMMA TableGrows ==
  ASSUME [Next]_vars
  PROVE  DOMAIN definitions \subseteq DOMAIN definitions' /\ objects' = objects
<1> USE DEF tables, Fail, Onwards
<1>1. CASE Begin \/ MergeSection
  BY <1>1 DEF Begin, MergeSection
<1>2. CASE ResolveSymbol
  BY <1>2 DEF ResolveSymbol, With
<1>3. CASE CheckReference
  BY <1>3 DEF CheckReference, With
<1>4. CASE Relocate \/ FindEntry \/ AddLine
  BY <1>4 DEF Relocate, FindEntry, AddLine
<1>5. CASE Build \/ NextObject \/ NextStage \/ UNCHANGED vars
  BY <1>5 DEF Build, NextObject, NextStage, vars
<1>6. QED
  BY <1>1, <1>2, <1>3, <1>4, <1>5 DEF Next

LEMMA AtStartStep ==
  ASSUME AtStart, [Next]_vars
  PROVE  AtStart'
<1> USE DEF AtStart, Fail, Onwards
<1>1. CASE Begin \/ MergeSection \/ ResolveSymbol \/ CheckReference
  BY <1>1 DEF Begin, MergeSection, ResolveSymbol, CheckReference
<1>2. CASE Relocate \/ FindEntry \/ AddLine \/ Build
  BY <1>2 DEF Relocate, FindEntry, AddLine, Build
<1>3. CASE NextObject
  BY <1>3 DEF NextObject, AtObject, Looping
<1>4. CASE NextStage \/ UNCHANGED vars
  BY <1>4 DEF NextStage, vars
<1>5. QED
  BY <1>1, <1>2, <1>3, <1>4 DEF Next

\* The step that goes on from an item is that of the stage.
LEMMA ItemStep ==
  ASSUME LayoutInv, [Next]_vars, stage \in LateStage, HasItem, Onwards
  PROVE  /\ stage = "references" => CheckReference
         /\ stage = "relocate" => Relocate
         /\ stage = "debug" => AddLine
<1>1. at' # at
  BY DEF Onwards, LayoutInv, LayoutTypes
<1>2. at.object <= Len(objects) /\ at.item <= Len(Items) /\ Len(objects) \in Nat
  BY CommandLineFacts DEF HasItem, AtObject, LayoutInv, LayoutTypes
<1>3. ~NextObject
  <2>1. at.item \in Nat /\ Len(Items) \in Nat
    BY ItemFacts, TableFacts DEF LayoutInv, Items, LateStage
  <2>2. QED
    BY <1>2, <2>1 DEF NextObject
<1>4. ~NextStage
  BY <1>2 DEF NextStage, LayoutInv, LayoutTypes
<1>5. QED
  BY <1>1, <1>3, <1>4
  DEF Next, Begin, MergeSection, ResolveSymbol, CheckReference, Relocate, FindEntry, AddLine,
      Build, vars, LateStage

LEMMA ReferencesStep ==
  ASSUME LayoutInv, ReferencesInv, [Next]_vars
  PROVE  ReferencesInv'
<1>1. AtStart'
  BY AtStartStep DEF ReferencesInv
<1>2. SUFFICES ASSUME stage' # "failed" PROVE References'
  BY <1>1 DEF ReferencesInv
<1>3. stage # "failed" \/ UNCHANGED vars
  BY DEF Next, Begin, MergeSection, ResolveSymbol, CheckReference, Relocate, FindEntry,
         AddLine, Build, NextObject, NextStage, HasItem, AtObject, Looping
<1>4. stage # "failed" /\ References
  BY <1>2, <1>3 DEF vars, ReferencesInv
<1>5. DOMAIN definitions \subseteq DOMAIN definitions' /\ objects' = objects
  BY TableGrows
<1>6. ASSUME NEW o \in DOMAIN objects, NEW i \in DOMAIN objects[o].symbols,
             Through("references", o, i)'
      PROVE  Known(objects[o].symbols[i])'
  <2>1. ItemsOf("references", o) = objects[o].symbols
    BY DEF ItemsOf
  <2>2. \/ Through("references", o, i)
        \/ /\ stage = "references" /\ HasItem /\ o = at.object /\ i = at.item
           /\ Onwards
    BY <1>2, <1>6, <2>1, ThroughStep DEF ReferencesInv, LateStage
  <2>3. CASE Through("references", o, i)
    BY <1>4, <1>5, <2>3 DEF References, Known
  <2>4. CASE stage = "references" /\ HasItem /\ o = at.object /\ i = at.item /\ Onwards
    <3>1. Item = objects[o].symbols[i]
      BY <2>4 DEF Item, Items, ThisObject
    <3>2. CheckReference
      BY <2>4, ItemStep DEF LateStage
    <3>3. QED
      BY <1>2, <1>5, <3>1, <3>2 DEF CheckReference, Fail, Known, With
  <2>5. QED
    BY <2>2, <2>3, <2>4
<1>7. stage' \in {"debug", "build", "done"} => Entry \in DOMAIN definitions'
  <2>1. SUFFICES ASSUME stage' \in {"debug", "build", "done"},
                        stage \notin {"debug", "build", "done"}
                 PROVE  Entry \in DOMAIN definitions'
    BY <1>4, <1>5 DEF References
  <2>2. FindEntry
    BY <2>1 DEF Next, Begin, MergeSection, ResolveSymbol, CheckReference, Relocate, AddLine,
                Build, NextObject, NextStage, StageAfter, Looping, Fail, Onwards, vars
  <2>3. QED
    BY <2>1, <2>2 DEF FindEntry, Fail, tables
<1>8. QED
  BY <1>5, <1>6, <1>7 DEF References

-----------------------------------------------------------------------------
(***************************************************************************)
(* What a relocation writes.                                               *)
(***************************************************************************)

\* The remainder of a number that is known as a multiple and a rest.
LEMMA RemainderIs ==
  ASSUME NEW m \in Nat, m > 0, NEW q \in Nat, NEW r \in 0 .. m - 1,
         NEW a \in Nat, a = m * q + r
  PROVE  a % m = r
<1>1. (m * q + r) % m = r
  OBVIOUS
<1>2. QED
  BY <1>1

\* A number without remainder is a multiple.
LEMMA IsMultiple ==
  ASSUME NEW m \in Nat, m > 0, NEW a \in Nat, a % m = 0
  PROVE  \E q \in Nat : m * q \in Nat /\ a = m * q
<1>1. a \div m \in Nat /\ a = m * (a \div m) + (a % m)
  BY Remainders
<1> DEFINE d == a \div m
<1>2. d \in Nat /\ a = m * d + 0
  BY <1>1
<1> HIDE DEF d
<1>3. m * d \in Nat
  BY <1>2
<1>4. a = m * d
  BY <1>2, <1>3
<1>5. QED
  BY <1>2, <1>3, <1>4

LEMMA FieldModuli ==
  /\ HalfModulus \in Nat /\ HalfModulus > 0 /\ HalfModulus % 2 = 0
  /\ HalfModulus < WordModulus /\ WordModulus % HalfModulus = 0
  /\ ImmediateModulus \in Nat /\ ImmediateModulus > 0 /\ ImmediateModulus % 2 = 0
  /\ ImmediateModulus < WordModulus /\ WordModulus % ImmediateModulus = 0
  BY ObjectAssumption, FieldAssumption

\* What a modulus that divides that of words does to a word.
LEMMA SignedRemainder ==
  ASSUME NEW m \in Nat, m > 0, m % 2 = 0, m < WordModulus, WordModulus % m = 0,
         NEW value \in Word, fitsSigned(value, m)
  PROVE  value % m \in 0 .. m - 1 /\ SignExtended(value % m, m) = value
<1>1. WordModulus \in Nat /\ value \in Nat /\ value < WordModulus
  BY WordTypes DEF Word
<1>2. m \div 2 \in Nat /\ m = 2 * (m \div 2)
  OBVIOUS
<1>3. CASE value < m \div 2
  <2>1. value \in 0 .. m - 1 /\ value = m * 0 + value
    BY <1>1, <1>2, <1>3
  <2>2. value % m = value
    BY <1>1, <2>1, RemainderIs
  <2>3. QED
    BY <1>3, <2>1, <2>2 DEF SignExtended
<1>4. CASE value >= WordModulus - m \div 2 /\ ~(value < m \div 2)
  <2>1. PICK q \in Nat : m * q \in Nat /\ WordModulus = m * q
    BY <1>1, IsMultiple
  <2>2. q > 0
    BY <1>1, <2>1
  <2>3. m * q = m * (q - 1) + m
    BY <2>1, <2>2
  <2> DEFINE n == m * (q - 1)
  <2>4. n \in Nat /\ WordModulus = n + m
    BY <2>1, <2>2, <2>3
  <2> HIDE DEF n
  <2>5. value - n \in 0 .. m - 1 /\ value - n >= m \div 2
    BY <1>1, <1>2, <1>4, <2>4
  <2>6. value = n + (value - n)
    BY <1>1, <2>4
  <2>7. PICK p \in Nat : n = m * p
    <3>1. q - 1 \in Nat
      BY <2>2
    <3>2. QED
      BY <3>1, Zenon DEF n
  <2>8. value % m = value - n
    <3>1. value = m * p + (value - n)
      BY <2>6, <2>7
    <3>2. QED
      BY <1>1, <2>5, <3>1, RemainderIs
  <2>9. SignExtended(value - n, m) = value - n + WordModulus - m
    BY <1>2, <2>5 DEF SignExtended
  <2>10. QED
    BY <1>1, <2>4, <2>5, <2>8, <2>9
<1>5. QED
  BY <1>3, <1>4 DEF fitsSigned

\* The word with another immediate: its immediate is the one put in, and it is
\* read the same way.
LEMMA ImmediateReplaced ==
  ASSUME NEW word \in Word, NEW value \in Word,
         ImmediateUse(word) \in {"Signed", "Unsigned"} \/ value = 0
  PROVE  LET new == WithImmediate(word, value) IN
         /\ new \in Word
         /\ new % ImmediateModulus = value % ImmediateModulus
         /\ ImmediateUse(word) \in {"Signed", "Unsigned"} =>
              ImmediateUse(new) = ImmediateUse(word)
         /\ ImmediateUse(word) = "None" /\ value = 0 => new = word
<1> DEFINE m == ImmediateModulus
           q == word \div m
           r == word % m
           v == value % m
           new == WithImmediate(word, value)
<1>1. m \in Nat /\ m > 0 /\ m < WordModulus /\ WordModulus % m = 0 /\ WordModulus \in Nat
  BY FieldModuli, WordTypes
<1>2. word \in Nat /\ word < WordModulus /\ value \in Nat
  BY <1>1 DEF Word
<1>3. q \in Nat /\ r \in 0 .. m - 1 /\ word = m * q + r
  BY <1>1, <1>2, Remainders
<1>4. v \in 0 .. m - 1
  BY <1>1, <1>2, Remainders
<1>5. PICK w \in Nat : m * w \in Nat /\ WordModulus = m * w
  BY <1>1, IsMultiple
<1>6. m * q \in Nat /\ word - r = m * q
  <2> DEFINE n == m * q
  <2>1. n \in Nat /\ word = n + r
    BY <1>1, <1>3
  <2> HIDE DEF n, r
  <2>2. word - r = n
    BY <1>2, <1>3, <2>1
  <2>3. QED
    BY <2>1, <2>2 DEF n
<1>7. new = m * q + v
  BY <1>6 DEF WithImmediate
<1>8. new \in Nat /\ new % m = v
  <2> HIDE DEF q, new
  <2>1. new \in Nat
    BY <1>1, <1>4, <1>6, <1>7
  <2> HIDE DEF m, v
  <2>2. QED
    BY <1>1, <1>3, <1>4, <1>7, <2>1, RemainderIs
<1>9. m * q + m <= WordModulus
  <2> HIDE DEF m, q, r
  <2>1. q < w
    <3>1. SUFFICES ASSUME w <= q PROVE FALSE
      BY <1>3
    <3>2. m * w <= m * q
      BY <1>1, <1>3, <3>1
    <3>3. QED
      BY <1>1, <1>2, <1>3, <1>5, <1>6, <3>2
  <2>2. m * (q + 1) <= m * w
    BY <1>1, <1>3, <2>1
  <2>3. m * (q + 1) = m * q + m
    BY <1>1, <1>3
  <2>4. QED
    BY <1>5, <2>2, <2>3
<1>10. new \in Word
  <2> DEFINE n == m * q
  <2>1. n \in Nat /\ new = n + v /\ n + m <= WordModulus
    BY <1>6, <1>7, <1>9
  <2> HIDE DEF n, m, v, new
  <2>2. QED
    BY <1>1, <1>4, <2>1 DEF Word
<1>11. new - (new % m) = word - (word % m)
  <2>1. new - v = m * q
    <3> DEFINE n == m * q
    <3>1. n \in Nat /\ new = n + v
      BY <1>6, <1>7
    <3> HIDE DEF n, v, new
    <3>2. new - v = n
      BY <1>1, <1>4, <3>1
    <3>3. QED
      BY <3>2 DEF n
  <2>2. QED
    BY <1>6, <1>8, <2>1
<1>12. ASSUME ImmediateUse(word) \in {"Signed", "Unsigned"}
       PROVE  ImmediateUse(new) = ImmediateUse(word)
  <2>1. ImmediateUse(word) = ImmediateUse(word - (word % m))
    BY <1>12, FieldAssumption
  <2>2. ImmediateUse(new - (new % m)) \in {"Signed", "Unsigned"}
    BY <1>11, <1>12, <2>1
  <2>3. ImmediateUse(new) = ImmediateUse(new - (new % m))
    BY <1>10, <2>2, FieldAssumption
  <2>4. QED
    BY <1>11, <2>1, <2>3
<1>13. ASSUME ImmediateUse(word) = "None", value = 0 PROVE new = word
  <2>1. word = word - (word % m)
    BY <1>13, FieldAssumption
  <2>2. v = 0
    <3>1. 0 = m * 0 + 0 /\ 0 \in 0 .. m - 1
      BY <1>1
    <3>2. 0 % m = 0
      BY <1>1, <3>1, RemainderIs
    <3>3. QED
      BY <1>13, <3>2
  <2>3. QED
    BY <1>2, <1>6, <1>7, <2>1, <2>2
<1>14. QED
  BY <1>8, <1>10, <1>12, <1>13

\* The bytes of a field.
LEMMA FieldBytes ==
  ASSUME NEW data \in Seq(Byte), NEW offset \in Nat, NEW n \in Nat,
         offset + n <= Len(data)
  PROVE  LET field == SubSeq(data, offset + 1, offset + n) IN
         /\ field \in Seq(Byte) /\ Len(field) = n /\ DOMAIN field = 1 .. n
         /\ \A k \in 1 .. n : field[k] = data[offset + k]
  OBVIOUS

\* A field is read as the sequence of bytes that was put into it.
LEMMA FieldIs ==
  ASSUME NEW data \in Seq(Byte), NEW offset \in Nat, NEW n \in Nat,
         offset + n <= Len(data), NEW field \in Seq(Byte), Len(field) = n,
         \A k \in 1 .. n : data[offset + k] = field[k]
  PROVE  SubSeq(data, offset + 1, offset + n) = field
<1>1. /\ SubSeq(data, offset + 1, offset + n) \in Seq(Byte)
      /\ Len(SubSeq(data, offset + 1, offset + n)) = n
      /\ \A k \in 1 .. n : SubSeq(data, offset + 1, offset + n)[k] = data[offset + k]
  BY FieldBytes
<1>2. QED
  BY <1>1, SeqEqual

\* Adding what was subtracted.
LEMMA AddSub ==
  ASSUME NEW a \in Word, NEW b \in Word
  PROVE  Add(b, Sub(a, b)) = a
  BY WordTypes DEF Add, Sub, Word

\* A relocation that can be applied: its value is a word that fits its field.
LEMMA AppliedValue ==
  ASSUME NEW data \in Seq(Byte), NEW base, NEW r, r.type \in RelocationType,
         r.offset \in Nat, r.addend \in Word, Add(base, r.offset) \in Word,
         NEW address \in Word, RelocationError(data, base, r, address) = "None",
         NEW value,
         value = relocatedValue(r.type, address, r.addend, Add(base, r.offset))
  PROVE  /\ value \in Word
         /\ r.offset + relocationWidth(r.type) <= Len(data)
         /\ r.type = "ABS32" => value < HalfModulus
         /\ r.type = "PCREL32" => fitsSigned(value, HalfModulus)
         /\ r.type \in {"IMM48", "PCREL48"} =>
              LET use == ImmediateUse(LoadWord(FieldAt(data, r))) IN
              /\ fitsSigned(value, ImmediateModulus)
              /\ use # "Undecodable" /\ Encodes(use, value)
<1>1. Add(address, r.addend) \in Word
  BY WordArithmetic
<1>2. WordSize \in Word
  BY WordTypes DEF Word
<1>3. value \in Word
  BY <1>1, <1>2, WordArithmetic DEF relocatedValue, branchDisplacement, RelocationType
<1>4. r.offset + relocationWidth(r.type) <= Len(data)
  BY DEF RelocationError, InBounds
<1>5. r.type = "ABS32" => value < HalfModulus
  BY DEF RelocationError, fitsUnsigned
<1>6. r.type = "PCREL32" => fitsSigned(value, HalfModulus)
  BY DEF RelocationError
<1>7. r.type \in {"IMM48", "PCREL48"} =>
        LET use == ImmediateUse(LoadWord(FieldAt(data, r))) IN
        /\ fitsSigned(value, ImmediateModulus)
        /\ use # "Undecodable" /\ Encodes(use, value)
  BY DEF RelocationError
<1>8. QED
  BY <1>3, <1>4, <1>5, <1>6, <1>7

LEMMA WordBytes ==
  ASSUME NEW w \in Word
  PROVE  /\ StoreWord(w) \in Seq(Byte) /\ Len(StoreWord(w)) = WordSize
         /\ LoadWord(StoreWord(w)) = w
<1>1. StoreWord(w) \in [1 .. WordSize -> Byte] /\ LoadWord(StoreWord(w)) = w
  BY MemoryAssumption
<1>2. QED
  BY <1>1, WordTypes

LEMMA HalfWidth == WordSize \div 2 \in Nat /\ WordSize \div 2 <= WordSize
  BY WordTypes

\* Half a word is read out of the bytes it was stored in.
LEMMA HalfBytes ==
  ASSUME NEW h \in 0 .. HalfModulus - 1
  PROVE  LET field == SubSeq(StoreWord(h), 1, WordSize \div 2) IN
         /\ field \in Seq(Byte) /\ Len(field) = WordSize \div 2
         /\ LoadWord(field \o [k \in 1 .. WordSize \div 2 |-> ZeroByte]) = h
<1>1. h \in Word
  BY FieldModuli, WordTypes DEF Word
<1>2. StoreWord(h) \in Seq(Byte) /\ Len(StoreWord(h)) = WordSize
  BY <1>1, WordBytes
<1>3. /\ SubSeq(StoreWord(h), 0 + 1, 0 + WordSize \div 2) \in Seq(Byte)
      /\ Len(SubSeq(StoreWord(h), 0 + 1, 0 + WordSize \div 2)) = WordSize \div 2
  BY <1>2, HalfWidth, FieldBytes, WordTypes
<1>4. 0 + 1 = 1 /\ 0 + WordSize \div 2 = WordSize \div 2
  BY HalfWidth
<1>5. QED
  BY <1>3, <1>4, FieldAssumption

\* The bytes applyRelocation() puts into the field.
LEMMA NewFieldBytes ==
  ASSUME NEW data \in Seq(Byte), NEW base, NEW r, r.type \in RelocationType,
         r.offset \in Nat, r.addend \in Word, Add(base, r.offset) \in Word,
         NEW address \in Word, RelocationError(data, base, r, address) = "None"
  PROVE  /\ NewField(data, base, r, address) \in Seq(Byte)
         /\ Len(NewField(data, base, r, address)) = relocationWidth(r.type)
         /\ Denotes(r.type, NewField(data, base, r, address), Add(base, r.offset))
              = Add(address, r.addend)
<1> DEFINE place == Add(base, r.offset)
           target == Add(address, r.addend)
           value == relocatedValue(r.type, address, r.addend, place)
           word  == LoadWord(FieldAt(data, r))
           field == NewField(data, base, r, address)
<1>1. /\ value \in Word
      /\ r.offset + relocationWidth(r.type) <= Len(data)
      /\ r.type = "ABS32" => value < HalfModulus
      /\ r.type = "PCREL32" => fitsSigned(value, HalfModulus)
      /\ r.type \in {"IMM48", "PCREL48"} =>
           /\ fitsSigned(value, ImmediateModulus)
           /\ ImmediateUse(word) # "Undecodable" /\ Encodes(ImmediateUse(word), value)
  BY AppliedValue
<1>2. target \in Word /\ place \in Word /\ WordSize \in Word
  <2>1. WordSize \in Word
    BY WordTypes DEF Word
  <2>2. target \in Word
    BY WordArithmetic
  <2>3. QED
    BY <2>1, <2>2
<1>3. WordModulus \in Nat /\ value \in Nat
  BY <1>1, WordTypes DEF Word
<1>4. CASE r.type = "ABS32"
  <2>1. value = target
    BY <1>4 DEF relocatedValue
  <2>2. value = HalfModulus * 0 + value /\ value \in 0 .. HalfModulus - 1
    BY <1>1, <1>3, <1>4, FieldModuli
  <2>3. value % HalfModulus = value
    BY <1>3, <2>2, FieldModuli, RemainderIs
  <2>4. field = SubSeq(StoreWord(value), 1, WordSize \div 2)
    BY <1>4, <2>3 DEF NewField
  <2>5. Denotes("ABS32", field, place) =
          LoadWord(field \o [k \in 1 .. WordSize \div 2 |-> ZeroByte])
    BY DEF Denotes
  <2>6. QED
    BY <1>4, <2>1, <2>2, <2>4, <2>5, HalfBytes DEF relocationWidth
<1>5. CASE r.type = "PCREL32"
  <2>1. value = Sub(target, place)
    BY <1>5 DEF relocatedValue
  <2> DEFINE h == value % HalfModulus
  <2>2. h \in 0 .. HalfModulus - 1 /\ SignExtended(h, HalfModulus) = value
    BY <1>1, <1>5, FieldModuli, SignedRemainder
  <2>3. field = SubSeq(StoreWord(h), 1, WordSize \div 2)
    BY <1>5 DEF NewField
  <2> HIDE DEF h, field
  <2>4. LoadWord(field \o [k \in 1 .. WordSize \div 2 |-> ZeroByte]) = h
        /\ field \in Seq(Byte) /\ Len(field) = WordSize \div 2
    BY <2>2, <2>3, HalfBytes
  <2>5. Denotes("PCREL32", field, place) = Add(place, SignExtended(h, HalfModulus))
    BY <2>4 DEF Denotes
  <2>6. Denotes("PCREL32", field, place) = target
    BY <1>2, <2>1, <2>2, <2>5, AddSub
  <2>7. QED
    BY <1>5, <2>4, <2>6 DEF relocationWidth, field
<1>6. CASE r.type = "ABS64"
  <2>1. value = target /\ field = StoreWord(value)
    BY <1>6 DEF relocatedValue, NewField
  <2>2. QED
    BY <1>1, <1>6, <2>1, WordBytes DEF Denotes, relocationWidth
<1>7. CASE r.type \in {"IMM48", "PCREL48"}
  <2> DEFINE new == WithImmediate(word, value)
             use == ImmediateUse(word)
  <2>1. field = StoreWord(new)
    BY <1>7 DEF NewField
  <2>2. word \in Word
    <3>1. FieldAt(data, r) = SubSeq(data, r.offset + 1, r.offset + WordSize)
          /\ r.offset + WordSize <= Len(data)
      BY <1>1, <1>7 DEF FieldAt, relocationWidth
    <3>2. FieldAt(data, r) \in Seq(Byte) /\ Len(FieldAt(data, r)) = WordSize
      BY <3>1, FieldBytes, WordTypes
    <3>3. FieldAt(data, r) \in [1 .. WordSize -> Byte]
      BY <3>2
    <3>4. QED
      BY <3>3, MemoryAssumption
  <2>3. use \in {"None", "Signed", "Unsigned"}
    BY <1>1, <1>7, <2>2, ObjectAssumption
  <2>4. /\ use = "None" => value = 0
        /\ use = "Unsigned" => value < ImmediateModulus
        /\ fitsSigned(value, ImmediateModulus)
    BY <1>1, <1>7, <2>3 DEF Encodes, fitsUnsigned
  <2>5. /\ new \in Word
        /\ new % ImmediateModulus = value % ImmediateModulus
        /\ use \in {"Signed", "Unsigned"} => ImmediateUse(new) = use
        /\ use = "None" => new = word
    BY <1>1, <2>2, <2>3, <2>4, ImmediateReplaced
  <2>6. SignExtended(value % ImmediateModulus, ImmediateModulus) = value
    BY <1>1, <2>4, FieldModuli, SignedRemainder
  <2>7. value < ImmediateModulus => value % ImmediateModulus = value
    <3> HIDE DEF value
    <3>1. SUFFICES ASSUME value < ImmediateModulus
                   PROVE  value % ImmediateModulus = value
      OBVIOUS
    <3>2. value = ImmediateModulus * 0 + value /\ value \in 0 .. ImmediateModulus - 1
      BY <1>3, <3>1, FieldModuli
    <3>3. QED
      BY <1>3, <3>2, FieldModuli, RemainderIs
  <2>8. (IF ImmediateUse(new) = "Signed"
         THEN SignExtended(new % ImmediateModulus, ImmediateModulus)
         ELSE new % ImmediateModulus) = value
    <3>1. CASE use = "Signed"
      BY <2>5, <2>6, <3>1
    <3>2. CASE use = "Unsigned"
      BY <2>4, <2>5, <2>7, <3>2
    <3>3. CASE use = "None"
      <4>1. value < ImmediateModulus /\ value = 0
        BY <2>4, <3>3, FieldModuli
      <4>2. ImmediateUse(new) = "None"
        BY <2>5, <3>3
      <4>3. QED
        BY <2>5, <2>7, <4>1, <4>2
    <3>4. QED
      BY <2>3, <3>1, <3>2, <3>3
  <2> HIDE DEF new, value
  <2>9. field \in Seq(Byte) /\ Len(field) = WordSize /\ LoadWord(field) = new
    BY <2>1, <2>5, WordBytes
  <2>10. CASE r.type = "IMM48"
    <3>1. Denotes("IMM48", field, place) = value
      BY <2>8, <2>9 DEF Denotes
    <3>2. value = target
      BY <2>10 DEF relocatedValue, value
    <3>3. QED
      BY <2>9, <2>10, <3>1, <3>2 DEF relocationWidth
  <2>11. CASE r.type = "PCREL48"
    <3>1. Denotes("PCREL48", field, place) = Add(Add(place, WordSize), value)
      BY <2>8, <2>9 DEF Denotes
    <3>2. value = Sub(target, Add(place, WordSize))
      BY <2>11 DEF relocatedValue, branchDisplacement, value
    <3>3. Add(place, WordSize) \in Word
      BY <1>2, WordArithmetic
    <3>4. Denotes("PCREL48", field, place) = target
      BY <1>2, <3>1, <3>2, <3>3, AddSub
    <3>5. QED
      BY <2>9, <2>11, <3>4 DEF relocationWidth
  <2>12. QED
    BY <1>7, <2>10, <2>11
<1>8. QED
  BY <1>4, <1>5, <1>6, <1>7 DEF RelocationType

\* applyRelocation() puts the bytes into the field and leaves all others alone.
LEMMA PatchedData ==
  ASSUME NEW data \in Seq(Byte), NEW base, NEW r, r.type \in RelocationType,
         r.offset \in Nat, r.addend \in Word, Add(base, r.offset) \in Word,
         NEW address \in Word, RelocationError(data, base, r, address) = "None",
         NEW new, new = applyRelocation(data, base, r, address)
  PROVE  /\ new \in Seq(Byte) /\ Len(new) = Len(data)
         /\ r.offset + relocationWidth(r.type) <= Len(data)
         /\ Denotes(r.type, FieldAt(new, r), Add(base, r.offset)) = Add(address, r.addend)
         /\ \A k \in 1 .. Len(data) :
              k \notin r.offset + 1 .. r.offset + relocationWidth(r.type)
                => new[k] = data[k]
<1> DEFINE width == relocationWidth(r.type)
<1>1. PICK field : field = NewField(data, base, r, address)
  OBVIOUS
<1>2. /\ field \in Seq(Byte) /\ Len(field) = width
      /\ Denotes(r.type, field, Add(base, r.offset)) = Add(address, r.addend)
  BY <1>1, NewFieldBytes
<1>3. width \in Nat /\ DOMAIN field = 1 .. width
  BY <1>2
<1>4. r.offset + width <= Len(data)
  BY DEF RelocationError, InBounds
<1>5. new = [k \in 1 .. Len(data) |->
               IF k - r.offset \in 1 .. width THEN field[k - r.offset] ELSE data[k]]
  BY <1>1, <1>3 DEF applyRelocation
<1> HIDE DEF width
<1>6. new \in Seq(Byte) /\ Len(new) = Len(data)
  <2>1. \A k \in 1 .. Len(data) :
          (IF k - r.offset \in 1 .. width THEN field[k - r.offset] ELSE data[k]) \in Byte
    BY <1>2, <1>3
  <2>2. QED
    BY <1>5, <2>1
<1>7. \A k \in 1 .. width : new[r.offset + k] = field[k]
  BY <1>3, <1>4, <1>5
<1>8. SubSeq(new, r.offset + 1, r.offset + width) = field
  BY <1>2, <1>3, <1>4, <1>6, <1>7, FieldIs
<1>9. \A k \in 1 .. Len(data) :
        k \notin r.offset + 1 .. r.offset + width => new[k] = data[k]
  BY <1>3, <1>5
<1>10. QED
  BY <1>2, <1>4, <1>6, <1>8, <1>9 DEF FieldAt, width

-----------------------------------------------------------------------------
(***************************************************************************)
(* The address of a symbol is what the symbol means.                       *)
(***************************************************************************)

\* Where a section went is an address.
LEMMA PlaceIsWord ==
  ASSUME LayoutInv, NEW o, NEW s, Placed(o, s)
  PROVE  /\ Base(placements[<<o, s>>].type) \in Word
         /\ Add(Base(placements[<<o, s>>].type), placements[<<o, s>>].offset) \in Word
<1>1. /\ placements[<<o, s>>].type \in RegionType
      /\ placements[<<o, s>>].offset \in Nat
      /\ objects[o].sections[s].size \in Nat
      /\ placements[<<o, s>>].offset + objects[o].sections[s].size
           <= regions[placements[<<o, s>>].type].size
  BY PlacedFacts
<1>2. /\ regions[placements[<<o, s>>].type].size \in Nat
      /\ regions[placements[<<o, s>>].type].size <= kRegionSize
  BY <1>1 DEF LayoutInv, LayoutTypes, RegionsFit
<1>3. placements[<<o, s>>].offset \in Word
  BY <1>1, <1>2, RegionConstants, WordTypes DEF Word
<1>4. Base(placements[<<o, s>>].type) \in Word
  BY <1>1, LinkerAssumption DEF Base, RegionType
<1>5. QED
  BY <1>3, <1>4, WordArithmetic

\* So is the address of a definition.
LEMMA DefinitionIsWord ==
  ASSUME LayoutInv, Resolution, NEW o \in DOMAIN objects,
         NEW i \in DOMAIN objects[o].symbols, objects[o].symbols[i].defined,
         Resolved(o, i)
  PROVE  AddressIn(o, i) \in Word
<1>1. Placed(o, objects[o].symbols[i].section)
  BY DEF Resolution, Entered
<1>2. objects[o].symbols[i].value \in Word
  BY SymbolFacts DEF LayoutInv, LayoutTypes
<1>3. QED
  BY <1>1, <1>2, PlaceIsWord, WordArithmetic DEF AddressIn, addressOf

LEMMA TableIsWord ==
  ASSUME LayoutInv, Resolution, NEW name \in DOMAIN definitions
  PROVE  definitions[name].address \in Word
<1>1. CASE HasStrong(name)
  <2>1. PICK o \in DOMAIN objects : \E i \in DOMAIN objects[o].symbols :
          /\ Seen(o, i, name, "Global")
          /\ definitions[name] = [address |-> AddressIn(o, i), binding |-> "Global"]
    BY <1>1 DEF HasStrong
  <2>2. QED
    BY <2>1, DefinitionIsWord DEF Seen, Defines
<1>2. CASE HasWeak(name)
  <2>1. PICK o \in DOMAIN objects : \E i \in DOMAIN objects[o].symbols :
          /\ Seen(o, i, name, "Weak")
          /\ definitions[name] = [address |-> AddressIn(o, i), binding |-> "Weak"]
    BY <1>2 DEF HasWeak
  <2>2. QED
    BY <2>1, DefinitionIsWord DEF Seen, Defines
<1>3. CASE HasNothing(name)
  BY <1>3, WordTypes DEF HasNothing, Word
<1>4. QED
  BY <1>1, <1>2, <1>3 DEF Resolution

\* Once the references were checked, a symbol's address is its meaning.
LEMMA SymbolMeaning ==
  ASSUME LayoutInv, ResolutionInv, ReferencesInv, stage \in StagesAfter("references"),
         NEW o \in DOMAIN objects, NEW i \in DOMAIN objects[o].symbols
  PROVE  /\ SymbolAddress(o, objects[o].symbols[i]) \in Word
         /\ SymbolAddress(o, objects[o].symbols[i]) = Meaning(o, objects[o].symbols[i])
<1>1. stage \in AfterResolve /\ stage # "failed"
  BY DEF StagesAfter, AfterResolve
<1>2. Resolution /\ References
  BY <1>1 DEF ResolutionInv, ReferencesInv
<1>3. Resolved(o, i) /\ Entered(o, i) /\ Known(objects[o].symbols[i])
  BY <1>1, <1>2 DEF Resolved, Resolution, References, Through
<1>4. CASE objects[o].symbols[i].defined /\ objects[o].symbols[i].binding = "Local"
  BY <1>2, <1>3, <1>4, DefinitionIsWord DEF SymbolAddress, Meaning, AddressIn
<1>5. CASE ~(objects[o].symbols[i].defined /\ objects[o].symbols[i].binding = "Local")
  <2>1. objects[o].symbols[i].name \in DOMAIN definitions
    BY <1>3, <1>5 DEF Known, Entered
  <2>2. definitions[objects[o].symbols[i].name].address
          = SharedMeaning(objects[o].symbols[i].name)
    BY <1>1, <2>1, NameIsRight
  <2>3. QED
    BY <1>2, <1>5, <2>1, <2>2, TableIsWord DEF SymbolAddress, Meaning
<1>6. QED
  BY <1>4, <1>5

-----------------------------------------------------------------------------
(***************************************************************************)
(* The bytes of the regions.                                               *)
(***************************************************************************)

\* Sections are placed one by one, each once.
PlacedSoFar ==
  /\ stage = "begin" => DOMAIN placements = {}
  /\ stage = "merge" => \A p \in DOMAIN placements : Reached(p[1], p[2])

\* The n-th byte of a section in memory.
SectionByte(p, n) ==
  IF n <= Len(SectionOf(p).data) THEN SectionOf(p).data[n] ELSE ZeroByte

\* A byte of a region is that of the section placed there, or zero.
Laid(type, k) ==
  /\ (\A p \in Contributions(type) : k \notin Occupied(p))
       => regions[type].data[k] = ZeroByte
  /\ \A p \in Contributions(type) :
       k \in Occupied(p) =>
         regions[type].data[k] = SectionByte(p, k - placements[p].offset)

\* A relocation that was applied went over the byte.
PatchedYet(type, k) ==
  \E o \in DOMAIN objects : \E i \in DOMAIN objects[o].relocations :
    /\ Through("relocate", o, i)
    /\ placements[<<o, objects[o].relocations[i].section>>].type = type
    /\ k \in FieldRange(o, objects[o].relocations[i])

RegionBytes(type) ==
  /\ Len(regions[type].data) = regions[type].size
  /\ \A k \in 1 .. regions[type].size : PatchedYet(type, k) \/ Laid(type, k)

Bytes ==
  /\ PlacedSoFar
  /\ \A type \in RegionType : regions[type].data \in Seq(Byte)
  /\ regions["Bss"].data = <<>>
  /\ \A type \in RegionType \ {"Bss"} : RegionBytes(type)

BytesInv == stage # "failed" => Bytes

\* What was gone through stays so.
LEMMA ThroughKept ==
  ASSUME LayoutInv, AtStart, [Next]_vars, stage' # "failed", NEW s \in LateStage,
         NEW o \in DOMAIN objects, NEW i \in DOMAIN ItemsOf(s, o), Through(s, o, i)
  PROVE  Through(s, o, i)'
<1>1. CASE stage = s /\ HasItem /\ o = at.object /\ i = at.item /\ Onwards
  <2>1. at.object \in Nat /\ at.item \in Nat
    BY DEF LayoutInv, LayoutTypes
  <2>2. ~Reached(o, i)
    BY <1>1, <2>1 DEF Reached
  <2>3. stage \notin StagesAfter(s)
    BY <1>1 DEF StagesAfter, LateStage
  <2>4. QED
    BY <2>2, <2>3 DEF Through
<1>2. QED
  BY <1>1, ThroughStep

\* A relocation and its field, which lies in the section.
LEMMA RelocationFacts ==
  ASSUME objects \in CommandLines,
         NEW o \in DOMAIN objects, NEW i \in DOMAIN objects[o].relocations
  PROVE  LET r == objects[o].relocations[i] IN
         /\ r \in Relocation
         /\ r.type \in RelocationType /\ r.offset \in Nat /\ r.addend \in Word
         /\ r.section \in DOMAIN objects[o].sections
         /\ r.symbol \in DOMAIN objects[o].symbols
         /\ relocationWidth(r.type) \in Nat /\ relocationWidth(r.type) > 0
         /\ r.offset + relocationWidth(r.type) <= objects[o].sections[r.section].size
<1>1. objects[o] \in Object /\ Readable(objects[o])
  BY CommandLineFacts
<1>2. objects[o].relocations \in Seq(Relocation)
  BY <1>1, TableFacts
<1>3. objects[o].relocations[i] \in Relocation
  BY <1>2
<1>4. ReadsRelocation(objects[o], objects[o].relocations[i])
  BY <1>1 DEF Readable
<1> DEFINE r == objects[o].relocations[i]
<1>5. /\ r.type \in RelocationType /\ r.offset \in Nat /\ r.addend \in Word
      /\ r.section \in DOMAIN objects[o].sections
      /\ r.symbol \in DOMAIN objects[o].symbols
  BY <1>3, <1>4, WordTypes DEF Relocation, ReadsRelocation, Word
<1>6. /\ objects[o].sections[r.section].size \in Nat
      /\ objects[o].sections[r.section].data \in Seq(Byte)
      /\ Len(objects[o].sections[r.section].data) <= objects[o].sections[r.section].size
  BY <1>1, <1>5, SectionFacts
<1>7. relocationWidth(r.type) \in Nat /\ relocationWidth(r.type) > 0
  BY WordTypes, ObjectAssumption DEF relocationWidth
<1>8. r.offset + relocationWidth(r.type) <= Len(objects[o].sections[r.section].data)
  BY <1>4 DEF ReadsRelocation
<1>9. r.offset + relocationWidth(r.type) <= objects[o].sections[r.section].size
  <2> HIDE DEF r
  <2>1. Len(objects[o].sections[r.section].data) \in Nat
    BY <1>6
  <2>2. QED
    BY <1>5, <1>6, <1>7, <1>8, <2>1
<1>10. QED
  BY <1>3, <1>5, <1>7, <1>9

\* Where the field of a relocation is when its section was placed.
LEMMA FieldFacts ==
  ASSUME LayoutInv, NEW o \in DOMAIN objects, NEW i \in DOMAIN objects[o].relocations,
         NEW r, r = objects[o].relocations[i], Placed(o, r.section),
         NEW type, type = placements[<<o, r.section>>].type
  PROVE  /\ FieldPlace(o, r) \in Nat
         /\ FieldPlace(o, r) = placements[<<o, r.section>>].offset + r.offset
         /\ FieldPlace(o, r) + relocationWidth(r.type) <= regions[type].size
         /\ FieldPlace(o, r) + relocationWidth(r.type)
              <= placements[<<o, r.section>>].offset + objects[o].sections[r.section].size
         /\ Add(Base(type), FieldPlace(o, r)) \in Word
         /\ type \in RegionType
<1>1. /\ r.offset \in Nat /\ relocationWidth(r.type) \in Nat
      /\ r.offset + relocationWidth(r.type) <= objects[o].sections[r.section].size
  BY RelocationFacts DEF LayoutInv, LayoutTypes
<1>2. /\ type \in RegionType /\ placements[<<o, r.section>>].offset \in Nat
      /\ objects[o].sections[r.section].size \in Nat
      /\ placements[<<o, r.section>>].offset + objects[o].sections[r.section].size
           <= regions[type].size
  BY PlacedFacts
<1>3. regions[type].size \in Nat /\ regions[type].size <= kRegionSize
  BY <1>2 DEF LayoutInv, LayoutTypes, RegionsFit
<1>4. /\ FieldPlace(o, r) \in Nat
      /\ FieldPlace(o, r) + relocationWidth(r.type) <= regions[type].size
      /\ FieldPlace(o, r) + relocationWidth(r.type)
           <= placements[<<o, r.section>>].offset + objects[o].sections[r.section].size
  BY <1>1, <1>2, <1>3 DEF FieldPlace
<1>5. FieldPlace(o, r) \in Word
  BY <1>1, <1>3, <1>4, RegionConstants, WordTypes DEF Word
<1>6. Base(type) \in Word
  BY PlaceIsWord
<1>7. QED
  BY <1>2, <1>4, <1>5, <1>6, WordArithmetic DEF FieldPlace

\* A step of applyRelocations(): the field of the i-th relocation of object o,
\* in the region of the type, is patched and nothing else changes.
Applied(o, i, r, type) ==
  /\ o \in DOMAIN objects /\ i \in DOMAIN objects[o].relocations
  /\ stage = "relocate" /\ HasItem /\ Onwards
  /\ placements' = placements /\ objects' = objects
  /\ Patchable(o, r) /\ type \in RegionType \ {"Bss"}
  /\ \A t \in RegionType : regions'[t].size = regions[t].size
  /\ \A t \in RegionType \ {type} : regions'[t].data = regions[t].data
  /\ regions'[type].data \in Seq(Byte)
  /\ Len(regions'[type].data) = Len(regions[type].data)
  /\ \A k \in 1 .. Len(regions[type].data) :
       k \notin FieldRange(o, r) => regions'[type].data[k] = regions[type].data[k]
  /\ Denotes(r.type,
             SubSeq(regions'[type].data, FieldPlace(o, r) + 1,
                    FieldPlace(o, r) + relocationWidth(r.type)),
             Add(Base(type), FieldPlace(o, r)))
       = Add(Meaning(o, objects[o].symbols[r.symbol]), r.addend)

LEMMA RelocationApplied ==
  ASSUME LayoutInv, ResolutionInv, ReferencesInv, BytesInv, Relocate, stage' # "failed",
         NEW o, o = at.object, NEW i, i = at.item,
         NEW r, r = objects[o].relocations[i],
         NEW type, type = placements[<<o, r.section>>].type
  PROVE  Applied(o, i, r, type)
<1>1. stage = "relocate" /\ HasItem /\ Item = r /\ ThisObject = objects[o]
  BY DEF Relocate, Item, Items, ThisObject
<1>2. o \in DOMAIN objects /\ i \in DOMAIN objects[o].relocations
  BY <1>1, ItemFacts DEF LayoutInv, ThisObject
<1>3. /\ r \in Relocation /\ r.type \in RelocationType /\ r.addend \in Word
      /\ r.symbol \in DOMAIN objects[o].symbols
  BY <1>2, RelocationFacts DEF LayoutInv, LayoutTypes
<1> DEFINE sym == objects[o].symbols[r.symbol]
<1>4. PICK address : address = SymbolAddress(o, sym)
  OBVIOUS
<1>5. address \in Word /\ address = Meaning(o, sym)
  BY <1>1, <1>2, <1>3, <1>4, SymbolMeaning DEF StagesAfter
<1>6. PICK merged : merged = Shifted(o, r)
  OBVIOUS
<1>7. PICK data : data = regions[type].data
  OBVIOUS
<1>8. /\ Patchable(o, r) /\ RelocationError(data, Base(type), merged, address) = "None"
      /\ regions' = [regions EXCEPT ![type].data =
                       applyRelocation(data, Base(type), merged, address)]
      /\ Onwards /\ placements' = placements
  BY <1>1, <1>4, <1>6, <1>7 DEF Relocate, Fail, tables
<1>9. objects' = objects
  BY <1>8 DEF Onwards
<1>10. /\ merged.type = r.type /\ merged.addend = r.addend
       /\ merged.offset = FieldPlace(o, r)
  BY <1>3, <1>6 DEF Shifted, FieldPlace, Relocation
<1>11. Placed(o, r.section) /\ type # "Bss"
  BY <1>8 DEF Patchable
<1>12. /\ type \in RegionType \ {"Bss"} /\ FieldPlace(o, r) \in Nat
       /\ Add(Base(type), FieldPlace(o, r)) \in Word
  BY <1>2, <1>11, FieldFacts
<1>13. data \in Seq(Byte)
  BY <1>1, <1>7, <1>12 DEF BytesInv, Bytes
<1>14. PICK new : new = applyRelocation(data, Base(type), merged, address)
  OBVIOUS
<1>15. /\ new \in Seq(Byte) /\ Len(new) = Len(data)
       /\ Denotes(r.type, FieldAt(new, merged), Add(Base(type), merged.offset))
            = Add(address, merged.addend)
       /\ \A k \in 1 .. Len(data) :
            k \notin merged.offset + 1 .. merged.offset + relocationWidth(r.type)
              => new[k] = data[k]
  <2>1. PICK base : base = Base(type)
    OBVIOUS
  <2>2. /\ merged.type \in RelocationType /\ merged.offset \in Nat
        /\ merged.addend \in Word /\ Add(base, merged.offset) \in Word
        /\ RelocationError(data, base, merged, address) = "None"
        /\ new = applyRelocation(data, base, merged, address)
    BY <1>3, <1>8, <1>10, <1>12, <1>14, <2>1
  <2>3. /\ new \in Seq(Byte) /\ Len(new) = Len(data)
        /\ Denotes(merged.type, FieldAt(new, merged), Add(base, merged.offset))
             = Add(address, merged.addend)
        /\ \A k \in 1 .. Len(data) :
             k \notin merged.offset + 1 .. merged.offset + relocationWidth(merged.type)
               => new[k] = data[k]
    <3>1. data \in Seq(Byte) /\ address \in Word
      BY <1>5, <1>13
    <3>2. new \in Seq(Byte)
      BY <3>1, <2>2, PatchedData
    <3>3. Len(new) = Len(data)
      BY <3>1, <2>2, PatchedData
    <3>4. Denotes(merged.type, FieldAt(new, merged), Add(base, merged.offset))
             = Add(address, merged.addend)
      BY <3>1, <2>2, PatchedData
    <3>5. QED
      BY <3>1, <2>2, <3>2, <3>3, <3>4, PatchedData
  <2>4. QED
    BY <1>10, <2>1, <2>3
<1>16. /\ DOMAIN regions = RegionType
       /\ \A t \in RegionType : DOMAIN regions[t] = {"size", "data"}
  BY DEF LayoutInv, LayoutTypes, RegionsFit
<1>17. /\ \A t \in RegionType : regions'[t].size = regions[t].size
       /\ \A t \in RegionType \ {type} : regions'[t].data = regions[t].data
       /\ regions'[type].data = new
  BY <1>8, <1>12, <1>14, <1>16
<1>18. FieldAt(new, merged) = SubSeq(new, FieldPlace(o, r) + 1,
                                     FieldPlace(o, r) + relocationWidth(r.type))
  BY <1>10 DEF FieldAt
<1>19. \A k \in 1 .. Len(data) : k \notin FieldRange(o, r) => new[k] = data[k]
  BY <1>10, <1>15 DEF FieldRange
<1>20. Denotes(r.type,
               SubSeq(new, FieldPlace(o, r) + 1,
                      FieldPlace(o, r) + relocationWidth(r.type)),
               Add(Base(type), FieldPlace(o, r)))
         = Add(Meaning(o, sym), r.addend)
  BY <1>5, <1>10, <1>15, <1>18
<1> HIDE DEF sym
<1>21. /\ regions'[type].data \in Seq(Byte)
       /\ Len(regions'[type].data) = Len(regions[type].data)
       /\ \A k \in 1 .. Len(regions[type].data) :
            k \notin FieldRange(o, r) => regions'[type].data[k] = regions[type].data[k]
  BY <1>7, <1>15, <1>17, <1>19
<1>22. QED
  BY <1>1, <1>2, <1>8, <1>9, <1>12, <1>17, <1>20, <1>21, Zenon DEF sym, Applied

LEMMA BytesInit == Init => Bytes
<1> SUFFICES ASSUME Init PROVE Bytes
  OBVIOUS
<1>1. \A type \in RegionType : regions[type].size = 0 /\ regions[type].data = <<>>
  BY DEF Init
<1>2. PlacedSoFar
  BY DEF Init, PlacedSoFar
<1>3. \A type \in RegionType : regions[type].data \in Seq(Byte)
  <2>1. <<>> \in Seq(Byte)
    OBVIOUS
  <2>2. QED
    BY <1>1, <2>1
<1>4. ASSUME NEW type \in RegionType PROVE RegionBytes(type)
  <2>1. Len(regions[type].data) = 0 /\ regions[type].size = 0
    BY <1>1
  <2>2. QED
    BY <2>1 DEF RegionBytes
<1>5. QED
  BY <1>1, <1>2, <1>3, <1>4 DEF Bytes, RegionType

\* A step that leaves regions and placements as they are.
LEMMA BytesKept ==
  ASSUME LayoutInv, AtStart, Bytes, [Next]_vars, stage' # "failed",
         UNCHANGED <<objects, regions, placements>>, PlacedSoFar'
  PROVE  Bytes'
<1>1. ASSUME NEW type, NEW k, PatchedYet(type, k) PROVE PatchedYet(type, k)'
  <2>1. PICK o \in DOMAIN objects : \E i \in DOMAIN objects[o].relocations :
          /\ Through("relocate", o, i)
          /\ placements[<<o, objects[o].relocations[i].section>>].type = type
          /\ k \in FieldRange(o, objects[o].relocations[i])
    BY <1>1 DEF PatchedYet
  <2>2. PICK i \in DOMAIN objects[o].relocations :
          /\ Through("relocate", o, i)
          /\ placements[<<o, objects[o].relocations[i].section>>].type = type
          /\ k \in FieldRange(o, objects[o].relocations[i])
    BY <2>1
  <2>3. Through("relocate", o, i)'
    BY <2>2, ThroughKept DEF ItemsOf, LateStage
  <2>4. QED
    BY <2>2, <2>3 DEF PatchedYet, FieldRange, FieldPlace
<1>2. ASSUME NEW type, NEW k, Laid(type, k) PROVE Laid(type, k)'
  BY <1>2 DEF Laid, Contributions, Occupied, SectionByte, SectionOf
<1>3. ASSUME NEW type \in RegionType \ {"Bss"} PROVE RegionBytes(type)'
  BY <1>1, <1>2 DEF Bytes, RegionBytes
<1>4. QED
  BY <1>3 DEF Bytes

\* The bytes of a region to which a section was appended.
BytesAfter(new, data, offset, section) ==
  /\ new \in Seq(Byte) /\ Len(new) = offset + section.size
  /\ \A k \in 1 .. Len(data) : new[k] = data[k]
  /\ \A k \in 1 .. offset + section.size :
       k > Len(data) /\ k <= offset => new[k] = ZeroByte
  /\ \A k \in 1 .. offset + section.size :
       k > offset =>
         new[k] = IF k - offset <= Len(section.data)
                  THEN section.data[k - offset] ELSE ZeroByte

LEMMA AppendedBytes ==
  ASSUME NEW data \in Seq(Byte), NEW offset \in Nat, Len(data) <= offset,
         NEW section, section.data \in Seq(Byte), section.size \in Nat,
         NEW new, new = Appended(data, offset, section)
  PROVE  BytesAfter(new, data, offset, section)
<1>1. new = [k \in 1 .. offset + section.size |->
               IF k <= Len(data) THEN data[k]
               ELSE IF k - offset \in DOMAIN section.data THEN section.data[k - offset]
               ELSE ZeroByte]
  BY DEF Appended
<1>2. DOMAIN section.data = 1 .. Len(section.data) /\ Len(section.data) \in Nat
      /\ Len(data) \in Nat /\ ZeroByte \in Byte
  BY MemoryAssumption
<1>3. \A k \in 1 .. offset + section.size :
        (IF k <= Len(data) THEN data[k]
         ELSE IF k - offset \in DOMAIN section.data THEN section.data[k - offset]
         ELSE ZeroByte) \in Byte
  BY <1>2
<1>4. new \in Seq(Byte) /\ Len(new) = offset + section.size
  <2>1. PICK n : n = offset + section.size
    OBVIOUS
  <2>2. n \in Nat
    BY <2>1
  <2>3. new \in [1 .. n -> Byte]
    BY <1>1, <1>3, <2>1
  <2>4. new \in Seq(Byte) /\ Len(new) = n
    BY <2>2, <2>3
  <2>5. QED
    BY <2>1, <2>4
<1>5. \A k \in 1 .. Len(data) : new[k] = data[k]
  BY <1>1, <1>2
<1>6. ASSUME NEW k \in 1 .. offset + section.size, k > Len(data)
      PROVE  /\ k <= offset => new[k] = ZeroByte
             /\ k > offset =>
                  new[k] = IF k - offset <= Len(section.data)
                           THEN section.data[k - offset] ELSE ZeroByte
  <2>1. k \in Nat /\ ~(k <= Len(data))
    BY <1>2, <1>6
  <2>2. new[k] = IF k - offset \in DOMAIN section.data THEN section.data[k - offset]
                 ELSE ZeroByte
    BY <1>1, <2>1
  <2>3. /\ k <= offset => k - offset \notin DOMAIN section.data
        /\ k > offset => (k - offset \in DOMAIN section.data <=>
                            k - offset <= Len(section.data))
    BY <1>2, <2>1
  <2>4. QED
    BY <2>2, <2>3
<1>7. \A k \in 1 .. offset + section.size : k > offset => k > Len(data)
  BY <1>2
<1>8. QED
  BY <1>4, <1>5, <1>6, <1>7 DEF BytesAfter

\* The bytes that a contribution takes up lie in its region.
LEMMA OccupiedFacts ==
  ASSUME LayoutInv, NEW p \in DOMAIN placements
  PROVE  /\ placements[p].type \in RegionType
         /\ placements[p].offset \in Nat /\ SectionOf(p).size \in Nat
         /\ regions[placements[p].type].size \in Nat
         /\ Occupied(p) = placements[p].offset + 1 .. placements[p].offset + SectionOf(p).size
         /\ \A k \in Occupied(p) : k \in Nat /\ k <= regions[placements[p].type].size
<1>1. PlacementFits(p)
  BY DEF LayoutInv, Layout
<1>2. SectionOf(p).size \in Nat
  BY <1>1, CommandLineFacts, SectionFacts
  DEF LayoutInv, LayoutTypes, PlacementFits, SectionOf
<1>3. /\ placements[p].type \in RegionType
      /\ placements[p].offset \in Nat
      /\ placements[p].offset + SectionOf(p).size <= regions[placements[p].type].size
  BY <1>1 DEF PlacementFits
<1>4. regions[placements[p].type].size \in Nat
  BY <1>3 DEF LayoutInv, LayoutTypes, RegionsFit
<1>5. Occupied(p) = placements[p].offset + 1 .. placements[p].offset + SectionOf(p).size
  BY DEF Occupied, SectionOf
<1>6. QED
  BY <1>2, <1>3, <1>4, <1>5

\* mergeSections() puts the bytes of a section into its region.
LEMMA BytesMerged ==
  ASSUME LayoutInv, Bytes, stage = "merge", HasItem, NEW section, section = Item,
         NEW here, here = <<at.object, at.item>>,
         NEW offset, offset = alignUp(regions[section.type].size, section.alignment),
         NEW data, data = IF section.type = "Bss" THEN <<>>
                          ELSE Appended(regions[section.type].data, offset, section),
         section.type # "Null", ~Outgrows(offset, section.size),
         regions' = [regions EXCEPT ![section.type] =
                       [size |-> offset + section.size, data |-> data]],
         placements' = With(placements, here,
                            [type |-> section.type, offset |-> offset]),
         Onwards
  PROVE  Bytes'
<1>1. /\ objects' = objects /\ stage' = stage /\ LayoutTypes
      /\ here[1] \in DOMAIN objects /\ here[2] \in DOMAIN objects[here[1]].sections
      /\ section = SectionOf(here)
  BY ItemFacts DEF Onwards, LayoutInv, Item, Items, ThisObject, SectionOf
<1>2. /\ section.type \in RegionType /\ section.size \in Nat
      /\ section.alignment \in Word /\ section.alignment # 0
      /\ section.data \in Seq(Byte)
  <2>1. objects[here[1]] \in Object /\ Readable(objects[here[1]])
    BY <1>1, CommandLineFacts DEF LayoutTypes
  <2>2. section.type \in SectionType
    BY <1>1, <2>1, SectionFacts DEF SectionOf
  <2>3. QED
    BY <1>1, <2>1, <2>2, SectionFacts DEF SectionOf, SectionType, RegionType
<1>3. PICK type : type = section.type
  OBVIOUS
<1>4. /\ DOMAIN regions = RegionType
      /\ regions[type].size \in Nat /\ regions[type].size <= kRegionSize
  BY <1>1, <1>2, <1>3 DEF LayoutTypes, RegionsFit
<1>5. offset \in Nat /\ offset >= regions[type].size
  BY <1>2, <1>3, <1>4, AlignedUp
<1>6. /\ regions'[type].size = offset + section.size /\ regions'[type].data = data
      /\ \A t \in RegionType : t # type => regions'[t] = regions[t]
  BY <1>2, <1>3, <1>4
<1>7. /\ DOMAIN placements' = DOMAIN placements \cup {here}
      /\ placements'[here].type = type /\ placements'[here].offset = offset
      /\ \A p \in DOMAIN placements : p # here => placements'[p] = placements[p]
  BY <1>3 DEF With
<1>8. ASSUME NEW p \in DOMAIN placements
      PROVE  p # here /\ Reached(p[1], p[2])'
  <2>1. Reached(p[1], p[2])
    BY DEF Bytes, PlacedSoFar
  <2>2. p[1] \in Nat /\ p[2] \in Nat
    <3>1. p[1] \in DOMAIN objects /\ p[2] \in DOMAIN objects[p[1]].sections
      BY DEF LayoutInv, Layout, PlacementFits
    <3>2. objects[p[1]].sections \in Seq(ObjectSection)
      BY <1>1, <3>1, CommandLineFacts, TableFacts DEF LayoutTypes
    <3>3. QED
      BY <1>1, <3>1, <3>2, CommandLineFacts DEF LayoutTypes
  <2>3. Reached(p[1], p[2])' /\ ~Reached(at.object, at.item)
    BY <1>1, <2>1, <2>2, ReachedOnwards
  <2>4. QED
    BY <2>1, <2>3
<1>9. PlacedSoFar'
  <2>1. Reached(here[1], here[2])'
    <3>1. at.object \in Nat /\ at.item \in Nat
      BY <1>1 DEF LayoutTypes
    <3>2. QED
      BY <1>1, <3>1 DEF Reached, Onwards, LayoutTypes
  <2>2. stage' = "merge"
    BY <1>1
  <2>3. QED
    BY <1>7, <1>8, <2>1, <2>2 DEF PlacedSoFar
<1>10. ASSUME NEW p \in DOMAIN placements
       PROVE  /\ placements'[p] = placements[p] /\ Occupied(p)' = Occupied(p)
              /\ \A n : SectionByte(p, n)' = SectionByte(p, n)
  BY <1>1, <1>7, <1>8 DEF Occupied, SectionByte, SectionOf
<1>11. ASSUME NEW t, NEW k PROVE ~PatchedYet(t, k)
  BY DEF PatchedYet, Through, StagesAfter
<1>12. ASSUME NEW t \in RegionType \ {"Bss"}, t # type
       PROVE  RegionBytes(t)'
  <2>1. RegionBytes(t) /\ regions'[t] = regions[t]
    BY <1>6, <1>12 DEF Bytes
  <2>2. Contributions(t)' = Contributions(t)
    BY <1>7, <1>8, <1>12 DEF Contributions
  <2>3. ASSUME NEW k, Laid(t, k) PROVE Laid(t, k)'
    BY <1>10, <2>1, <2>2, <2>3 DEF Laid, Contributions
  <2>4. QED
    BY <1>11, <2>1, <2>3 DEF RegionBytes
<1>13. ASSUME type # "Bss"
       PROVE  RegionBytes(type)' /\ data \in Seq(Byte)
  <2>1. PICK old : old = regions[type].data
    OBVIOUS
  <2>2. /\ RegionBytes(type) /\ old \in Seq(Byte)
    BY <1>2, <1>3, <1>13, <2>1 DEF Bytes
  <2>3. Len(old) = regions[type].size /\ data = Appended(old, offset, section)
    BY <1>3, <1>13, <2>1, <2>2 DEF RegionBytes
  <2>4. Len(old) <= offset
    BY <1>4, <1>5, <2>3
  <2>5. /\ data \in Seq(Byte) /\ Len(data) = offset + section.size
        /\ \A k \in 1 .. Len(old) : data[k] = old[k]
        /\ \A k \in 1 .. offset + section.size :
             k > Len(old) /\ k <= offset => data[k] = ZeroByte
        /\ \A k \in 1 .. offset + section.size :
             k > offset =>
               data[k] = IF k - offset <= Len(section.data)
                         THEN section.data[k - offset] ELSE ZeroByte
    <3>1. BytesAfter(data, old, offset, section)
      BY <1>2, <1>5, <2>2, <2>3, <2>4, AppendedBytes
    <3>2. QED
      BY <3>1 DEF BytesAfter
  <2>6. Contributions(type)' = Contributions(type) \cup {here}
    BY <1>7, <1>8 DEF Contributions
  <2>7. Occupied(here)' = offset + 1 .. offset + section.size
    BY <1>1, <1>7 DEF Occupied, SectionOf
  <2>8. ASSUME NEW p \in Contributions(type), NEW k \in Occupied(p)
        PROVE  k \in Nat /\ k <= Len(old)
    BY <2>3, <2>8, OccupiedFacts DEF Contributions
  <2>9. \A n : SectionByte(here, n)' =
                 IF n <= Len(section.data) THEN section.data[n] ELSE ZeroByte
    BY <1>1 DEF SectionByte, SectionOf
  <2>10. ASSUME NEW k \in 1 .. offset + section.size PROVE Laid(type, k)'
    <3>1. k \in Nat /\ Len(old) \in Nat
      BY <2>2, <1>2, <1>5
    <3>2. CASE k <= Len(old)
      <4>1. Laid(type, k)
        BY <1>11, <2>2, <2>3, <3>1, <3>2 DEF RegionBytes
      <4>2. k \notin Occupied(here)' /\ data[k] = old[k]
        BY <1>2, <1>5, <2>4, <2>5, <2>7, <3>1, <3>2, SMTT(30)
      <4>3. QED
        BY <1>6, <1>10, <2>1, <2>6, <4>1, <4>2 DEF Laid, Contributions
    <3>3. CASE k > Len(old) /\ k <= offset
      <4>1. k \notin Occupied(here)' /\ data[k] = ZeroByte
        BY <1>2, <1>5, <2>5, <2>7, <3>1, <3>3, SMTT(30)
      <4>2. \A p \in Contributions(type) : k \notin Occupied(p)
        BY <2>8, <3>1, <3>3
      <4>3. QED
        BY <1>6, <1>10, <2>6, <4>1, <4>2 DEF Laid, Contributions
    <3>4. CASE k > offset
      <4>1. /\ k \in Occupied(here)'
            /\ data[k] = IF k - offset <= Len(section.data)
                         THEN section.data[k - offset] ELSE ZeroByte
        BY <1>2, <1>5, <2>5, <2>7, <3>1, <3>4, SMTT(30)
      <4>2. \A p \in Contributions(type) : k \notin Occupied(p)
        BY <1>5, <2>4, <2>8, <3>1, <3>4
      <4>3. data[k] = SectionByte(here, k - offset)'
        BY <2>9, <4>1
      <4>4. regions'[type].data[k] = SectionByte(here, k - placements[here].offset)'
        BY <1>6, <1>7, <4>3
      <4>5. \A p \in Contributions(type)' : k \in Occupied(p)' => p = here
        BY <1>10, <2>6, <4>2 DEF Contributions
      <4>6. here \in Contributions(type)'
        BY <2>6
      <4>7. QED
        BY <4>1, <4>4, <4>5, <4>6 DEF Laid
    <3>5. QED
      BY <1>5, <3>1, <3>2, <3>3, <3>4
  <2>11. QED
    BY <1>6, <2>5, <2>10 DEF RegionBytes
<1>14. \A t \in RegionType : regions'[t].data \in Seq(Byte)
  <2>1. ASSUME NEW t \in RegionType, t # type PROVE regions'[t].data \in Seq(Byte)
    BY <1>6, <2>1 DEF Bytes
  <2>2. data \in Seq(Byte)
    <3>1. CASE type = "Bss"
      <4>1. <<>> \in Seq(Byte)
        OBVIOUS
      <4>2. QED
        BY <1>3, <3>1, <4>1
    <3>2. QED
      BY <1>13, <3>1
  <2>3. QED
    BY <1>6, <2>1, <2>2
<1>15. regions'["Bss"].data = <<>>
  <2>1. CASE type = "Bss"
    BY <1>3, <1>6, <2>1
  <2>2. CASE type # "Bss"
    BY <1>6, <2>2 DEF Bytes, RegionType
  <2>3. QED
    BY <2>1, <2>2
<1>16. QED
  BY <1>9, <1>12, <1>13, <1>14, <1>15 DEF Bytes

\* applyRelocations() changes bytes of one field only.
LEMMA BytesPatched ==
  ASSUME LayoutInv, ResolutionInv, ReferencesInv, BytesInv, Relocate, stage' # "failed"
  PROVE  Bytes'
<1>1. PICK o : o = at.object
  OBVIOUS
<1>2. PICK i : i = at.item
  OBVIOUS
<1>3. PICK r : r = objects[o].relocations[i]
  OBVIOUS
<1>4. PICK type : type = placements[<<o, r.section>>].type
  OBVIOUS
<1>5. /\ o \in DOMAIN objects /\ i \in DOMAIN objects[o].relocations
      /\ stage = "relocate" /\ HasItem /\ Onwards
      /\ placements' = placements /\ objects' = objects
      /\ Patchable(o, r) /\ type \in RegionType \ {"Bss"}
      /\ \A t \in RegionType : regions'[t].size = regions[t].size
      /\ \A t \in RegionType \ {type} : regions'[t].data = regions[t].data
      /\ regions'[type].data \in Seq(Byte)
      /\ Len(regions'[type].data) = Len(regions[type].data)
      /\ \A k \in 1 .. Len(regions[type].data) :
           k \notin FieldRange(o, r) => regions'[type].data[k] = regions[type].data[k]
  <2>1. Applied(o, i, r, type)
    BY <1>1, <1>2, <1>3, <1>4, RelocationApplied
  <2>2. QED
    BY <2>1 DEF Applied
<1>6. Bytes /\ AtStart /\ stage' = "relocate" /\ [Next]_vars
  BY <1>5 DEF BytesInv, ReferencesInv, Onwards, Next
<1>7. PlacedSoFar'
  BY <1>6 DEF PlacedSoFar
<1>8. ASSUME NEW t, NEW k, PatchedYet(t, k) PROVE PatchedYet(t, k)'
  <2>1. PICK p \in DOMAIN objects : \E j \in DOMAIN objects[p].relocations :
          /\ Through("relocate", p, j)
          /\ placements[<<p, objects[p].relocations[j].section>>].type = t
          /\ k \in FieldRange(p, objects[p].relocations[j])
    BY <1>8 DEF PatchedYet
  <2>2. PICK j \in DOMAIN objects[p].relocations :
          /\ Through("relocate", p, j)
          /\ placements[<<p, objects[p].relocations[j].section>>].type = t
          /\ k \in FieldRange(p, objects[p].relocations[j])
    BY <2>1
  <2>3. Through("relocate", p, j)'
    BY <1>6, <2>2, ThroughKept DEF ItemsOf, LateStage
  <2>4. QED
    BY <1>5, <2>2, <2>3 DEF PatchedYet, FieldRange, FieldPlace
<1>9. Through("relocate", o, i)'
  <2>1. at.object \in Nat /\ at.item \in Nat
    BY DEF LayoutInv, LayoutTypes
  <2>2. Reached(o, i)'
    BY <1>1, <1>2, <1>5, <2>1 DEF Reached, Onwards, LayoutInv, LayoutTypes
  <2>3. QED
    BY <1>6, <2>2 DEF Through
<1>10. FieldRange(o, r)' = FieldRange(o, r)
  BY <1>5 DEF FieldRange, FieldPlace
<1>11. ASSUME NEW t, NEW k, Laid(t, k), regions'[t].data[k] = regions[t].data[k]
       PROVE  Laid(t, k)'
  BY <1>5, <1>11 DEF Laid, Contributions, Occupied, SectionByte, SectionOf
<1>12. ASSUME NEW t \in RegionType \ {"Bss"}, NEW k \in 1 .. regions[t].size
       PROVE  PatchedYet(t, k)' \/ Laid(t, k)'
  <2>1. PatchedYet(t, k) \/ Laid(t, k)
    BY <1>6, <1>12 DEF Bytes, RegionBytes
  <2>2. CASE Laid(t, k) /\ t # type
    BY <1>5, <1>11, <1>12, <2>2
  <2>3. CASE Laid(t, k) /\ t = type /\ k \notin FieldRange(o, r)
    <3>1. k \in 1 .. Len(regions[type].data)
      BY <1>6, <1>12, <2>3 DEF Bytes, RegionBytes
    <3>2. QED
      BY <1>5, <1>11, <2>3, <3>1
  <2>4. CASE t = type /\ k \in FieldRange(o, r)
    BY <1>3, <1>4, <1>5, <1>9, <1>10, <2>4, ZenonT(30) DEF PatchedYet
  <2>5. QED
    BY <1>8, <2>1, <2>2, <2>3, <2>4
<1>13. ASSUME NEW t \in RegionType \ {"Bss"} PROVE RegionBytes(t)'
  <2>1. Len(regions[t].data) = regions[t].size /\ regions'[t].size = regions[t].size
    BY <1>5, <1>6 DEF Bytes, RegionBytes
  <2>2. Len(regions'[t].data) = Len(regions[t].data)
    BY <1>5
  <2>3. QED
    BY <1>12, <2>1, <2>2 DEF RegionBytes
<1>14. \A t \in RegionType : regions'[t].data \in Seq(Byte)
  BY <1>5, <1>6 DEF Bytes
<1>15. regions'["Bss"].data = <<>>
  BY <1>5, <1>6 DEF Bytes, RegionType
<1>16. QED
  BY <1>7, <1>13, <1>14, <1>15 DEF Bytes

\* Going on keeps what was reached.
LEMMA ReachedKept ==
  ASSUME LayoutInv, stage = "merge", Onwards \/ NextObject,
         NEW p \in DOMAIN placements, Reached(p[1], p[2])
  PROVE  Reached(p[1], p[2])'
<1>1. p[1] \in DOMAIN objects /\ p[2] \in DOMAIN objects[p[1]].sections
  BY DEF LayoutInv, Layout, PlacementFits
<1>2. objects \in CommandLines /\ LayoutTypes
  BY DEF LayoutInv, LayoutTypes
<1>3. objects[p[1]].sections \in Seq(ObjectSection) /\ p[1] \in Nat
  BY <1>1, <1>2, CommandLineFacts, TableFacts
<1>4. p[2] \in Nat
  BY <1>1, <1>3
<1>5. CASE Onwards
  BY <1>2, <1>3, <1>4, <1>5, ReachedOnwards
<1>6. CASE NextObject
  BY <1>2, <1>3, <1>4, <1>6 DEF NextObject, Reached, LayoutTypes
<1>7. QED
  BY <1>5, <1>6

LEMMA BytesStep ==
  ASSUME LayoutInv, ResolutionInv, ReferencesInv, BytesInv, [Next]_vars
  PROVE  BytesInv'
<1>1. SUFFICES ASSUME stage' # "failed" PROVE Bytes'
  BY DEF BytesInv
<1>2. stage # "failed" \/ UNCHANGED vars
  BY DEF Next, Begin, MergeSection, ResolveSymbol, CheckReference, Relocate, FindEntry,
         AddLine, Build, NextObject, NextStage, HasItem, AtObject, Looping
<1>3. Bytes /\ AtStart
  BY <1>1, <1>2 DEF vars, BytesInv, ReferencesInv
<1> USE DEF tables
<1>4. CASE Begin
  <2>1. UNCHANGED <<objects, regions, placements>> /\ stage = "begin" /\ stage' = "merge"
    BY <1>1, <1>4 DEF Begin, Fail
  <2>2. PlacedSoFar'
    BY <1>3, <2>1 DEF Bytes, PlacedSoFar
  <2>3. QED
    BY <1>1, <1>3, <2>1, <2>2, BytesKept
<1>5. CASE MergeSection
  <2>1. CASE Item.type = "Null"
    <3>1. /\ UNCHANGED <<objects, regions, placements>> /\ stage = "merge"
          /\ stage' = "merge" /\ Onwards
      BY <1>5, <2>1 DEF MergeSection, Onwards
    <3>2. PlacedSoFar'
      BY <1>3, <3>1, ReachedKept DEF Bytes, PlacedSoFar
    <3>3. QED
      BY <1>1, <1>3, <3>1, <3>2, BytesKept
  <2>2. CASE Item.type # "Null"
    <3>1. PICK section : section = Item
      OBVIOUS
    <3>2. PICK here : here = <<at.object, at.item>>
      OBVIOUS
    <3>3. PICK offset : offset = alignUp(regions[section.type].size, section.alignment)
      OBVIOUS
    <3>4. PICK data : data = IF section.type = "Bss" THEN <<>>
                             ELSE Appended(regions[section.type].data, offset, section)
      OBVIOUS
    <3>5. /\ stage = "merge" /\ HasItem /\ ~Outgrows(offset, section.size)
          /\ regions' = [regions EXCEPT ![section.type] =
                           [size |-> offset + section.size, data |-> data]]
          /\ placements' = With(placements, here,
                                [type |-> section.type, offset |-> offset])
          /\ Onwards
      BY <1>1, <1>5, <2>2, <3>1, <3>2, <3>3, <3>4 DEF MergeSection, Fail
    <3>6. QED
      BY <1>3, <2>2, <3>1, <3>2, <3>3, <3>4, <3>5, BytesMerged
  <2>3. QED
    BY <2>1, <2>2
<1>6. CASE Relocate
  BY <1>1, <1>6, BytesPatched
<1>7. CASE NextObject
  <2>1. UNCHANGED <<objects, regions, placements, stage>>
    BY <1>7 DEF NextObject
  <2>2. PlacedSoFar'
    BY <1>3, <1>7, <2>1, ReachedKept DEF Bytes, PlacedSoFar
  <2>3. QED
    BY <1>1, <1>3, <2>1, <2>2, BytesKept
<1>8. ASSUME UNCHANGED <<objects, regions, placements>>, stage' \notin {"begin", "merge"}
      PROVE  Bytes'
  BY <1>1, <1>3, <1>8, BytesKept DEF PlacedSoFar
<1>9. CASE ResolveSymbol \/ CheckReference
  BY <1>1, <1>8, <1>9 DEF ResolveSymbol, CheckReference, Fail, Onwards
<1>10. CASE FindEntry \/ AddLine \/ Build
  BY <1>1, <1>8, <1>10 DEF FindEntry, AddLine, Build, Fail, Onwards
<1>11. CASE NextStage
  BY <1>8, <1>11 DEF NextStage, StageAfter, Looping
<1>12. CASE UNCHANGED vars
  <2>1. UNCHANGED <<objects, regions, placements, stage, at>>
    BY <1>12 DEF vars
  <2>2. PlacedSoFar'
    BY <1>3, <2>1 DEF Bytes, PlacedSoFar, Reached
  <2>3. QED
    BY <1>1, <1>3, <2>1, <2>2, BytesKept
<1>13. QED
  BY <1>4, <1>5, <1>6, <1>7, <1>9, <1>10, <1>11, <1>12 DEF Next

LEMMA BytesGiveSections == LayoutInv /\ BytesInv => SectionsSurvive
<1> SUFFICES ASSUME LayoutInv, BytesInv, stage = "done", NEW type \in RegionType \ {"Bss"}
             PROVE  /\ Len(regions[type].data) = regions[type].size
                    /\ \A k \in (1 .. regions[type].size) \ Patched(type) :
                         LET owners == {p \in Contributions(type) : k \in Occupied(p)} IN
                         /\ owners = {} => regions[type].data[k] = ZeroByte
                         /\ \A p \in owners :
                              LET data == objects[p[1]].sections[p[2]].data
                                  n    == k - placements[p].offset
                              IN  regions[type].data[k] =
                                    IF n <= Len(data) THEN data[n] ELSE ZeroByte
  BY DEF SectionsSurvive
<1>1. RegionBytes(type)
  BY DEF BytesInv, Bytes
<1>2. ASSUME NEW k \in 1 .. regions[type].size, k \notin Patched(type)
      PROVE  Laid(type, k)
  <2>1. ~PatchedYet(type, k)
    BY <1>2 DEF Patched, PatchedYet, Range
  <2>2. QED
    BY <1>1, <1>2, <2>1 DEF RegionBytes
<1>3. ASSUME NEW k \in (1 .. regions[type].size) \ Patched(type)
      PROVE  LET owners == {p \in Contributions(type) : k \in Occupied(p)} IN
             /\ owners = {} => regions[type].data[k] = ZeroByte
             /\ \A p \in owners :
                  LET data == objects[p[1]].sections[p[2]].data
                      n    == k - placements[p].offset
                  IN  regions[type].data[k] =
                        IF n <= Len(data) THEN data[n] ELSE ZeroByte
  <2>1. Laid(type, k)
    BY <1>2, <1>3
  <2>2. QED
    BY <2>1 DEF Laid, SectionByte, SectionOf
<1>4. QED
  BY <1>1, <1>3 DEF RegionBytes

-----------------------------------------------------------------------------
(***************************************************************************)
(* The relocated fields.                                                   *)
(***************************************************************************)
FieldAddress(o, relocation) ==
  Add(Base(placements[<<o, relocation.section>>].type), FieldPlace(o, relocation))

\* The field of the i-th relocation denotes what the relocation asks for.
FieldDenotes(o, i) ==
  LET relocation == objects[o].relocations[i] IN
  Denotes(relocation.type, FinalField(o, relocation), FieldAddress(o, relocation))
    = Add(Meaning(o, objects[o].symbols[relocation.symbol]), relocation.addend)

Fields ==
  \A o \in DOMAIN objects : \A i \in DOMAIN objects[o].relocations :
    Through("relocate", o, i) =>
      /\ Patchable(o, objects[o].relocations[i])
      /\ Alone(o, i) => FieldDenotes(o, i)

FieldsInv == stage # "failed" => Fields

\* What a symbol means depends on the objects and on where sections went.
LEMMA MeaningKept ==
  ASSUME UNCHANGED <<objects, placements>>, NEW o, NEW symbol
  PROVE  Meaning(o, symbol)' = Meaning(o, symbol)
<1>1. ASSUME NEW q, NEW name, NEW binding
      PROVE  DefinedHere(q, name, binding)' = DefinedHere(q, name, binding)
  BY DEF DefinedHere
<1>2. ASSUME NEW name, NEW binding PROVE Definers(name, binding)' = Definers(name, binding)
  BY <1>1 DEF Definers
<1>3. ASSUME NEW q, NEW sym PROVE addressOf(q, sym)' = addressOf(q, sym)
  BY DEF addressOf
<1>4. ASSUME NEW name, NEW binding
      PROVE  FirstAddress(name, binding)' = FirstAddress(name, binding)
  BY <1>1, <1>2, <1>3 DEF FirstAddress
<1>5. ASSUME NEW name PROVE SharedMeaning(name)' = SharedMeaning(name)
  BY <1>2, <1>4 DEF SharedMeaning
<1>6. QED
  BY <1>3, <1>5 DEF Meaning

\* A field starts no earlier than its section.
LEMMA AtLeastFirst == ASSUME NEW a \in Nat, NEW b \in Nat PROVE a <= a + b
  OBVIOUS

\* The field of another relocation is not written.
LEMMA FieldUntouched ==
  ASSUME LayoutInv, Bytes, NEW o, NEW i, NEW r, NEW type, Applied(o, i, r, type),
         r = objects[o].relocations[i], type = placements[<<o, r.section>>].type,
         NEW p \in DOMAIN objects, NEW j \in DOMAIN objects[p].relocations,
         <<p, j>> # <<o, i>>, NEW s, s = objects[p].relocations[j],
         Patchable(p, s), Alone(p, j)
  PROVE  FinalField(p, s)' = FinalField(p, s)
<1>1. PICK there : there = placements[<<p, s.section>>].type
  OBVIOUS
<1>2. Placed(p, s.section) /\ there # "Bss"
  BY <1>1 DEF Patchable
<1>3. PICK place : place = FieldPlace(p, s)
  OBVIOUS
<1>4. PICK width : width = relocationWidth(s.type)
  OBVIOUS
<1>5. /\ place \in Nat /\ there \in RegionType
      /\ place = placements[<<p, s.section>>].offset + s.offset
      /\ place + width <= regions[there].size
      /\ place + width
           <= placements[<<p, s.section>>].offset + objects[p].sections[s.section].size
  BY <1>1, <1>2, <1>3, <1>4, FieldFacts
<1>6. width \in Nat /\ s.offset \in Nat
  BY <1>4, RelocationFacts DEF LayoutInv, LayoutTypes
<1>7. place' = place /\ FieldPlace(p, s)' = place
      /\ placements' = placements /\ objects' = objects
  BY <1>3 DEF Applied, FieldPlace
<1>8. /\ FinalField(p, s) = SubSeq(regions[there].data, place + 1, place + width)
      /\ FinalField(p, s)' = SubSeq(regions'[there].data, place + 1, place + width)
  BY <1>1, <1>3, <1>4, <1>7 DEF FinalField
<1>9. CASE there # type
  BY <1>5, <1>8, <1>9 DEF Applied
<1>10. CASE there = type
  <2>1. FieldRange(p, s) \cap FieldRange(o, r) = {}
    <3>1. CASE <<p, s.section>> = <<o, r.section>>
      <4>1. p = o /\ i # j /\ s.section = r.section
        BY <3>1
      <4>2. i \in DOMAIN objects[p].relocations \ {j}
        BY <4>1 DEF Applied
      <4>3. QED
        BY <4>1, <4>2 DEF Alone
    <3>2. CASE <<p, s.section>> # <<o, r.section>>
      <4>1. Placed(o, r.section)
        BY DEF Applied, Patchable
      <4>2. Apart(<<p, s.section>>, <<o, r.section>>)
        BY <1>1, <1>2, <1>10, <3>2, <4>1 DEF LayoutInv, Layout, Placed
      <4>3. /\ FieldPlace(o, r) \in Nat
            /\ FieldPlace(o, r) = placements[<<o, r.section>>].offset + r.offset
            /\ FieldPlace(o, r) + relocationWidth(r.type)
                 <= placements[<<o, r.section>>].offset
                      + objects[o].sections[r.section].size
        BY <4>1, FieldFacts, ZenonT(30) DEF Applied
      <4>4. relocationWidth(r.type) \in Nat /\ r.offset \in Nat
        BY RelocationFacts DEF Applied, LayoutInv, LayoutTypes
      <4>5. /\ placements[<<o, r.section>>].offset \in Nat
            /\ objects[o].sections[r.section].size \in Nat
            /\ placements[<<p, s.section>>].offset \in Nat
            /\ objects[p].sections[s.section].size \in Nat
        BY <1>2, <4>1, PlacedFacts
      <4>6. \/ placements[<<p, s.section>>].offset + objects[p].sections[s.section].size
                 <= placements[<<o, r.section>>].offset
            \/ placements[<<o, r.section>>].offset + objects[o].sections[r.section].size
                 <= placements[<<p, s.section>>].offset
        BY <4>2 DEF Apart, SectionOf
      <4>7. (place + 1 .. place + width)
              \cap (FieldPlace(o, r) + 1 .. FieldPlace(o, r) + relocationWidth(r.type)) = {}
        <5>1. /\ placements[<<p, s.section>>].offset <= place
              /\ placements[<<o, r.section>>].offset <= FieldPlace(o, r)
          <6>1. place = placements[<<p, s.section>>].offset + s.offset
            BY <1>5
          <6>2. FieldPlace(o, r) = placements[<<o, r.section>>].offset + r.offset
            BY <4>3
          <6>3. placements[<<p, s.section>>].offset <= place
            BY <1>6, <4>5, <6>1, AtLeastFirst
          <6>4. placements[<<o, r.section>>].offset <= FieldPlace(o, r)
            BY <4>4, <4>5, <6>2, AtLeastFirst
          <6>5. QED
            BY <6>3, <6>4
        <5>2. PICK a : a = placements[<<p, s.section>>].offset
          OBVIOUS
        <5>3. PICK b : b = objects[p].sections[s.section].size
          OBVIOUS
        <5>4. PICK c : c = placements[<<o, r.section>>].offset
          OBVIOUS
        <5>5. PICK d : d = objects[o].sections[r.section].size
          OBVIOUS
        <5>6. PICK n : n = FieldPlace(o, r)
          OBVIOUS
        <5>7. PICK v : v = relocationWidth(r.type)
          OBVIOUS
        <5>8. /\ a \in Nat /\ b \in Nat /\ a <= place /\ place + width <= a + b
              /\ c \in Nat /\ d \in Nat /\ n \in Nat /\ v \in Nat
              /\ c <= n /\ n + v <= c + d
              /\ a + b <= c \/ c + d <= a
          BY <1>5, <4>3, <4>4, <4>5, <4>6, <5>1, <5>2, <5>3, <5>4, <5>5, <5>6, <5>7
        <5>9. (place + 1 .. place + width) \cap (n + 1 .. n + v) = {}
          <6>1. place \in Nat /\ width \in Nat
            BY <1>5, <1>6
          <6>2. ASSUME NEW k \in place + 1 .. place + width, k \in n + 1 .. n + v
                PROVE  FALSE
            <7>1. /\ k \in Int /\ place < k /\ k <= place + width
                  /\ n < k /\ k <= n + v
              BY <5>8, <6>1, <6>2
            <7>2. QED
              BY <5>8, <6>1, <7>1
          <6>3. QED
            BY <6>2
        <5>10. QED
          BY <5>6, <5>7, <5>9
      <4>8. QED
        BY <1>3, <1>4, <4>7 DEF FieldRange
    <3>3. QED
      BY <3>1, <3>2
  <2>2. PICK old : old = regions[there].data
    OBVIOUS
  <2>3. old \in Seq(Byte) /\ Len(old) = regions[there].size /\ place + width <= Len(old)
    BY <1>2, <1>5, <2>2 DEF Bytes, RegionBytes
  <2>4. PICK new : new = regions'[there].data
    OBVIOUS
  <2>5. /\ new \in Seq(Byte) /\ Len(new) = Len(old)
        /\ \A k \in 1 .. Len(old) : k \notin FieldRange(o, r) => new[k] = old[k]
    BY <1>10, <2>2, <2>4 DEF Applied
  <2>6. PICK field : field = SubSeq(old, place + 1, place + width)
    OBVIOUS
  <2>7. /\ field \in Seq(Byte) /\ Len(field) = width
        /\ \A k \in 1 .. width : field[k] = old[place + k]
    <3>1. place \in Nat /\ width \in Nat
      BY <1>5, <1>6
    <3>2. /\ SubSeq(old, place + 1, place + width) \in Seq(Byte)
          /\ Len(SubSeq(old, place + 1, place + width)) = width
          /\ \A k \in 1 .. width : SubSeq(old, place + 1, place + width)[k] = old[place + k]
      BY <2>3, <3>1, FieldBytes
    <3>3. QED
      BY <2>6, <3>2
  <2>8. ASSUME NEW k \in 1 .. width PROVE new[place + k] = field[k]
    <3>0. /\ place \in Nat /\ width \in Nat /\ Len(old) \in Nat
          /\ place + width <= Len(old)
      BY <1>5, <1>6, <2>3
    <3>1. place + k \in FieldRange(p, s)
      <4>1. FieldRange(p, s) = place + 1 .. place + width
        BY <1>3, <1>4 DEF FieldRange
      <4>2. place + k \in place + 1 .. place + width
        BY <3>0
      <4>3. QED
        BY <4>1, <4>2
    <3>2. place + k \in 1 .. Len(old)
      BY <3>0
    <3>3. QED
      BY <2>1, <2>5, <2>7, <3>1, <3>2
  <2>9. SubSeq(new, place + 1, place + width) = field
    <3>1. place + width <= Len(new)
      BY <2>3, <2>5
    <3>2. QED
      BY <1>5, <1>6, <2>5, <2>7, <2>8, <3>1, FieldIs, ZenonT(30)
  <2>10. QED
    BY <1>8, <2>2, <2>4, <2>6, <2>9
<1>11. QED
  BY <1>9, <1>10

LEMMA FieldsStep ==
  ASSUME LayoutInv, ResolutionInv, ReferencesInv, BytesInv, FieldsInv, [Next]_vars
  PROVE  FieldsInv'
<1>1. SUFFICES ASSUME stage' # "failed" PROVE Fields'
  BY DEF FieldsInv
<1>2. objects' = objects
  BY TableGrows
<1>3. SUFFICES ASSUME NEW p \in DOMAIN objects, NEW j \in DOMAIN objects[p].relocations,
                      Through("relocate", p, j)'
               PROVE  /\ Patchable(p, objects[p].relocations[j])'
                      /\ Alone(p, j)' => FieldDenotes(p, j)'
  BY <1>2 DEF Fields
<1>4. stage' \in {"relocate", "entry", "debug", "build", "done"}
  BY <1>3 DEF Through, StagesAfter
<1>5. \/ Through("relocate", p, j)
      \/ stage = "relocate" /\ HasItem /\ p = at.object /\ j = at.item /\ Onwards
  BY <1>1, <1>3, ThroughStep DEF ReferencesInv, ItemsOf, LateStage
<1>6. PICK s : s = objects[p].relocations[j]
  OBVIOUS
<1>7. ASSUME Through("relocate", p, j)
      PROVE  stage # "failed" /\ Patchable(p, s) /\ (Alone(p, j) => FieldDenotes(p, j))
  <2>1. stage # "failed"
    BY <1>7 DEF Through, StagesAfter
  <2>2. QED
    BY <1>6, <1>7, <2>1 DEF FieldsInv, Fields
<1>8. ASSUME placements' = placements
      PROVE  /\ Patchable(p, s)' <=> Patchable(p, s)
             /\ Alone(p, j)' <=> Alone(p, j)
             /\ FieldAddress(p, s)' = FieldAddress(p, s)
             /\ Meaning(p, objects[p].symbols[s.symbol])'
                  = Meaning(p, objects[p].symbols[s.symbol])
  <2>1. Meaning(p, objects[p].symbols[s.symbol])' = Meaning(p, objects[p].symbols[s.symbol])
    BY <1>2, <1>8, MeaningKept
  <2>2. \A r : FieldRange(p, r)' = FieldRange(p, r)
    BY <1>8 DEF FieldRange, FieldPlace
  <2>3. Alone(p, j)' <=> Alone(p, j)
    BY <1>2, <2>2 DEF Alone
  <2>4. FieldAddress(p, s)' = FieldAddress(p, s)
    BY <1>8 DEF FieldAddress, FieldPlace
  <2>5. Patchable(p, s)' <=> Patchable(p, s)
    BY <1>8 DEF Patchable, Placed
  <2>6. QED
    BY <2>1, <2>3, <2>4, <2>5
<1>9. CASE Relocate
  <2>1. PICK o : o = at.object
    OBVIOUS
  <2>2. PICK i : i = at.item
    OBVIOUS
  <2>3. PICK r : r = objects[o].relocations[i]
    OBVIOUS
  <2>4. PICK type : type = placements[<<o, r.section>>].type
    OBVIOUS
  <2>5. Applied(o, i, r, type)
    BY <1>1, <1>9, <2>1, <2>2, <2>3, <2>4, RelocationApplied
  <2>6. placements' = placements /\ Patchable(o, r) /\ stage = "relocate" /\ Bytes
    BY <2>5 DEF Applied, BytesInv
  <2>7. CASE <<p, j>> = <<o, i>>
    <3>1. s = r /\ p = o
      BY <1>6, <2>3, <2>7
    <3>2. FinalField(p, s)' = SubSeq(regions'[type].data, FieldPlace(o, r) + 1,
                                     FieldPlace(o, r) + relocationWidth(r.type))
      BY <2>4, <2>6, <3>1 DEF FinalField, FieldPlace
    <3>3. FieldAddress(p, s) = Add(Base(type), FieldPlace(o, r))
      BY <2>4, <3>1 DEF FieldAddress
    <3>4. Denotes(s.type, FinalField(p, s)', FieldAddress(p, s))
            = Add(Meaning(p, objects[p].symbols[s.symbol]), s.addend)
      BY <2>5, <3>1, <3>2, <3>3 DEF Applied
    <3>5. FieldDenotes(p, j)'
      BY <1>2, <1>6, <1>8, <2>6, <3>4 DEF FieldDenotes
    <3>6. QED
      BY <1>2, <1>6, <1>8, <2>6, <3>1, <3>5
  <2>8. CASE <<p, j>> # <<o, i>>
    <3>1. Through("relocate", p, j)
      BY <1>5, <2>1, <2>2, <2>8
    <3>2. Patchable(p, s) /\ (Alone(p, j) => FieldDenotes(p, j))
      BY <1>7, <3>1
    <3>3. ASSUME Alone(p, j) PROVE FieldDenotes(p, j)'
      <4>1. FinalField(p, s)' = FinalField(p, s)
        BY <1>6, <2>3, <2>4, <2>5, <2>6, <2>8, <3>2, <3>3, FieldUntouched
      <4>2. QED
        BY <1>2, <1>6, <1>8, <2>6, <3>2, <3>3, <4>1 DEF FieldDenotes
    <3>4. QED
      BY <1>2, <1>6, <1>8, <2>6, <3>2, <3>3
  <2>9. QED
    BY <2>7, <2>8
<1>10. CASE ~Relocate
  <2>1. Through("relocate", p, j)
    BY <1>5, <1>10, ItemStep DEF LateStage
  <2>2. UNCHANGED <<regions, placements>>
    BY <1>1, <1>4, <1>10
    DEF Next, Begin, MergeSection, ResolveSymbol, CheckReference, FindEntry, AddLine, Build,
        NextObject, NextStage, Fail, Onwards, tables, vars
  <2>3. FinalField(p, s)' = FinalField(p, s)
    BY <2>2 DEF FinalField, FieldPlace
  <2>4. Patchable(p, s) /\ (Alone(p, j) => FieldDenotes(p, j))
    BY <1>7, <2>1
  <2>5. ASSUME Alone(p, j) PROVE FieldDenotes(p, j)'
    BY <1>2, <1>6, <1>8, <2>2, <2>3, <2>4, <2>5 DEF FieldDenotes
  <2>6. QED
    BY <1>2, <1>6, <1>8, <2>2, <2>4, <2>5
<1>11. QED
  BY <1>9, <1>10

LEMMA FieldsGivePatched == FieldsInv => FieldsArePatched
<1> SUFFICES ASSUME FieldsInv, stage = "done", NEW o \in DOMAIN objects,
                    NEW i \in DOMAIN objects[o].relocations, Alone(o, i)
             PROVE  FieldDenotes(o, i)
  BY DEF FieldsArePatched, FieldDenotes, FieldAddress
<1>1. Through("relocate", o, i)
  BY DEF Through, StagesAfter
<1>2. QED
  BY <1>1 DEF FieldsInv, Fields

-----------------------------------------------------------------------------
(***************************************************************************)
(* The lines.                                                              *)
(***************************************************************************)

\* A line has the address and the source file of an entry.
LineOf(line, o, entry) ==
  /\ line.address =
       Add(Add(Base(placements[<<o, entry.section>>].type),
               placements[<<o, entry.section>>].offset), entry.offset)
  /\ files[line.file] = objects[o].source_files[entry.file]

Lines ==
  /\ \A k \in DOMAIN lines : lines[k].file \in DOMAIN files
  /\ \A o \in DOMAIN objects : \A i \in DOMAIN objects[o].debug_info :
       Through("debug", o, i) /\ Placed(o, objects[o].debug_info[i].section) =>
         \E k \in DOMAIN lines : LineOf(lines[k], o, objects[o].debug_info[i])
  /\ stage = "done" => executable.lines \in SortedLines

LinesInv ==
  /\ files \in Seq(FileName) /\ lines \in Seq([address: Word, file: Nat])
  /\ stage # "failed" => Lines

LEMMA LinesInit == Init => LinesInv
<1> SUFFICES ASSUME Init PROVE LinesInv
  OBVIOUS
<1>1. files = <<>> /\ lines = <<>> /\ stage = "begin"
  BY DEF Init
<1>2. DOMAIN lines = {}
  BY <1>1
<1>3. \A o, i : ~Through("debug", o, i)
  BY <1>1 DEF Through, StagesAfter
<1>4. Lines
  BY <1>1, <1>2, <1>3 DEF Lines
<1>5. <<>> \in Seq(FileName) /\ <<>> \in Seq([address: Word, file: Nat])
  OBVIOUS
<1>6. QED
  BY <1>1, <1>4, <1>5 DEF LinesInv

\* The number of a file is that of its name in the list, which keeps its names.
LEMMA FileNumber ==
  ASSUME files \in Seq(FileName), NEW file \in FileName,
         files' = IF KnownFile(file) THEN files ELSE Append(files, file),
         NEW index, index = FileIndex(file)
  PROVE  /\ files' \in Seq(FileName) /\ index \in Nat
         /\ index \in DOMAIN files' /\ files'[index] = file
         /\ \A k \in DOMAIN files : k \in DOMAIN files' /\ files'[k] = files[k]
<1>1. CASE KnownFile(file)
  <2>1. index \in DOMAIN files /\ files[index] = file
    BY <1>1 DEF KnownFile, FileIndex
  <2>2. index \in Nat
    BY <2>1
  <2>3. QED
    BY <1>1, <2>1, <2>2
<1>2. CASE ~KnownFile(file)
  <2>1. index = Len(files) + 1 /\ files' = Append(files, file)
    BY <1>2 DEF FileIndex
  <2>2. QED
    BY <2>1
<1>3. QED
  BY <1>1, <1>2

\* A line of the debug information.
LEMMA EntryFacts ==
  ASSUME objects \in CommandLines,
         NEW o \in DOMAIN objects, NEW i \in DOMAIN objects[o].debug_info
  PROVE  /\ objects[o].debug_info[i].offset \in Word
         /\ objects[o].source_files[objects[o].debug_info[i].file] \in FileName
<1>1. objects[o] \in Object /\ Readable(objects[o])
  BY CommandLineFacts
<1>2. /\ objects[o].debug_info \in Seq(DebugEntry)
      /\ objects[o].source_files \in Seq(FileName)
  BY <1>1, TableFacts
<1>3. objects[o].debug_info[i] \in DebugEntry
  BY <1>2
<1>4. ReadsDebugEntry(objects[o], objects[o].debug_info[i])
  BY <1>1 DEF Readable
<1>5. objects[o].debug_info[i].file \in DOMAIN objects[o].source_files
  BY <1>4 DEF ReadsDebugEntry
<1>6. objects[o].source_files[objects[o].debug_info[i].file] \in FileName
  BY <1>2, <1>5
<1>7. QED
  BY <1>3, <1>6 DEF DebugEntry

\* buildDebugInfo() takes a line over.
LEMMA LinesAdded ==
  ASSUME LayoutInv, ReferencesInv, LinesInv, AddLine, [Next]_vars
  PROVE  LinesInv'
<1>1. PICK o : o = at.object
  OBVIOUS
<1>2. PICK i : i = at.item
  OBVIOUS
<1>3. PICK entry : entry = objects[o].debug_info[i]
  OBVIOUS
<1>4. stage = "debug" /\ HasItem /\ Onwards /\ Item = entry /\ ThisObject = objects[o]
  BY <1>1, <1>2, <1>3 DEF AddLine, Item, Items, ThisObject
<1>5. o \in DOMAIN objects /\ i \in DOMAIN objects[o].debug_info
  BY <1>1, <1>2, <1>4, ItemFacts DEF LayoutInv
<1>6. objects' = objects /\ stage' = "debug" /\ placements' = placements /\ Lines
      /\ files \in Seq(FileName) /\ lines \in Seq([address: Word, file: Nat])
  BY <1>4 DEF AddLine, Onwards, LinesInv, tables
<1>7. ASSUME NEW p \in DOMAIN objects, NEW j \in DOMAIN objects[p].debug_info,
             Through("debug", p, j)', <<p, j>> # <<o, i>>
      PROVE  Through("debug", p, j)
  BY <1>1, <1>2, <1>6, <1>7, ThroughStep DEF ItemsOf, LateStage, ReferencesInv
<1>8. CASE ~Placed(o, entry.section)
  <2>1. UNCHANGED <<files, lines>>
    BY <1>1, <1>4, <1>8 DEF AddLine, debug
  <2>2. ASSUME NEW p \in DOMAIN objects, NEW j \in DOMAIN objects[p].debug_info,
               Through("debug", p, j)', Placed(p, objects[p].debug_info[j].section)'
        PROVE  \E k \in DOMAIN lines' : LineOf(lines[k], p, objects[p].debug_info[j])'
    <3>1. Placed(p, objects[p].debug_info[j].section)
      BY <1>6, <2>2 DEF Placed
    <3>2. <<p, j>> # <<o, i>>
      BY <1>3, <1>8, <3>1
    <3>3. PICK k \in DOMAIN lines : LineOf(lines[k], p, objects[p].debug_info[j])
      BY <1>6, <1>7, <2>2, <3>1, <3>2 DEF Lines
    <3>4. QED
      BY <1>6, <2>1, <3>3 DEF LineOf
  <2>3. \A k \in DOMAIN lines' : lines'[k].file \in DOMAIN files'
    BY <1>6, <2>1 DEF Lines
  <2>4. Lines'
    BY <1>6, <2>2, <2>3 DEF Lines
  <2>5. QED
    BY <1>6, <2>1, <2>4 DEF LinesInv
<1>9. CASE Placed(o, entry.section)
  <2>1. PICK file : file = objects[o].source_files[entry.file]
    OBVIOUS
  <2>2. PICK place : place = placements[<<o, entry.section>>]
    OBVIOUS
  <2>3. PICK index : index = FileIndex(file)
    OBVIOUS
  <2>4. PICK line : line = [address |-> Add(Add(Base(place.type), place.offset),
                                            entry.offset),
                            file |-> index]
    OBVIOUS
  <2>5. /\ files' = IF KnownFile(file) THEN files ELSE Append(files, file)
        /\ lines' = Append(lines, line)
    BY <1>1, <1>4, <1>9, <2>1, <2>2, <2>3, <2>4 DEF AddLine
  <2>6. file \in FileName /\ entry.offset \in Word
    BY <1>3, <1>5, <2>1, EntryFacts DEF LayoutInv, LayoutTypes
  <2>7. /\ files' \in Seq(FileName) /\ index \in Nat
        /\ index \in DOMAIN files' /\ files'[index] = file
        /\ \A k \in DOMAIN files : k \in DOMAIN files' /\ files'[k] = files[k]
    BY <1>6, <2>3, <2>5, <2>6, FileNumber
  <2>8. Add(Base(place.type), place.offset) \in Word
    BY <1>9, <2>2, PlaceIsWord
  <2>9. Add(Add(Base(place.type), place.offset), entry.offset) \in Word
    BY <2>6, <2>8, WordArithmetic
  <2>10. line \in [address: Word, file: Nat] /\ line.file = index
    BY <2>4, <2>7, <2>9
  <2>11. /\ lines' \in Seq([address: Word, file: Nat])
         /\ DOMAIN lines' = 1 .. Len(lines) + 1 /\ lines'[Len(lines) + 1] = line
         /\ DOMAIN lines = 1 .. Len(lines) /\ Len(lines) \in Nat
         /\ \A k \in 1 .. Len(lines) : lines'[k] = lines[k]
    BY <1>6, <2>5, <2>10
  <2>12. ASSUME NEW k \in DOMAIN lines' PROVE lines'[k].file \in DOMAIN files'
    <3>1. CASE k = Len(lines) + 1
      BY <2>7, <2>10, <2>11, <3>1
    <3>2. CASE k \in DOMAIN lines
      BY <1>6, <2>7, <2>11, <3>2 DEF Lines
    <3>3. QED
      BY <2>11, <3>1, <3>2
  <2>13. LineOf(line, o, entry)'
    BY <1>6, <2>1, <2>2, <2>4, <2>7 DEF LineOf
  <2>14. ASSUME NEW p \in DOMAIN objects, NEW j \in DOMAIN objects[p].debug_info,
                Through("debug", p, j)', Placed(p, objects[p].debug_info[j].section)'
         PROVE  \E k \in DOMAIN lines' : LineOf(lines[k], p, objects[p].debug_info[j])'
    <3>1. CASE <<p, j>> = <<o, i>>
      <4>1. p = o /\ objects[p].debug_info[j] = entry
        BY <1>3, <3>1
      <4>2. PICK n : n = Len(lines) + 1
        OBVIOUS
      <4>3. n \in DOMAIN lines' /\ lines'[n] = line
        BY <2>11, <4>2
      <4>4. LineOf(lines[n], o, entry)'
        BY <2>13, <4>3 DEF LineOf
      <4>5. QED
        BY <1>6, <4>1, <4>3, <4>4
    <3>2. CASE <<p, j>> # <<o, i>>
      <4>1. Placed(p, objects[p].debug_info[j].section)
        BY <1>6, <2>14 DEF Placed
      <4>2. PICK k \in DOMAIN lines : LineOf(lines[k], p, objects[p].debug_info[j])
        BY <1>6, <1>7, <2>14, <3>2, <4>1 DEF Lines
      <4>3. k \in DOMAIN lines' /\ lines'[k] = lines[k]
        BY <2>11
      <4>4. lines[k].file \in DOMAIN files
        BY <1>6 DEF Lines
      <4>5. LineOf(lines[k], p, objects[p].debug_info[j])'
        BY <1>6, <2>7, <4>2, <4>3, <4>4 DEF LineOf
      <4>6. QED
        BY <4>3, <4>5
    <3>3. QED
      BY <3>1, <3>2
  <2>15. Lines'
    BY <1>6, <2>12, <2>14 DEF Lines
  <2>16. QED
    BY <2>7, <2>11, <2>15 DEF LinesInv
<1>10. QED
  BY <1>8, <1>9

LEMMA LinesStep ==
  ASSUME LayoutInv, ReferencesInv, LinesInv, [Next]_vars
  PROVE  LinesInv'
<1>1. CASE AddLine
  BY <1>1, LinesAdded
<1>2. CASE ~AddLine
  <2>1. UNCHANGED <<files, lines>>
    BY <1>2
    DEF Next, Begin, MergeSection, ResolveSymbol, CheckReference, Relocate, FindEntry, Build,
        NextObject, NextStage, Fail, debug, vars
  <2>2. SUFFICES ASSUME stage' # "failed" PROVE Lines'
    BY <2>1 DEF LinesInv
  <2>3. stage # "failed" \/ UNCHANGED vars
    BY DEF Next, Begin, MergeSection, ResolveSymbol, CheckReference, Relocate, FindEntry,
           AddLine, Build, NextObject, NextStage, HasItem, AtObject, Looping
  <2>4. Lines /\ objects' = objects
    BY <2>2, <2>3, TableGrows DEF vars, LinesInv
  <2>5. ASSUME NEW p \in DOMAIN objects, NEW j \in DOMAIN objects[p].debug_info,
               Through("debug", p, j)', Placed(p, objects[p].debug_info[j].section)'
        PROVE  \E k \in DOMAIN lines' : LineOf(lines[k], p, objects[p].debug_info[j])'
    <3>1. stage' \in {"debug", "build", "done"}
      BY <2>5 DEF Through, StagesAfter
    <3>2. placements' = placements
      BY <2>2, <3>1
      DEF Next, Begin, MergeSection, ResolveSymbol, CheckReference, Relocate, FindEntry,
          AddLine, Build, NextObject, NextStage, Fail, Onwards, tables, vars
    <3>3. Through("debug", p, j)
      <4>1. \/ Through("debug", p, j)
            \/ stage = "debug" /\ HasItem /\ Onwards
        BY <2>2, <2>5, ThroughStep DEF ItemsOf, LateStage, ReferencesInv
      <4>2. QED
        BY <1>2, <4>1, ItemStep DEF LateStage
    <3>4. Placed(p, objects[p].debug_info[j].section)
      BY <2>4, <2>5, <3>2 DEF Placed
    <3>5. PICK k \in DOMAIN lines : LineOf(lines[k], p, objects[p].debug_info[j])
      BY <2>4, <3>3, <3>4 DEF Lines
    <3>6. QED
      BY <2>1, <2>4, <3>2, <3>5 DEF LineOf
  <2>6. ASSUME stage' = "done" PROVE executable'.lines \in SortedLines'
    <3>1. SortedLines' = SortedLines
      BY <2>1 DEF SortedLines, Sorted
    <3>2. CASE Build
      <4>1. PICK final \in SortedLines :
              executable' = [image |-> Image(final), symbols |-> Symbols, lines |-> final]
        BY <2>6, <3>2 DEF Build, Fail
      <4>2. executable'.lines = final
        BY <4>1
      <4>3. QED
        BY <3>1, <4>1, <4>2
    <3>3. CASE ~Build
      <4>1. UNCHANGED <<stage, executable>>
        BY <2>6, <3>3
        DEF Next, Begin, MergeSection, ResolveSymbol, CheckReference, Relocate, FindEntry,
            AddLine, NextObject, NextStage, StageAfter, Looping, Fail, Onwards, vars
      <4>2. QED
        BY <2>4, <2>6, <3>1, <4>1 DEF Lines
    <3>4. QED
      BY <3>2, <3>3
  <2>7. \A k \in DOMAIN lines' : lines'[k].file \in DOMAIN files'
    BY <2>1, <2>4 DEF Lines
  <2>8. QED
    BY <2>4, <2>5, <2>6, <2>7 DEF Lines
<1>3. QED
  BY <1>1, <1>2

\* A sorted copy of the lines has every line and is in order.
LEMMA SortedHasAll ==
  ASSUME lines \in Seq([address: Word, file: Nat]), NEW final \in SortedLines
  PROVE  /\ DOMAIN final = 1 .. Len(lines) /\ Len(final) = Len(lines)
         /\ \A k \in DOMAIN final : \E j \in DOMAIN lines : final[k] = lines[j]
         /\ \A j \in DOMAIN lines : \E k \in DOMAIN final : final[k] = lines[j]
         /\ \A k \in 1 .. Len(final) - 1 : final[k].address <= final[k + 1].address
<1>1. PICK order \in Bijection(DOMAIN lines, DOMAIN lines) :
        Sorted(order) /\ final = [k \in DOMAIN lines |-> lines[order[k]]]
  BY DEF SortedLines
<1>2. /\ order \in [DOMAIN lines -> DOMAIN lines]
      /\ \A j \in DOMAIN lines : \E k \in DOMAIN lines : order[k] = j
  BY DEF Bijection, Injection, Surjection
<1>3. DOMAIN lines = 1 .. Len(lines) /\ Len(lines) \in Nat
  OBVIOUS
<1>4. DOMAIN final = 1 .. Len(lines) /\ Len(final) = Len(lines)
  <2>1. final \in [1 .. Len(lines) -> [address: Word, file: Nat]]
    <3>1. \A j \in DOMAIN lines : lines[j] \in [address: Word, file: Nat]
      BY <1>3, ElementOfSeq, Zenon
    <3>2. QED
      BY <1>1, <1>2, <1>3, <3>1
  <2>2. QED
    BY <1>3, <2>1
<1>5. ASSUME NEW k \in 1 .. Len(final) - 1
      PROVE  final[k].address <= final[k + 1].address
  <2>1. k \in DOMAIN lines /\ k + 1 \in DOMAIN lines /\ k < k + 1
    BY <1>3, <1>4
  <2>2. lines[order[k]].address <= lines[order[k + 1]].address
    BY <1>1, <2>1 DEF Sorted
  <2>3. QED
    BY <1>1, <2>1, <2>2
<1>6. \A k \in DOMAIN final : \E j \in DOMAIN lines : final[k] = lines[j]
  BY <1>1, <1>2
<1>7. \A j \in DOMAIN lines : \E k \in DOMAIN final : final[k] = lines[j]
  BY <1>1, <1>2
<1>8. QED
  BY <1>4, <1>5, <1>6, <1>7

LEMMA LinesGiveSources == LinesInv => LinesNameTheirSource
<1> SUFFICES ASSUME LinesInv, stage = "done" PROVE LinesNameTheirSource
  BY DEF LinesNameTheirSource
<1>1. PICK final : final = executable.lines
  OBVIOUS
<1>2. Lines /\ final \in SortedLines /\ lines \in Seq([address: Word, file: Nat])
  BY <1>1 DEF LinesInv, Lines
<1>3. \A k \in 1 .. Len(final) - 1 : final[k].address <= final[k + 1].address
  BY <1>2, SortedHasAll
<1>4. \A j \in DOMAIN lines : \E k \in DOMAIN final : final[k] = lines[j]
  BY <1>2, SortedHasAll
<1>5. ASSUME NEW o \in DOMAIN objects, NEW i \in DOMAIN objects[o].debug_info,
             Placed(o, objects[o].debug_info[i].section)
      PROVE  \E k \in DOMAIN final : LineOf(final[k], o, objects[o].debug_info[i])
  <2>1. Through("debug", o, i)
    BY DEF Through, StagesAfter
  <2>2. PICK j \in DOMAIN lines : LineOf(lines[j], o, objects[o].debug_info[i])
    BY <1>2, <1>5, <2>1 DEF Lines
  <2>3. PICK k \in DOMAIN final : final[k] = lines[j]
    BY <1>4
  <2>4. QED
    BY <2>2, <2>3
<1>6. ASSUME NEW o \in DOMAIN objects, NEW entry \in Range(objects[o].debug_info),
             Placed(o, entry.section)
      PROVE  \E k \in DOMAIN final : LineOf(final[k], o, entry)
  BY <1>5, <1>6 DEF Range
<1>7. QED
  BY <1>1, <1>3, <1>6 DEF LinesNameTheirSource, LineOf

\* A link that goes on has met no error.
NoErrorYet == stage # "failed" => error = None

-----------------------------------------------------------------------------
(***************************************************************************)
(* The image.                                                              *)
(***************************************************************************)

\* The sequence has the segments of those regions of the types that are not
\* empty, in ascending order; that of .text comes first.
IsSegments(segments, types) ==
  /\ segments \in Seq({SegmentOf(type) : type \in types})
  /\ \A i \in DOMAIN segments : segments[i].virtual_size # 0
  /\ \A i, j \in DOMAIN segments :
       i < j => segments[i].virtual_address + kRegionSize <= segments[j].virtual_address
  /\ regions["Text"].size # 0 => Len(segments) > 0 /\ segments[1] = SegmentOf("Text")

\* The two sequences that a region may give.
LEMMA OneMore ==
  ASSUME NEW S, NEW s \in Seq(S), NEW x \in S
  PROVE  /\ s \o <<>> = s
         /\ s \o <<x>> \in Seq(S)
         /\ DOMAIN (s \o <<x>>) = 1 .. Len(s) + 1 /\ Len(s \o <<x>>) = Len(s) + 1
         /\ \A i \in 1 .. Len(s) : (s \o <<x>>)[i] = s[i]
         /\ (s \o <<x>>)[Len(s) + 1] = x
<1>1. s \o <<>> = s
  BY ConcatEmptySeq
<1>2. <<x>> \in Seq(S) /\ Len(<<x>>) = 1 /\ <<x>>[1] = x
  OBVIOUS
<1>3. QED
  BY <1>1, <1>2, ConcatProperties

LEMMA AddSegment ==
  ASSUME NEW types \in SUBSET RegionType, NEW segments, IsSegments(segments, types),
         NEW type \in RegionType, type # "Text",
         \A t \in types : Base(t) + kRegionSize <= Base(type)
  PROVE  IsSegments(segments \o SegmentIfAny(type), types \cup {type})
<1> DEFINE S == {SegmentOf(t) : t \in types \cup {type}}
<1>1. segments \in Seq(S)
  <2>1. {SegmentOf(t) : t \in types} \subseteq S
    OBVIOUS
  <2>2. QED
    BY <2>1, SeqMonotonic DEF IsSegments
<1>2. SegmentOf(type) \in S
  OBVIOUS
<1> HIDE DEF S
<1>3. CASE regions[type].size = 0
  <2>1. segments \o SegmentIfAny(type) = segments
    BY <1>1, <1>2, <1>3, OneMore DEF SegmentIfAny
  <2>2. QED
    BY <1>1, <2>1 DEF IsSegments, S
<1>4. CASE regions[type].size # 0
  <2>1. PICK x : x = SegmentOf(type)
    OBVIOUS
  <2>2. PICK longer : longer = segments \o <<x>>
    OBVIOUS
  <2>3. longer = segments \o SegmentIfAny(type)
    BY <1>4, <2>1, <2>2 DEF SegmentIfAny
  <2>4. /\ longer \in Seq(S) /\ DOMAIN longer = 1 .. Len(segments) + 1
        /\ Len(longer) = Len(segments) + 1
        /\ \A i \in 1 .. Len(segments) : longer[i] = segments[i]
        /\ longer[Len(segments) + 1] = x
    BY <1>1, <1>2, <2>1, <2>2, OneMore
  <2>5. Len(segments) \in Nat /\ DOMAIN segments = 1 .. Len(segments)
    BY <1>1
  <2>6. x.virtual_size # 0 /\ x.virtual_address = Base(type)
    BY <1>4, <2>1 DEF SegmentOf
  <2>7. ASSUME NEW i \in DOMAIN segments
        PROVE  segments[i].virtual_address + kRegionSize <= Base(type)
    <3>1. PICK t \in types : segments[i] = SegmentOf(t)
      BY <2>5 DEF IsSegments
    <3>2. segments[i].virtual_address = Base(t)
      BY <3>1 DEF SegmentOf
    <3>3. QED
      BY <3>2
  <2>8. ASSUME NEW i \in DOMAIN longer PROVE longer[i].virtual_size # 0
    <3>1. CASE i = Len(segments) + 1
      BY <2>4, <2>6, <3>1
    <3>2. CASE i \in DOMAIN segments
      BY <2>4, <2>5, <3>2 DEF IsSegments
    <3>3. QED
      BY <2>4, <2>5, <3>1, <3>2
  <2>9. ASSUME NEW i \in DOMAIN longer, NEW j \in DOMAIN longer, i < j
        PROVE  longer[i].virtual_address + kRegionSize <= longer[j].virtual_address
    <3>1. i \in DOMAIN segments /\ longer[i] = segments[i]
      BY <2>4, <2>5, <2>9
    <3>2. CASE j = Len(segments) + 1
      BY <2>4, <2>6, <2>7, <3>1, <3>2
    <3>3. CASE j \in DOMAIN segments
      BY <2>4, <2>5, <2>9, <3>1, <3>3 DEF IsSegments
    <3>4. QED
      BY <2>4, <2>5, <3>2, <3>3
  <2>10. regions["Text"].size # 0 => Len(longer) > 0 /\ longer[1] = SegmentOf("Text")
    BY <2>4, <2>5 DEF IsSegments
  <2>11. IsSegments(longer, types \cup {type})
    BY <2>4, <2>8, <2>9, <2>10 DEF IsSegments, S
  <2>12. QED
    BY <2>3, <2>11
<1>5. QED
  BY <1>3, <1>4

LEMMA SegmentsFacts == IsSegments(Segments, RegionType)
<1>1. IsSegments(SegmentIfAny("Text"), {"Text"})
  <2>1. CASE regions["Text"].size = 0
    <3>1. SegmentIfAny("Text") = <<>>
      BY <2>1 DEF SegmentIfAny
    <3>2. <<>> \in Seq({SegmentOf(type) : type \in {"Text"}}) /\ DOMAIN <<>> = {}
      OBVIOUS
    <3>3. QED
      BY <2>1, <3>1, <3>2 DEF IsSegments
  <2>2. CASE regions["Text"].size # 0
    <3>1. PICK x : x = SegmentOf("Text")
      OBVIOUS
    <3>2. SegmentIfAny("Text") = <<x>>
      BY <2>2, <3>1 DEF SegmentIfAny
    <3>3. x \in {SegmentOf(type) : type \in {"Text"}} /\ x.virtual_size # 0
      BY <2>2, <3>1 DEF SegmentOf
    <3>4. DOMAIN <<x>> = {1} /\ Len(<<x>>) = 1 /\ <<x>>[1] = x
      OBVIOUS
    <3>5. <<x>> \in Seq({SegmentOf(type) : type \in {"Text"}})
      <4>1. ASSUME NEW S, x \in S PROVE <<x>> \in Seq(S)
        BY <4>1
      <4>2. QED
        BY <3>3, <4>1
    <3>6. \A i, j \in DOMAIN <<x>> : ~(i < j)
      BY <3>4
    <3>7. PICK one : one = <<x>>
      OBVIOUS
    <3>8. IsSegments(one, {"Text"})
      <4>1. \A i \in DOMAIN one : one[i].virtual_size # 0
        BY <3>3, <3>4, <3>7
      <4>2. \A i, j \in DOMAIN one : ~(i < j)
        BY <3>6, <3>7
      <4>3. Len(one) > 0 /\ one[1] = SegmentOf("Text")
        BY <3>1, <3>4, <3>7
      <4>4. QED
        BY <3>5, <3>7, <4>1, <4>2, <4>3 DEF IsSegments
    <3>9. QED
      BY <3>2, <3>7, <3>8
  <2>3. QED
    BY <2>1, <2>2
<1>2. /\ TextBase \in Nat /\ RodataBase \in Nat /\ DataBase \in Nat /\ BssBase \in Nat
      /\ kRegionSize \in Nat
      /\ TextBase + kRegionSize <= RodataBase
      /\ RodataBase + kRegionSize <= DataBase
      /\ DataBase + kRegionSize <= BssBase
  BY LinkerAssumption, WordTypes DEF Word
<1>3. /\ Base("Text") = TextBase /\ Base("Rodata") = RodataBase
      /\ Base("Data") = DataBase /\ Base("Bss") = BssBase
  BY DEF Base
<1>4. IsSegments(SegmentIfAny("Text") \o SegmentIfAny("Rodata"), {"Text", "Rodata"})
  <2>1. \A t \in {"Text"} : Base(t) + kRegionSize <= Base("Rodata")
    BY <1>2, <1>3
  <2>2. {"Text"} \in SUBSET RegionType /\ "Rodata" \in RegionType
        /\ {"Text"} \cup {"Rodata"} = {"Text", "Rodata"}
    BY DEF RegionType
  <2>3. IsSegments(SegmentIfAny("Text") \o SegmentIfAny("Rodata"), {"Text"} \cup {"Rodata"})
    BY <1>1, <2>1, <2>2, AddSegment
  <2>4. QED
    BY <2>2, <2>3
<1>5. PICK two : two = SegmentIfAny("Text") \o SegmentIfAny("Rodata")
  OBVIOUS
<1>6. IsSegments(two \o SegmentIfAny("Data"), {"Text", "Rodata", "Data"})
  <2>1. \A t \in {"Text", "Rodata"} : Base(t) + kRegionSize <= Base("Data")
    BY <1>2, <1>3
  <2>2. {"Text", "Rodata"} \in SUBSET RegionType /\ "Data" \in RegionType
        /\ {"Text", "Rodata"} \cup {"Data"} = {"Text", "Rodata", "Data"}
    BY DEF RegionType
  <2>3. IsSegments(two \o SegmentIfAny("Data"), {"Text", "Rodata"} \cup {"Data"})
    BY <1>4, <1>5, <2>1, <2>2, AddSegment
  <2>4. QED
    BY <2>2, <2>3
<1>7. PICK three : three = two \o SegmentIfAny("Data")
  OBVIOUS
<1>8. IsSegments(three \o SegmentIfAny("Bss"), RegionType)
  <2>1. \A t \in {"Text", "Rodata", "Data"} : Base(t) + kRegionSize <= Base("Bss")
    BY <1>2, <1>3
  <2>2. {"Text", "Rodata", "Data"} \in SUBSET RegionType /\ "Bss" \in RegionType
        /\ {"Text", "Rodata", "Data"} \cup {"Bss"} = RegionType
    BY DEF RegionType
  <2>3. IsSegments(three \o SegmentIfAny("Bss"), {"Text", "Rodata", "Data"} \cup {"Bss"})
    BY <1>6, <1>7, <2>1, <2>2, AddSegment
  <2>4. QED
    BY <2>2, <2>3
<1>9. QED
  BY <1>5, <1>7, <1>8 DEF Segments

\* A segment of the image.
LEMMA SegmentFacts ==
  ASSUME LayoutInv, Bytes, NEW i \in DOMAIN Segments
  PROVE  /\ Segments[i].virtual_address \in Nat
         /\ Segments[i].virtual_size \in Nat /\ Segments[i].virtual_size <= kRegionSize
         /\ Segments[i].virtual_address + kRegionSize < WordModulus
         /\ SegmentWellFormed(Segments[i])
<1>1. IsSegments(Segments, RegionType)
  BY SegmentsFacts
<1>2. PICK type \in RegionType : Segments[i] = SegmentOf(type)
  <2>1. Segments \in Seq({SegmentOf(type) : type \in RegionType})
    BY <1>1 DEF IsSegments
  <2>2. Segments[i] \in {SegmentOf(type) : type \in RegionType}
    BY <2>1
  <2>3. QED
    BY <2>2
<1>3. PICK x : x = Segments[i]
  OBVIOUS
<1>4. /\ x.type = type /\ x.virtual_address = Base(type)
      /\ x.virtual_size = regions[type].size /\ x.flags = SegmentFlags(type)
      /\ x.data = IF type = "Bss" THEN <<>> ELSE regions[type].data
  BY <1>2, <1>3 DEF SegmentOf
<1>5. x.virtual_size # 0
  BY <1>1, <1>3 DEF IsSegments
<1>6. /\ Base(type) \in Nat /\ Base(type) + kRegionSize < WordModulus /\ kRegionSize \in Nat
      /\ regions[type].size \in Nat /\ regions[type].size <= kRegionSize
      /\ WordModulus \in Nat
  BY RegionConstants, WordTypes DEF LayoutInv, LayoutTypes, RegionsFit
<1>7. x.virtual_size >= Len(x.data)
  <2>1. CASE type = "Bss"
    <3>1. Len(x.data) = 0
      BY <1>4, <2>1
    <3>2. QED
      BY <1>4, <1>6, <3>1
  <2>2. CASE type # "Bss"
    BY <1>4, <1>6, <2>2 DEF Bytes, RegionBytes
  <2>3. QED
    BY <2>1, <2>2
<1>8. x.virtual_address <= MaxWord - x.virtual_size
  BY <1>4, <1>6 DEF MaxWord
<1>9. ~({"Write", "Exec"} \subseteq x.flags)
  BY <1>4 DEF SegmentFlags, RegionType
<1>10. x.type = "Bss" => x.data = <<>>
  BY <1>4
<1>11. SegmentWellFormed(x)
  BY <1>5, <1>7, <1>8, <1>9, <1>10 DEF SegmentWellFormed
<1>12. QED
  BY <1>3, <1>4, <1>6, <1>11

\* An image whose entry is an instruction of .text is valid.
LEMMA ImageValid ==
  ASSUME LayoutInv, ResolutionInv, ReferencesInv, BytesInv, LinesInv, stage = "build",
         NEW final \in SortedLines, NEW entry, entry = SharedMeaning(Entry),
         entry % WordSize = 0, entry >= TextBase, entry < TextBase + regions["Text"].size
  PROVE  validate(Image(final))
<1>1. Bytes /\ Lines /\ lines \in Seq([address: Word, file: Nat]) /\ files \in Seq(FileName)
      /\ References /\ Resolution
  BY DEF BytesInv, LinesInv, ReferencesInv, ResolutionInv
<1>2. PICK image : image = Image(final)
  OBVIOUS
<1>3. PICK segments : segments = Segments
  OBVIOUS
<1>4. /\ image.version = kExeVersion /\ image.segments = segments
      /\ image.entry_point = definitions[Entry].address
      /\ image.debug_files = [k \in DOMAIN final |-> final[k].file - 1]
      /\ image.file_count = Len(files)
  BY <1>2, <1>3 DEF Image
<1>5. image.entry_point = entry /\ entry \in Nat
  <2>1. Entry \in DOMAIN definitions
    BY <1>1 DEF References
  <2>2. definitions[Entry].address = SharedMeaning(Entry)
    BY <2>1, NameIsRight DEF AfterResolve
  <2>3. definitions[Entry].address \in Word
    BY <1>1, <2>1, TableIsWord
  <2>4. QED
    BY <1>4, <2>2, <2>3, WordTypes DEF Word
<1>6. regions["Text"].size \in Nat /\ TextBase \in Nat /\ kRegionSize \in Nat
      /\ Base("Text") = TextBase
  BY LinkerAssumption, WordTypes DEF LayoutInv, LayoutTypes, RegionsFit, RegionType, Base, Word
<1>7. regions["Text"].size # 0
  BY <1>5, <1>6
<1>8. /\ Len(segments) > 0 /\ segments[1] = SegmentOf("Text")
      /\ segments \in Seq({SegmentOf(type) : type \in RegionType})
      /\ \A i, j \in DOMAIN segments :
           i < j => segments[i].virtual_address + kRegionSize <= segments[j].virtual_address
  BY <1>3, <1>7, SegmentsFacts DEF IsSegments
<1>9. Len(segments) \in Nat /\ DOMAIN segments = 1 .. Len(segments)
  BY <1>8
<1>10. segments # <<>> /\ 1 \in DOMAIN segments
  BY <1>8, <1>9
<1>11. ASSUME NEW i \in DOMAIN segments
       PROVE  /\ segments[i].virtual_address \in Nat
              /\ segments[i].virtual_size \in Nat /\ segments[i].virtual_size <= kRegionSize
              /\ segments[i].virtual_address + kRegionSize < WordModulus
              /\ SegmentWellFormed(segments[i])
  BY <1>1, <1>3, SegmentFacts
<1>12. ASSUME NEW i \in DOMAIN segments, NEW j \in DOMAIN segments, i < j
       PROVE  ~SegmentsOverlap(segments[i], segments[j])
  <2>1. PICK a : a = segments[i].virtual_address
    OBVIOUS
  <2>2. PICK n : n = segments[i].virtual_size
    OBVIOUS
  <2>3. PICK b : b = segments[j].virtual_address
    OBVIOUS
  <2>4. /\ a \in Nat /\ n \in Nat /\ n <= kRegionSize /\ a + kRegionSize < WordModulus
        /\ b \in Nat /\ a + kRegionSize <= b
    BY <1>8, <1>11, <1>12, <2>1, <2>2, <2>3
  <2>5. Add(a, n) = a + n
    BY <1>6, <2>4, WordTypes DEF Add
  <2>6. ~(b < Add(a, n))
    BY <1>6, <2>4, <2>5
  <2>7. QED
    BY <2>1, <2>2, <2>3, <2>6 DEF SegmentsOverlap
<1>13. EntryExecutable(image)
  <2>1. /\ segments[1].virtual_address = TextBase
        /\ segments[1].virtual_size = regions["Text"].size
        /\ segments[1].flags = {"Read", "Exec"}
    BY <1>6, <1>8 DEF SegmentOf, SegmentFlags
  <2>2. SegmentHolds(segments[1], entry)
    BY <1>5, <1>6, <2>1 DEF SegmentHolds
  <2>3. PICK found : found = findSegment(image, entry)
    OBVIOUS
  <2>4. found = CHOOSE i \in DOMAIN segments :
                  /\ SegmentHolds(segments[i], entry)
                  /\ \A j \in 1 .. i - 1 : ~SegmentHolds(segments[j], entry)
    BY <1>4, <1>10, <2>2, <2>3 DEF findSegment
  <2>5. \A j \in 1 .. 1 - 1 : ~SegmentHolds(segments[j], entry)
    OBVIOUS
  <2>6. /\ found \in DOMAIN segments
        /\ \A j \in 1 .. found - 1 : ~SegmentHolds(segments[j], entry)
    BY <1>10, <2>2, <2>4, <2>5
  <2>7. found = 1
    BY <1>9, <2>2, <2>6
  <2>8. QED
    BY <1>4, <1>5, <2>1, <2>3, <2>7 DEF EntryExecutable, NoSegment
<1>14. ASSUME NEW k \in DOMAIN image.debug_files
       PROVE  image.debug_files[k] < image.file_count
  <2>1. k \in DOMAIN final /\ image.debug_files[k] = final[k].file - 1
    BY <1>4
  <2>2. PICK j \in DOMAIN lines : final[k] = lines[j]
    BY <1>1, <2>1, SortedHasAll
  <2>3. final[k].file \in DOMAIN files
    BY <1>1, <2>2 DEF Lines
  <2>4. final[k].file \in 1 .. Len(files) /\ Len(files) \in Nat
    BY <1>1, <2>3
  <2>5. QED
    BY <1>4, <2>1, <2>4
<1>15. validate(image)
  BY <1>4, <1>10, <1>11, <1>12, <1>13, <1>14 DEF validate
<1>16. QED
  BY <1>2, <1>15

\* What was refused stays as it was.
RefusedInv == NoErrorYet /\ RefusedForItsEntry

LEMMA RefusedStep ==
  ASSUME LayoutInv, ResolutionInv, ReferencesInv, BytesInv, LinesInv, RefusedInv,
         [Next]_vars
  PROVE  RefusedInv'
<1>1. stage # "failed" \/ UNCHANGED vars
  BY DEF Next, Begin, MergeSection, ResolveSymbol, CheckReference, Relocate, FindEntry,
         AddLine, Build, NextObject, NextStage, HasItem, AtObject, Looping
<1>2. ASSUME NEW name, UNCHANGED <<objects, placements>>
      PROVE  SharedMeaning(name)' = SharedMeaning(name)
  <2>1. PICK symbol : symbol = [name |-> name, defined |-> FALSE, binding |-> "Global"]
    OBVIOUS
  <2>2. Meaning(1, symbol)' = Meaning(1, symbol)
    BY <1>2, MeaningKept
  <2>3. symbol.name = name /\ symbol.defined = FALSE
    BY <2>1
  <2>4. Meaning(1, symbol) = SharedMeaning(name)
    BY <2>3 DEF Meaning
  <2>5. Meaning(1, symbol)' = SharedMeaning(name)'
    BY <2>3 DEF Meaning
  <2>6. QED
    BY <2>2, <2>4, <2>5
<1>3. CASE UNCHANGED vars
  <2>1. UNCHANGED <<objects, placements, regions, stage, error>>
    BY <1>3 DEF vars
  <2>2. QED
    BY <1>2, <2>1 DEF RefusedInv, NoErrorYet, RefusedForItsEntry
<1>4. CASE stage # "failed" /\ ~UNCHANGED vars
  <2>1. error = None
    BY <1>4 DEF RefusedInv, NoErrorYet
  <2>2. NoErrorYet'
    BY <1>4, <2>1
    DEF NoErrorYet, Next, Begin, MergeSection, ResolveSymbol, CheckReference, Relocate,
        FindEntry, AddLine, Build, NextObject, NextStage, Fail, Onwards
  <2>3. SUFFICES ASSUME error' = "InvalidExecutable" PROVE RefusedForItsEntry'
    BY <2>2 DEF RefusedInv, RefusedForItsEntry
  <2>4. Build
    BY <1>4, <2>1, <2>3
    DEF Next, Begin, MergeSection, ResolveSymbol, CheckReference, Relocate, FindEntry,
        AddLine, NextObject, NextStage, Fail, Onwards, None
  <2>5. /\ stage = "build" /\ UNCHANGED <<objects, placements, regions>>
        /\ \E final \in SortedLines : ~validate(Image(final))
    BY <2>1, <2>3, <2>4 DEF Build, Fail, None, tables
  <2>6. PICK final \in SortedLines : ~validate(Image(final))
    BY <2>5
  <2>7. ~ /\ SharedMeaning(Entry) % WordSize = 0
          /\ SharedMeaning(Entry) >= TextBase
          /\ SharedMeaning(Entry) < TextBase + regions["Text"].size
    BY <2>5, <2>6, ImageValid
  <2>8. SharedMeaning(Entry)' = SharedMeaning(Entry)
    BY <1>2, <2>5
  <2>9. QED
    BY <2>5, <2>7, <2>8 DEF RefusedForItsEntry
<1>5. QED
  BY <1>1, <1>3, <1>4

-----------------------------------------------------------------------------
(***************************************************************************)
(* What every link gives.                                                  *)
(***************************************************************************)
ImageInv ==
  /\ LayoutInv /\ ResolutionInv /\ ReferencesInv
  /\ BytesInv /\ FieldsInv /\ LinesInv /\ RefusedInv

LEMMA ImageInit == Init => ImageInv
<1> SUFFICES ASSUME Init PROVE ImageInv
  OBVIOUS
<1>1. stage = "begin" /\ error = None
  BY DEF Init
<1>2. ReferencesInv
  BY <1>1 DEF ReferencesInv, AtStart, References, Through, StagesAfter
<1>3. FieldsInv
  BY <1>1 DEF FieldsInv, Fields, Through, StagesAfter
<1>4. RefusedInv
  BY <1>1 DEF RefusedInv, NoErrorYet, RefusedForItsEntry, None
<1>5. QED
  BY <1>2, <1>3, <1>4, LayoutInit, ResolutionInit, BytesInit, LinesInit
  DEF ImageInv, ResolutionInv, BytesInv

LEMMA ImageStep == ImageInv /\ [Next]_vars => ImageInv'
  BY LayoutStep, ResolutionStep, ReferencesStep, BytesStep, FieldsStep, LinesStep, RefusedStep
  DEF ImageInv

LEMMA ImageAlways == Spec => []ImageInv
  BY ImageInit, ImageStep, PTL DEF Spec

\* mergeSections() and applyRelocations(): in every image each byte that no
\* relocation covers is that of the section placed there, or zero.
THEOREM SectionsAlwaysSurvive == Spec => []SectionsSurvive
<1>1. ImageInv => SectionsSurvive
  BY BytesGiveSections DEF ImageInv
<1>2. QED
  BY <1>1, ImageAlways, PTL

\* applyRelocations(): in every image each relocated field that no other
\* relocation overwrites denotes its symbol's address plus the addend.
THEOREM FieldsAlwaysPatched == Spec => []FieldsArePatched
<1>1. ImageInv => FieldsArePatched
  BY FieldsGivePatched DEF ImageInv
<1>2. QED
  BY <1>1, ImageAlways, PTL

\* buildDebugInfo(): in every image the lines are sorted and each placed entry
\* of the objects is among them with its source file, however the sort orders
\* lines of one address.
THEOREM LinesAlwaysNameTheirSource == Spec => []LinesNameTheirSource
<1>1. ImageInv => LinesNameTheirSource
  BY LinesGiveSources DEF ImageInv
<1>2. QED
  BY <1>1, ImageAlways, PTL

\* buildExecutable(): validate() refuses a linked image only for its entry.
THEOREM OnlyTheEntryIsRefused == Spec => []RefusedForItsEntry
<1>1. ImageInv => RefusedForItsEntry
  BY DEF ImageInv, RefusedInv
<1>2. QED
  BY <1>1, ImageAlways, PTL

=============================================================================
