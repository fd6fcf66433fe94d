-------------------------------- MODULE Linker --------------------------------
(***************************************************************************)
(* The linker (src/src/linker/linker.cpp): merge the sections of the       *)
(* objects, resolve their symbols, apply their relocations and build an    *)
(* image.  Each stage goes through all objects, item by item, before the   *)
(* next begins; one step of the model handles one item.  The first error   *)
(* ends the link.                                                          *)
(***************************************************************************)
EXTENDS ObjectFile, FiniteSetsExt

CONSTANTS
  TextBase, RodataBase, DataBase, BssBase,  \* LinkOptions: the region bases
  kRegionSize,                              \* the largest a region may become
  Entry,                                    \* LinkOptions: entry
  KeepLocalSymbols,                         \* LinkOptions: keep_local_symbols
  CommandLines,                             \* the sequences of objects linked
  NoExecutable                              \* no image was built

RegionType == {"Text", "Rodata", "Data", "Bss"}

Base(type) ==
  CASE type = "Text" -> TextBase [] type = "Rodata" -> RodataBase
    [] type = "Data" -> DataBase [] type = "Bss"    -> BssBase

SegmentName(type) ==
  CASE type = "Text" -> ".text" [] type = "Rodata" -> ".rodata"
    [] type = "Data" -> ".data" [] type = "Bss"    -> ".bss"

SegmentFlagsOneForAll(type) == {"Read", "Write", "Exec"}

SegmentFlags(type) ==
  CASE type = "Text" -> {"Read", "Exec"} [] type = "Rodata" -> {"Read"}
    [] OTHER -> {"Read", "Write"}

\* The regions are in ascending order and each has room for kRegionSize bytes.
ASSUME LinkerAssumption ==
  /\ TextBase \in Word /\ RodataBase \in Word /\ DataBase \in Word
  /\ BssBase \in Word /\ kRegionSize \in Word
  /\ TextBase + kRegionSize <= RodataBase
  /\ RodataBase + kRegionSize <= DataBase
  /\ DataBase + kRegionSize <= BssBase
  /\ BssBase + kRegionSize < WordModulus
  /\ {SegmentName(type) : type \in RegionType} \subseteq Name
  /\ KeepLocalSymbols \in BOOLEAN
  /\ CommandLines \subseteq Seq(Object)
  /\ \A line \in CommandLines : \A i \in DOMAIN line : Readable(line[i])

\* applyBindings() of the assembler refuses a name that is both declared .extern
\* and defined, so no object defines one.
ASSUME ExternAssumption ==
  \A line \in CommandLines : \A i \in DOMAIN line :
    \A k \in DOMAIN line[i].symbols :
      line[i].symbols[k].defined => line[i].symbols[k].binding # "Extern"

VARIABLES
  objects,      \* objects_
  stage,        \* the stage run() is in
  at,           \* the object and the item of it that the stage is at
  regions,      \* regions_: size and data of each
  placements,   \* placements_: <<object, section>> to [type, offset]
  definitions,  \* definitions_: a name to [address, binding]
  locals,       \* locals_ and local_names_
  files,        \* executable.source_files
  lines,        \* executable.debug_info before it is sorted
  error,        \* the diagnostic of a link that failed
  executable    \* the image of a link that succeeded

tables == <<placements, definitions, locals>>
debug  == <<files, lines>>
vars   == <<objects, stage, at, regions, placements, definitions, locals, files,
            lines, error, executable>>

Start == [object |-> 1, item |-> 1]
None  == "None"

Init ==
  /\ objects \in CommandLines
  /\ stage = "begin" /\ at = Start
  /\ regions = [type \in RegionType |-> [size |-> 0, data |-> <<>>]]
  /\ placements = <<>> /\ definitions = <<>> /\ locals = {}
  /\ files = <<>> /\ lines = <<>>
  /\ error = None /\ executable = NoExecutable

Fail(code) ==
  /\ stage' = "failed" /\ error' = code
  /\ UNCHANGED <<objects, at, regions, tables, debug, executable>>

Begin ==
  /\ stage = "begin"
  /\ \/ objects = <<>> /\ Fail("InvalidObject")
     \/ /\ objects # <<>>
        /\ stage' = "merge"
        /\ UNCHANGED <<objects, at, regions, tables, debug, error, executable>>

-----------------------------------------------------------------------------
(***************************************************************************)
(* Going through the items of the objects.                                 *)
(***************************************************************************)
ThisObject == objects[at.object]

Items ==
  CASE stage = "merge" -> ThisObject.sections
    [] stage \in {"resolve", "references"} -> ThisObject.symbols
    [] stage = "relocate" -> ThisObject.relocations
    [] stage = "debug" -> ThisObject.debug_info

Looping == stage \in {"merge", "resolve", "references", "relocate", "debug"}
AtObject == Looping /\ at.object <= Len(objects)
HasItem == AtObject /\ at.item <= Len(Items)
Item == Items[at.item]

Onwards ==
  /\ at' = [at EXCEPT !.item = @ + 1]
  /\ UNCHANGED <<objects, stage, error, executable>>

NextObject ==
  /\ AtObject /\ at.item > Len(Items)
  /\ at' = [object |-> at.object + 1, item |-> 1]
  /\ UNCHANGED <<objects, stage, regions, tables, debug, error, executable>>

StageAfter(s) ==
  CASE s = "merge" -> "resolve" [] s = "resolve" -> "references"
    [] s = "references" -> "relocate" [] s = "relocate" -> "entry"
    [] s = "debug" -> "build"

NextStage ==
  /\ Looping /\ at.object > Len(objects)
  /\ stage' = StageAfter(stage) /\ at' = Start
  /\ UNCHANGED <<objects, regions, tables, debug, error, executable>>

\* A map after x is given the value v.
With(map, x, v) == [y \in DOMAIN map \cup {x} |-> IF y = x THEN v ELSE map[y]]

-----------------------------------------------------------------------------
(***************************************************************************)
(* Stage 1: mergeSections().                                               *)
(***************************************************************************)
alignDown(value, alignment) ==
  IF alignment <= 1 THEN value ELSE value - (value % alignment)

alignUp(value, alignment) ==
  IF alignment <= 1 \/ value % alignment = 0 THEN value
  ELSE Add(value, alignment - (value % alignment))

Outgrows(offset, size) == offset > kRegionSize \/ size > kRegionSize - offset

\* The bytes of a region after a section is appended at the offset.
AppendedUnpadded(data, offset, section) == data \o section.data

Appended(data, offset, section) ==
  [k \in 1 .. offset + section.size |->
     IF k <= Len(data) THEN data[k]
     ELSE IF k - offset \in DOMAIN section.data THEN section.data[k - offset]
     ELSE ZeroByte]

MergeSection ==
  LET section == Item
      region  == regions[section.type]
      offset  == alignUp(region.size, section.alignment)
  IN  /\ stage = "merge" /\ HasItem
      /\ \/ /\ section.type = "Null"
            /\ Onwards
            /\ UNCHANGED <<regions, tables, debug>>
         \/ /\ section.type # "Null"
            /\ Outgrows(offset, section.size)
            /\ Fail("RelocationOverflow")
         \/ /\ section.type # "Null"
            /\ ~Outgrows(offset, section.size)
            /\ regions' = [regions EXCEPT ![section.type] =
                 [size |-> offset + section.size,
                  data |-> IF section.type = "Bss" THEN <<>>
                           ELSE Appended(region.data, offset, section)]]
            /\ placements' = With(placements, <<at.object, at.item>>,
                                  [type |-> section.type, offset |-> offset])
            /\ Onwards
            /\ UNCHANGED <<definitions, locals, debug>>

-----------------------------------------------------------------------------
(***************************************************************************)
(* Stage 2: resolveSymbols(), its two loops.                               *)
(***************************************************************************)
Placed(o, section) == <<o, section>> \in DOMAIN placements

\* addressOf(), for a symbol whose section was placed.
addressOf(o, symbol) ==
  LET placement == placements[<<o, symbol.section>>] IN
  Add(Add(Base(placement.type), placement.offset), symbol.value)

OverridesAlways(symbol) == TRUE

\* Which definition stays when a name already has one.
Overrides(symbol) ==
  definitions[symbol.name].binding = "Weak" /\ symbol.binding = "Global"

BothStrong(symbol) ==
  definitions[symbol.name].binding = "Global" /\ symbol.binding = "Global"

ResolveSymbol ==
  LET symbol  == Item
      address == addressOf(at.object, symbol)
      known   == symbol.name \in DOMAIN definitions
  IN  /\ stage = "resolve" /\ HasItem
      /\ \/ /\ ~symbol.defined
            /\ Onwards
            /\ UNCHANGED <<regions, tables, debug>>
         \/ /\ symbol.defined /\ ~Placed(at.object, symbol.section)
            /\ Fail("InvalidSectionReference")
         \/ /\ symbol.defined /\ Placed(at.object, symbol.section)
            /\ symbol.binding = "Local"
            /\ locals' = locals \cup {[name |-> symbol.name, address |-> address]}
            /\ Onwards
            /\ UNCHANGED <<regions, placements, definitions, debug>>
         \/ /\ symbol.defined /\ Placed(at.object, symbol.section)
            /\ symbol.binding # "Local" /\ known /\ BothStrong(symbol)
            /\ Fail("DuplicateSymbol")
         \/ /\ symbol.defined /\ Placed(at.object, symbol.section)
            /\ symbol.binding # "Local" /\ ~(known /\ BothStrong(symbol))
            /\ definitions' = IF known /\ ~Overrides(symbol) THEN definitions
                              ELSE With(definitions, symbol.name,
                                        [address |-> address,
                                         binding |-> symbol.binding])
            /\ Onwards
            /\ UNCHANGED <<regions, placements, locals, debug>>

\* A weak reference nobody defines is entered as address 0.
CheckReference ==
  LET symbol   == Item
      resolved == symbol.defined \/ symbol.name \in DOMAIN definitions
  IN  /\ stage = "references" /\ HasItem
      /\ \/ /\ resolved
            /\ Onwards
            /\ UNCHANGED <<regions, tables, debug>>
         \/ /\ ~resolved /\ symbol.binding = "Weak"
            /\ definitions' = With(definitions, symbol.name,
                                   [address |-> 0, binding |-> "Weak"])
            /\ Onwards
            /\ UNCHANGED <<regions, placements, locals, debug>>
         \/ /\ ~resolved /\ symbol.binding # "Weak"
            /\ Fail("UndefinedSymbol")

-----------------------------------------------------------------------------
(***************************************************************************)
(* Stage 3: applyRelocations().                                            *)
(***************************************************************************)
SymbolAddressByName(o, symbol) ==
  IF symbol.name \in DOMAIN definitions THEN definitions[symbol.name].address
  ELSE addressOf(o, symbol)

\* A symbol this object defines for itself, or the one all objects share.
SymbolAddress(o, symbol) ==
  IF symbol.defined /\ symbol.binding = "Local" THEN addressOf(o, symbol)
  ELSE definitions[symbol.name].address

Patchable(o, relocation) ==
  /\ Placed(o, relocation.section)
  /\ placements[<<o, relocation.section>>].type # "Bss"

\* The relocation, moved with its section into the region.
Shifted(o, relocation) ==
  [relocation EXCEPT !.offset = placements[<<o, relocation.section>>].offset + @]

Relocate ==
  LET relocation == Item
      type       == placements[<<at.object, relocation.section>>].type
      merged     == Shifted(at.object, relocation)
      address    == SymbolAddress(at.object, ThisObject.symbols[relocation.symbol])
      data       == regions[type].data
  IN  /\ stage = "relocate" /\ HasItem
      /\ \/ /\ ~Patchable(at.object, relocation)
            /\ Fail("InvalidRelocation")
         \/ /\ Patchable(at.object, relocation)
            /\ RelocationError(data, Base(type), merged, address) # "None"
            /\ Fail(IF RelocationError(data, Base(type), merged, address) = "Overflow"
                    THEN "RelocationOverflow" ELSE "InvalidRelocation")
         \/ /\ Patchable(at.object, relocation)
            /\ RelocationError(data, Base(type), merged, address) = "None"
            /\ regions' = [regions EXCEPT ![type].data =
                             applyRelocation(data, Base(type), merged, address)]
            /\ Onwards
            /\ UNCHANGED <<tables, debug>>

-----------------------------------------------------------------------------
(***************************************************************************)
(* Stage 4: buildExecutable() and buildDebugInfo().                        *)
(***************************************************************************)
FindEntry ==
  /\ stage = "entry"
  /\ \/ Entry \notin DOMAIN definitions /\ Fail("UndefinedSymbol")
     \/ /\ Entry \in DOMAIN definitions
        /\ stage' = "debug"
        /\ UNCHANGED <<objects, at, regions, tables, debug, error, executable>>

KnownFile(file) == \E i \in DOMAIN files : files[i] = file

FileIndexUnmerged(file) ==
  CHOOSE i \in DOMAIN ThisObject.source_files : ThisObject.source_files[i] = file

\* The number of a file: its own if it was met before, else the next one.
FileIndex(file) ==
  IF KnownFile(file) THEN CHOOSE i \in DOMAIN files : files[i] = file
  ELSE Len(files) + 1

\* Files are numbered in the order they are first met.
AddLine ==
  LET entry == Item
      file  == ThisObject.source_files[entry.file]
      place == placements[<<at.object, entry.section>>]
  IN  /\ stage = "debug" /\ HasItem
      /\ \/ /\ ~Placed(at.object, entry.section)
            /\ UNCHANGED debug
         \/ /\ Placed(at.object, entry.section)
            /\ files' = IF KnownFile(file) THEN files ELSE Append(files, file)
            /\ lines' = Append(lines,
                 [address |-> Add(Add(Base(place.type), place.offset), entry.offset),
                  file    |-> FileIndex(file)])
      /\ Onwards
      /\ UNCHANGED <<regions, tables>>

SegmentOf(type) ==
  [name |-> SegmentName(type), type |-> type, virtual_address |-> Base(type),
   virtual_size |-> regions[type].size, flags |-> SegmentFlags(type),
   data |-> IF type = "Bss" THEN <<>> ELSE regions[type].data]

SegmentIfAny(type) == IF regions[type].size = 0 THEN <<>> ELSE <<SegmentOf(type)>>

\* One segment for each region that is not empty, in this order.
Segments ==
  SegmentIfAny("Text") \o SegmentIfAny("Rodata") \o SegmentIfAny("Data")
    \o SegmentIfAny("Bss")

Symbols ==
  {[name |-> name, address |-> definitions[name].address] :
     name \in DOMAIN definitions}
  \cup {local \in locals : KeepLocalSymbols /\ local.name \notin DOMAIN definitions}

\* The orders in which the sort may leave the lines: it compares addresses and
\* is not stable, so that lines of one address may come in any order.
Sorted(order) ==
  \A i, j \in DOMAIN lines :
    i < j => lines[order[i]].address <= lines[order[j]].address

SortedLines ==
  {[k \in DOMAIN lines |-> lines[order[k]]] :
     order \in {p \in Bijection(DOMAIN lines, DOMAIN lines) : Sorted(p)}}

\* debug_files counts from 0, as in module Executable.
Image(final) ==
  [version |-> kExeVersion, segments |-> Segments,
   entry_point |-> definitions[Entry].address,
   debug_files |-> [k \in DOMAIN final |-> final[k].file - 1],
   file_count |-> Len(files)]

Build ==
  /\ stage = "build"
  /\ \E final \in SortedLines :
       \/ ~validate(Image(final)) /\ Fail("InvalidExecutable")
       \/ /\ validate(Image(final))
          /\ executable' = [image |-> Image(final), symbols |-> Symbols,
                            lines |-> final]
          /\ stage' = "done"
          /\ UNCHANGED <<objects, at, regions, tables, debug, error>>

Next ==
  \/ Begin \/ MergeSection \/ ResolveSymbol \/ CheckReference \/ Relocate
  \/ FindEntry \/ AddLine \/ Build \/ NextObject \/ NextStage

Spec == Init /\ [][Next]_vars

\* link() runs in the caller's thread.
FairSpec == Spec /\ WF_vars(Next)

-----------------------------------------------------------------------------
(***************************************************************************)
(* What a link must give.  The properties speak of the inputs and of the   *)
(* image; where a symbol or a section went they work out for themselves    *)
(* from the order of the objects.                                          *)
(***************************************************************************)

Occupied(p) ==
  placements[p].offset + 1 ..
    placements[p].offset + objects[p[1]].sections[p[2]].size

Contributions(type) == {p \in DOMAIN placements : placements[p].type = type}

\* mergeSections(): the contributions to a region never overlap, each starts at
\* a multiple of its alignment and all of them end inside the region, which
\* stays below the next one.
ContributionsDisjoint ==
  \A type \in RegionType :
    /\ regions[type].size <= kRegionSize
    /\ \A p \in Contributions(type) :
         /\ placements[p].offset % objects[p[1]].sections[p[2]].alignment = 0
         /\ Occupied(p) \subseteq 1 .. regions[type].size
         /\ \A q \in Contributions(type) \ {p} : Occupied(p) \cap Occupied(q) = {}

\* The entries of an object's symbol table that define a name with a binding.
\* An object names a symbol once.
DefinedHere(o, name, binding) ==
  {symbol \in Range(objects[o].symbols) :
     symbol.defined /\ symbol.name = name /\ symbol.binding = binding}

Definers(name, binding) ==
  {o \in DOMAIN objects : DefinedHere(o, name, binding) # {}}

\* The address of the first definition of a name with a binding.
FirstAddress(name, binding) ==
  LET o == Min(Definers(name, binding))
      symbol == CHOOSE symbol \in DefinedHere(o, name, binding) : TRUE
  IN  addressOf(o, symbol)

\* What a name means to all objects: the strong definition, else the first weak
\* one, else address 0.
SharedMeaning(name) ==
  IF Definers(name, "Global") # {} THEN FirstAddress(name, "Global")
  ELSE IF Definers(name, "Weak") # {} THEN FirstAddress(name, "Weak")
  ELSE 0

\* resolveSymbols(): once every definition was seen, the table has each shared
\* name's one strong definition, or else the first of its weak ones, whatever
\* the order of the objects; two strong ones ended the link.
RightDefinition ==
  stage \notin {"begin", "merge", "resolve", "failed"} =>
    \A name \in SymbolName :
      /\ Cardinality(Definers(name, "Global")) <= 1
      /\ Definers(name, "Global") \cup Definers(name, "Weak") # {}
           => name \in DOMAIN definitions
      /\ name \in DOMAIN definitions
           => definitions[name].address = SharedMeaning(name)

\* What a symbol means to the object whose table it is in.
Meaning(o, symbol) ==
  IF symbol.defined /\ symbol.binding = "Local" THEN addressOf(o, symbol)
  ELSE SharedMeaning(symbol.name)

\* Where a relocated field is, and its bytes in the region.
FieldPlace(o, relocation) ==
  placements[<<o, relocation.section>>].offset + relocation.offset
FieldRange(o, relocation) ==
  FieldPlace(o, relocation) + 1 ..
    FieldPlace(o, relocation) + relocationWidth(relocation.type)
FinalField(o, relocation) ==
  SubSeq(regions[placements[<<o, relocation.section>>].type].data,
         FieldPlace(o, relocation) + 1,
         FieldPlace(o, relocation) + relocationWidth(relocation.type))

\* The address that a machine reads out of a field at a place.
SignExtended(value, modulus) ==
  IF value < modulus \div 2 THEN value ELSE value + WordModulus - modulus

Denotes(type, field, place) ==
  LET half == LoadWord(field \o [k \in 1 .. WordSize \div 2 |-> ZeroByte])
      word == LoadWord(field)
      imm  == word % ImmediateModulus
      read == IF ImmediateUse(word) = "Signed"
              THEN SignExtended(imm, ImmediateModulus) ELSE imm
  IN  CASE type = "ABS32"   -> half
        [] type = "ABS64"   -> word
        [] type = "PCREL32" -> Add(place, SignExtended(half, HalfModulus))
        [] type = "IMM48"   -> read
        [] type = "PCREL48" -> Add(Add(place, WordSize), read)

\* No other relocation writes into the field.
Alone(o, i) ==
  \A j \in DOMAIN objects[o].relocations \ {i} :
    LET a == objects[o].relocations[i]
        b == objects[o].relocations[j]
    IN  a.section = b.section =>
          FieldRange(o, a) \cap FieldRange(o, b) = {}

\* applyRelocations(): in the image every relocated field, read the way the
\* program reads it, denotes the symbol's address plus the addend.
FieldsArePatched ==
  stage = "done" =>
    \A o \in DOMAIN objects : \A i \in DOMAIN objects[o].relocations :
      LET relocation == objects[o].relocations[i]
          place == Add(Base(placements[<<o, relocation.section>>].type),
                       FieldPlace(o, relocation))
      IN  Alone(o, i) =>
            Denotes(relocation.type, FinalField(o, relocation), place)
              = Add(Meaning(o, objects[o].symbols[relocation.symbol]),
                    relocation.addend)

\* The bytes of a region that a relocation of some object may change.
Patched(type) ==
  {k \in 1 .. regions[type].size :
     \E o \in DOMAIN objects : \E relocation \in Range(objects[o].relocations) :
       /\ placements[<<o, relocation.section>>].type = type
       /\ k \in FieldRange(o, relocation)}

\* mergeSections() and applyRelocations(): all other bytes of the image are the
\* bytes of the section placed there, or zero where none has a byte.
SectionsSurvive ==
  stage = "done" =>
    \A type \in RegionType \ {"Bss"} :
      /\ Len(regions[type].data) = regions[type].size
      /\ \A k \in (1 .. regions[type].size) \ Patched(type) :
           LET owners == {p \in Contributions(type) : k \in Occupied(p)} IN
           /\ owners = {} => regions[type].data[k] = ZeroByte
           /\ \A p \in owners :
                LET data == objects[p[1]].sections[p[2]].data
                    n    == k - placements[p].offset
                IN  regions[type].data[k] = IF n <= Len(data) THEN data[n] ELSE ZeroByte

\* buildExecutable(): the image that validate() refuses is one whose entry is
\* no instruction of .text.  Nothing that was merged can make segments collide,
\* wrap or be both writable and executable, nor a debug entry name a file that
\* is not listed.
RefusedForItsEntry ==
  error = "InvalidExecutable" =>
    LET entry == SharedMeaning(Entry) IN
    ~ /\ entry % WordSize = 0
      /\ entry >= TextBase /\ entry < TextBase + regions["Text"].size

\* buildDebugInfo(): every line of an object's debug information whose section
\* was placed is found in the image at the address the instruction went to,
\* with the name of the same source file, and the lines are in address order.
LinesNameTheirSource ==
  stage = "done" =>
    LET final == executable.lines IN
    /\ \A k \in 1 .. Len(final) - 1 : final[k].address <= final[k + 1].address
    /\ \A o \in DOMAIN objects : \A entry \in Range(objects[o].debug_info) :
         Placed(o, entry.section) =>
           \E k \in DOMAIN final :
             /\ final[k].address =
                  Add(Add(Base(placements[<<o, entry.section>>].type),
                          placements[<<o, entry.section>>].offset), entry.offset)
             /\ files[final[k].file] = objects[o].source_files[entry.file]

\* docs/linker.md: a reference with no definition is an error, and only a weak
\* one resolves to address 0.  In an image, each reference that is not weak has
\* a definition.
StrongReferencesAreDefined ==
  stage = "done" =>
    \A o \in DOMAIN objects : \A symbol \in Range(objects[o].symbols) :
      ~symbol.defined /\ symbol.binding # "Weak" =>
        Definers(symbol.name, "Global") \cup Definers(symbol.name, "Weak") # {}

=============================================================================
