------------------------------ MODULE Assembler ------------------------------
(***************************************************************************)
(* The assembler (src/src/assembler/assembler.cpp) with its symbol table   *)
(* (src/include/minitool/assembler/symbol_table.hpp): from the IR of a     *)
(* file to its object, in two passes over the items of each section.       *)
(*                                                                         *)
(* The first pass gives the labels their offsets without making a byte,    *)
(* the second makes the bytes and the relocations.  Each is an operator    *)
(* that takes what is built so far and returns it with one item more.      *)
(***************************************************************************)
EXTENDS Optimizer

kSectionOrder == <<"Text", "Rodata", "Data", "Bss">>
InternalError == "InternalError"

alignUp(value, alignment) ==
  IF value % alignment = 0 THEN value ELSE value + (alignment - (value % alignment))

Zeros(n) == [k \in 1 .. n |-> ZeroByte]

-----------------------------------------------------------------------------
(***************************************************************************)
(* SymbolTable.                                                            *)
(***************************************************************************)
SymbolIndex(symbols, name) ==
  CHOOSE i \in DOMAIN symbols : symbols[i].name = name

\* An undefined local symbol at the first mention of a name.
findOrAdd(symbols, name) ==
  IF \E i \in DOMAIN symbols : symbols[i].name = name THEN symbols
  ELSE Append(symbols, [name |-> name, binding |-> "Local", defined |-> FALSE,
                        section |-> Undefined, value |-> 0])

-----------------------------------------------------------------------------
(***************************************************************************)
(* Pass 1.  The object has a section for each kind that has items.         *)
(***************************************************************************)
collectSections(sections) ==
  LET used == InOrder({n \in DOMAIN kSectionOrder : sections[kSectionOrder[n]] # <<>>}) IN
  [s \in DOMAIN used |-> kSectionOrder[used[s]]]

EmptyObject(file, kinds) ==
  [sections |-> [s \in DOMAIN kinds |-> [type |-> kinds[s], alignment |-> WordSize,
                                         size |-> 0, data |-> <<>>]],
   symbols |-> <<>>, relocations |-> <<>>, debug_info |-> <<>>,
   source_files |-> <<file>>, errors |-> {}]

defineLabelAligned(layout, item, section) ==
  LET symbols == findOrAdd(layout.symbols, item.name)
      i       == SymbolIndex(symbols, item.name)
  IN  IF symbols[i].defined
        THEN [layout EXCEPT !.errors = @ \cup {Error(item.line, "DuplicateSymbol")}]
        ELSE [layout EXCEPT !.symbols =
                [symbols EXCEPT ![i].defined = TRUE, ![i].section = section,
                                ![i].value = alignUp(layout.offset, WordSize),
                                ![i].binding = "Local"]]

defineLabel(layout, item, section) ==
  LET symbols == findOrAdd(layout.symbols, item.name)
      i       == SymbolIndex(symbols, item.name)
  IN  IF symbols[i].defined
        THEN [layout EXCEPT !.errors = @ \cup {Error(item.line, "DuplicateSymbol")}]
        ELSE [layout EXCEPT !.symbols =
                [symbols EXCEPT ![i].defined = TRUE, ![i].section = section,
                                ![i].value = layout.offset, ![i].binding = "Local"]]

layoutItem(layout, item, section) ==
  CASE item.kind = "label"       -> defineLabel(layout, item, section)
    [] item.kind = "instruction" -> [layout EXCEPT !.offset = @ + WordSize]
    [] item.kind = "bytes"       -> [layout EXCEPT !.offset = @ + Len(item.data)]
    [] item.kind = "value"       -> [layout EXCEPT !.offset = @ + item.width]
    [] item.kind = "space"       -> [layout EXCEPT !.offset = @ + item.size]
    [] item.kind = "align"       ->
         [layout EXCEPT !.offset = alignUp(@, item.alignment),
                        !.alignment = IF @ < item.alignment THEN item.alignment ELSE @]

LayingOut(object, section, contents) ==
  LET l[k \in 0 .. Len(contents)] ==
        IF k = 0 THEN [offset |-> 0, alignment |-> object.sections[section].alignment,
                       symbols |-> object.symbols, errors |-> object.errors]
        ELSE layoutItem(l[k - 1], contents[k], section)
  IN  l

layoutSection(object, section, contents) ==
  LET layout == LayingOut(object, section, contents)[Len(contents)] IN
  [object EXCEPT !.sections[section].alignment = layout.alignment,
                 !.sections[section].size = layout.offset,
                 !.symbols = layout.symbols, !.errors = layout.errors]

LayingOutSections(file, sections) ==
  LET kinds == collectSections(sections)
      o[s \in 0 .. Len(kinds)] ==
        IF s = 0 THEN EmptyObject(file, kinds)
        ELSE layoutSection(o[s - 1], s, sections[kinds[s]])
  IN  o

layoutAndDefineSymbols(file, sections) ==
  LayingOutSections(file, sections)[Len(collectSections(sections))]

-----------------------------------------------------------------------------
(***************************************************************************)
(* applyBindings(): .global, then .weak, then .extern.                     *)
(***************************************************************************)
bind(object, name, binding) ==
  LET symbols == findOrAdd(object.symbols, name) IN
  [object EXCEPT !.symbols =
     [symbols EXCEPT ![SymbolIndex(symbols, name)].binding = binding]]

bindExtern(object, name) ==
  LET symbols == findOrAdd(object.symbols, name) IN
  IF symbols[SymbolIndex(symbols, name)].defined
    THEN [object EXCEPT !.errors = @ \cup {Error(0, "SymbolVisibilityConflict")}]
    ELSE bind(object, name, "Extern")

Requests(names, binding) ==
  [k \in DOMAIN names |-> [name |-> names[k], binding |-> binding]]

AllRequests(globals, weaks, externs) ==
  Requests(globals, "Global") \o Requests(weaks, "Weak") \o Requests(externs, "Extern")

applyBinding(object, request) ==
  IF request.binding = "Extern" THEN bindExtern(object, request.name)
                                ELSE bind(object, request.name, request.binding)

ApplyingBindings(object, requests) ==
  LET o[k \in 0 .. Len(requests)] ==
        IF k = 0 THEN object ELSE applyBinding(o[k - 1], requests[k])
  IN  o

applyBindings(object, globals, weaks, externs) ==
  LET requests == AllRequests(globals, weaks, externs) IN
  ApplyingBindings(object, requests)[Len(requests)]

-----------------------------------------------------------------------------
(***************************************************************************)
(* Pass 2.                                                                 *)
(***************************************************************************)
relocationForInstruction(opcode) ==
  IF Format(opcode) = "Jump" THEN "PCREL48" ELSE "IMM48"

\* An unknown name comes from another file, unless it starts with .L.
referenceSymbol(object, name, line) ==
  LET symbols == findOrAdd(object.symbols, name)
      i       == SymbolIndex(symbols, name)
      dangles == ~symbols[i].defined /\ symbols[i].binding = "Local"
  IN  CASE ~dangles -> [object EXCEPT !.symbols = symbols]
        [] dangles /\ name \in LocalName ->
             [object EXCEPT !.symbols = symbols,
                            !.errors = @ \cup {Error(line, "UndefinedSymbol")}]
        [] dangles /\ name \notin LocalName ->
             [object EXCEPT !.symbols = [symbols EXCEPT ![i].binding = "Extern"]]

Written(object, section) == Len(object.sections[section].data)

PutBytes(object, section, bytes) ==
  [object EXCEPT !.sections[section].data = @ \o bytes]

addRelocationToNewest(object, section, type, symbol, line) ==
  LET referenced == referenceSymbol(object, symbol.name, line) IN
  [referenced EXCEPT !.relocations =
     Append(@, [section |-> section, offset |-> Written(object, section),
                type |-> type, addend |-> symbol.addend,
                symbol |-> Len(referenced.symbols)])]

addRelocation(object, section, type, symbol, line) ==
  LET referenced == referenceSymbol(object, symbol.name, line) IN
  [referenced EXCEPT !.relocations =
     Append(@, [section |-> section, offset |-> Written(object, section),
                type |-> type, addend |-> symbol.addend,
                symbol |-> SymbolIndex(referenced.symbols, symbol.name)])]

emitInstruction(object, item, section) ==
  LET symbolic  == isSymbolic(item)
      machine   == IF symbolic THEN [item.machine EXCEPT !.imm = 0] ELSE item.machine
      relocated == IF symbolic
                     THEN addRelocation(object, section,
                            relocationForInstruction(machine.opcode), item.symbol, item.line)
                     ELSE object
      entry     == [section |-> section, file |-> 1,
                    offset |-> Written(object, section), line |-> item.line]
  IN  IF EncodeError(machine) # "None"
        THEN PutBytes([relocated EXCEPT
                         !.errors = @ \cup {Error(item.line, EncodeError(machine))}],
                      section, Zeros(WordSize))
        ELSE PutBytes([relocated EXCEPT !.debug_info = Append(@, entry)],
                      section, StoreWord(encode(machine)))

emitSymbolValue(object, item, section) ==
  PutBytes(addRelocation(object, section,
                         IF item.width = 4 THEN "ABS32" ELSE "ABS64",
                         item.symbol, item.line),
           section, Zeros(item.width))

emitItem(object, item, section) ==
  LET written == Written(object, section) IN
  CASE item.kind = "label"       -> object
    [] item.kind = "instruction" -> emitInstruction(object, item, section)
    [] item.kind = "bytes"       -> PutBytes(object, section, item.data)
    [] item.kind = "value"       -> emitSymbolValue(object, item, section)
    [] item.kind = "space"       ->
         PutBytes(object, section, [k \in 1 .. item.size |-> item.fill])
    [] item.kind = "align"       ->
         PutBytes(object, section, Zeros(alignUp(written, item.alignment) - written))

\* .bss keeps its size and no bytes, which were all zero.  Elsewhere the bytes
\* are as many as pass 1 counted.
finishSection(object, section) ==
  LET this == object.sections[section]
      bad  == IF this.type = "Bss"
                THEN \E k \in DOMAIN this.data : this.data[k] # ZeroByte
                ELSE Len(this.data) # this.size
  IN  [object EXCEPT !.errors = @ \cup When(bad, 0, InternalError),
                     !.sections[section].data = IF this.type = "Bss" THEN <<>> ELSE @]

Emitting(object, section, contents) ==
  LET o[k \in 0 .. Len(contents)] ==
        IF k = 0 THEN object ELSE emitItem(o[k - 1], contents[k], section)
  IN  o

emitSection(object, section, contents) ==
  finishSection(Emitting(object, section, contents)[Len(contents)], section)

EmittingSections(object, sections) ==
  LET kinds == collectSections(sections)
      o[s \in 0 .. Len(kinds)] ==
        IF s = 0 THEN object ELSE emitSection(o[s - 1], s, sections[kinds[s]])
  IN  o

emit(object, sections) ==
  EmittingSections(object, sections)[Len(collectSections(sections))]

=============================================================================
