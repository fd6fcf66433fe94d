------------------------------ MODULE ObjectFile ------------------------------
(***************************************************************************)
(* Relocatable objects (src/include/minitool/object/object.hpp), what the  *)
(* reader of object files accepts (src/src/object/object_io.cpp) and what  *)
(* a relocation writes (src/src/object/relocation.cpp).                    *)
(*                                                                         *)
(* Indices of sections, symbols and files count from 1.  Addends and       *)
(* relocated values are words; a negative one is its two's complement.     *)
(***************************************************************************)
EXTENDS Executable

CONSTANTS
  SymbolName,           \* names of symbols
  FileName,             \* names of source files
  HalfModulus,          \* 2^32: the values of half a word
  ImmediateModulus,     \* 2^48: the values of an immediate field
  ImmediateUse(_)       \* how isa::decode reads a word: "Undecodable", or as an
                        \* instruction whose immediate is "None", "Signed" or
                        \* "Unsigned"

ASSUME ObjectAssumption ==
  /\ HalfModulus \in Nat /\ HalfModulus % 2 = 0 /\ HalfModulus < WordModulus
  /\ ImmediateModulus \in Nat /\ ImmediateModulus % 2 = 0
  /\ 0 < ImmediateModulus /\ ImmediateModulus < WordModulus
  /\ WordSize % 2 = 0
  /\ \A w \in Word :
       ImmediateUse(w) \in {"Undecodable", "None", "Signed", "Unsigned"}

\* Words are stored little-endian, half a word in the low-order bytes
\* (byteorder::store); apart from an instruction that has no immediate, whose
\* field is 0, how isa::decode reads a word does not depend on the immediate.
ASSUME FieldAssumption ==
  /\ HalfModulus > 0 /\ WordModulus % HalfModulus = 0
  /\ WordModulus % ImmediateModulus = 0
  /\ \A half \in 0 .. HalfModulus - 1 :
       LoadWord(SubSeq(StoreWord(half), 1, WordSize \div 2)
                  \o [k \in 1 .. WordSize \div 2 |-> ZeroByte]) = half
  /\ \A w \in Word :
       LET cleared == w - (w % ImmediateModulus) IN
       /\ ImmediateUse(w) = "None" => w = cleared
       /\ ImmediateUse(w) \in {"Signed", "Unsigned"}
            \/ ImmediateUse(cleared) \in {"Signed", "Unsigned"}
            => ImmediateUse(w) = ImmediateUse(cleared)

SectionType    == {"Null", "Text", "Rodata", "Data", "Bss"}
SymbolBinding  == {"Local", "Global", "Weak", "Extern"}
RelocationType == {"ABS32", "ABS64", "PCREL32", "IMM48", "PCREL48"}

Undefined == 0    \* kUndefinedSection

ObjectSection ==
  [type: SectionType, alignment: Word, size: Word, data: Seq(Byte)]
Symbol ==
  [name: SymbolName, binding: SymbolBinding, defined: BOOLEAN, section: Nat,
   value: Word]
Relocation ==
  [section: Nat, offset: Word, type: RelocationType, symbol: Nat, addend: Word]
DebugEntry == [section: Nat, file: Nat, offset: Word]

Object ==
  [sections: Seq(ObjectSection), symbols: Seq(Symbol),
   relocations: Seq(Relocation), debug_info: Seq(DebugEntry),
   source_files: Seq(FileName)]

relocationWidth(type) ==
  IF type \in {"ABS32", "PCREL32"} THEN WordSize \div 2 ELSE WordSize

-----------------------------------------------------------------------------
(***************************************************************************)
(* What read() accepts.  Bytes, names and the extents of the tables in the *)
(* file are abstracted; the tests that relate the parts of an object to    *)
(* each other are kept.                                                    *)
(***************************************************************************)
PowerOfTwo(alignment) == \E n \in 0 .. alignment : alignment = 2 ^ n

ReadsSection(section) ==
  /\ section.alignment # 0 /\ PowerOfTwo(section.alignment)
  /\ Len(section.data) <= section.size

ReadsSymbols(object) ==
  /\ \A i \in DOMAIN object.symbols :
       object.symbols[i].section \in {Undefined} \cup DOMAIN object.sections
  /\ \A i, j \in DOMAIN object.symbols :
       object.symbols[i].name = object.symbols[j].name => i = j

ReadsRelocation(object, relocation) ==
  /\ relocation.section \in DOMAIN object.sections
  /\ relocation.symbol \in DOMAIN object.symbols
  /\ relocation.offset + relocationWidth(relocation.type)
       <= Len(object.sections[relocation.section].data)

ReadsDebugEntry(object, entry) ==
  entry.section \in DOMAIN object.sections /\ entry.file \in DOMAIN object.source_files

Readable(object) ==
  /\ \A i \in DOMAIN object.sections : ReadsSection(object.sections[i])
  /\ ReadsSymbols(object)
  /\ \A i \in DOMAIN object.relocations :
       ReadsRelocation(object, object.relocations[i])
  /\ \A i \in DOMAIN object.debug_info :
       ReadsDebugEntry(object, object.debug_info[i])

-----------------------------------------------------------------------------
(***************************************************************************)
(* applyRelocation().                                                      *)
(***************************************************************************)
branchDisplacement(address, target) == Sub(target, Add(address, WordSize))

relocatedValue(type, symbolAddress, addend, place) ==
  LET target == Add(symbolAddress, addend) IN
  CASE type \in {"ABS32", "ABS64", "IMM48"} -> target
    [] type = "PCREL32" -> Sub(target, place)
    [] type = "PCREL48" -> branchDisplacement(place, target)

fitsUnsigned(value, modulus) == value < modulus
fitsSigned(value, modulus) ==
  value < modulus \div 2 \/ value >= WordModulus - modulus \div 2

FieldAt(data, relocation) ==
  SubSeq(data, relocation.offset + 1,
         relocation.offset + relocationWidth(relocation.type))

\* encodeInto() takes the value as the immediate of the instruction.
Encodes(use, value) ==
  CASE use = "None"     -> value = 0
    [] use = "Signed"   -> fitsSigned(value, ImmediateModulus)
    [] use = "Unsigned" -> value < WordModulus \div 2 /\
                           fitsUnsigned(value, ImmediateModulus)

WithImmediate(word, value) ==
  word - (word % ImmediateModulus) + (value % ImmediateModulus)

InBounds(data, relocation) ==
  relocation.offset + relocationWidth(relocation.type) <= Len(data)

\* The tests applyRelocation() makes, on the bytes of a whole region: "None" or
\* the RelocationError it returns, the first that applies.
RelocationError(data, base, relocation, symbolAddress) ==
  LET value == relocatedValue(relocation.type, symbolAddress, relocation.addend,
                              Add(base, relocation.offset))
      use   == ImmediateUse(LoadWord(FieldAt(data, relocation)))
      fits  == CASE relocation.type = "ABS32" -> fitsUnsigned(value, HalfModulus)
                 [] relocation.type = "ABS64" -> TRUE
                 [] relocation.type = "PCREL32" -> fitsSigned(value, HalfModulus)
                 [] OTHER -> fitsSigned(value, ImmediateModulus)
      instruction == relocation.type \in {"IMM48", "PCREL48"}
  IN  CASE ~InBounds(data, relocation) -> "OutOfBounds"
        [] InBounds(data, relocation) /\ instruction
             /\ relocation.offset % WordSize # 0 -> "UnalignedInstructionField"
        [] OTHER ->
             IF ~fits THEN "Overflow"
             ELSE IF ~instruction THEN "None"
             ELSE IF use = "Undecodable" THEN "NotAnInstruction"
             ELSE IF Encodes(use, value) THEN "None" ELSE "Overflow"

\* The bytes it puts in the field.
NewField(data, base, relocation, symbolAddress) ==
  LET value == relocatedValue(relocation.type, symbolAddress, relocation.addend,
                              Add(base, relocation.offset))
      word  == LoadWord(FieldAt(data, relocation))
      half  == StoreWord(value % HalfModulus)
  IN  CASE relocation.type \in {"ABS32", "PCREL32"} -> SubSeq(half, 1, WordSize \div 2)
        [] relocation.type = "ABS64" -> StoreWord(value)
        [] OTHER -> StoreWord(WithImmediate(word, value))

applyRelocation(data, base, relocation, symbolAddress) ==
  LET field == NewField(data, base, relocation, symbolAddress) IN
  [k \in 1 .. Len(data) |->
     IF k - relocation.offset \in DOMAIN field THEN field[k - relocation.offset]
     ELSE data[k]]

=============================================================================
