------------------------------- MODULE MCLinker -------------------------------
(***************************************************************************)
(* Links of up to three of the objects below, in every order.  A byte has  *)
(* 6 bits and a word two bytes; the upper 4 bits of a word are its opcode, *)
(* the lower 8 its immediate.  The regions lie next to each other.         *)
(***************************************************************************)
EXTENDS Linker

MCByte == 0 .. 63
MCLoadWord(bytes) == bytes[1] + 64 * bytes[2]
MCStoreWord(word) == <<word % 64, word \div 64>>

\* Opcode 0 has no immediate, 1 a signed and 2 an unsigned one; there is no
\* other.  An immediate where there should be none does not decode.
MCImmediateUse(word) ==
  LET opcode == word \div ImmediateModulus IN
  CASE opcode = 1 -> "Signed" [] opcode = 2 -> "Unsigned"
    [] word = 0 -> "None" [] OTHER -> "Undecodable"

Nop      == <<0, 0>>
Signed   == <<0, 4>>
Unsigned == <<0, 8>>
NoCode   == <<0, 12>>

Sec(type, alignment, size, data) ==
  [type |-> type, alignment |-> alignment, size |-> size, data |-> data]
Def(name, binding, section, value) ==
  [name |-> name, binding |-> binding, defined |-> TRUE, section |-> section,
   value |-> value]
Ref(name, binding) ==
  [name |-> name, binding |-> binding, defined |-> FALSE, section |-> Undefined,
   value |-> 0]
Rel(section, offset, type, symbol, addend) ==
  [section |-> section, offset |-> offset, type |-> type, symbol |-> symbol,
   addend |-> addend % WordModulus]
Dbg(section, file, offset) ==
  [section |-> section, file |-> file, offset |-> offset]
Obj(sections, symbols, relocations, debug_info, source_files) ==
  [sections |-> sections, symbols |-> symbols, relocations |-> relocations,
   debug_info |-> debug_info, source_files |-> source_files]

-----------------------------------------------------------------------------
\* Calls f and takes the address of a label of its own.
Main ==
  Obj(<<Sec("Text", 2, 6, Signed \o Unsigned \o Nop)>>,
      <<Def("_start", "Global", 1, 0), Ref("f", "Extern"), Def("l", "Local", 1, 4)>>,
      <<Rel(1, 0, "PCREL48", 2, 0), Rel(1, 2, "IMM48", 3, 0)>>,
      <<Dbg(1, 1, 0), Dbg(1, 1, 4)>>, <<"a">>)

\* Defines f; its l is another than Main's.
Lib ==
  Obj(<<Sec("Data", 2, 3, <<0, 0, 9>>), Sec("Text", 4, 2, Signed)>>,
      <<Def("f", "Global", 2, 0), Def("l", "Local", 1, 2)>>,
      <<Rel(2, 0, "IMM48", 2, 1), Rel(1, 0, "ABS64", 1, 0)>>,
      <<Dbg(2, 2, 0), Dbg(1, 1, 2)>>, <<"b", "a">>)

\* A strong f again.
Second ==
  Obj(<<Sec("Text", 2, 2, Nop)>>, <<Def("f", "Global", 1, 0)>>, <<>>, <<>>, <<>>)

\* A weak f in .text, a weak reference to w.
Weak ==
  Obj(<<Sec("Text", 2, 4, Unsigned \o Signed)>>,
      <<Ref("w", "Weak"), Def("f", "Weak", 1, 2)>>,
      <<Rel(1, 0, "IMM48", 1, 0), Rel(1, 2, "PCREL48", 2, -2)>>,
      <<Dbg(1, 1, 2)>>, <<"c">>)

\* A weak f and a weak w in .rodata, and bytes that are not initialised.
Constants ==
  Obj(<<Sec("Rodata", 1, 3, <<5>>)>>,
      <<Def("f", "Weak", 1, 0), Def("w", "Weak", 1, 1)>>,
      <<Rel(1, 0, "ABS32", 1, 1)>>, <<>>, <<"c">>)

\* A reference to w that is not weak, from two half-words.
User ==
  Obj(<<Sec("Rodata", 2, 2, <<0, 0>>)>>, <<Ref("w", "Extern")>>,
      <<Rel(1, 0, "ABS32", 1, 12), Rel(1, 1, "PCREL32", 1, 0)>>, <<>>, <<>>)

\* A strong w in .bss, after a section that is not laid out.
Zeroed ==
  Obj(<<Sec("Null", 1, 0, <<>>), Sec("Bss", 2, 3, <<>>)>>,
      <<Def("w", "Global", 2, 1)>>, <<>>, <<Dbg(1, 1, 0)>>, <<"d">>)

\* A .data that leaves one byte of its region.
Big ==
  Obj(<<Sec("Data", 1, 11, <<7>>)>>, <<>>, <<>>, <<>>, <<>>)

\* An entry at an odd address; what follows it may be misaligned.
OddEntry ==
  Obj(<<Sec("Text", 1, 3, <<0, 0, 0>>)>>, <<Def("_start", "Global", 1, 1)>>,
      <<>>, <<>>, <<>>)

\* Packed behind what comes before; it has an f of its own, and the immediate
\* overflows if that is far into .text.
Packed ==
  Obj(<<Sec("Text", 1, 3, Signed \o <<1>>)>>, <<Def("f", "Local", 1, 0)>>,
      <<Rel(1, 0, "IMM48", 1, 104)>>, <<>>, <<>>)

\* Objects whose relocations cannot be applied.
NotCode ==
  Obj(<<Sec("Text", 2, 2, NoCode)>>, <<Def("l", "Local", 1, 0)>>,
      <<Rel(1, 0, "IMM48", 1, 0)>>, <<>>, <<>>)
NotPlaced ==
  Obj(<<Sec("Null", 1, 2, Nop)>>, <<Ref("w", "Weak")>>,
      <<Rel(1, 0, "ABS64", 1, 0)>>, <<>>, <<>>)
NotLaidOut ==
  Obj(<<Sec("Null", 1, 0, <<>>)>>, <<Def("f", "Weak", 1, 0)>>, <<>>, <<>>, <<>>)

MCObjects ==
  {Main, Lib, Second, Weak, Constants, User, Zeroed, Big, OddEntry, Packed,
   NotCode, NotPlaced, NotLaidOut}

MCCommandLines ==
  UNION {{line \in [1 .. n -> MCObjects] :
            \A i, j \in 1 .. n : line[i] = line[j] => i = j} : n \in 0 .. 3}
=============================================================================
