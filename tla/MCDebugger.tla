------------------------------ MODULE MCDebugger ------------------------------
(***************************************************************************)
(* Debugging sessions on small programs, with the machine of               *)
(* MCVirtualMachine and a stack of four words.                             *)
(***************************************************************************)
EXTENDS Debugger, MCVirtualMachine

\* A function that calls itself until R3 is zero.
Recursion == <<30, 31, 1, 20, 17, 32, 15>>
\* A function that saves a register, stores a word and restores the register.
SavesAndStores == <<4, 31, 1, 12, 33, 10, 13, 15>>
\* A loop in which a division by zero fails each time.
FaultingLoop == <<0, 0, 0, 0, 19, 16>>
\* Pops its own return address, then a word that is not there, and falls into
\* undecodable code.
Unconventional == <<31, 1, 13, 13, 200>>

DebuggedPrograms == {Recursion, SavesAndStores, FaultingLoop, Unconventional}

\* The entry point, and an instruction inside the functions.
MCBreakAddresses == {TextBase, TextBase + 10}
\* Two words that share a byte.
MCWatchAddresses == {DataBase, DataBase + 1}
=============================================================================
