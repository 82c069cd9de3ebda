----------------------------- MODULE MCLoading -----------------------------
(* Executables and command lines for TLC.  A page has 16 bytes, a pointer  *)
(* two of 16 values; user space ends at 128, the stack at 112, and         *)
(* uint32_t counts to 63.                                                  *)
EXTENDS Loading, TLC

Header(type, offset, vaddr, filesz, memsz, writable) ==
  [type |-> type, offset |-> offset, vaddr |-> vaddr, filesz |-> filesz, memsz |-> memsz,
   writable |-> writable]
Executable(phdrs) == [valid |-> TRUE, phnum |-> Len(phdrs), phdrs |-> phdrs]

(* One segment of every shape around the limits of pages, file and memory. *)
OneSegment ==
  {Executable(<<Header("load", o, v, f, m, TRUE)>>) :
     o \in {0, 4, 20, 52}, v \in {0, 4, 16, 20, 33, 96, 100, 112, 116, 128, 132},
     f \in {0, 1, 11, 12, 13, 16, 28, 30},
     m \in {0, 1, 11, 12, 13, 16, 28, 30, 44, 60, 64, 70, 250}}

Text == Header("load", 0, 16, 20, 20, FALSE)
Several ==
  LET phdrs == {Header("ignored", 0, 0, 0, 0, FALSE), Header("refused", 0, 0, 0, 0, FALSE), Text,
                Header("load", 20, 52, 8, 30, TRUE), Header("load", 20, 36, 8, 8, TRUE)}
  IN {Executable(s) : s \in phdrs \X phdrs}
     \cup {[valid |-> FALSE, phnum |-> 0, phdrs |-> << >>],
           [valid |-> TRUE, phnum |-> 2, phdrs |-> <<Text>>]}

Plain == Executable(<<Text>>)
Adjacent == Executable(<<Header("load", 0, 80, 4, 16, TRUE)>>)
Cut(va) == Executable(<<Header("load", 32, va, 12, 16, TRUE)>>)  \* beyond its file
TestImages == OneSegment \cup Several \cup {Plain, Adjacent, Cut(64), Cut(80)}

(* Lines of up to 5 bytes, two that do not fit the first stack page, and   *)
(* one of too many words.                                                  *)
Program == <<2>>
Long == <<2, 1, 3, 3, 3, 1, 3, 1, 2, 2, 1, 3, 3, 3, 3, 3>>
Longer == Long \o <<2, 2, 2>>
Many == <<2, 1, 2, 1, 2, 1, 2, 1, 2, 1, 2>>
ShortLines == UNION {[1..n -> {1, 2, 3}] : n \in 0..5}
TestCommands == ShortLines \cup {Long, Longer, Many}
Names == {<<2>>, <<2, 3>>}

(* Executables are tried with one line and lines with few executables.     *)
Tests ==
  [command : {Program}, image : TestImages, oldStack : {0}]
  \cup [command : ShortLines \cup {Many}, image : {Plain}, oldStack : {0}]
  \cup [command : {Long, Longer}, image : {Plain, Adjacent, Cut(80)}, oldStack : OldStacks]
MCInit ==
  /\ \E t \in Tests : command = t.command /\ image = t.image /\ oldStack = t.oldStack
  /\ LoadInit
MCSpec == MCInit /\ [][LoadNext]_loadVars
=============================================================================
