----------------------------- MODULE FileStore -----------------------------
(***************************************************************************)
(* What the file system promises its callers: a directory that maps names  *)
(* to files of fixed length, the cells of each file, and that a file lives *)
(* as long as it has a name or somebody has it open, whatever other files  *)
(* are created, written or deleted meanwhile.  A power failure closes all  *)
(* files and loses nothing else.                                           *)
(***************************************************************************)
EXTENDS Integers, Functions

CONSTANTS File, Name, Length, Cell

VARIABLES
  names,   \* pairs <<name, file>>
  open,    \* files that somebody has open
  content  \* the cells of the files that live

vars == <<names, open, content>>

Live == {entry[2] : entry \in names} \cup open
Zeros(length) == [i \in 0..(length - 1) |-> 0]

Init ==
  /\ names \in SUBSET (Name \X File) /\ open = {}
  /\ DOMAIN content = Live
  /\ \A file \in Live : \E length \in Length : content[file] = Zeros(length)

Create(n, file, length) ==
  /\ \A entry \in names : entry[1] # n
  /\ file \notin Live
  /\ names' = names \cup {<<n, file>>}
  /\ content' = [f \in Live \cup {file} |-> IF f = file THEN Zeros(length) ELSE content[f]]
  /\ UNCHANGED open

Remove(n, file) ==
  /\ <<n, file>> \in names
  /\ names' = names \ {<<n, file>>}
  /\ UNCHANGED open
  /\ content' = Restrict(content, Live')

Open(n, file) ==
  /\ <<n, file>> \in names
  /\ open' = open \cup {file}
  /\ UNCHANGED <<names, content>>

Close(file) ==
  /\ open' = open \ {file}
  /\ UNCHANGED names
  /\ content' = Restrict(content, Live')

Write(file, from, to, v) ==
  /\ from..to \subseteq DOMAIN content[file]
  /\ content' = [content EXCEPT ![file] =
                   [i \in DOMAIN @ |-> IF i \in from..to THEN v ELSE @[i]]]
  /\ UNCHANGED <<names, open>>

PowerFailure ==
  /\ open' = {}
  /\ UNCHANGED names
  /\ content' = Restrict(content, Live')

Next ==
  \/ \E n \in Name, file \in File :
       Open(n, file) \/ Remove(n, file) \/ \E length \in Length : Create(n, file, length)
  \/ \E file \in open :
       \/ Close(file)
       \/ \E from, to \in DOMAIN content[file], v \in Cell : Write(file, from, to, v)
  \/ PowerFailure

Spec == Init /\ [][Next]_vars
=============================================================================
