---------------------------- MODULE FileService ----------------------------
(***************************************************************************)
(* What a program may expect of a file it has opened for reading: a        *)
(* position, reads that give the bytes from there on and move it, seeks.   *)
(* A byte is its position in the file, from 1.                             *)
(*                                                                         *)
(* The promise ends, and "spoiled" says so, with the first answer of the   *)
(* cloud that is not what it was asked for: the handler cannot tell.       *)
(***************************************************************************)
EXTENDS Integers, Sequences

CONSTANTS
  Sizes,       \* lengths files may have
  Lengths,     \* lengths programs ask for
  PeekLengths, \* lengths file managers peek with
  Unknown      \* the size of a document nobody has read yet

VARIABLES size, pos, answer, spoiled

vars == <<size, pos, answer, spoiled>>

Stretch(from, to) == [i \in 1..(to - from) |-> from + i]
Nearer(a, b) == IF a < b THEN a ELSE b

Answer(result, bytes) == [result |-> result, bytes |-> bytes]

Init ==
  /\ size \in Sizes \cup {Unknown}
  /\ pos = 0 /\ answer = Answer(0, <<>>) /\ spoiled = FALSE

(* Nothing is read, and the position stays.                                *)
Fail ==
  /\ answer' = Answer(-1, <<>>)
  /\ UNCHANGED <<size, pos, spoiled>>

(* A document's size is known from its first read on, unless it is empty.  *)
Read(n) ==
  \E s \in IF size = Unknown THEN Sizes ELSE {size} :
    LET end == IF pos < s THEN Nearer(pos + n, s) ELSE pos IN
      /\ answer' = Answer(end - pos, Stretch(pos, end))
      /\ pos' = end
      /\ size' = IF s = 0 THEN size ELSE s
      /\ UNCHANGED spoiled

(* The first bytes a file manager asks for to guess a document's type are  *)
(* not worth an export: it is told that it has them.                       *)
Peek(n) ==
  /\ size = Unknown /\ pos = 0 /\ n \in PeekLengths
  /\ answer' = Answer(n, <<>>)
  /\ UNCHANGED <<size, pos, spoiled>>

(* A seek answers with the position it leaves, and stays in the file.      *)
Seek ==
  /\ size # Unknown
  /\ \E to \in 0..size : pos' = to
  /\ answer' = Answer(pos, <<>>)
  /\ UNCHANGED <<size, spoiled>>

(* A rename learns the size the file has in the cloud by now.              *)
Resize ==
  /\ size # Unknown
  /\ size' \in Sizes
  /\ UNCHANGED <<pos, answer, spoiled>>

Spoil == spoiled' = TRUE

Next ==
  \/ Spoil
  \/ ~spoiled /\ (Fail \/ Seek \/ Resize \/ \E n \in Lengths : Read(n) \/ Peek(n))

Spec == Init /\ [][Next]_vars
=============================================================================
