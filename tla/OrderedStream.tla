--------------------------- MODULE OrderedStream ---------------------------
(***************************************************************************)
(* What a cTCP connection promises in one direction: input is read at one  *)
(* end and pieces of it are printed at the other, in order and each byte   *)
(* at most once.  Bytes may be missing (an unanswered segment is given     *)
(* up), and after an undefined behaviour of the C program nothing is       *)
(* promised any more.                                                      *)
(***************************************************************************)
EXTENDS Integers, Sequences

VARIABLES
  nread,    \* number of bytes read at the sending end
  printed,  \* pieces [pos, len] of the input printed at the receiving end
  defined   \* is the receiving end still a program with a meaning?

vars == <<nread, printed, defined>>

Init == nread = 0 /\ printed = <<>> /\ defined = TRUE

Read == /\ nread' \in Nat /\ nread' > nread
        /\ UNCHANGED <<printed, defined>>

(* A piece of what was read, beyond everything printed before.              *)
IsNext(piece) == /\ piece.pos >= 1 /\ piece.pos + piece.len <= nread + 1
                 /\ \A i \in DOMAIN printed :
                      printed[i].pos + printed[i].len <= piece.pos

Output == LET piece == printed'[Len(printed) + 1] IN
          /\ Len(printed') = Len(printed) + 1
          /\ printed' = Append(printed, piece)
          /\ IsNext(piece)
          /\ UNCHANGED <<nread, defined>>

Undefine == defined' = FALSE /\ printed' = <<>> /\ UNCHANGED nread

Next == Read \/ Output \/ Undefine

Spec == Init /\ [][Next]_vars
=============================================================================
