------------------------------ MODULE Rotation ------------------------------
(***************************************************************************)
(* What the Rotator interface (rotator.go) promises, without an index: each *)
(* round hands out every signer once, in the order they joined, and a       *)
(* signer that joins takes its first turn at the end of the current round.  *)
(***************************************************************************)
EXTENDS Naturals, Sequences

CONSTANTS
  Signers,  (* the keys that may be in the rotation                        *)
  Initials, (* the sequences of keys it may be created with                *)
  Nil       (* no signer handed out yet                                    *)

VARIABLES
  waiting,  \* signers whose turn in this round is still to come
  passed,   \* signers that had their turn in this round
  last      \* the signer handed out last

rotationVars == <<waiting, passed, last>>

RotationInit ==
  /\ waiting \in Initials
  /\ passed = <<>>
  /\ last = Nil

\* Next hands out the signer whose turn it is; after the last one of a round
\* everyone waits again.
TakeTurn ==
  /\ waiting # <<>>
  /\ last' = Head(waiting)
  /\ IF Tail(waiting) = <<>>
     THEN waiting' = passed \o waiting /\ passed' = <<>>
     ELSE waiting' = Tail(waiting) /\ passed' = Append(passed, Head(waiting))

\* Add lets a signer join at the end of the round.
Join(s) ==
  /\ waiting' = Append(waiting, s)
  /\ UNCHANGED <<passed, last>>

RotationNext == TakeTurn \/ \E s \in Signers : Join(s)

RotationSpec == RotationInit /\ [][RotationNext]_rotationVars
=============================================================================
