------------------------------- MODULE MCChat -------------------------------
(***************************************************************************)
(* Chat for TLC: both connections are of user 2, who gets a new one before *)
(* the backend knows that the old one is gone; the users write to each     *)
(* other.                                                                  *)
(***************************************************************************)
EXTENDS Chat, TLC

MCTalks == {<<1, 2>>, <<2, 1>>}
MCOwner == [c \in Conns |-> 2]
=============================================================================
