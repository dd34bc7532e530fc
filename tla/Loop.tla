-------------------------------- MODULE Loop --------------------------------
(***************************************************************************)
(* The loops of the code that compute a value, and the sums and numbers    *)
(* the properties compare their results with.                              *)
(***************************************************************************)
EXTENDS Naturals

(* The states of a loop by the number of its turns.  A turn is a function  *)
(* on its states; a loop that has ended stays where it is.                 *)
After(turn, start) ==
    LET state[n \in Nat] == IF n = 0 THEN start ELSE turn[state[n - 1]]
    IN  state
=============================================================================
