------------------------------ MODULE GoSlices ------------------------------
(***************************************************************************)
(* What a goroutine sees of a Go slice that another one rewrites in place. *)
(*                                                                         *)
(* Copying a slice copies its header, not its elements.  A loop            *)
(* `for i, x := range s' therefore runs over the length s had when the     *)
(* loop started, but reads the elements from the shared array as they are  *)
(* when it reaches them.  Here a holder of such a header has a view: the   *)
(* elements at the positions of its header, in the array as it is now.     *)
(***************************************************************************)
EXTENDS Sequences, Naturals

\* The view after s was written to the front of the shared array: positions
\* beyond the length of s keep what they held.
Seen(view, s) == [i \in DOMAIN view |-> IF i <= Len(s) THEN s[i] ELSE view[i]]
=============================================================================
