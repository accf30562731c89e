---------------------------- MODULE ResumableCopy ----------------------------
(***************************************************************************)
(* What a resumable download promises its user, whatever the network and   *)
(* the processes do: for each file, some prefix of the server's file is    *)
(* safely kept; it grows, it may be given up, and only when it is the      *)
(* whole file is it delivered under its final name.  What is delivered is  *)
(* never anything else than the server's file.  The promise may become     *)
(* void; the implementation says when.                                     *)
(***************************************************************************)
EXTENDS Integers, Sequences

CONSTANTS
  File,   \* the files
  Byte    \* what they are made of

VARIABLES
  original,   \* original[f]: the server's content of f, which never changes
  kept,       \* kept[f]: the prefix that the next session can start from
  delivered,  \* the files the user has
  copy,       \* copy[f]: the content delivered for f
  void        \* whether something has happened that ends the promise

Init ==
  /\ original \in [File -> Seq(Byte)]
  /\ kept = [f \in File |-> <<>>]
  /\ delivered = {}
  /\ copy = [f \in File |-> <<>>]
  /\ void = FALSE

\* One more piece of the file is safe.
Extend(f) ==
  /\ \E n \in Len(kept[f])+1 .. Len(original[f]) :
       kept' = [kept EXCEPT ![f] = [i \in 1..n |-> original[f][i]]]
  /\ UNCHANGED <<original, delivered, copy>>

\* What was safe is thrown away, and the download starts again.
GiveUp(f) ==
  /\ kept' = [kept EXCEPT ![f] = <<>>]
  /\ UNCHANGED <<original, delivered, copy>>

\* The whole file is handed to the user.
Deliver(f) ==
  /\ kept[f] = original[f]
  /\ kept' = [kept EXCEPT ![f] = <<>>]
  /\ delivered' = delivered \cup {f}
  /\ copy' = [copy EXCEPT ![f] = original[f]]
  /\ UNCHANGED original

\* As long as the promise holds.
Promised == \E f \in File : Extend(f) \/ GiveUp(f) \/ Deliver(f)

\* It ends for ever, and from then on anything may happen.
Next == (~void /\ ~void' /\ Promised) \/ void'

Spec == Init /\ [][Next]_<<original, kept, delivered, copy, void>>
=============================================================================
