------------------------------- MODULE MCStore -------------------------------
(* A small instance of Store for TLC. *)
EXTENDS Store, TLC

CONSTANTS long, short

\* Two blocks, which one read may take, and one block.
MCBlocks == (long :> 2) @@ (short :> 1)

\* Workers and inodes are interchangeable; the properties are invariants.
MCSymmetry == Permutations(Worker) \cup Permutations(Inode)
=============================================================================
