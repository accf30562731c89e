----------------------------- MODULE MCDownload -----------------------------
(* Small instances of Download for TLC. *)
EXTENDS Download, TLC

CONSTANTS f1, f2, v1, v2

\* Two blocks and a half for one version, one block for the other.
MCSize == (v1 :> 5) @@ (v2 :> 2)

\* One version only: three blocks, the last one short.
MCSize1 == (v1 :> 5)

\* Noise that reads as a good header, as an error, as a block with bytes of
\* another place, as an empty one, and as one that does not fit.
MCNoise ==
  {Header(NO_ERROR_R, 3), Header(PATH_ERROR_R, 0),
   Block(v1, 7, 2), Block(v1, 7, 0), Block(v1, 7, BLOCK_SIZE + 1)}
=============================================================================
