----------------------------- MODULE MCSession ------------------------------
(* Small instances of Session for TLC. *)
EXTENDS Session, TLC

CONSTANTS doc, dir, a, b

\* The client has a file of two blocks; the slave has another one under the same
\* name, of one block; dir is a directory there, and an empty file of the client.
MCLocal  == (doc :> <<a, b>>) @@ (dir :> <<>>)
MCRemote == (doc :> <<b>>) @@ (dir :> NONE)

\* The same without the client's dir, and with something in it.
MCLocalNone == (doc :> <<a, b>>) @@ (dir :> NONE)
MCLocalFull == (doc :> <<a, b>>) @@ (dir :> <<a>>)

\* What the others put: nothing, or two blocks.
MCOthers == {<<>>, <<a, a>>}
=============================================================================
