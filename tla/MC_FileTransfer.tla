-------------------------- MODULE MC_FileTransfer --------------------------
(* FileTransfer.cfg: a file that the page uploads, and two that another client   *)
(* writes, renames and removes, of no, one and two messages.                    *)
(* FileTransferPage.cfg: the page alone, with a file of one message and an empty one. *)
EXTENDS FileTransfer

Sizes == [p \in Path |-> CASE p = "a" -> 1 [] p = "b" -> 2 [] OTHER -> 0]
OneFile == {<<"a">>}
TwoFiles == {<<"a", "c">>}
=============================================================================
