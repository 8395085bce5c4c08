----------------------------- MODULE MC_WebDav -----------------------------
(* Two folders' names, "d" and "e", and a name in each, so that the folders can *)
(* be moved with what they hold.                                               *)
EXTENDS WebDav

Tree == {<<"d">>, <<"e">>, <<"d", "x">>, <<"e", "x">>}
InFolder == {<<"d">>, <<"d", "x">>}
=============================================================================
