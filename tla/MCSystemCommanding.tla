------------------------ MODULE MCSystemCommanding ------------------------
(***************************************************************************)
(* Short lines of a and space, two lines of history, two commands: what    *)
(* they have in common is more than one key, so there is something to      *)
(* complete, and a line that is full already has no room for it.           *)
(***************************************************************************)
EXTENDS SystemCommanding

ShortCommands == {<<"a", "a">>, <<"a", "a", "a">>}
=============================================================================
