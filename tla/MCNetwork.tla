------------------------------- MODULE MCNetwork -------------------------------
(* A config with one network saved, one with none and WiFi off, and no config. *)
EXTENDS Network

CONSTANTS s1, s2

TheUploads == {ConfigOf(TRUE, TRUE, <<s1>>), ConfigOf(FALSE, TRUE, <<>>), Unfit}
TheScans   == {<<s1>>, <<s2, s1>>}
=============================================================================
