---------------------------- MODULE MCArchiveWalk ----------------------------
(***************************************************************************)
(* ArchiveWalk for TLC: a volume with a junction into another directory,   *)
(* and a directory with a broken link.                                     *)
(***************************************************************************)
EXTENDS ArchiveWalk, TLC

VolumeDirs == {<<>>, <<"users">>, <<"data">>, <<"data", "app">>, <<"old">>}
VolumeFiles == {<<"users", "notes">>, <<"data", "db">>, <<"data", "app", "log">>, <<"old", "bak">>}
VolumeJunction == <<"users", "all">> :> <<"data">>
VolumeBroken == {<<"old", "gone">>}

==============================================================================
