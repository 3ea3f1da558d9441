---------------------------- MODULE MCProjectData ----------------------------
(***************************************************************************)
(* Small instances of ProjectData for TLC.                                 *)
(***************************************************************************)
EXTENDS ProjectData, TLC

MCSymmetry == Permutations(Workers)

MCNames == 1..2

\* The properties of data_plane are about a project that is active or being
\* deleted; what a wipe leaves behind is what wipe_backup is about.
NotWiped == row # "wiped"
=============================================================================
