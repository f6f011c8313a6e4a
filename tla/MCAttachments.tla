--------------------------- MODULE MCAttachments ---------------------------
(***************************************************************************)
(* Finite instances of Attachments for TLC.                                *)
(***************************************************************************)
EXTENDS Attachments, TLC

\* Neither actions nor properties tell two appeals, workers or files apart.
Symmetry ==
    Permutations(Appeals) \cup Permutations(Workers) \cup Permutations(Names)
=============================================================================
