-------------------------- MODULE MCModelDownload --------------------------
(* ModelDownload for TLC: the calls are interchangeable.                   *)
EXTENDS ModelDownload, TLC

DownloadSymmetry == Permutations(Downloads)

=============================================================================
