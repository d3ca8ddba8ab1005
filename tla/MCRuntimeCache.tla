--------------------------- MODULE MCRuntimeCache ---------------------------
(* RuntimeCache for TLC: builds, releases and the libraries nobody         *)
(* requires by name are interchangeable.                                   *)
EXTENDS RuntimeCache, TLC

CacheSymmetry ==
    Permutations(Builds) \cup Permutations(Releases) \cup Permutations(Libraries \ Required)

=============================================================================
