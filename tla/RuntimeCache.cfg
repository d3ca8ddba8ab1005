SPECIFICATION Spec
CONSTANTS
    Builds = {b1, b2, b3}
    Releases = {v1, v2}
    Libraries = {api, accelerator}
    Required = {api}
    MayBeKilled = TRUE
SYMMETRY CacheSymmetry
INVARIANTS
    NotMixed
    LoneLinksOwn
