SPECIFICATION Spec
CONSTANTS
    Builds = {b1, b2}
    Releases = {v1, v2}
    Libraries = {api, accelerator}
    Required = {api}
    MayBeKilled = FALSE
INVARIANT LinksOwn
