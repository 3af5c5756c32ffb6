SPECIFICATION Spec
CONSTANTS
    Procs = {p1, p2}
    Tags = {t1, t2}
    Digests = {d1, d2}
    Layers = {agentfile, soul}
    NoTag = NoTag
    NoDigest = NoDigest
    NoFile = NoFile
    Lost = Lost
SYMMETRY Symmetry
CONSTRAINT HurtBound
INVARIANTS
    TypeOK
    TagsWhole
    HeldImageKept
    LoadsWhole
