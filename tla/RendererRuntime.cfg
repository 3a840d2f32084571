\* Four requests for TLC, among them up to two live ones, two jobs and one
\* release at a time: a deletion can wait while an upload works, a live
\* request can load the models that a release has just dropped, and two
\* requests can wait for the same load.  One avatar is bundled, another is
\* uploaded, perhaps before.
CONSTANTS
    Nobody = Nobody
    Lives = {l1, l2}
    Jobs = {j1, j2}
    Releases = {r1}
    Avatars = {bundled, uploaded}
    Bundled = {bundled}
    MaxChunks = 2
    MaxRequests = 4

SPECIFICATION Spec

INVARIANTS
    RuntimeIsKept
    LiveGoesFirst
    ShelfIsDisk

PROPERTIES
    EveryoneIsAnswered
