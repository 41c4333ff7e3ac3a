\* Requests one at a time, two collections of either kind, kills of both.
SPECIFICATION GcSpec
CONSTANTS
    q1 = q1
    r1 = r1
    r2 = r2
    t1 = t1
    layer = layer
    spare = spare
    image = image
    list = list
    sig = sig
    None = None
    Requests = {q1}
    Repos = {r1, r2}
    Tags = {t1}
    Blobs = {layer, spare}
    Manifests = {image, list, sig}
    Kind <- MCKind
    MustExist <- MCMustExist
    Subject <- MCSubject
    Algorithms = {"sha256", "blake3"}
    Ops = {"push", "put_tag", "put_digest", "mount", "delete_manifest",
           "delete_tag", "delete_blob"}
    MaxRequests = 2
    MaxKills = 1
    InitialVolumes <- MCVolumes
    MaxCollects = 2
    MaxGcKills = 1
INVARIANTS
    TagsPullWhenCalm
    DoneIsClean
PROPERTY CollectKeepsReferrers
CHECK_DEADLOCK FALSE
