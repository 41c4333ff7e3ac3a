\* A layer known by three names: sha256, blake3 and sha512.
SPECIFICATION GcSpec
CONSTANTS
    q1 = q1
    r1 = r1
    r2 = r2
    t1 = t1
    layer = layer
    spare = spare
    image = image
    list = list
    sig = sig
    None = None
    Requests = {q1}
    Repos = {r1, r2}
    Tags = {t1}
    Blobs = {layer, spare}
    Manifests = {image, list, sig}
    Kind <- MCKind
    MustExist <- MCMustExist
    Subject <- MCSubject
    Algorithms = {"sha256", "sha512", "blake3"}
    Ops = {"push"}
    MaxRequests = 1
    MaxKills = 0
    InitialVolumes <- MCImages
    MaxCollects = 2
    MaxGcKills = 0
INVARIANT CollectedTagsPull
CHECK_DEADLOCK FALSE
