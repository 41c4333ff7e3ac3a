\* Two concurrent requests, two repositories, every operation on every
\* content, one kill.
SPECIFICATION Spec
CONSTANTS
    q1 = q1
    q2 = q2
    r1 = r1
    r2 = r2
    t1 = t1
    layer = layer
    image = image
    sig = sig
    None = None
    Requests = {q1, q2}
    Repos = {r1, r2}
    Tags = {t1}
    Blobs = {layer}
    Manifests = {image, sig}
    Kind <- MCKind
    MustExist <- MCMustExist
    Subject <- MCSubject
    Algorithms = {"sha256", "blake3"}
    Ops = {"push", "put_tag", "put_digest", "mount", "delete_manifest", "delete_tag", "delete_blob"}
    MaxRequests = 3
    MaxKills = 1
SYMMETRY MCSymmetry
INVARIANTS
    TypeOK
    LinkedIsStored
    TagIsServed
    ReferrerIsLinked
PROPERTY ImplementsPromise
CHECK_DEADLOCK FALSE
