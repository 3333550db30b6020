CONSTANTS
    na = na
    nb = nb
    nd = nd
    ma = ma
    mb = mb
    md = md
    w = w
    x = x
    c = c
    Name = {na, nb}
    Manifest = {ma, mb, md}
    Blob = {w, x, c}
    Op = {o1, o2}
    None = None
    Half = Half
    BlobsOf <- SharedBlobs
    Offers <- Republished
    Derived <- Derive
    Pulls = {na, nb}
    Pinned <- PinnedA
    Creates <- BFromA
    Copies <- AToB
    Deletes = {na, nb}
    MayCrash = TRUE
    Installed <- Nothing
SPECIFICATION Spec
CONSTRAINT Bounded
SYMMETRY Symmetry
INVARIANT OneWriter
INVARIANT Complete
INVARIANT BlobsVerified
PROPERTY NothingLeft
PROPERTY OnShelf
