CONSTANTS
    na = na
    nb = nb
    nd = nd
    ma = ma
    mb = mb
    md = md
    w = w
    x = x
    c = c
    Name = {na, nb}
    Manifest = {ma, mb, md}
    Blob = {w, x, c}
    Op = {o1}
    None = None
    Half = Half
    BlobsOf <- SharedBlobs
    Offers <- Published
    Derived <- Derive
    Pulls = {na, nb}
    Pinned = {}
    Creates <- NoPairs
    Copies <- NoPairs
    Deletes = {}
    MayCrash = TRUE
    Installed <- Nothing
SPECIFICATION Spec
SYMMETRY Symmetry
INVARIANT ListsAfterCrash
