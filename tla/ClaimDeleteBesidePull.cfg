CONSTANTS
    na = na
    nb = nb
    nd = nd
    ma = ma
    mb = mb
    md = md
    w = w
    x = x
    c = c
    Name = {na, nb}
    Manifest = {ma, mb, md}
    Blob = {w, x, c}
    Op = {o1, o2}
    None = None
    Half = Half
    BlobsOf <- SharedBlobs
    Offers <- Published
    Derived <- Derive
    Pulls = {na}
    Pinned = {}
    Creates <- NoPairs
    Copies <- NoPairs
    Deletes = {nb}
    MayCrash = FALSE
    Installed <- BInstalled
SPECIFICATION Spec
SYMMETRY Symmetry
INVARIANT Complete
