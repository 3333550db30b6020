CONSTANTS
    a = a
    b = b
    img = img
    cuda = cuda
    rocm = rocm
    vulkan = vulkan
    integrated = integrated
    metal = metal
    Gpu = {cuda, rocm, vulkan, integrated, metal}
    Cuda0 = cuda
    Metal = metal
    Backend <- Backends
    Integrated = {integrated}
    Setup <- Setups
    None = None
    Token = {a, b, img}
    Request <- Requests
    NCtx = 5
    Capacity = 5
    Unknown = Unknown
    state = state
    opt1 = opt1
    opt2 = opt2
    opt3 = opt3
    long = long
    Key = {state, opt1, opt2, opt3, long}
    Tokens <- Lengths
    Asked <- Askeds
    MaxText = 4
    MaxRows = 2
    TokenBudget = 4
    CacheEntries = 2
    Empty = Empty
SPECIFICATION Spec
INVARIANT RunsWhereAsked
INVARIANT OneModel
INVARIANT AutoReachesCpu
INVARIANT FixedPlan
INVARIANT NeverFull
INVARIANT ProjectionTrue
CHECK_DEADLOCK FALSE
