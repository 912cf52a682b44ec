SPECIFICATION Spec
CONSTANTS
    tensor = tensor
    array = array
    asarray = asarray
    launch = launch
    alias = alias
    user = user
    wpLaunch = wpLaunch
    TorchAttrs = {tensor}
    NumpyAttrs = {array, asarray}
    WarpAttrs = {launch}
    Aliases = {alias}
    UserAttrs = {user}
    Original <- Originals
    Fragile = {asarray, user, alias}
    MaxStarts = 2
CHECK_DEADLOCK FALSE
INVARIANTS
    OriginalsBack
    Intercepted
PROPERTY ProgramKept
