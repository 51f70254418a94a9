SPECIFICATION ForwardingFairSpec
CONSTANTS
    NoVal = NoVal
    Ingress = {i1}
    Nodes = {n1, n2}
    RenderKeys = {k1}
    DEFAULT_FORWARD_CANDIDATES = 2
    Callers <- AllCallers
    Keys <- AllKeys
    Grants = {NoVal}
    Cacheable = {TRUE}
    Wildcard = "*"
INVARIANTS WorkNotRepeated
PROPERTY RequestSettles
CHECK_DEADLOCK FALSE
