SPECIFICATION Spec
CONSTANTS
    Parts = {"counted", "serving", "chat", "message", "stream", "registry", "sse", "side", "route"}
    c1 = c1
    c2 = c2
    p = p
    q = q
    Kinds = {"chat", "claimed", "image", "none"}
    Tokens <- Bearers
    Counting = TRUE
    MessageRequests <- Posted
    Chain <- First
    Other <- Second
    Setups <- Offers
    SideRequests <- SidePosted
    Trim <- Trimmed
INVARIANTS UltimateSound ChatSound StreamSound 
PROPERTIES MessageSound GatewaySound RequestsEnd
CHECK_DEADLOCK FALSE
