SPECIFICATION Spec
CONSTANTS
    Parts = {"registry"}
    c1 = c1
    c2 = c2
    p = p
    q = q
    Kinds = {"chat", "claimed", "image", "none"}
    Tokens <- Bearers
    Counting = TRUE
    MessageRequests <- Posted
    Chain <- First
    Other <- Second
    Setups <- Offers
    SideRequests <- SidePosted
    Trim <- Trimmed
PROPERTY DeleteCutsAll
CHECK_DEADLOCK FALSE
