SPECIFICATION Spec
CONSTANTS
    Parts = {"message"}
    c1 = c1
    c2 = c2
    p = p
    q = q
    Kinds = {"chat", "group", "image", "none"}
    Tokens <- Bearers
    Counting = TRUE
    MessageRequests <- Posted
    Chain <- First
    Other <- Second
    Setups <- Offers
    SideRequests <- SidePosted
    Trim <- Trimmed
INVARIANT Answered
CHECK_DEADLOCK FALSE
