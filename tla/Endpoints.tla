----------------------------- MODULE Endpoints -----------------------------
(***************************************************************************)
(* The handlers that answer a client, each on variables of its own, and    *)
(* what they promise: a chat request, an Anthropic one, and a decision or  *)
(* an image.                                                               *)
(***************************************************************************)
EXTENDS Naturals, Sequences

CONSTANTS
    Kinds, Tokens, Counting,                    \* of ChatEndpoint
    MessageRequests, Chain, Other, Setups,      \* of AnthropicEndpoint
    SideRequests, Trim                          \* of SideEndpoints

VARIABLES
    in, pc, ctx, log, reply, called, counted, rows,
    req, setup, at, list, idx, retried, reentered, headers, last, client, entry, outcome, calls,
    request, step, caller, sent, upstream, answer, usage, told

Chat == INSTANCE ChatEndpoint

Message == INSTANCE AnthropicEndpoint WITH
    Requests <- MessageRequests, pc <- at, log <- entry, reply <- outcome

Side == INSTANCE SideEndpoints WITH
    Requests <- SideRequests, pc <- step, client <- caller, up <- upstream, reply <- answer, rows <- usage

-----------------------------------------------------------------------------
\* A chat request: nobody is asked unless the token allows the name that was sent, nor
\* the ultimate model unless it is allowed too or is what the name stands for (group
\* members and fallbacks are not looked up); the log entry is completed exactly for a
\* whole answer and failed only if the client was told; and usage is metered for
\* answers, under the keys of what answered.
ChatSound == Chat!ChatSound

\* An Anthropic request: it fails only when every model of its list has been
\* asked, no model is asked once bytes of an answer have been sent, and the log
\* entry tells how the client was answered.
MessageSound == Message!MessageSound

\* Decisions and images: no error a provider reports with a message or a code is relayed
\* as a success, and what TypeSafe's adapter lets through without answers refuses every
\* question; what was done is metered once; and the answers made from TypeSafe's are
\* those to the questions, in order.
SideSound == Side!SideSound
=============================================================================
