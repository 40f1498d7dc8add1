----------------------------- MODULE MCRpcClient -----------------------------
\* Commands c1 and c2 with responses, dialog answer d; a line of one byte, one
\* at the cap, one over it, one that is not JSON, null, and a blank line.
EXTENDS RpcClient

CONSTANTS c1, c2, d, event, long, garbage, null, blank

ByteCounts == [m \in Lines |->
    CASE m = blank -> 0 [] m = c1 -> 2 [] m = event -> 2 [] m = long -> 3 [] OTHER -> 1]
=============================================================================
