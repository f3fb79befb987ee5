------------------------------ MODULE MCAgentMesh ------------------------------
EXTENDS AgentMesh

CONSTANTS s1, g1, g2, claw, hands, k1, k2, k3, h1, h2

MCLists == {{Star}, {g1}}
MCSlots == [a \in Adapters |-> 1]

Offer(a, kind, via) == [agent |-> a, kind |-> kind, via |-> via]

MCOffers == <<
    {Offer(claw, "run", "http"), Offer(hands, "run", "mcp"), Offer(hands, "message", "http")},
    {Offer(claw, "message", "http"), Offer(claw, "run", "http"), Offer(hands, "message", "http")},
    {Offer(claw, "run", "http"), Offer(hands, "message", "http")}>>
=============================================================================
