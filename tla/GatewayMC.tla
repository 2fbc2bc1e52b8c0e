------------------------------ MODULE GatewayMC ------------------------------
(* A small instance of Gateway: two tokens, one of them a subscriber's.    *)
EXTENDS Gateway

CONSTANTS t1, t2, r1, r2

MCTokens == {t1, t2}
MCPool == <<t1, t2>>
MCNames == {"token-1", "token-2"}
MCNameOf == [t \in MCTokens |-> IF t = t1 THEN "token-1" ELSE "token-2"]
MCDeltas == {-1, 1}
MCRests == {2}
MCTiers == {"free", "sub"}
MCLimit == [t \in MCTiers |-> 1]
MCRequests == {r1, r2}
MCHandler == [r \in MCRequests |-> IF r = r1 THEN "OpenAI" ELSE "Claude"]
MCSubscriber == {t2}
MCPoints == [s \in {"run", "ok", "session", "http", "network"} |->
               IF s \in {"run", "ok"} THEN 1 ELSE -1]
=============================================================================
