----------------------------- MODULE WebBridgeMC -----------------------------
(* Small instances of WebBridge: two turns at a time, and two credentials,  *)
(* a free one, whose turns must not overlap, and a subscriber's.            *)
EXTENDS WebBridge

CONSTANTS free, sub   (* credentials, named like their buckets *)

MCCreds == {free, sub}
MCTier == [c \in MCCreds |-> c]
MCLimit == [tier \in MCCreds |-> IF tier = free THEN 1 ELSE 2]
=============================================================================
