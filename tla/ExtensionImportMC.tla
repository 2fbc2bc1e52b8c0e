-------------------------- MODULE ExtensionImportMC --------------------------
(* Two panels and the two usual ports, of which a panel may name either;   *)
(* the gateway of the first one asks for a key, and there is a wrong one.  *)
EXTENDS ExtensionImport, TLC

CONSTANTS m1, m2, p1, p2, noport, k1, k2, nokey

MCPanels == {m1, m2}
MCPorts == {p1, p2}
MCUsual == <<p1, p2>>
MCKeys == {k1, k2}
MCKeyOf == p1 :> k1 @@ p2 :> nokey
=============================================================================
