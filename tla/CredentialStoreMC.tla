-------------------------- MODULE CredentialStoreMC --------------------------
(* Two requests, two web cookies and a desktop token; a backup holds a     *)
(* cookie and the token.                                                   *)
EXTENDS CredentialStore

CONSTANTS h1, h2, c1, c2, t1, nobody

MCHandlers == {h1, h2}
MCCredentials == {c1, c2, t1}
MCCookies == {c1, c2}
MCBackup == {c2, t1}
=============================================================================
