--------------------------- MODULE DesktopShellMC ----------------------------
(* Small instances of DesktopShell: three names leave room for one gateway  *)
(* that has outlived its shell.                                             *)
EXTENDS DesktopShell

MCChildren == 1..3
=============================================================================
