---------------------------- MODULE WebThreadsMC -----------------------------
(* A small instance of WebThreads: a table of two out of three credentials,*)
(* and two callers.                                                        *)
EXTENDS WebThreads

CONSTANTS w1, w2

MCWriters == {w1, w2}
MCFiles == 1..4

(* What a file is called, and what it holds as long as it has a name.      *)
Name(f) ==
  CASE f = NoFile -> "none" [] f = tmp -> "tmp" [] f = path -> "path" [] OTHER -> "unlinked"
Held(f) == IF f = NoFile THEN Torn ELSE content[f]

MCView == <<now, cache, Name(tmp), Name(path), Held(tmp), Held(path), at, copy,
            [w \in Writers |-> Name(fd[w])], result, overlap, boot>>
=============================================================================
