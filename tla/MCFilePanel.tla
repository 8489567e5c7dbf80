---------------------------- MODULE MCFilePanel ----------------------------
(* A checkout with a file r at its root, and a directory d with a file f.  *)
EXTENDS FilePanel

MCPath == {"", "d", "f", "r"}
MCAbove == ("" :> {}) @@ ("d" :> {""}) @@ ("r" :> {""}) @@ ("f" :> {"", "d"})

Served == [connected |-> TRUE, listed |-> TRUE, filesEnabled |-> TRUE, cwd |-> "inside",
           checkout |-> "here", git |-> "ok", topLevel |-> "same"]
MCClaims == {Served, [Served EXCEPT !.git = "not_a_repository"]}

Disk(d, f, r) == ("" :> "directory") @@ ("d" :> d) @@ ("f" :> f) @@ ("r" :> r)
Git(d, f, r) == ("" :> "unchanged") @@ ("d" :> d) @@ ("f" :> f) @@ ("r" :> r)
Worktree(node, git) == [node |-> node, git |-> git, works |-> "ok"]
\* d and what is in it ignored, then new.
MCCheckouts ==
  {Worktree(Disk("directory", "text", "large"), Git("ignored", "ignored", "unchanged")),
   Worktree(Disk("directory", "text", "large"), Git("untracked", "untracked", "unchanged"))}
TerminalSymmetry == Permutations(Terminal)
=============================================================================
