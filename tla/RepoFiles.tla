------------------------------ MODULE RepoFiles ------------------------------
(***************************************************************************)
(* What the bridge answers to the four repository file methods:            *)
(* RepoFileReader (apps/bridge/src/files/reader.ts), confinePath           *)
(* (confine.ts), resolveLocalCheckout (gate.ts) and runGit (git.ts).       *)
(*                                                                         *)
(* A checkout is what is on the disk at each path, what git makes of it,   *)
(* and whether git answers at all.  It is not a state of this module:      *)
(* agents work in it, so any two calls may meet two different checkouts.   *)
(* Where an answer depends on the order a directory is read in, the        *)
(* operator gives the set of the answers there may be.                     *)
(***************************************************************************)
EXTENDS Naturals, FiniteSets

CONSTANTS
  Path,       \* checkout-relative paths
  Root,       \* the checkout itself
  Above,      \* the directories above each path
  Refused,    \* what is no path in a checkout: absolute, with a "..", in .git
  TreeMax,    \* treeMaxEntries
  StatusMax   \* statusMaxEntries

ASSUME PathAssumption ==
  /\ Root \in Path \ Refused
  /\ Above \in [Path -> SUBSET Path]
  /\ \A p \in Path : /\ IsFiniteSet(Above[p]) /\ p \notin Above[p]
                     /\ \A a \in Above[p] : Above[a] \subseteq Above[p]
  /\ TreeMax \in Nat /\ StatusMax \in Nat

\* What is at a path; "outside" is a link out of the checkout, or into .git.
Node == {"absent", "text", "binary", "large", "other", "directory", "outside"}
\* "touched" is a tracked file written again with the content it had.
GitState == {"unchanged", "touched", "modified", "added", "deleted", "type_changed",
             "untracked", "ignored"}
GitWorks == {"ok", "git_unavailable", "not_a_repository", "git_failed"}

Checkout == [node: [Path -> Node], git: [Path -> GitState], works: GitWorks]

\* What a path that is there hangs on is there, and git agrees with the disk.
Sound(t) ==
  /\ t.node[Root] = "directory"
  /\ \A p \in Path :
       /\ t.node[p] # "absent" => \A a \in Above[p] : t.node[a] = "directory"
       /\ t.git[p] = "deleted" => t.node[p] = "absent"
       /\ t.node[p] = "absent" => t.git[p] \in {"unchanged", "deleted"}
       /\ t.node[p] = "directory" => t.git[p] \in {"unchanged", "untracked", "ignored"}

Refuse(code) == [ok |-> FALSE, code |-> code]
Entry(t, p) == [path |-> p, directory |-> t.node[p] = "directory"]
\* A listing is cut at its cap, and which entries are left is not said.
Cut(S, cap) == IF Cardinality(S) <= cap THEN {S} ELSE {U \in SUBSET S : Cardinality(U) = cap}

(* The gate, in the order it refuses.                                      *)
Claim == [connected: BOOLEAN, listed: BOOLEAN, filesEnabled: BOOLEAN,
          cwd: {"unreported", "missing", "elsewhere", "inside"},
          checkout: {"none", "missing", "here"},
          git: GitWorks, topLevel: {"same", "other"}]

filesLocalHint(claim) ==
  claim.filesEnabled /\ claim.cwd = "inside" /\ claim.checkout = "here"

resolveLocalCheckout(claim) ==
  IF ~claim.connected THEN "host_unavailable"
  ELSE IF ~claim.listed THEN "pane_not_found"
  ELSE IF ~claim.filesEnabled THEN "files_not_local"
  ELSE IF claim.checkout = "none" THEN "no_checkout"
  ELSE IF claim.cwd # "inside" \/ claim.checkout # "here" THEN "files_not_local"
  ELSE IF claim.git # "ok" THEN claim.git
  ELSE IF claim.topLevel # "same" THEN "files_not_local"
  ELSE "ok"

\* The nearest path that exists decides: a missing leaf cannot hide a link above it.
confinePath(t, p) ==
  IF p \in Refused \/ \E a \in Above[p] \cup {p} : t.node[a] = "outside"
  THEN "path_outside_checkout" ELSE "ok"

status(t) ==
  LET changed == {p \in Path : t.git[p] \in {"modified", "added", "deleted", "type_changed"}}
      untracked == {p \in Path : /\ t.git[p] = "untracked"
                                 /\ \A a \in Above[p] : t.git[a] # "untracked"}
  IN IF t.works # "ok" THEN {Refuse(t.works)}
     ELSE {[ok |-> TRUE, entries |-> {Entry(t, p) : p \in S}] : S \in Cut(changed \cup untracked, StatusMax)}

tree(t, p) ==
  LET children == {q \in Path : p \in Above[q] /\ Above[q] = Above[p] \cup {p}
                                /\ t.node[q] # "absent"}
  IN IF confinePath(t, p) # "ok" THEN {Refuse(confinePath(t, p))}
     ELSE IF t.node[p] = "absent" THEN {Refuse("not_found")}
     ELSE IF t.node[p] # "directory" THEN {Refuse("not_a_directory")}
     ELSE IF children # {} /\ t.works # "ok" THEN {Refuse(t.works)}
     ELSE {[ok |-> TRUE, entries |-> {Entry(t, q) : q \in S}] : S \in Cut(children, TreeMax)}

read(t, p) ==
  IF confinePath(t, p) # "ok" THEN Refuse(confinePath(t, p))
  ELSE IF t.node[p] = "absent" THEN Refuse("not_found")
  ELSE IF t.node[p] \in {"directory", "other"} THEN Refuse("not_a_file")
  ELSE IF t.node[p] = "large" THEN Refuse("file_too_large")
  ELSE [ok |-> TRUE, kind |-> t.node[p]]

\* diff-index reports a touched file too; its empty patch tells.
tracked(t, p) == t.git[p] \in {"touched", "modified", "added", "deleted", "type_changed"}

diff(t, p) ==
  IF confinePath(t, p) # "ok" THEN Refuse(confinePath(t, p))
  ELSE IF p = Root \/ t.node[p] = "directory" THEN Refuse("not_a_file")
  ELSE IF t.works # "ok" THEN Refuse(t.works)
  ELSE IF ~tracked(t, p) /\ t.node[p] = "absent" THEN Refuse("not_found")
  ELSE IF t.git[p] = "untracked" /\ t.node[p] = "large" THEN Refuse("file_too_large")
  ELSE [ok |-> TRUE, kind |-> IF t.git[p] = "touched" THEN "unchanged" ELSE t.git[p]]

=============================================================================
