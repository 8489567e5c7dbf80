------------------------------ MODULE FilePanel ------------------------------
(***************************************************************************)
(* The read-only file panel beside a terminal: FilePanel                   *)
(* (apps/web/src/app/pane-detail/file-panel.ts), the calls it makes        *)
(* through RepoFilesService (state/repo-files.service.ts), and the answers *)
(* of the bridge (RepoFiles).                                              *)
(*                                                                         *)
(* Every call is answered at some time, in any order, from a checkout that *)
(* may have changed since the last one; or the socket closes and it fails. *)
(* What a method of the panel does after an await travels with the call it *)
(* awaits: "then" names it, and "goal" is the path it is about.  Rows is   *)
(* what the tree draws; the text of a file, git's letters, the layout, and *)
(* the lines that say a pasted path is not there or a status is old are    *)
(* left out.                                                               *)
(***************************************************************************)
EXTENDS RepoFiles, Bags, TLC

CONSTANTS
  Terminal,   \* panes the panel is shown beside, one after the other
  Project,    \* what is known of a pane's project: "none", or "local" or "remote" files
  Claims,     \* what the gate may find (a subset of Claim)
  Checkouts,  \* what a checkout may be (a subset of Checkout)
  MaxCalls    \* bound: calls in flight

ASSUME PanelAssumption ==
  /\ Terminal # {} /\ MaxCalls \in Nat
  /\ Project \subseteq {"none", "local", "remote"}
  /\ Claims \subseteq Claim
  /\ \A t \in Checkouts : t \in Checkout /\ Sound(t)

VARIABLES
  beside,    \* host and paneId
  project,   \* the pane's project
  paused,    \* the host is out of sight or the session ended
  panel      \* the panel's signals, and its calls in flight

panelVars == <<beside, project, paused, panel>>

Calls == INSTANCE BagsExt  \* the calls in flight are a bag

None == "none"
FATAL == [files_not_local |-> "not-local", not_a_repository |-> "not-a-repo",
          git_unavailable |-> "git-missing", pane_not_found |-> "checkout-gone",
          no_checkout |-> "checkout-gone"]

\* "transport" is a socket that closed before the answer came.
AnswersTo(method, p) ==
  {Refuse("transport")}
  \cup {Refuse(code) : code \in {resolveLocalCheckout(claim) : claim \in Claims} \ {"ok"}}
  \cup CASE method = "repo.status" -> UNION {status(t) : t \in Checkouts}
         [] method = "repo.tree" -> UNION {tree(t, p) : t \in Checkouts}
         [] method = "file.read" -> {read(t, p) : t \in Checkouts}
         [] method = "repo.diff" -> {diff(t, p) : t \in Checkouts}
Method == {"repo.status", "repo.tree", "file.read", "repo.diff"}
Answer == [method \in Method |-> [p \in Path |-> AnswersTo(method, p)]]

Unread == [known |-> FALSE, loading |-> FALSE, entries |-> {}, error |-> FALSE]
Blank == [kind |-> None, path |-> None]

FreshBut(calls) ==
  [fatal |-> None, requested |-> FALSE,
   status |-> [known |-> FALSE, entries |-> {}],
   error |-> FALSE, changedOnly |-> FALSE,
   dirs |-> [p \in Path |-> Unread], expanded |-> {Root},
   selected |-> None, content |-> Blank, diff |-> Blank,
   calls |-> calls]
NoCalls == [c \in {} |-> 1]
Fresh == FreshBut(NoCalls)

\* The answers still to come belong to whoever asked, and are awaited still.
reset(s) == FreshBut(s.calls)

gate(proj, s) ==
  IF proj = "none" THEN "no-repo"
  ELSE IF s.fatal # None THEN s.fatal
  ELSE IF proj = "local" THEN "ready" ELSE "not-local"


takeFatal(s, code) == IF code \in DOMAIN FATAL THEN [s EXCEPT !.fatal = FATAL[code]] ELSE s

(* Calls.  at is the pane when the call is made.                           *)
Send(s, at, method, p, then, goal) ==
  [s EXCEPT !.calls =
     Calls!BagAdd(@, [method |-> method, path |-> p, of |-> at, then |-> then, goal |-> goal])]

pollStatus(s, at) == Send(s, at, "repo.status", Root, "poll", Root)

\* What is on screen stays there until what replaces it has come.
patchDir(s, p, state) ==
  [s EXCEPT !.dirs[p] =
     [known |-> TRUE, loading |-> state.loading, error |-> state.error,
      entries |-> IF state.loading /\ s.dirs[p].known THEN s.dirs[p].entries
                  ELSE state.entries]]

loadDir(s, at, p, then, goal) ==
  Send(patchDir(s, p, [loading |-> TRUE, entries |-> {}, error |-> FALSE]),
       at, "repo.tree", p, then, goal)

readFile(s, at, p) ==
  Send([s EXCEPT !.content = [kind |-> "loading", path |-> p]],
       at, "file.read", p, "view", p)
readDiff(s, at, p) ==
  Send([s EXCEPT !.diff = [kind |-> "loading", path |-> p]],
       at, "repo.diff", p, "view", p)

openFile(s, at, p) == readDiff(readFile([s EXCEPT !.selected = p], at, p), at, p)

\* Mutant: a directory opens without being read.
openDirOnly(s, at, p) == [s EXCEPT !.expanded = @ \cup {p}]
openDir(s, at, p) ==
  LET t == [s EXCEPT !.expanded = @ \cup {p}]
  IN IF s.dirs[p].known THEN t ELSE loadDir(t, at, p, "stop", p)

\* What the method that revealed a path goes on to do with it.
Finish(s, at, then, goal) ==
  CASE then = "open" -> openFile(s, at, goal)
    [] then = "enter" -> openDir(s, at, goal)
    [] then = "large" ->
         readDiff([s EXCEPT !.selected = goal,
                            !.content = [kind |-> "too-large", path |-> goal]], at, goal)
    [] then = "stop" -> s

\* Opens what is above goal, level by level below from, and stops to await
\* the first level it has to load.
reveal(s, at, from, then, goal) ==
  LET levels == Above[goal] \ (Above[from] \cup {from, Root})
      unread == {p \in levels : ~s.dirs[p].known}
      next == CHOOSE p \in unread : Above[p] \cap unread = {}
  IN IF unread = {} THEN Finish([s EXCEPT !.expanded = @ \cup levels], at, then, goal)
     ELSE loadDir([s EXCEPT !.expanded = @ \cup (levels \cap Above[next]) \cup {next}],
                  at, next, then, goal)

(* The effect of the constructor: one first read for each pane.            *)
FirstRead(s, at, proj) ==
  IF gate(proj, s) = "ready" /\ ~s.requested
  THEN pollStatus(loadDir([s EXCEPT !.requested = TRUE], at, Root, "stop", Root), at)
  ELSE s

(* What is drawn.                                                          *)
Opened(p) == p = Root \/ p \in panel.expanded
InTree(e) ==
  \E p \in Path :
    /\ Above[e.path] = Above[p] \cup {p} /\ p \in Above[e.path]
    /\ e \in panel.dirs[p].entries
    /\ \A a \in Above[e.path] : Opened(a)
Rows == IF panel.changedOnly THEN panel.status.entries
        ELSE {e \in UNION {panel.dirs[p].entries : p \in Path} : InTree(e)}

Ready == gate(project, panel) = "ready"
\* Leaves room for the two calls a click may send.
Room == BagCardinality(panel.calls) + 2 <= MaxCalls

PanelInit ==
  /\ beside \in Terminal
  /\ project \in Project
  /\ paused = FALSE
  /\ panel = FirstRead(Fresh, beside, project)

-----------------------------------------------------------------------------
(* The inputs.                                                             *)

SwitchPane(p) ==
  /\ p # beside /\ Room
  /\ beside' = p
  /\ \E proj \in Project :
       /\ project' = proj
       /\ panel' = FirstRead(reset(panel), p, proj)
  /\ UNCHANGED paused

ProjectChanges(proj) ==
  /\ proj # project /\ Room
  /\ project' = proj
  /\ panel' = FirstRead(panel, beside, proj)
  /\ UNCHANGED <<beside, paused>>

PausedChanges ==
  /\ paused' = ~paused
  /\ UNCHANGED <<beside, project, panel>>

\* Closed and opened again: another component, and nobody awaits the old calls.
toggleFilePanel ==
  /\ panel' = FirstRead(Fresh, beside, project)
  /\ UNCHANGED <<beside, project, paused>>

(* The operator, and the poll's timer.                                     *)

PollTimer ==
  /\ Ready /\ ~paused /\ Room
  /\ panel' = pollStatus(panel, beside)
  /\ UNCHANGED <<beside, project, paused>>

\* Mutant: retry reads the tree and not the status.
retryTree ==
  /\ gate(project, panel) = "not-a-repo" \/ panel.error
  /\ Room
  /\ panel' = loadDir([panel EXCEPT !.fatal = None, !.error = FALSE, !.requested = TRUE],
                      beside, Root, "stop", Root)
  /\ UNCHANGED <<beside, project, paused>>

retry ==
  /\ gate(project, panel) = "not-a-repo" \/ panel.error
  /\ Room
  /\ panel' = pollStatus(loadDir([panel EXCEPT !.fatal = None, !.error = FALSE,
                                               !.requested = TRUE],
                                 beside, Root, "stop", Root), beside)
  /\ UNCHANGED <<beside, project, paused>>

toggleChangedOnly ==
  /\ Ready
  /\ panel' = [panel EXCEPT !.changedOnly = ~@]
  /\ UNCHANGED <<beside, project, paused>>

showEveryFile ==
  /\ Ready /\ Room
  /\ panel.changedOnly /\ panel.status.known /\ panel.status.entries = {}
  /\ LET tree_ == [panel EXCEPT !.changedOnly = FALSE]
     IN panel' = IF panel.selected = None THEN tree_
                 ELSE reveal(tree_, beside, Root, "stop", panel.selected)
  /\ UNCHANGED <<beside, project, paused>>

toggleDir(p) ==
  /\ Ready /\ Room
  /\ [path |-> p, directory |-> TRUE] \in Rows
  /\ panel' =
       IF panel.changedOnly
       THEN reveal([panel EXCEPT !.changedOnly = FALSE], beside, Root, "enter", p)
       ELSE IF p \in panel.expanded THEN [panel EXCEPT !.expanded = @ \ {p}]
       ELSE openDir(panel, beside, p)
  /\ UNCHANGED <<beside, project, paused>>

OpenRow(p) ==
  /\ Ready /\ Room
  /\ [path |-> p, directory |-> FALSE] \in Rows
  /\ panel' = openFile(panel, beside, p)
  /\ UNCHANGED <<beside, project, paused>>

submitGoto(p) ==
  /\ Ready /\ Room /\ p # Root
  /\ panel' = Send(panel, beside, "file.read", p, "goto", p)
  /\ UNCHANGED <<beside, project, paused>>

-----------------------------------------------------------------------------
(* The answers.                                                            *)

Settle(c) == [panel EXCEPT !.calls = Calls!BagRemove(@, c)]
IsFatal(a) == ~a.ok /\ a.code \in DOMAIN FATAL

StatusAnswer(s, c, a) ==
  IF IsFatal(a) THEN takeFatal(s, a.code)
  ELSE IF a.ok
  THEN [s EXCEPT !.error = FALSE,
                 !.status = [known |-> TRUE, entries |-> a.entries]]
  ELSE [s EXCEPT !.error = TRUE]

\* A directory whose load ended the conversation is left as it was: loading.
TreeAnswer(s, c, a) ==
  LET read_ == IF IsFatal(a) THEN takeFatal(s, a.code)
               ELSE patchDir(s, c.path,
                             [loading |-> FALSE, error |-> ~a.ok,
                              entries |-> IF a.ok THEN a.entries ELSE {}])
  IN IF c.goal = c.path THEN read_ ELSE reveal(read_, beside, c.path, c.then, c.goal)

\* Mutant: the selection is not asked again after the await.
ReadAnswerAny(s, c, a) ==
  IF IsFatal(a) THEN takeFatal(s, a.code)
  ELSE [s EXCEPT !.content = [kind |-> IF a.ok THEN a.kind ELSE "failed", path |-> c.path]]

\* Dropped when the operator moved on while it was in flight.
ReadAnswer(s, c, a) ==
  LET kind == IF a.ok THEN a.kind
              ELSE CASE a.code = "file_too_large" -> "too-large"
                     [] a.code \in {"not_found", "not_a_file"} -> "gone"
                     [] OTHER -> "failed"
  IN IF s.selected # c.path THEN s
     ELSE IF IsFatal(a) THEN takeFatal(s, a.code)
     ELSE [s EXCEPT !.content = [kind |-> kind, path |-> c.path]]

DiffAnswer(s, c, a) ==
  LET kind == IF a.ok THEN "diff" ELSE IF a.code = "not_found" THEN "gone" ELSE "failed"
  IN IF s.selected # c.path THEN s
     ELSE IF IsFatal(a) THEN takeFatal(s, a.code)
     ELSE [s EXCEPT !.diff = [kind |-> kind, path |-> c.path]]

\* The bridge says what the pasted path is, and the panel opens it as that.
GotoAnswer(s, c, a) ==
  IF a.ok THEN reveal(s, beside, Root, "open", c.path)
  ELSE IF IsFatal(a) THEN takeFatal(s, a.code)
  ELSE CASE a.code = "not_a_file" -> reveal(s, beside, Root, "enter", c.path)
         [] a.code = "file_too_large" -> reveal(s, beside, Root, "large", c.path)
         [] OTHER -> s

Answered(c, a) ==
  /\ panel' = CASE c.then = "goto" -> GotoAnswer(Settle(c), c, a)
                [] c.method = "repo.status" -> StatusAnswer(Settle(c), c, a)
                [] c.method = "repo.tree" -> TreeAnswer(Settle(c), c, a)
                [] c.method = "file.read" /\ c.then = "view" -> ReadAnswer(Settle(c), c, a)
                [] c.method = "repo.diff" -> DiffAnswer(Settle(c), c, a)
  /\ UNCHANGED <<beside, project, paused>>

PanelNext ==
  \/ \E p \in Terminal : SwitchPane(p)
  \/ \E proj \in Project : ProjectChanges(proj)
  \/ PausedChanges \/ toggleFilePanel
  \/ PollTimer \/ retry
  \/ toggleChangedOnly \/ showEveryFile
  \/ \E p \in Path : toggleDir(p) \/ OpenRow(p) \/ submitGoto(p)
  \/ \E c \in DOMAIN panel.calls : \E a \in Answer[c.method][c.path] : Answered(c, a)

PanelSpec == PanelInit /\ [][PanelNext]_panelVars

-----------------------------------------------------------------------------
(* Properties.                                                             *)

Gates == {FATAL[code] : code \in DOMAIN FATAL} \cup {None}
\* What may follow each of the calls.
Thens == [method \in Method |->
            CASE method = "repo.status" -> {"poll"}
              [] method = "repo.tree" -> {"stop", "open", "enter", "large"}
              [] method = "file.read" -> {"view", "goto"}
              [] method = "repo.diff" -> {"view"}]
Entries == SUBSET [path: Path, directory: BOOLEAN]
Call == UNION {[method: {method}, path: Path, of: Terminal, then: Thens[method], goal: Path] :
                 method \in Method}
Shown == [kind: {"loading", "text", "binary", "too-large", "gone", "failed", "diff"},
          path: Path] \cup {Blank}

Dir == [known: BOOLEAN, loading: BOOLEAN, entries: Entries, error: BOOLEAN]

IsPanel(s) ==
  /\ s \in [fatal: Gates, requested: BOOLEAN,
            status: [known: BOOLEAN, entries: Entries],
            error: BOOLEAN, changedOnly: BOOLEAN,
            dirs: [Path -> Dir], expanded: SUBSET Path, selected: Path \cup {None},
            content: Shown, diff: Shown, calls: [DOMAIN s.calls -> Nat \ {0}]]
  /\ DOMAIN s.calls \subseteq Call

PanelTypeOK == beside \in Terminal /\ project \in Project /\ paused \in BOOLEAN /\ IsPanel(panel)

(* The viewer is never about another file than the one selected, whatever  *)
(* was opened, pasted or left while its read and its diff were in flight:  *)
(* readFile and readDiff ask selected() again after their await.           *)
ViewerShowsSelected ==
  \A shown \in {panel.content, panel.diff} :
    shown.kind # None => shown.path = panel.selected

(* The two places the panel starts from never wait for an answer that is   *)
(* not coming: while it may show files, a root that says it is loading,    *)
(* and a status line that does, have a call in flight.                     *)
CallInFlight(method, p) == \E c \in DOMAIN panel.calls :
                         c.method = method /\ c.path = p /\ c.of = beside
FirstReadsEnd ==
  Ready => /\ panel.dirs[Root].loading => CallInFlight("repo.tree", Root)
           /\ ~panel.status.known /\ ~panel.error => CallInFlight("repo.status", Root)

\* Whether or not the panel may show them.
FirstReadsAreAsked ==
  /\ Ready => panel.requested
  /\ panel.requested /\ panel.fatal = None =>
       /\ panel.dirs[Root].loading => CallInFlight("repo.tree", Root)
       /\ ~panel.status.known /\ ~panel.error => CallInFlight("repo.status", Root)

\* A directory that says it is loading, with no call on its way.
GivenUp(p) == panel.dirs[p].loading /\ ~CallInFlight("repo.tree", p)

\* Whatever opened a directory (a click, a pasted path, the way out of the
\* filter) has also asked for what is in it.
OpenIsAsked ==
  \A p \in panel.expanded : panel.dirs[p].known \/ (p = Root /\ ~panel.requested)

(* What stands open was asked for, and is waited for until its answer has  *)
(* come: a step after which a directory says it is loading, with nothing   *)
(* on its way, is one that has ended the conversation (openDir, reveal,    *)
(* loadDir, file-panel.ts:446-499).  Such a directory is not asked for     *)
(* again when the conversation resumes: it stays open, with nothing under  *)
(* it and nothing on its way (SpinnersEnd, below).                         *)
OpenIsRead ==
  [][/\ OpenIsAsked'
     /\ \A p \in Path : GivenUp(p)' => GivenUp(p) \/ panel'.fatal # None]_panelVars

PanelInv == PanelTypeOK /\ ViewerShowsSelected /\ FirstReadsAreAsked /\ OpenIsAsked

(* What was read of this pane stays on screen until something newer comes: *)
(* a failed poll, a retry and a reload leave it up.                        *)
NothingBlinks ==
  [][/\ beside' = beside
     /\ panel'.requested
     /\ ~toggleFilePanel
     => /\ panel.status.known => panel'.status.known
        /\ \A p \in Path : panel'.dirs[p].loading /\ ~panel.dirs[p].loading
                          => panel'.dirs[p].entries = panel.dirs[p].entries]_panelVars

(* The comment of the constructor's effect: "A different pane is a         *)
(* different checkout: nothing read for the last one may survive into this *)
(* one."                                                                   *)
(* Not so in the code; the README says where (Disagreements).              *)
Read == [panel EXCEPT !.calls = NoCalls]
NothingSurvives ==
  [][\A c \in DOMAIN panel.calls :
       c.of # beside /\ (\E a \in Answer[c.method][c.path] : Answered(c, a)) => Read' = Read]_panelVars

(* PanelGate's comment: none of its states is ever drawn as "a spinner     *)
(* that does not end".                                                     *)
(* Not so in the code; the README says where (Disagreements).              *)
SpinnersEnd ==
  Ready => \A p \in Path : panel.dirs[p].loading => CallInFlight("repo.tree", p)
=============================================================================
