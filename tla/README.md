# kanhrd in TLA+

kanhrd is a browser kanban for the terminal panes of
herdr, a terminal multiplexer that runs coding agents. A
*bridge* (Node, `src/apps/bridge`) holds one link per herdr host and speaks
request/response and pushed events to *web* clients (Angular, `src/apps/web`)
over a WebSocket. This directory models the parts of that system whose
correctness depends on the order in which things happen: each module is written
from the code named in its header, TLC checks it on a small instance, and TLAPS
proves what matters most for every instance. `PROJECT.json` maps each
definition to the lines it models, lists the runs, and lists the hazards the
properties are for.

    tlc -workers 2 -config WriteQueue.cfg WriteQueue.tla      # one run
    tlapm WriteQueueProofs.tla                                # one set of proofs

## The system

| Component | State it keeps | Operations | Talks to |
|---|---|---|---|
| herdr client (`herdr/client.ts`) | one socket per request, one per subscription | `request`, `subscribe`, `close` | herdr's socket, directly or over an ssh tunnel |
| Host runtime (`herdr/hosts.ts`) | `connected`, `subscription`, its generation, the retry timer, `paneAgentStatus` with `status_since` | `start`, `stop`, `connectOnce`, `establishSubscription`, `pollAgentStatus`, `handlePushedEvent`, one method per lifecycle request | client, names, queues; emits bridge events |
| Name cache (`herdr/names.ts`, `project.ts`) | workspace and tab names, pane placements | `refresh`, `setTab`, `setPanePlacement`, `purgeTab`, `purgeWorkspace` | host runtime |
| Write queues (`herdr/write-queue.ts`) | `tails`: last task per pane, or per host | `enqueue` | host runtime and dispatch, around every write |
| Output poller (`output/poller.ts`, `delta.ts`) | poll entries, subscribers, last snapshot per entry | `subscribe`, `unsubscribe`, `dropConnection`, `poll` | `pane.read` below, `pane.output` frames above |
| Repository files (`files/`) | none: every call reads the disk and git | gate, confinement, `status`, `tree`, `read`, `diff` | dispatch |
| WS server and dispatch (`ws/server.ts`, `ws/dispatch.ts`) | per connection: subscribed hosts | one handler per bridge method, error mapping | everything above |
| WS client (`state/ws-client.ts`) | socket, pending requests, back-off | `request`, reconnect | bridge, toasts |
| Panes store (`state/panes.store.ts`) | panes, tabs, workspaces, hosts, filters, scope | `applyFrame`, `subscribeHost`, lifecycle actions, grouping into columns and swimlanes | WS client, parked store |
| Parked columns (`state/parked.store.ts`) | columns, pane assignments (persisted) | create, park, move, remove, exit rules | panes store, localStorage |
| Board (`board/`) | the page of its pager, scope of its route, `+` menu | paging, hiding, reordering, creating | panes store, parked store, router |
| Cards (`board/card.ts`) | open menu or dialog | move, split, close, rename | WS client, toasts |
| Toasts (`state/toast.service.ts`) | the notices shown, their timers | `push`, `dismiss`, `progress` | everybody |
| Rail, layout, keyboard (`rail/`, `state/layout.service.ts`, `state/keyboard.service.ts`, `app.ts`) | drawer and layers, armed prefix, last tab | clicks, chords, Escape | router, panes store, board |
| Board return (`state/board-return.service.ts`) | the board left, the card opened, a restore in flight | `rememberCard`, `rememberBoard`, `restore`, `retryRestore` | cards, board, pane view |
| Terminal (`pane-detail/pane-terminal.ts`) | pane in view, subscription, last snapshot, send chain | `load`, `retry`, `end`, `dispose`, frames, input | WS client, xterm |
| File panel (`pane-detail/file-panel.ts`) | tree, selection, what was read | open, toggle, go to, retry, status poll | repository files, over the WS client |

How it fits together: herdr pushes pane and tab events to a host runtime, which
updates its caches and fans bridge events out to every connection subscribed to
the host. What herdr does not push, the runtime polls: agent statuses and
unannounced deaths (`pollAgentStatus`), and terminal output (`OutputPoller`). A
browser lists a host's panes, then subscribes; after that it applies events as
they come, and the answers to its own requests without waiting for the events.
Inside the browser, services and components share signals, and Angular runs the
effects that read them after the handler that wrote has ended.

What is hard about it:

- **Overlap.** Every `await` lets another handler in: a retry during a connect,
  an unsubscribe during a poll's read, a second load during the first.
- **Two channels.** Pushes and answers between bridge and herdr use different
  sockets, so either may overtake the other.
- **Baselines.** Several parts remember what they saw last and act on
  differences; whoever moves a baseline without telling the others loses an
  event (`paneAgentStatus`, `lastContent`, `primed`, `lastSnapshot`).
- **Effects.** What a signal's effect writes comes after what changed the
  signal: between two saves, after an event that has already moved on, or never if
  the component goes away first.
- **Loss.** Links and WebSockets drop, pages are reloaded; state on one side
  survives the other.
- **No timeouts.** The herdr client waits as long as herdr does.

What makes each component correct, in one line each: at most one live
subscription per host, and always somebody who retries; writes of a pane land
in order, and a failed one stalls nobody; a delta frame is only applied to the
snapshot it was computed from, and loops run exactly for their subscribers; a
board never drops a living pane's card and eventually drops a dead one's; the
terminal shows the pane in view and calls `live` only what is fed; a card is in one
column, parked ones leave exactly when their rule says; the pager names a column
that is drawn; the file viewer shows the file selected; an action of a card
reaches the card it was opened on and is told once; a board shows what its
address names; the way back from a pane leads to the board that was left. The
line by line version is the `hazards` list of `PROJECT.json`.

## The modules

| Module | Models | Checked by | Proofs |
|---|---|---|---|
| `OutputPoller` | poll loops, subscribers, delta frames, closing connections | `MCOutputPoller` | `OutputPollerProofs` |
| `SnapshotFeed` | what the poller promises, without loops or deltas | refinement, in `OutputPoller.cfg` | `Refinement` |
| `WriteQueue` | the promise chains of both queues | `WriteQueue.cfg` | `WriteQueueProofs` |
| `FifoServer` | what a queue promises: one FIFO server per key | refinement, in `WriteQueue.cfg` | `Refinement` |
| `HostLink` | start, stop, overlapping connects, retries | `HostLink.cfg` | `HostLinkProofs` |
| `BoardSync` | herdr, bridge and boards together: pushes, overlapping polls and connects, list, mutations, outages | `BoardSync.cfg` | `BoardSyncProofs` |
| `CascadePurge` | the tree of workspaces, tabs and panes, on the bridge and on a board | `MCCascadePurge` | `CascadePurgeProofs` |
| `PaneTerminal` | overlapping loads, end, dispose, frames over the feed | `PaneTerminal.cfg` | `PaneTerminalProofs` |
| `BoardColumns` | which column and band a card is in (operators) | through `ParkedColumns` | `ParkedColumnsProofs` |
| `ParkedColumns` | the operator's columns, filters, exit rules, and their storage | `MCParkedColumns` | `ParkedColumnsProofs` |
| `BoardStrip` | the row of columns, the pager and the strips that scroll | `MCBoardStrip` | `ParkedColumnsProofs` |
| `RepoFiles` | what the bridge answers of a checkout (operators) | through `FilePanel` | `PaneTerminalProofs` |
| `FilePanel` | the panel beside the terminal, and its calls in flight | `MCFilePanel` | `PaneTerminalProofs` |
| `Connection` | a WebSocket, its requests, and what dispatch answers | through `CardActions` | `HostLinkProofs` |
| `ToastStack` | the stack of notices (operators) | through `CardActions` | `HostLinkProofs` |
| `CardActions` | menus, dialogs and actions of cards, composed of the two above | `CardActions.cfg` | `HostLinkProofs` |
| `Destinations`, `Chords` | where a creation may go; which key is which chord (operators) | through `BoardShell` | |
| `BoardShell` | pages, scope, rail, layers, `+` menu, keyboard | `MCBoardShell` | `BoardShellProofs` |
| `BoardReturn` | the round trip from a board to a pane and back | `MCBoardReturn` | `BoardShellProofs` |

### OutputPoller

One `Loop` is one `PollEntry` object. Loops have an identity beside their key
because a read in flight keeps a stopped entry alive while another one runs
under the same key (`entries[k]`). `reading[l]` is the read's progress: asked,
then sampled by herdr (`HerdrReads`), then answered (`PollChanged`,
`PollUnchanged`, `PollFails`). A snapshot is a version number; `ContentOf` and
`RevisionOf` say which versions have equal text or an unmoved revision, and
`Deltable` which texts have a delta, so the line diff is a parameter. `held[s]`
is what the subscriber's browser shows; it starts with the snapshot of its own,
earlier `pane.read`. `SocketClosing` and `SocketClosed` are separate because
`send` drops frames in between without the subscriber being gone.

*Bounds.* Two connections, one key, two subscriptions and loops, two versions:
enough for a loop to stop and be replaced under its key with a read in flight,
for a second subscriber to join a running loop, and for the text to move under an
unmoved revision and the revision under an unmoved text. Keys share nothing but
connections, so a second one adds no case; the theorems have any number.

*Fairness.* The interval fires (weak), and a socket that is closing closes. A read is sampled and answered
successfully infinitely often if it is asked infinitely often (strong): herdr
may fail reads, not all of them, and answers eventually; the client has no
timeout, so without the second half a loop does stall for ever.

### WriteQueue

Each task carries its chain position (`prior`) and the microtask steps between
its answer and its clean-up (`fulfilled`/`rejected`, `settled`, `cleaned`),
because the check `tails.get(key) === settled` runs two microtasks after the
answer. Four tasks over two keys put a task in every phase while another is
enqueued behind it. Fairness: microtasks run, and every request settles.

### HostLink

An attempt is one call of `connectOnce`. Attempts overlap because a failing
socket emits `error` and `close`, both of which schedule a retry, and because
`reconnectTimer` is overwritten when a retry is already pending (`lostTimers`).
Ids of finished attempts are reused, so outages are unbounded; `MaxChains`
bounds the attempts and timers that exist together. Fairness: timers fire,
half-closed sockets close, herdr answers while it is up.

### BoardSync

A pane is its life and its status. `herdr` is the truth, `pushes` the ordered
stream to the bridge on the subscription in use, `late` what is still to come on
subscriptions that were ended, `tracked` the bridge's `paneAgentStatus`, `placed`
the placements (which a connect does not clear), `polls` the calls of `pollAgentStatus`
in flight, each with the `known` set it took first, `mutation` the
one lifecycle request the host's queue is serving, `visit`, `list` and `card` a
browser's `subscribeHost` and its `panesSignal`. Polls overlap, because the interval
waits for none of them, and may fail. Calls of `connectOnce` overlap each other and a
connected host, as in `HostLink`: `retries` counts those still waiting for herdr's
`pane.list`, `connects` holds the rest. Each clears the baseline and seeds it afresh
(`Seeds`), whether or not the host is connected. Of `HostLink`'s sockets and generation, `feed` keeps what
the panes can tell apart: whether there is a subscription, and whether it is of the
current generation, that is, whether its end is heard. A frame from bridge to browser is
applied in the step that emits it: one WebSocket keeps their order, and a
browser sends nothing meanwhile that depends on one.

*Bounds.* One pane, one board, two statuses, two polls, two connects past their
`pane.list` (`Attempt`), two retries and attempts in all (`MaxChains`), two things in
flight when herdr or a board starts another (`MaxInFlight`); outages are unbounded. The hazards are about one pane's
history as several actors know it, and the sizes let two polls, or two connects,
or a list and a mutation overlap with each other and with pushes. The safety theorems
hold for any number. Deadlock is checked.

*Fairness.* The event loop handles the pushes that have arrived, the poll timer ticks,
and some poll comes through, again and again: strong fairness, because polls may fail for a while.
Nothing is assumed of the link: it may be lost for ever, and
`BridgeCatchesUp` has `<>[]connected` as a premise. Browsers may stay away.

### CascadePurge

`place` is herdr's tree; a tab is open while a pane is in it, a workspace while
a tab is. An operation (`Op`) changes it and is told by pushes (`Says`,
`Cascade`), which name what was closed and not what closed with it, and, when
the board asked for it (`Served`, `RenameServed`), by an answer (`Result`) on a
way of its own. Both mirrors apply pushes and answers alike, as an `Event`: where
panes are, which tabs and workspaces there are, what is closed. `bridge` is
`paneAgentStatus` (`age`: how long the bridge has watched a status, the part of
it that `BoardSync` leaves out), the placements, the tabs and the workspaces of
`WorkspaceTabNameCache`; `board` is the three maps of `PanesStore`. The two
differ in what a move closes, which `CardsAfter` and `Gone` show side by side.
`exit` is a pane's death that no push tells, and `PollApplied` the poll that
finds it. Requests of other browsers through the same bridge are among
`Elsewhere`, so their answers, which only repeat what the pushes say, are left
out.

*Bounds.* Three operations, up to two pushes in flight when the next one starts, two
panes, three tabs, two workspaces (one of two tabs): enough for a pane to be
created, moved and its old workspace closed while the answer to the first is
still on its way, and for the tab that a move closes to hold a dead pane.
`raced` and `moveEnded` are history variables of the properties: panes that were
moved while an answer that shows them was under way (an overtaken answer puts such a card
back in the old place, until the next poll or push), and tabs that closed because a
pane was moved out. No fairness: these properties are about safety only; that a poll happens is
`BoardSync`'s.

### PaneTerminal

A load is one call of `load()`: idle, reading, subscribing. Loads overlap
freely: navigation, `retry()`, a new scrollback depth and a delta that did not
rebuild all start one. `feed[s]` is the bridge's side of a subscription, reduced
to what the terminal can observe of `OutputPoller`: its pane, the last snapshot
sent, and whether one was sent. `Garbled` is the text of a delta laid over the
wrong base. When the length check notices, the pane is read again
(`FrameRefused`); when the held text is long enough for the slice, it does not
(`FrameGarbles`).

*Bounds.* Two panes, two loads in flight, three subscriptions, two versions, one
failing request; ids are reused, so the number of loads has no bound.
*Fairness.* The bridge answers every request, one way or the other.

### BoardColumns and ParkedColumns

`BoardColumns` is pure: `columnKeyOf`, `groupIntoColumns`, `groupIntoSwimlanes` and
`columnCountsSignal` as operators over the shown cards, the filters, the parked
columns and the scope. `ParkedColumns` is the state they are applied to, in one or more windows:
`card[w]` is `panesSignal`, `parked[w]` is `ParkedStore.state`, `filters[w]` is
`filtersSignal`, and `disk` the two documents of localStorage. `dirty[w]` holds
the effects that are scheduled: the two that save, and the one that prunes the
filter keys of columns that are gone. Each effect is an action of its own
(`SaveParked`, `SaveFilters`, `Prune`), so events of the bridge and a reload come between any
two; the operator acts on a page whose effects have run. `Shown` stands
for every event and answer that carries the whole pane and asks no exit rule;
`Dropped` for `releaseDroppedPanes`. `born`, `chosen` and `excused` are history
variables of the properties.

*Bounds.* One window, one pane, two columns of which each may be created once:
the id is handed out again after a removal while filters in memory or on disk still name it,
and the document that is stored at first has up to two columns, malformed ones and
ones of the same id or the same order among them, as an older build or a hand may have left it. Two windows do overwrite one another's documents,
so `HiddenByChoice` is about a browser with one window; the document stays
consistent with any number (a theorem).

### BoardStrip

`page` is `currentKey`, `pos[b]` what a strip's `scrollLeft` rounds to,
`target[b]` where its smooth scroll is bound for. `Follow` is the pair of effects
that keep page and strips together; every change of the row (`SetRow`: a column
hidden, shown, created, removed, moved) runs it. `Scrolls` and `ScrollBegins` are
scroll events that a smooth scroll fires on its way, which write the page back
(`onStripScroll`). `columns` holds hidden columns too, so a drop's distance is
measured by `reorderDelta` between columns. *Bounds:* two statuses, which is
enough for "the nearest to the left", three parked columns, one strip.
*Fairness:* a smooth scroll under way goes on; the browser promises that much.
`wanted` is a history variable of `ChoiceIsReached`.

### RepoFiles and FilePanel

`RepoFiles` says what the bridge may answer: the gate's refusals in their order
(`resolveLocalCheckout`), confinement, and the four reads over an abstract
checkout (a node and a git state per path). A checkout is not a state, because
agents work in it: any two calls may meet two different ones. `FilePanel` is the
component with its calls in flight, a bag; `beside` is the pane it is shown for.
Each call carries its method, path, the pane it was made for, and what its continuation goes on to do (`then`, `goal`),
since `reveal` awaits one folder after another. Answers come in any order; a
socket that closes answers them all with a failure. *Bounds:* two panes, a
folder with a file and a file beside it, two checkouts (the folder ignored, or
new), a host that serves the repository or says it is none, three calls in
flight. That overlaps a click's two reads with a poll or with the reads of the
pane before. Panes (`Terminal`) are symmetric. No fairness: the bridge's
client has no timeout, so an answer is not promised, and the properties are about calls
that are in flight or are not.

### Connection, ToastStack and CardActions

`Connection` numbers sockets in the order they open, and a request carries the one it
went out on, so an answer for a closed socket is lost, and a request whose
promise was rejected may still be carried out. `ToastStack` is the stack as
operators on a record. `CardActions` composes them: a *view* is an instance of
the card component, `bound[v]` its pane, `card[v]` its menu and dialogs,
`attempt[r]` an action with the state of its `progress` notice. Promise
continuations run before anything else happens, so an answer and what the card does with it
are one step (`ended`), and a closing socket runs those of all requests it
rejects, in any order, since they do not meet (`endedAll` says it in one go). *Bounds:* two requests, two sockets, two panes, one view, fifty panes
or fewer in the column (`Virtualized = FALSE`). Requests and sockets are used
up, so the model may stop and deadlock is not checked.

### Destinations, Chords and BoardShell

A page is a tuple, `<<"board", w, t>>` for a tab's board. Angular effects run
before the next event, so every action is what a handler writes, as a record
(`Now`), followed by `Settle`, which applies the route effect of the board and
the drawer effect of the rail to it. The route effect runs only when a signal it
reads has changed (`RouteReads`, `touched`), and the router rebuilds the board
unless the route has the same shape (`Rebuilt`). `Destinations` has where a
creation may go and the lookups it rests on, `Chords` which key is the prefix and
which never leave `App.onKeydown`. `strayed` marks a scope that the keyboard's
tab keys wrote. A creation's pane or tab comes as an event of the store
like any other. `standIn` says that the board's template draws the skeleton of a load, a failed load
or the empty state where the rail and the columns would be (`StandInChanges`: any of
them may come and go at any time); a scope that does not resolve hides them too. *Bounds:* two hosts, of which one can create workspaces; an empty workspace on the
first, one with two tabs (two panes and one) on the second; one of the workspaces, one of the tabs and
one of the panes may close and come back; the `+` menu and the
rail may open; eleven keystrokes, among them a prefix that shadows the direct chord, a bare and
a modified Escape, and `?`. Help, toasts and the theme panel are layers of the same ladder and
are left closed in the run; the theorems have any set of layers.

### BoardReturn

`lastBoardUrl`, `pending`, `clickedCard` and `restoring` are the service's own
fields; `address` is the router's, `Shape` the route it belongs to.
`RouterNavigates` is a whole navigation in the order the router gives it: the old view
ends and writes the record, the new one is mounted and takes it, and then the
navigation has ended. A restore looks for its card on three triggers, the
first render, a change of the columns, and the timer (`Render`, `ColumnsChange`,
`Pump`), while cards come late and the user may focus something
(`UserFocuses`). A card is in the column of its status or in one the operator has parked
it in; what `rememberReturn` records is its status and its place in the column it stands in. *Bounds:* the bare board and two scoped addresses that share a
route, two statuses, one parked column, two cards. *Fairness:* the timer fires and the grace period
ends; nothing is promised of cards.

## What the runs show

| Run | States | Shows |
|---|---|---|
| `output_poller` | 388 499 | `NoGarbledScreen`: a delta frame always finds the snapshot it was computed from; `ImplementsFeed`: the poller implements `SnapshotFeed`, although stopped loops' answers still arrive; `PrimedCatchUp`: a subscriber that had one frame catches up with a quiet pane |
| `write_queue` | 35 037 | every write is served although others fail; the chain implements `FifoServer` |
| `host_link` | 127 220 | there is always somebody who retries, and the link recovers |
| `board_sync` | 651 041 | no living pane's card is dropped; tracked dead panes are swept unless a connect seeds the baseline afresh; the baseline catches up; announced panes appear |
| `cascade_purge` | 1 254 355 | once quiet, everything open is on the board; the bridge's maps are purged together; live panes lose no card but to a move's push under way; no move restarts the age of a pane that stays tracked |
| `pane_terminal` | 246 980 | the screen is of the pane in view, a live stream is fed, a view that stays put settles |
| `parked_columns` | 2 687 734 | documents stay consistent through reloads between two saves, and columns share a place only if the first document gave it to both; an id handed out again hides nothing; a card leaves its column exactly when the exit rule says so |
| `board_strip` | 9 010 | the page is a column that is drawn; changes of the row do not turn it; a drop lands where it was drawn; a column chosen is reached |
| `file_panel` | 2 201 738 | the viewer shows the selected file; the first reads of a pane end; what is open was asked for, and its load is given up only when the conversation ends |
| `card_actions` | 1 323 352 | every promise can still settle, and its action ends with it; notices that stay are true; an action reaches the pane whose card was opened |
| `board_shell` | 166 640 | the scope is the route's; the page is inert only under an open drawer; a creation goes where the board is or to the place the user chose; a bare Escape never leaves the page |
| `board_return` | 190 504 | the way back leads to the board that was left; a restore gives the focus back to the column it was in or has nothing to give, and it ends |

Each property of a run has a mutant: a plausible bug in one mapped
definition (`\* Mutant:` in the modules) under which TLC finds it violated.
Deadlock is checked except where a system may really stop: a poller without
subscribers, a queue without writes, a runtime that was stopped, a view that was disposed of,
requests that are used up.

### Disagreements

Where the code and its documents or comments disagree. Each is a property in
its module, with the remark "Not so in the code"; adding it to the run's
configuration shows a counterexample.

1. **A late joiner may get no first frame** (`EveryJoinerCatchesUp` of
   `OutputPoller`). ADR-0004 says a subscriber "that joined a running loop — gets
   the full frame", and `poller.ts:49-50` that it "gets a full frame first";
   `poll` returns before the emit loop while the pane is quiet.
2. **Listing absorbs a status change** (`BoardsFollowStatus` of `BoardSync`, with
   two boards). The poll emits "for any pane whose `agent_status` differs from
   the last seen value" (`hosts.ts:653-656`); a second board's `pane.list` moves
   that value, and the poll has nothing to report to the first.
3. **A reconnecting board keeps dead panes** (`NoGhostCards` of `BoardSync`).
   "reconnect re-fetches snapshots from herdr" (`docs/CONTEXT.md:198`), and without
   the poll "the board keeps a card for a dead session forever"
   (`hosts.ts:673-675`); the list is merged into the cards, and a death during
   the outage is in no list and in no baseline.
4. **Overlapping loads leave a subscription behind** (`NoOrphanFeed` of
   `PaneTerminal`). One that has no one to feed "must not keep a poll alive"
   (`pane-terminal.ts:343-344`, and `openspec/specs/pane-gone-state/spec.md:35`);
   the stale check compares panes, not loads, and a new id overwrites the old
   one. Closing the view during the subscribe does the same.
5. **A move's cascade is purged on the bridge only** (`BoardPurgesWithBridge` of
   `CascadePurge`). The web UI "must apply the same purge-on-parent-close logic
   to its own local view state" (`docs/adr/0005`, lines 75-76); when a move closes a
   tab or a workspace, the bridge drops the panes it still holds there and the
   board does not. A pane that exited without a push in the five seconds before
   the poll would have told keeps its card for ever.
6. **Bands can chase one another** (`StripsComeToRest` of `BoardStrip`, with two
   bands and `Grouped = TRUE`). "every band pages together"
   (`swimlane.ts:133`); each band's scroll events write the page, which sends
   the other bands after it, and two smooth scrolls bound for different columns
   can go on answering one another.
7. **What was read for the last pane may reach this one** (`NothingSurvives` of
   `FilePanel`). "nothing read for the last one may survive into this one"
   (`file-panel.ts:388-389`); the answers of tree and status calls are applied to
   whatever pane is shown when they come, and those of a file whose path is selected here too.
8. **A folder's spinner may not end** (`SpinnersEnd` of `FilePanel`). No gate is "a spinner
   that does not end" (`file-panel.ts:29-30`); a folder whose load ends the
   conversation stays `loading`, and `retry` reads the root only: it stands open, with
   nothing under it and nothing on its way.
9. **A declined move leaves its notice** (`NoticesEndWithTheirActions` of
   `CardActions`). "Every path out of the action resolves it exactly once"
   (`toast.service.ts:30`); on `same_tab`, `doMove` takes the toast off by its
   key and does not settle its `progress`, so a notice that was still delayed
   appears afterward and stays.
10. **A recycled card may act on another pane** (`ActsOnItsOwnCard` of
    `CardActions` with `Virtualized = TRUE`). Clicking "opens the close confirmation
    for the menu's own card, never the neighbour's"
    (`openspec/specs/board-card-actions/spec.md:21`); above fifty panes a view
    that scrolls out of the column keeps its dialog and is bound to the next pane.
11. **A connected board may keep a dead pane** (`SweptWhileConnected` of `BoardSync`).
    `pane.list` "is the authority on what exists, so a tracked id absent from it is gone"
    and the poll says so (`hosts.ts:673-675`); a `connectOnce` that overlaps
    a connected host (an error and a close schedule two) clears and seeds the baseline (`hosts.ts:619-626`)
    after the pane has died, and no poll misses it any more.
12. **A pane found at connect may get an age** (`FoundIsNotWatched` of `CascadePurge`).
    "an absent readout is honest, a zero is a fabrication" (`hosts.ts:545-546`); a
    pane that moves out of a tab while that tab is closed is purged with it if the answer of
    `closeTab` overtakes the `pane.moved` push, which then tracks it as new, with
    `since` now.
13. **A board without a scope guesses the host** (`GuessesAreAsked` of `BoardShell`).
    "When the board has no scope and more than one host can create, the SPA SHALL ask"
    (`openspec/specs/board-card-actions/spec.md:55-57`, scenario at 67-70); `ambiguous`
    counts the places in the store (`board.ts:657-673`), so with one tab left, on the second
    host, nothing is asked and `createHost` sends the request to the first capable host,
    which is not even the one that has the place.
14. **The card that was opened is passed over** (`OpenedCardIsFocused` of `BoardReturn`).
    The focus goes to "the card that was opened, if it is still there"
    (`board-return.service.ts:92`); `columnKeys` looks in the column of the recorded status
    only (`board.ts:522`), so a card in a parked column, or one whose status has changed
    meanwhile, loses the focus to a card of that column.

Seen while modelling, without a property:

- *Bridge.* `stop()` does not orphan an attempt that is still seeding, because
  its generation is taken after the seeding (only tests stop a runtime). A
  pane born between the seeding `pane.list` and the subscription is tracked, but
  announced to no board. Closing the last pane of a tab pushes no `tab.closed`, so the rail keeps its row.
- *Terminal.* Of two overlapping loads of one pane, the first one's stream is adopted
  while the second one's read replaces the snapshot its next delta is for, and a
  text that happens to be long enough is laid over the wrong base
  (`FrameGarbles`). A read of a pane left behind that fails sets `failure` on the
  pane now in view, because that catch does not ask `isStale`. A host that is
  down when a browser connects is given up until its WebSocket reconnects.
- *Keyboard.* The tab keys write the scope without navigating, while
  `panes.store.ts:675-677` says they navigate and `:1220` that only the route
  writes it; such a scope may name a tab that later closes, and `lastTab` swaps to one
  that is gone. Prefix and `p` without a current tab goes to the last but one.
  Prefix and `?` does not arrive, because `onKeydown` drops a bare `?` (compare
  `docs/USER-GUIDE.md:30`). The scope rung of `closeTopOverlay` cannot be
  reached by a bare Escape, and one Escape may close two layers.
- *Shell.* Prefix and `w` opens the drawer also on a wide screen, where the rail is
  always there and the page becomes inert, and on a pane's page, which has no rail. The `+` menu stays open across a navigation, and a pending close or
  rename asked for on one pane's page opens on the next. A tab's address whose tab has closed
  shows the whole workspace. The grace period is not started anew between two
  unresolvable addresses of one shape.
- *Return.* A click that opens a card in another browser tab leaves its record
  behind for the next departure. The pump applies the remembered scroll again
  every 50 ms. On a narrow screen the rail's first effect takes the focus, so the
  card never gets it.
- *Storage.* Two windows of one browser overwrite each other's documents, last
  save wins.

## What is proved

No theorem uses fairness, and all are for every value of the
constants that satisfies the module's named assumptions (the bounds are naturals,
the markers are no members of the sets they extend). The bounds of the TLC runs
are not in them. Four proof modules extend two components that share no variable, and their
theorems are about each on its own: `BoardShellProofs` also has those of
`BoardReturn`, `HostLinkProofs` those of `CardActions` (with `Connection` and
`ToastStack`), `ParkedColumnsProofs` those of `BoardStrip`, and
`PaneTerminalProofs` those of `FilePanel` (with `RepoFiles`). For that the second
component has names of its own for what every module has (`ReturnSpec`,
`CardsSpec`, `StripSpec`, `PanelSpec`, their `Init` and `Next`).

- **OutputPoller.** `TypeCorrect`, `DeltasAreSafe`, `NoLoopWithoutSubscriber`,
  `ScreensNeverGoBack`, `Refinement`. *Argument:* a primed subscriber of a live
  loop holds what the loop last sent. That alone is not inductive: the invariant
  adds that every loop under a key carries that key, that a subscriber belongs
  to the loop of its own key and to no other, and that what is held, remembered
  or being read is never newer than the pane, nor a read older than what its
  loop already sent. The last part is why screens go forward.
- **WriteQueue.** `TypeCorrect`, `InOrder`, `NoLeakNoLoss`, `Refinement`. *Argument:*
  tasks are numbered in enqueueing order, the tail of a key is its last
  unfinished task, and the `prior` of a task is the one before it of its key or
  already cleaned; so a started task has only finished ones before it.
- **HostLink.** `TypeCorrect`, `OnlyOneSubscription`, `NeverAbandoned`,
  `NoBlindConnection`. *Argument:* an attempt that still holds the generation
  recorded as `previous` the subscription that is open, so acknowledging it closes
  that one; and whoever leaves the runtime unconnected schedules a retry or is
  superseded by an attempt under way.
- **BoardSync.** `TypeCorrect`, `LivePanesKeepTheirCards`, `PollsSweepGhosts`,
  `AnnouncementsArrive`. *Argument:* a card goes
  on the word of a push, a poll or the answer to a close, each possibly old. Ids
  are never reused, so each of these, once true, stays true: `PushesAreTrue`,
  `PollsAreTrue` (this is where noting `known` *before* asking matters), `AnswerIsTrue`.
  Pushes on ended subscriptions are no less true (`QueueIsTrue`), and each of the polls in flight
  has noted what it knew (`PollsAreTrue`).
  The other two are the safety halves of `GhostsAreSwept` and `NewPanesAppear`. A tracked ghost
  stays in the baseline unless a connect seeds that afresh (which is where the code
  loses it, Disagreements); a poll that begins notes it, its answer misses it, and
  applying that answer takes the card away, whatever other polls and connects do meanwhile and whether the
  link is up or not
  (`GhostsNearTheirSweep`). The announcement of a pane is lost only with its subscription
  and never overtaken, it goes on to `late` when its subscription is replaced,
  and in front of its queue it puts the card on every subscribed board
  (`AnnouncementsNearTheirBoards`). What fairness adds is that polls and pushes go on.
- **CascadePurge.** `TypeCorrect`, `TrackedArePlaced`, `AgesAreKept` (of a pane that
  stays tracked from one step to the next),
  `WhatIsOpenIsShown`, `CardsComeBack`. *Argument:* whatever the operation, what is said of it is an `Event`, and every step lays at
  most two events over the bridge's maps (`BridgeSteps`). One event purges the same set
  from both maps (`StaysMatched`) and leaves the age of a pane it does not purge
  alone (`AgeKept`); the poll lays two, but purges no pane it lists
  (`PollKeepsAge`). That the board shows what is open is about what is still on
  its way, in two channels (`MirrorInv`). Since herdr uses no id twice, whatever an
  event closes is closed for good (`ClosingsAreFinal`), so no event, however late, purges a
  live pane's card, an open tab's row or its workspace. What an event *shows* may be out of date. For the
  pushes, the last one that shows a pane has the last word and is right
  (`CardsFollow`; likewise `RowsFollow`, where a reordering may take a row away
  that a later push adds, and `SpacesFollow`); for the answers, which are applied beside
  the pushes, a pane that moved under one is noted in `raced`, and of any other the
  answer is right (`AnswersShowTheTree`). An operation of herdr adds what is
  new in the tree to the end of the pushes (`PushesSayTheNew`), a mirror's step
  takes one from the front (`PushIsFollowed`) or applies an answer
  (`AnswerIsFollowed`). `OpenIsShown` is `MirrorInv` with nothing under way, and
  `OnlyMovesLoseCards` what `CardsFollow` says of a pane whose card is not there.
- **PaneTerminal.** `TypeCorrect`, `ScreenFollowsView`, `LiveStreamsAreFed`,
  `NothingAfterEnd`. *Argument:* the three need one another (a frame paints the
  pane in view because its feed is of the pane in view; reopening the WebSocket
  on an ended pane is harmless because nothing is subscribed), and that only an
  open connection has loads under way or subscriptions fed.
- **ParkedColumns.** Of the grouping, as facts about the operators:
  `CardsHaveOneColumn`, `CardsHaveOneBand`, `HiddenColumnsAreEmpty`,
  `ChipsCountTheirColumns`. Of the specification: `ColumnsHaveTheirTypes`,
  `DocumentsStayConsistent`, `MovesAreCanonical`, `OnlyActivationReleases`, `ActivityIsNotMissed`, and
  `HiddenColumnsWereChosen` for a browser with one window, `NoKeyIsStranded` for any
  number. *Argument:* a new
  column takes the least free number, so ids stay distinct, and goes beyond all others, in the order as in the array (`BeyondIsBeyond`). Orders
  are not repaired by loading: columns that came with one order keep it, drawn as they are in the array, until a move.
  A move ranks the columns by order and place in the array (`Place`), so it
  leaves a permutation whatever it came to. Every document that is
  written was consistent in memory first, and one whose ids or membership were spoiled is repaired
  by loading it, which leaves the save scheduled. A hidden key survives its
  column only while the pruning is scheduled, and none is created meanwhile; the
  invariant says this of the page and, for the reload between the two saves, of both documents on disk.
  For `NoKeyIsStranded` it is enough that whatever takes a column away schedules the pruning.
- **BoardShell.** `ScopeFollowsTheRoute`, `PageIsGivenBack`,
  `BareEscapeClosesLayersOnly`, `TheMenuAimsItsCreations`. *Argument:* every action is a handler's record
  followed by `Settle`, and `Settle` alone restores the first two, whatever the
  record: the route effect runs whenever the scope its inputs give has changed,
  and the drawer effect covers a rail that stays, goes, comes or was never there. For
  the third, a bare Escape is forwarded only where a layer is open. For the fourth, the
  cards of the store are never others than herdr's (`StepsKeepThePanes`), so a tab with a
  card has a first one, that of the least index (`FirstPaneIsOfItsTab`); the board of a scope sends
  its host, its workspace and that pane, and takes the tab from the address, not from the
  filter the keyboard writes (`ScopedRequestsLand`), and a place of the list carries the host, the workspace and
  the first pane of the tab it names (`ChosenPlacesLand`). Of an unscoped creation that is not
  asked about nothing can be said (`GuessesAreAsked`, Disagreements).
- **BoardReturn.** `ReturnTypeCorrect`, `BackLeadsBack`, `FocusComesBack`,
  `RestoresEndOnTime`. *Argument:* the record is
  written from `lastBoardUrl` before that moves on, so it names the board that was
  left, and off the board there is one unless no board was open
  (`RecordsTheBoardLeft`); a new board takes the record and clears it. For the focus, a card that has it
  is in the document (`FocusIsDrawn`), so a restore finds the focus on `body` or where the
  user has put it. It looks for the card in the column of the status it had; one that stands elsewhere is
  passed over (Disagreements). The last is the safety half of `RestoreEnds`: whoever looks at a restore that
  is late ends it (`LooksEndOrWait`), and while the board stays no other takes its place.
- **Connection and CardActions.** `PromisesAreInSight`, `ActionsEndOnce`,
  `LastingNoticesTellTheTruth`, `EveryToastHasItsTimer`, and, where the column does not recycle its views,
  `ActionsReachTheirOwnPane`. *Argument:* only an open socket sends, and its
  close rejects all that is pending, so a pending promise is of the socket that is open now; a settled action
  was asked for, has no delay running and was not declined (`ActionsAreAskedOnce`), so
  nothing ends it again; and a lasting notice is one that its action has shown
  (`LastingNoticesAreShown`). That the timers are those of the notices that leave by
  themselves is kept by each operation of the stack (`PushesAreSound`,
  `DismissalsAreSound`), so by every handler that makes use of them. For the last, a view that leaves the page is gone
  with its dialogs, so an action knows a view only while that shows the pane it
  was asked for (`ViewsHoldTheirPane`).
- **BoardStrip.** `PagerRestsOnAColumn`, `RowChangesLeaveThePage`,
  `DropsLandOnTheirPlace`, `StripsAgree`, and, for a board without swimlanes, `ChoicesAreAhead`.
  *Argument:* a row that is not empty has a column to rest on (`Resting`), and a strip is
  always at one of the columns that are drawn and bound for one (`StripInv`), so
  a scroll event names one of them. For the drop, `reorderDelta` makes the distance between two
  drawn columns one in the order of all columns, hidden ones included. The row is
  that order filtered, and counting gives the list of the places it draws
  (`PlacesAreListed`, `DrawnIs`). A move shifts what lies between (`Source`, `MovedIs`), which
  keeps the order of all but what is moved (`SourcesKeepOrder`); so the places drawn
  after the move are the old ones shifted, listed with the i-th where the j-th was
  (`MovedAreListed`), and the row is the old row with its i-th column at the j-th place
  (`DropsMoveTheRow`). It needs that no column is in the order twice
  (`ColumnsAreDistinct`), which every operation keeps (`StepsKeepTheOrder`). `StripsAgree` needs it too
  (`RowsAreDistinct`): every strip is at the page's index or bound for it
  (`AtThePage`), so all that rest are there. `ChoicesAreAhead` is the safety half of
  `ChoiceIsReached`: a scroll event of the only strip names the page it is at and sends it nowhere
  (`OnlyStripKeepsItsWay`), so the strip stays bound for what was chosen and has one page
  less to go with each event that comes to the next. Bands can chase one another
  (Disagreements), so the theorem is not about them.
- **FilePanel.** `ViewerFollowsTheSelection`, `FirstReadsAreUnderWay`,
  `OpenDirectoriesAreRead`, `WhatWasReadStays`, `PanelTypeCorrect`. *Argument:* the continuation of a read writes only if
  its path is still selected; `reset` makes the panel forget what it has read but
  not its calls, so whether a first read is under way must be said of a panel
  that may not show files either (`FirstReadsAreAsked`); and every way of opening a
  directory asks for it first, also those that open all the directories above a
  path, of which there are finitely many. That a load is given up only when the conversation
  ends is about each call: whatever an operation or an answer sets loading, it has asked for (`StepsWait`), and the
  other calls stay in flight, unless it leaves the panel fatal. For `WhatWasReadStays`, an operation asks for at most
  one directory, and for one that was never read (`AsksForOne`), which is empty
  (`UnreadIsEmpty`); only a retry or the first read loads the root again, and it keeps the entries.

Only model-checked: everything under fairness (`PrimedCatchUp`,
`EveryWriteIsServed`, `LinkRecovers`, `GhostsAreSwept`, `BridgeCatchesUp`,
`NewPanesAppear`, `ViewSettles`, `ChoiceIsReached`, `RestoreEnds`), since the
prover has neither liveness under fairness nor `ENABLED`. Every safety property that
a run checks is a theorem. What needs induction over data would stay with TLC too; the rows, ranks and
first elements that the theorems speak of are defined without recursion, by
counting and by least indices.

A few invariants that are theorems or were checked once (`LoopsRunForSubscribers`,
`OneSubscription`, `EndedIsSilent`, `StripsAgreeAtRest`, `TimersMatchToasts`,
`NothingBlinks`, `NoStrandedKeys`, `MovesUntie` and the type invariants) stay in their modules without a run:
they hold on the same instances. All but three type invariants (of `BoardStrip`,
`CardActions` and `BoardShell`) are theorems, or part of an inductive invariant that is proved.

## What is not modelled

- herdr itself: external; only what the bridge can observe of it.
- Framing, JSON, the ssh tunnel, static files, REST (two read-only routes over
  `listPanes`), origin policy and start-up configuration: I/O and stateless checks.
- The line diff (`delta.ts`, `rebuildSnapshot`): a computation over text; which
  texts have a delta is a parameter of `OutputPoller`.
- The terminal's send chain, painting and touch scrolling; herdr's keybind file.
- Names, titles and labels, of workspaces as of columns, and badges and ages of
  cards; rename prompts of the rail and the pane's page.
- Host notices, settings, themes, fonts, scrollback, the key bar, and the
  layout of board, cards, file viewer and rail: presentation of state that is
  modelled, or preferences that stay what they were set to.
- Focus kept over recycled views, drags of a card from column to column (their
  effect, `park`, is modelled), and fallback capabilities of hosts that say nothing.
- Labs, end-to-end and integration suites, packaging and deployment.

Abstracted where modelled: terminal text (version numbers), back-off delays and
other lengths of time (a timer may fire at any time), scroll offsets (the page
they round to), file contents and git's formats.

## Plan

The components whose correctness depends on order are modelled, and every safety
property a run checks is a theorem. Left to prove:

1. The safety half of the other liveness properties (`PrimedCatchUp`,
   `EveryWriteIsServed`, `LinkRecovers`, `BridgeCatchesUp`, `ViewSettles`): that a step of the
   fair action brings what is waited for nearer, and no other step takes it further away.
2. The type invariants of `BoardStrip`, `CardActions` and `BoardShell`, for every value of the
   constants.
