---------------------------- MODULE BoardReturn ----------------------------
(***************************************************************************)
(* The round trip out of the board and back into it: BoardReturnService of *)
(* apps/web/src/app/state/board-return.service.ts, with the card that      *)
(* writes the first half of its record, the board that writes the second   *)
(* and hands over a port, and the pane view that reads where to go back.   *)
(*                                                                         *)
(* A board has a column for each status and those the operator has parked  *)
(* cards in; a parked card keeps the status herdr gives it, and stands in  *)
(* its parked column alone.                                                *)
(*                                                                         *)
(* The scroll offsets of a record are left out.  RESTORE_GRACE_MS is the   *)
(* action RestoreGraceEnds, and the timer of RESTORE_RETRY_MS, set as long *)
(* as a restore is in flight, is Pump.                                     *)
(***************************************************************************)
EXTENDS Integers, Sequences, SequencesExt

CONSTANTS
  Home, Scoped,  \* the board's bare address, and those that carry a scope
  Shape,         \* the route of an address: a Board serves those of one route
  Status, CardId, Nothing,
  Parked         \* the columns the operator has made

Board == Scoped \cup {Home}
Away  == {"pane", "settings"}
Column == Status \cup Parked

\* What the card writes of a return, and the record the board completes.
Click == [card : CardId \cup {Nothing}, status : Status \cup {Nothing}, index : Nat]
Record == [url : Board, card : CardId \cup {Nothing}, status : Status \cup {Nothing}, index : Nat]

\* isBoardUrl() tells the addresses of a board from every other page.
ASSUME ReturnAssumption ==
  /\ Home \notin Scoped /\ Board \cap Away = {} /\ DOMAIN Shape = Board
  /\ CardId \cap {"body", "elsewhere"} = {}
  /\ Status \cap Parked = {} /\ Nothing \notin Board \cup CardId \cup Column \cup Record

VARIABLES
  address,   \* an address of the board, or what else is open
  backUrl,   \* PaneDetail.backUrl, Nothing off a pane
  lastBoardUrl, pending, clickedCard,
  restoring, \* the record of the restore in flight, or Nothing
  late,      \* whether its deadline has passed
  fresh,     \* whether the board has not been rendered yet
  ready,     \* whether the board is past its skeleton
  columns,   \* the cards of each column, in order
  rendered,  \* the cards that are in the document
  focus      \* a card, "body", or "elsewhere"

returnVars == <<address, backUrl, lastBoardUrl, pending, clickedCard, restoring, late, fresh, ready,
          columns, rendered, focus>>

BoardIsOpen == address \in Board
PlaceOf(c, keys) == CHOOSE i \in DOMAIN keys : keys[i] = c
Without(keys, c) == IF c \in Range(keys) THEN RemoveAt(keys, PlaceOf(c, keys)) ELSE keys
Shown(cols) == UNION {Range(cols[k]) : k \in Column}
NoCard == [card |-> Nothing, status |-> Nothing, index |-> 0]

----
(* The restore.  Seen is what tryRestore() looks at, and n what a handler has *)
(* made of it.                                                                *)

Seen == [page |-> address, restoring |-> restoring, late |-> late, ready |-> ready,
        columns |-> columns, rendered |-> rendered, focus |-> focus]

returnFocusTarget(c, index, keys) ==
  IF c \in Range(keys) THEN c
  ELSE IF keys = <<>> THEN Nothing
  ELSE keys[1 + (IF index < Len(keys) THEN index ELSE Len(keys) - 1)]

\* Mutant: a board that waits as long as it takes.
DroppedElsewhere(n) == n.restoring.url # n.page
Dropped(n) == n.restoring.url # n.page \/ n.late
Target(n) ==
  IF n.restoring.status = Nothing THEN Nothing
  ELSE returnFocusTarget(n.restoring.card, n.restoring.index, n.columns[n.restoring.status])
\* Mutant: a card that is not in the document yet is given up.
WaitsForTheBoard(n) == ~Dropped(n) /\ ~n.ready
Waits(n) ==
  /\ ~Dropped(n)
  /\ n.ready => Target(n) # Nothing /\ Target(n) \notin n.rendered

\* focusCard() of column.ts: a focus the user has placed is left alone.
focusCard(c, f) == IF f = "body" THEN c ELSE f

Waiting(n) == n.restoring # Nothing /\ Waits(n)
Reaches(n) ==
  /\ n.restoring # Nothing /\ ~Dropped(n) /\ n.ready
  /\ Target(n) # Nothing /\ Target(n) \in n.rendered
retryRestore(n) ==
  /\ restoring' = (IF Waiting(n) THEN n.restoring ELSE Nothing)
  /\ late' = (n.late /\ Waiting(n))
  /\ focus' = (IF Reaches(n) THEN focusCard(Target(n), n.focus) ELSE n.focus)

ReturnInit ==
  /\ address \in Board \cup Away /\ backUrl = (IF address = "pane" THEN Home ELSE Nothing)
  /\ lastBoardUrl = (IF BoardIsOpen THEN address ELSE Home)
  /\ pending = Nothing /\ clickedCard = NoCard /\ restoring = Nothing /\ late = FALSE
  /\ fresh = BoardIsOpen /\ ready = FALSE /\ columns = [k \in Column |-> <<>>]
  /\ rendered = {} /\ focus = "body"

----
(* The trip. *)

\* Card.rememberReturn(), on a click: the link's own navigation follows, or
\* does not, where the click opens another browser tab.  The card writes its
\* status, wherever it stands, and its place in the column it stands in.
rememberReturn(c, k, s) ==
  /\ BoardIsOpen /\ c \in rendered \cap Range(columns[k]) /\ (k \in Status => s = k)
  /\ clickedCard' = [card |-> c, status |-> s,
                     index |-> PlaceOf(c, columns[k]) - 1]
  /\ UNCHANGED <<address, backUrl, lastBoardUrl, pending, restoring, late, fresh, ready, columns,
                 rendered, focus>>

\* The router ends the old view, begins the new one, and only then says that
\* the navigation has ended; the new board's effect runs after that.
RecordOf(u) ==
  [url |-> u, card |-> clickedCard.card, status |-> clickedCard.status,
   index |-> clickedCard.index]
\* Mutant: a record with the address the router has by then.
RecordOfRouter(p) == RecordOf(p)
RecordFor(p) == RecordOf(lastBoardUrl)
Leaves(p) == BoardIsOpen /\ (p \in Board => Shape[p] # Shape[address])
Enters(p) == p \in Board /\ (BoardIsOpen => Shape[p] # Shape[address])
Remembered(p) == IF Leaves(p) THEN RecordFor(p) ELSE pending

RouterNavigates(p) ==
  /\ p # address /\ address' = p
  /\ lastBoardUrl' = (IF p \in Board THEN p ELSE lastBoardUrl)
  /\ pending' = (IF Enters(p) THEN Nothing ELSE Remembered(p))
  /\ clickedCard' = (IF Leaves(p) THEN NoCard ELSE clickedCard)
  /\ backUrl' = (IF p # "pane" THEN Nothing
                 ELSE IF Remembered(p) = Nothing THEN Home ELSE Remembered(p).url)
  /\ UNCHANGED columns
  /\ \/ /\ Enters(p) /\ fresh' = TRUE /\ ready' = FALSE /\ rendered' = {}
        /\ retryRestore([Seen EXCEPT !.page = p, !.restoring = Remembered(p), !.late = FALSE,
                                    !.ready = FALSE, !.rendered = {}, !.focus = "body"])
     \/ /\ ~Enters(p) /\ Leaves(p) /\ fresh' = FALSE /\ ready' = FALSE /\ rendered' = {}
        /\ restoring' = Nothing /\ late' = FALSE /\ focus' = "body"
     \/ ~Enters(p) /\ ~Leaves(p) /\ UNCHANGED <<restoring, late, fresh, ready, rendered, focus>>

\* The browser draws the board; Board's afterNextRender() runs the first time.
\* What a column draws of its cards is its viewport's own affair.
Render(shown, past) ==
  /\ BoardIsOpen /\ ready' = past /\ rendered' = (IF past THEN shown \cap Shown(columns) ELSE {})
  /\ fresh' = FALSE
  /\ LET f == IF focus \in CardId \ rendered' THEN "body" ELSE focus
         n == [Seen EXCEPT !.ready = past, !.rendered = rendered', !.focus = f]
     IN IF fresh THEN retryRestore(n) ELSE focus' = f /\ UNCHANGED <<restoring, late>>
  /\ UNCHANGED <<address, backUrl, lastBoardUrl, pending, clickedCard, columns>>

\* A card comes, goes, changes its status or is parked: Board's effect runs
\* before the document follows.
Filed(c, k) ==
  LET without == [x \in Column |-> Without(columns[x], c)]
  IN IF k = Nothing THEN without ELSE [without EXCEPT ![k] = Append(@, c)]
ColumnsChange(c, k) ==
  /\ columns' = Filed(c, k) /\ columns' # columns
  /\ IF BoardIsOpen THEN retryRestore([Seen EXCEPT !.columns = columns'])
     ELSE UNCHANGED <<restoring, late, focus>>
  /\ UNCHANGED <<address, backUrl, lastBoardUrl, pending, clickedCard, fresh, ready, rendered>>

Pump ==
  /\ restoring # Nothing /\ retryRestore(Seen)
  /\ UNCHANGED <<address, backUrl, lastBoardUrl, pending, clickedCard, fresh, ready, columns,
                 rendered>>
RestoreGraceEnds ==
  /\ restoring # Nothing /\ ~late /\ late' = TRUE
  /\ UNCHANGED <<address, backUrl, lastBoardUrl, pending, clickedCard, restoring, fresh, ready,
                 columns, rendered, focus>>
UserFocuses(f) ==
  /\ f # focus /\ f \in rendered \cup {"body", "elsewhere"} /\ focus' = f
  /\ UNCHANGED <<address, backUrl, lastBoardUrl, pending, clickedCard, restoring, late, fresh,
                 ready, columns, rendered>>

ReturnNext ==
  \/ \E c \in CardId, k \in Column, s \in Status : rememberReturn(c, k, s)
  \/ \E p \in Board \cup Away : RouterNavigates(p)
  \/ \E shown \in SUBSET CardId, past \in BOOLEAN : Render(shown, past)
  \/ \E c \in CardId, k \in Column \cup {Nothing} : ColumnsChange(c, k)
  \/ Pump \/ RestoreGraceEnds
  \/ \E f \in CardId \cup {"body", "elsewhere"} : UserFocuses(f)
ReturnSpec == ReturnInit /\ [][ReturnNext]_returnVars

\* The browser's timer fires and its clock runs; nothing else is promised.
FairReturnSpec == ReturnSpec /\ WF_returnVars(Pump) /\ WF_returnVars(RestoreGraceEnds)

----
ReturnTypeOK ==
  /\ address \in Board \cup Away /\ backUrl \in Board \cup {Nothing} /\ lastBoardUrl \in Board
  /\ clickedCard \in Click
  /\ pending \in Record \cup {Nothing} /\ restoring \in Record \cup {Nothing}
  /\ {late, fresh, ready} \subseteq BOOLEAN
  /\ columns \in [Column -> Seq(CardId)]
  /\ rendered \subseteq CardId /\ focus \in CardId \cup {"body", "elsewhere"}

\* A pane's control back leads to the board that was left last, with its
\* scope, whatever was opened in between; and a restore is only ever of the
\* address the board is on when it begins (BoardReturnService.lastBoardUrl: a
\* departing board cannot ask the router, which has moved on by then).
BackLeadsToTheBoardLeft ==
  /\ BoardIsOpen => lastBoardUrl = address /\ pending = Nothing
  /\ address = "pane" => backUrl = lastBoardUrl

\* What the two properties rest on: a record names the board that was left, and
\* there is one once a board was; a card has the focus while it is drawn, and a
\* board that has not been rendered yet has drawn none.
RecordsTheBoardLeft ==
  /\ pending # Nothing => pending.url = lastBoardUrl
  /\ ~BoardIsOpen /\ pending = Nothing => lastBoardUrl = Home
FocusIsDrawn == (focus \in CardId => focus \in rendered) /\ (fresh => rendered = {})
ReturnInv == ReturnTypeOK /\ BackLeadsToTheBoardLeft /\ RecordsTheBoardLeft /\ FocusIsDrawn

\* On its own board and in time, a restore ends only when nothing is left to
\* do: the record has no card, the column of its status has emptied, or the
\* focus is placed.  It gives the focus to the card that was opened as long as
\* that is in the column of the status it had, to a card of that column
\* otherwise, and takes it from nobody; late, or on another board, it does not
\* touch it (tryRestore, returnFocusTarget, columnKeys, focusCard).
FocusIsReturned ==
  [][restoring # Nothing /\ restoring' = Nothing /\ address' = address =>
       IF address = restoring.url /\ ~late /\ restoring.status # Nothing
       THEN LET keys == Range(columns'[restoring.status])
            IN /\ ready' /\ (keys = {} \/ focus' # "body")
               /\ focus' # focus /\ focus' \in CardId =>
                    /\ focus = "body" /\ focus' \in keys
                    /\ restoring.card \in keys => focus' = restoring.card
       ELSE focus' \in {focus, "body"}]_returnVars

\* Not so in the code; the README says where (Disagreements).  A restore that
\* ends on its own board and in time leaves the focus on the card that was
\* opened, if that is still on the board and the user has placed none.
OpenedCardIsFocused ==
  [][restoring # Nothing /\ restoring' = Nothing /\ address' = address =>
       (address = restoring.url /\ ~late /\ restoring.card \in Shown(columns') =>
          focus' = restoring.card \/ (focus' = focus /\ focus # "body"))]_returnVars

\* A restore ends: the pump does not look for a card for ever (retryRestore).
RestoreEnds == restoring # Nothing ~> restoring = Nothing
=============================================================================
