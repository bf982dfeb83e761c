-------------------------------- MODULE Tui --------------------------------
(***************************************************************************)
(* internal/tui: the model that the terminal interface updates with keys,  *)
(* with the App's events and with the results of its own calls.            *)
(*                                                                         *)
(* Every call to the App is a goroutine of its own; its result and the     *)
(* events reach Update in any order.  The App is reduced to what the       *)
(* interface can tell apart: revision, busy, the pending write, and what   *)
(* is on view (connection, database, table, offset, raw or not); what an   *)
(* operation may make of these is what Feed promises.  Remote stands for   *)
(* control clients and the connect at startup, who may have used the App   *)
(* and staged a write before the interface starts.  Cancel only            *)
(* makes an operation fail, which any may do here.  Layout, scrolling and  *)
(* the choices of a list are left out.                                     *)
(***************************************************************************)
EXTENDS Integers, FiniteSets

CONSTANTS
    Calls,          \* bounds the goroutines the interface has started
    Remote,         \* the other caller of the App
    Writes,         \* identifiers of pending writes, fresh each time
    Views,          \* what can be on view
    RawViews,       \* those that are results of raw SQL
    Texts,          \* what can be typed in an SQL editor
    Keys,           \* the parts of the interface that are used
    MaxRevision,    \* bounds the publications of the App
    MaxForm,        \* bounds the forms that are opened
    Nothing         \* no write, no snapshot, no caller, an empty text

ASSUME CallersAssumption == Remote \notin Calls /\ Nothing \notin Calls \cup {Remote}

ASSUME DataAssumption == /\ Nothing \notin Writes \cup Texts
                         /\ RawViews \subseteq Views /\ Views # {}

ASSUME BoundAssumption == MaxRevision \in Nat /\ MaxForm \in Nat

Callers == Calls \cup {Remote}

VARIABLES
    state,      \* App.state
    op,         \* the caller that holds App.op
    slot,       \* App.events, of capacity one
    listener,   \* the event the listening goroutine is about to deliver
    call,       \* the calls in flight, by goroutine
    ui,         \* the model
    staged,     \* history: writes that have been staged
    typedFor,   \* history: the write on display when "approve" was typed
    typed,      \* history: the last text of each editor
    opened      \* history: the number of forms opened

appVars == <<state, op, slot, staged>>
history == <<typedFor, typed, opened>>
vars == <<appVars, listener, call, ui, history>>

Snapshots == [rev : 0..MaxRevision, busy : BOOLEAN, pending : Writes \cup {Nothing},
              view : Views]

ASSUME SnapshotAssumption == Nothing \notin Snapshots

Editors == {"sql", "write"}
Modals == Editors \cup {"none", "approve", "profile", "filter", "list"}
Kinds == {"dispatch", "write", "setup", "approve", "reject"}

Models == [snap : Snapshots, modal : Modals, pending : Writes \cup {Nothing},
           approve : BOOLEAN, sql : Texts \cup {Nothing},
           draft : [Editors -> Texts \cup {Nothing}], fields : BOOLEAN,
           form : 0..MaxForm, busy : BOOLEAN]

(* Where a call is: not begun, under way, done with the App, or over. *)
NoCall == [at |-> "over", kind |-> "dispatch", write |-> Nothing, form |-> 0,
           test |-> FALSE, opened |-> 0, ok |-> TRUE, snap |-> Nothing]

CallRecords == [at : {"over", "called", "running", "executing", "rejected", "done"},
                kind : Kinds, write : Writes \cup {Nothing}, form : 0..MaxForm,
                test : BOOLEAN, opened : 0..MaxForm, ok : BOOLEAN,
                snap : Snapshots \cup {Nothing}]

Init ==
    /\ state \in [rev : {0}, busy : {FALSE}, pending : Writes \cup {Nothing}, view : Views]
    /\ op = Nothing /\ slot \in {Nothing, state} /\ listener = Nothing
    /\ call = [c \in Callers |-> NoCall]
    /\ ui = [snap |-> state, modal |-> IF state.pending = Nothing THEN "none" ELSE "approve",
             pending |-> state.pending, approve |-> FALSE,
             sql |-> Nothing, draft |-> [e \in Editors |-> Nothing], fields |-> FALSE,
             form |-> 0, busy |-> FALSE]
    /\ staged = {state.pending} \ {Nothing} /\ typedFor = Nothing /\ opened = 0
    /\ typed = [e \in Editors |-> Nothing]

-----------------------------------------------------------------------------
(* The App *)

Next1(s) == [s EXCEPT !.rev = @ + 1]

(* publishLocked: the slot is emptied and filled again. *)
Publish(s) == state' = Next1(s) /\ slot' = Next1(s)

(* What the longest operation publishes: Approve also clears the write. *)
Publications == IF Writes = {} THEN 2 ELSE 3

(* The bound takes the place of an App that has been closed. *)
Unavailable == op # Nothing \/ state.rev + Publications > MaxRevision

Moved(c, at, ok, snap) ==
    call' = [call EXCEPT ![c].at = at, ![c].ok = ok, ![c].snap = snap]

(* A call that begin or Reject turns away; Dispatch returns the state.  Another
   operation may hold App.op a little before it shows busy and a little after. *)
Refused(c) ==
    /\ call[c].at = "called"
    /\ IF call[c].kind = "reject" THEN Moved(c, "rejected", FALSE, Nothing)
                                  ELSE Moved(c, "done", FALSE, state)
    /\ UNCHANGED <<appVars, listener, ui, history>>

Begin(c) ==
    /\ call[c].at = "called" /\ call[c].kind # "reject" /\ ~Unavailable
    /\ op' = c
    /\ Publish([state EXCEPT !.busy = TRUE])
    /\ Moved(c, "running", TRUE, Nothing)
    /\ UNCHANGED <<staged, listener, ui, history>>

(* Approve clears the pending write before it is executed. *)
Consume(c) ==
    /\ call[c].at = "running" /\ call[c].kind = "approve"
    /\ state.pending = call[c].write
    /\ Publish([state EXCEPT !.pending = Nothing])
    /\ Moved(c, "executing", TRUE, Nothing)
    /\ UNCHANGED <<op, staged, listener, ui, history>>

Role(c) ==
    LET k == call[c].kind
    IN  CASE k = "setup" -> IF call[c].test THEN "test" ELSE "setup"
          [] k = "approve" -> IF call[c].at = "executing" THEN "approved" ELSE "approve"
          [] OTHER -> k

Face(s) == [busy |-> s.busy, pending |-> s.pending, view |-> s.view]

Contract == INSTANCE Feed
    WITH shown <- Face(state), slot <- IF slot = Nothing THEN {} ELSE {Face(slot)},
         kind <- IF op = Nothing THEN "none" ELSE Role(op), known <- staged

Results(c) == Contract!Outcomes(Role(c), state, staged)

(* finish: the new state, or the old one and an error. *)
Finish(c) ==
    /\ call[c].at \in {"running", "executing"}
    /\ \E ok \in BOOLEAN : \E s \in IF ok THEN Results(c) ELSE {state} :
          /\ Publish([s EXCEPT !.busy = FALSE])
          /\ Moved(c, "done", ok, Next1([s EXCEPT !.busy = FALSE]))
          /\ staged' = staged \cup ({s.pending} \ {Nothing})
    /\ op' = Nothing
    /\ UNCHANGED <<listener, ui, history>>

(* Reject, and the Snapshot that the goroutine reads after it. *)
Reject(c) ==
    /\ call[c].at = "called" /\ call[c].kind = "reject" /\ ~Unavailable
    /\ IF state.pending = call[c].write
          THEN Publish([state EXCEPT !.pending = Nothing]) /\ Moved(c, "rejected", TRUE, Nothing)
          ELSE UNCHANGED <<state, slot>> /\ Moved(c, "rejected", FALSE, Nothing)
    /\ UNCHANGED <<op, staged, listener, ui, history>>

ReadState(c) ==
    /\ call[c].at = "rejected"
    /\ Moved(c, "done", call[c].ok, state)
    /\ UNCHANGED <<appVars, listener, ui, history>>

RemoteCall ==
    /\ "remote" \in Keys /\ call[Remote].at = "over" /\ ~Unavailable
    /\ \E k \in IF Writes = {} THEN {"dispatch"} ELSE {"dispatch", "write"} :
          call' = [call EXCEPT ![Remote] = [NoCall EXCEPT !.at = "called", !.kind = k]]
    /\ UNCHANGED <<appVars, listener, ui, history>>

RemoteReturn ==
    /\ call[Remote].at = "done"
    /\ call' = [call EXCEPT ![Remote] = NoCall]
    /\ UNCHANGED <<appVars, listener, ui, history>>

-----------------------------------------------------------------------------
(* What the handlers of the model are made of *)

IsForm(m) == m = "profile"

(* Seeded fault: the editor is cleared before its text is kept. *)
CloseAndForget(u) ==
    [u EXCEPT !.form = IF IsForm(u.modal) THEN @ + 1 ELSE @,
              !.busy = IF IsForm(u.modal) THEN FALSE ELSE @,
              !.modal = "none", !.fields = FALSE, !.approve = FALSE, !.sql = Nothing]

(* Seeded fault: what was typed into a modal outlives it. *)
CloseOnly(u) ==
    [u EXCEPT !.draft = [e \in Editors |-> IF u.modal = e THEN u.sql ELSE @[e]],
              !.form = IF IsForm(u.modal) THEN @ + 1 ELSE @,
              !.busy = IF IsForm(u.modal) THEN FALSE ELSE @, !.modal = "none"]

CloseModal(u) ==
    [u EXCEPT !.draft = [e \in Editors |-> IF u.modal = e THEN u.sql ELSE @[e]],
              !.form = IF IsForm(u.modal) THEN @ + 1 ELSE @,
              !.busy = IF IsForm(u.modal) THEN FALSE ELSE @,
              !.modal = "none", !.fields = FALSE, !.approve = FALSE, !.sql = Nothing]

(* Seeded fault: what was typed stays in the input. *)
ShowPendingAsTyped(u, w) ==
    [CloseModal(u) EXCEPT !.pending = w, !.modal = "approve", !.approve = u.approve]

ShowPending(u, w) == [CloseModal(u) EXCEPT !.pending = w, !.modal = "approve"]

(* Seeded fault: a filter survives what it was composed for. *)
KeepsModal(u, s) == u

WithView(u, s) == IF s.view # u.snap.view /\ u.modal = "filter" THEN CloseModal(u) ELSE u

(* Seeded fault: a write is only noticed when none was known before. *)
ReviewFirst(u) ==
    LET w == u.snap.pending
    IN  CASE w # Nothing /\ u.pending = Nothing ->
                IF IsForm(u.modal) THEN u ELSE ShowPending(u, w)
          [] w = Nothing /\ u.pending # Nothing ->
                [IF u.modal = "approve" THEN CloseModal(u) ELSE u EXCEPT !.pending = Nothing]
          [] OTHER -> u

(* A new pending write opens its review, but never on top of a form. *)
Review(u) ==
    LET w == u.snap.pending
    IN  CASE w # Nothing /\ u.pending # w ->
                IF IsForm(u.modal) THEN u ELSE ShowPending(u, w)
          [] w = Nothing /\ u.pending # Nothing ->
                [IF u.modal = "approve" THEN CloseModal(u) ELSE u EXCEPT !.pending = Nothing]
          [] OTHER -> u

Stale(u, s) == s.rev < u.snap.rev

Accept(u, s) ==
    IF Stale(u, s) THEN u ELSE Review([WithView(u, s) EXCEPT !.snap = s])

(* Seeded fault: the form is not compared. *)
ForAnyForm(u, r) == IsForm(u.modal)

ForThisForm(u, r) == r.form = u.form /\ IsForm(u.modal)

(* Seeded fault: a setup that fails leaves the form blocked. *)
ReleasedIfOk(u, r) == [u EXCEPT !.busy = ~r.ok]

Released(u, r) == [u EXCEPT !.busy = FALSE]

AcceptSetup(u, r) ==
    LET v == Accept(u, r.snap)
    IN  IF ~ForThisForm(v, r) THEN v
        ELSE IF r.ok /\ ~r.test THEN CloseModal(v) ELSE Released(v, r)

-----------------------------------------------------------------------------
(* Events and results *)

(* The listening goroutine receives; there is never more than one. *)
Listen ==
    /\ listener = Nothing /\ slot # Nothing
    /\ listener' = slot /\ slot' = Nothing
    /\ UNCHANGED <<state, op, staged, call, ui, history>>

(* Seeded fault: no goroutine listens after an event that was stale. *)
ListenIfNews == IF Stale(ui, listener) THEN listener ELSE Nothing

Relisten == Nothing

HandleEvent ==
    /\ listener # Nothing
    /\ ui' = Accept(ui, listener)
    /\ listener' = Relisten
    /\ UNCHANGED <<appVars, call, history>>

HandleResult(c) ==
    /\ call[c].at = "done"
    /\ ui' = IF call[c].kind = "setup" THEN AcceptSetup(ui, call[c])
                                       ELSE Accept(ui, call[c].snap)
    /\ call' = [call EXCEPT ![c] = NoCall]
    /\ UNCHANGED <<appVars, listener, history>>

-----------------------------------------------------------------------------
(* Keys *)

(* A handler starts a goroutine and leaves the interface as u. *)
Calling(u, call1) ==
    /\ \E c \in Calls : /\ call[c].at = "over"
                        /\ call' = [call EXCEPT ![c] = [call1 EXCEPT !.at = "called"]]
    /\ ui' = u
    /\ UNCHANGED <<appVars, listener>>

Dispatch == [NoCall EXCEPT !.kind = "dispatch"]

(* A handler that only changes the interface. *)
Only(u) == ui' = u /\ UNCHANGED <<appVars, listener, call>>

(* Keys of the main screen: open a table, page, sort, refresh. *)
Browse ==
    /\ "browse" \in Keys /\ ui.modal = "none"
    /\ Calling(ui, Dispatch)
    /\ UNCHANGED history

OpenModal(m) == Only([CloseModal(ui) EXCEPT !.modal = m, !.sql = IF m \in Editors
                                                                 THEN ui.draft[m] ELSE @,
                                            !.fields = IsForm(m),
                                            !.form = IF IsForm(m) THEN @ + 1 ELSE @])

OpenEditor(e) ==
    /\ e \in Keys /\ ui.modal = "none"
    /\ OpenModal(e)
    /\ UNCHANGED history

(* Find, connections, palette, help: closed without or with a call. *)
OpenList ==
    /\ "list" \in Keys /\ ui.modal = "none"
    /\ OpenModal("list")
    /\ UNCHANGED history

OpenFilter ==
    /\ "filter" \in Keys /\ ui.modal = "none" /\ ui.snap.view \notin RawViews
    /\ OpenModal("filter")
    /\ UNCHANGED history

OpenForm ==
    /\ "form" \in Keys /\ ui.modal = "none" /\ ui.form + 2 <= MaxForm
    /\ OpenModal("profile")
    /\ opened' = opened + 1
    /\ UNCHANGED <<typedFor, typed>>

OpenReview ==
    /\ ui.modal = "none" /\ ui.snap.pending # Nothing
    /\ Only(ShowPending(ui, ui.snap.pending))
    /\ UNCHANGED history

Esc ==
    /\ ui.modal # "none"
    /\ Only(CloseModal(ui))
    /\ UNCHANGED history

Choose ==
    /\ ui.modal \in {"list", "filter"}
    /\ Calling(CloseModal(ui), Dispatch)
    /\ UNCHANGED history

TypeSQL ==
    /\ ui.modal \in Editors
    /\ \E t \in Texts : /\ Only([ui EXCEPT !.sql = t])
                        /\ typed' = [typed EXCEPT ![ui.modal] = t]
    /\ UNCHANGED <<typedFor, opened>>

SubmitSQL ==
    /\ ui.modal \in Editors /\ ui.sql # Nothing
    /\ Calling(CloseModal(ui),
               [NoCall EXCEPT !.kind = IF ui.modal = "write" THEN "write" ELSE "dispatch"])
    /\ UNCHANGED history

SubmitForm ==
    /\ IsForm(ui.modal) /\ ~ui.busy
    /\ \E test \in BOOLEAN :
          Calling([ui EXCEPT !.busy = TRUE],
                  [NoCall EXCEPT !.kind = "setup", !.form = ui.form, !.test = test,
                                 !.opened = opened])
    /\ UNCHANGED history

TypeApprove ==
    /\ ui.modal = "approve" /\ ~ui.approve
    /\ Only([ui EXCEPT !.approve = TRUE])
    /\ typedFor' = ui.pending
    /\ UNCHANGED <<typed, opened>>

EnterApprove ==
    /\ ui.modal = "approve" /\ ui.approve
    /\ ui.pending # Nothing /\ ui.pending = ui.snap.pending
    /\ Calling(CloseModal(ui), [NoCall EXCEPT !.kind = "approve", !.write = ui.pending])
    /\ UNCHANGED history

EnterReject ==
    /\ ui.modal = "approve" /\ ui.pending # Nothing
    /\ Calling(CloseModal(ui), [NoCall EXCEPT !.kind = "reject", !.write = ui.pending])
    /\ UNCHANGED history

-----------------------------------------------------------------------------
Serve(c) == Refused(c) \/ Begin(c) \/ Consume(c) \/ Finish(c) \/ Reject(c) \/ ReadState(c)

Key ==
    \/ Browse \/ OpenList \/ OpenFilter \/ OpenForm \/ OpenReview \/ Esc \/ Choose
    \/ TypeSQL \/ SubmitSQL \/ SubmitForm \/ TypeApprove \/ EnterApprove \/ EnterReject
    \/ \E e \in Editors : OpenEditor(e)

Next ==
    \/ \E c \in Callers : Serve(c)
    \/ RemoteCall \/ RemoteReturn
    \/ Listen \/ HandleEvent \/ \E c \in Calls : HandleResult(c)
    \/ Key

Spec == Init /\ [][Next]_vars

(* Goroutines run, operations end, and Update is called with every message. *)
Fairness ==
    /\ \A c \in Callers : WF_vars(Serve(c))
    /\ \A c \in Calls : WF_vars(HandleResult(c))
    /\ WF_vars(RemoteReturn) /\ WF_vars(Listen) /\ WF_vars(HandleEvent)

FairSpec == Spec /\ Fairness

-----------------------------------------------------------------------------
(* Properties *)

(***************************************************************************)
(* Types, and that nothing typed into a modal outlives it: neither the     *)
(* fields of a form, which hold a password, nor a confirmation.            *)
(***************************************************************************)
TypeOK ==
    /\ ui.fields <=> IsForm(ui.modal)
    /\ ui.approve => ui.modal = "approve"
    /\ ui.sql # Nothing => ui.modal \in Editors
    /\ state \in Snapshots /\ slot \in Snapshots \cup {Nothing}
    /\ listener \in Snapshots \cup {Nothing}
    /\ op \in Callers \cup {Nothing}
    /\ call \in [Callers -> CallRecords]
    /\ ui \in Models
    /\ staged \subseteq Writes /\ typedFor \in Writes \cup {Nothing}
    /\ typed \in [Editors -> Texts \cup {Nothing}]
    /\ opened \in 0..MaxForm

(***************************************************************************)
(* The interface never goes back to an older state, in whatever order      *)
(* events and results arrive, and what it shows is at least as recent as   *)
(* every message it has handled (accept).                                  *)
(***************************************************************************)
NeverGoesBack == [][ui'.snap.rev >= ui.snap.rev]_vars

(***************************************************************************)
(* The review on screen is of the write that is pending as far as the      *)
(* interface knows: a write that replaces it replaces the review too.      *)
(***************************************************************************)
ReviewIsCurrent ==
    ui.modal = "approve" => ui.pending # Nothing /\ ui.pending = ui.snap.pending

(***************************************************************************)
(* A write is approved only after "approve" was typed with that write on   *)
(* display: text typed for an earlier write approves nothing.              *)
(***************************************************************************)
ApprovesWhatWasReviewed ==
    [][\A c \in Calls :
          call'[c].at = "called" /\ call[c].at = "over" /\ call'[c].kind = "approve"
             => typedFor = call'[c].write]_vars

(***************************************************************************)
(* A form is blocked exactly as long as the setup it has submitted is in   *)
(* flight, and the late answer to an earlier form neither closes, unblocks *)
(* nor blocks the one that is open by then.                                *)
(***************************************************************************)
Blocked ==
    /\ IsForm(ui.modal)
    /\ \E c \in Calls : call[c].at # "over" /\ call[c].kind = "setup"
                         /\ call[c].opened = opened

LateAnswer(c) ==
    /\ call[c].at = "done" /\ call'[c].at = "over"
    /\ call[c].kind = "setup" /\ call[c].opened # opened /\ IsForm(ui.modal)

FormWaitsForItsSetup ==
    /\ [](ui.busy <=> Blocked)
    /\ [][\A c \in Calls : LateAnswer(c) =>
              /\ ui'.modal = ui.modal /\ ui'.form = ui.form /\ ui'.busy = ui.busy]_vars

(***************************************************************************)
(* No text of an editor is lost, whatever closes the editor: the user, a   *)
(* submission, or a write that asks for approval.                          *)
(***************************************************************************)
DraftsSurvive ==
    \A e \in Editors : typed[e] = IF ui.modal = e THEN ui.sql ELSE ui.draft[e]

(***************************************************************************)
(* A filter is composed and submitted on one view: it does not outlive the *)
(* table, page or raw result it was opened on.                             *)
(***************************************************************************)
FilterFitsView ==
    [][ui.modal = "filter" /\ ui'.modal = "filter" => ui'.snap.view = ui.snap.view]_vars

(***************************************************************************)
(* The interface reaches every state of the App or a later one, and never  *)
(* goes back behind it, though unread events are replaced and results come *)
(* out of order.                                                           *)
(***************************************************************************)
CatchesUp == \A r \in 1..MaxRevision : state.rev = r ~> [](ui.snap.rev >= r)

(***************************************************************************)
(* A submitted form is usable again in the end, or gone.                   *)
(***************************************************************************)
FormIsReleased == ui.busy ~> ~ui.busy
=============================================================================
