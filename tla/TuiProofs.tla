----------------------------- MODULE TuiProofs -----------------------------
(***************************************************************************)
(* Proofs about Tui: what the interface shows, keeps and sends, in         *)
(* whatever order its events and results arrive.                           *)
(***************************************************************************)
EXTENDS Tui, TLAPS

(* The text of an editor: in the input while the editor is open. *)
Text(u, e) == IF u.modal = e THEN u.sql ELSE u.draft[e]

(* What is typed into a modal goes with it. *)
Neat(u) ==
    /\ u.fields <=> IsForm(u.modal)
    /\ u.approve => u.modal = "approve"
    /\ u.sql # Nothing => u.modal \in Editors
    /\ u.busy => IsForm(u.modal)
    /\ u.modal = "approve" => u.pending # Nothing

Tidy(u) == Neat(u) /\ (u.modal = "approve" => u.pending = u.snap.pending)

(* What no message changes: forms, texts and confirmations, but for closing a review. *)
Kept(v, u) ==
    /\ v.form = u.form /\ v.busy = u.busy
    /\ IsForm(v.modal) <=> IsForm(u.modal)
    /\ \A e \in Editors : Text(v, e) = Text(u, e)
    /\ v.approve => u.approve /\ v.pending = u.pending

InFlight(c) == call[c].at # "over"
Setup(c) == InFlight(c) /\ call[c].kind = "setup"

(* What the App and the interface rely on for a call in flight. *)
CallFits(c) ==
    /\ call[c].at \in {"running", "executing"} <=> op = c
    /\ call[c].at \in {"running", "executing"} => call[c].kind # "reject"
    /\ call[c].at = "running" => state.rev + Publications =< MaxRevision + 1
    /\ call[c].at = "executing" => state.rev < MaxRevision
    /\ call[c].at = "done" => call[c].snap # Nothing
    /\ InFlight(c) /\ call[c].kind \in {"approve", "reject"} => call[c].write # Nothing
    /\ Setup(c) => call[c].opened >= 1 /\ call[c].opened =< opened
                   /\ call[c].form = 2 * call[c].opened - 1

(* formID grows by one when a form opens and by one when it closes. *)
FormsFit ==
    /\ ui.form = IF IsForm(ui.modal) THEN 2 * opened - 1 ELSE 2 * opened
    /\ IsForm(ui.modal) => ui.form + 1 =< MaxForm
    /\ \A c, d \in Calls : Setup(c) /\ Setup(d) /\ call[c].opened = call[d].opened => c = d
    /\ ui.busy <=> Blocked

TuiInvariant ==
    /\ TypeOK /\ Tidy(ui)
    /\ \A c \in Callers : CallFits(c)
    /\ FormsFit /\ DraftsSurvive
    /\ ui.approve => typedFor = ui.pending

-----------------------------------------------------------------------------
(* The handlers of the model *)

(* Closing a modal. *)
LEMMA CloseShown ==
  ASSUME NEW u \in Models
  PROVE  LET n == CloseModal(u)
         IN  /\ n.snap = u.snap /\ n.modal = "none" /\ n.pending = u.pending
             /\ n.approve = FALSE /\ n.sql = Nothing /\ n.fields = FALSE
             /\ n.form = IF IsForm(u.modal) THEN u.form + 1 ELSE u.form
             /\ n.busy = IF IsForm(u.modal) THEN FALSE ELSE u.busy
             /\ \A e \in Editors : n.draft[e] = Text(u, e)
<1>1. u.draft \in [Editors -> Texts \cup {Nothing}] BY DEF Models
<1> QED BY <1>1 DEF CloseModal, Models, Text

LEMMA CloseTyped ==
  ASSUME NEW u \in Models, IsForm(u.modal) => u.form + 1 <= MaxForm
  PROVE  CloseModal(u) \in Models
<1> DEFINE draft == [e \in Editors |-> IF u.modal = e THEN u.sql ELSE u.draft[e]]
           form == IF IsForm(u.modal) THEN u.form + 1 ELSE u.form
           busy == IF IsForm(u.modal) THEN FALSE ELSE u.busy
<1>1. draft \in [Editors -> Texts \cup {Nothing}] BY DEF Models
<1>2. u.form \in 0..MaxForm /\ u.busy \in BOOLEAN BY DEF Models
<1>3. form \in 0..MaxForm /\ busy \in BOOLEAN
  <2>1. form \in 0..MaxForm
    <3>1. CASE IsForm(u.modal) BY <1>2, <3>1, BoundAssumption
    <3>2. CASE ~IsForm(u.modal) BY <1>2, <3>2
    <3> QED BY <3>1, <3>2
  <2>2. busy \in BOOLEAN BY <1>2
  <2> QED BY <2>1, <2>2
<1>4. CloseModal(u) =
        [u EXCEPT !.draft = draft, !.form = form, !.busy = busy, !.modal = "none",
                  !.fields = FALSE, !.approve = FALSE, !.sql = Nothing]
  BY DEF CloseModal, Models
<1> HIDE DEF draft, form, busy
<1> QED BY <1>1, <1>3, <1>4 DEF Models, Modals

(* Closing a modal that is no form. *)
LEMMA CloseKeeps ==
  ASSUME NEW u \in Models, Neat(u), ~IsForm(u.modal)
  PROVE  LET n == CloseModal(u)
         IN  /\ n \in Models /\ Tidy(n) /\ Kept(n, u)
             /\ n.snap = u.snap /\ n.modal = "none" /\ n.pending = u.pending
             /\ n.approve = FALSE
<1> DEFINE n == CloseModal(u)
<1>1. n \in Models BY CloseTyped
<1>2. /\ n.snap = u.snap /\ n.modal = "none" /\ n.pending = u.pending
      /\ n.approve = FALSE /\ n.sql = Nothing /\ n.fields = FALSE
      /\ n.form = u.form /\ n.busy = u.busy
      /\ \A e \in Editors : n.draft[e] = Text(u, e)
  BY CloseShown
<1> HIDE DEF n
<1>3. Tidy(n) BY <1>2 DEF Tidy, Neat, IsForm
<1>4. Kept(n, u) BY <1>2 DEF Kept, Text, IsForm, Editors
<1> QED BY <1>1, <1>2, <1>3, <1>4 DEF n

(* A review is opened, never over a form. *)
LEMMA ShowKeeps ==
  ASSUME NEW u \in Models, Neat(u), ~IsForm(u.modal), NEW w \in Writes
  PROVE  LET n == ShowPending(u, w)
         IN  /\ n \in Models /\ Neat(n) /\ Kept(n, u)
             /\ n.snap = u.snap /\ n.modal = "approve" /\ n.pending = w
             /\ n.approve = FALSE
<1> DEFINE m == CloseModal(u)
           n == [m EXCEPT !.pending = w, !.modal = "approve"]
<1>1. n = ShowPending(u, w) BY DEF ShowPending
<1>2. m \in Models /\ Tidy(m) /\ Kept(m, u) /\ m.snap = u.snap /\ m.modal = "none"
      /\ m.approve = FALSE
  BY CloseKeeps
<1> HIDE DEF m
<1>3. n \in Models BY <1>2 DEF Models, Modals
<1>4. /\ n.snap = m.snap /\ n.modal = "approve" /\ n.pending = w
      /\ n.approve = m.approve /\ n.sql = m.sql /\ n.fields = m.fields
      /\ n.form = m.form /\ n.busy = m.busy /\ n.draft = m.draft
  BY <1>2 DEF Models
<1> HIDE DEF n
<1>5. Neat(n) BY <1>2, <1>4, DataAssumption DEF Neat, Tidy, IsForm, Editors
<1>6. Kept(n, u) BY <1>2, <1>4 DEF Kept, Text, IsForm, Editors
<1> QED BY <1>1, <1>2, <1>3, <1>4, <1>5, <1>6

(* The review follows the pending write of the snapshot. *)
LEMMA ReviewKeeps ==
  ASSUME NEW u \in Models, Neat(u)
  PROVE  LET v == Review(u)
         IN  /\ v \in Models /\ Tidy(v) /\ Kept(v, u) /\ v.snap = u.snap
             /\ v.modal = "filter" => u.modal = "filter"
<1> DEFINE w == u.snap.pending
<1>1. w \in Writes \cup {Nothing} BY DEF Models, Snapshots
<1>2. Kept(u, u) BY DEF Kept
<1>3. CASE w # Nothing /\ u.pending # w
  <2>1. CASE IsForm(u.modal)
    <3>1. Review(u) = u BY <1>3, <2>1 DEF Review
    <3>2. Tidy(u) BY <2>1 DEF Tidy, IsForm
    <3> QED BY <1>2, <3>1, <3>2
  <2>2. CASE ~IsForm(u.modal)
    <3>1. Review(u) = ShowPending(u, w) BY <1>3, <2>2 DEF Review
    <3> DEFINE n == ShowPending(u, w)
    <3>2. /\ n \in Models /\ Neat(n) /\ Kept(n, u)
          /\ n.snap = u.snap /\ n.modal = "approve" /\ n.pending = w
      BY <1>1, <1>3, <2>2, ShowKeeps
    <3> HIDE DEF n
    <3>3. Tidy(n) BY <3>2 DEF Tidy
    <3> QED BY <3>1, <3>2, <3>3 DEF n
  <2> QED BY <2>1, <2>2
<1>4. CASE w = Nothing /\ u.pending # Nothing
  <2> DEFINE m == IF u.modal = "approve" THEN CloseModal(u) ELSE u
             n == [m EXCEPT !.pending = Nothing]
  <2>1. Review(u) = n BY <1>4 DEF Review
  <2>2. /\ m \in Models /\ Tidy(m) /\ Kept(m, u) /\ m.snap = u.snap
        /\ m.modal # "approve" /\ (m.modal = "filter" => u.modal = "filter")
        /\ m.approve = FALSE
    <3>1. CASE u.modal = "approve" BY <3>1, CloseKeeps DEF IsForm
    <3>2. CASE u.modal # "approve" BY <1>2, <3>2 DEF Tidy, Neat, Models
    <3> QED BY <3>1, <3>2
  <2> HIDE DEF m
  <2>3. n \in Models BY <2>2 DEF Models
  <2>4. /\ n.snap = m.snap /\ n.modal = m.modal /\ n.pending = Nothing
        /\ n.approve = m.approve /\ n.sql = m.sql /\ n.fields = m.fields
        /\ n.form = m.form /\ n.busy = m.busy /\ n.draft = m.draft
    BY <2>2 DEF Models
  <2> HIDE DEF n
  <2>5. Tidy(n) BY <2>2, <2>4 DEF Tidy, Neat
  <2>6. Kept(n, u) BY <2>2, <2>4 DEF Kept, Text
  <2> QED BY <2>1, <2>2, <2>3, <2>4, <2>5, <2>6
<1>5. CASE w = u.pending \/ (w = Nothing /\ u.pending = Nothing)
  <2>1. Review(u) = u BY <1>5 DEF Review
  <2>2. Tidy(u) BY <1>5 DEF Tidy, Neat
  <2> QED BY <1>2, <2>1, <2>2
<1> QED BY <1>3, <1>4, <1>5

(* accept, whichever snapshot comes. *)
LEMMA AcceptKeeps ==
  ASSUME NEW u \in Models, Tidy(u), NEW s \in Snapshots
  PROVE  LET v == Accept(u, s)
         IN  /\ v \in Models /\ Tidy(v) /\ Kept(v, u)
             /\ v.snap.rev >= u.snap.rev
             /\ v.modal = "filter" => u.modal = "filter" /\ v.snap.view = u.snap.view
<1>1. s.rev \in Nat /\ u.snap.rev \in Nat /\ u.snap \in Snapshots
  BY BoundAssumption DEF Models, Snapshots
<1>2. CASE Stale(u, s) BY <1>1, <1>2 DEF Accept, Kept
<1>3. CASE ~Stale(u, s)
  <2> DEFINE m == WithView(u, s)
             n == [m EXCEPT !.snap = s]
             v == Review(n)
  <2>1. /\ m \in Models /\ Neat(m) /\ Kept(m, u)
        /\ m.modal = "filter" => u.modal = "filter" /\ s.view = u.snap.view
    <3>1. CASE s.view # u.snap.view /\ u.modal = "filter"
      BY <3>1, CloseKeeps DEF WithView, IsForm, Tidy
    <3>2. CASE ~(s.view # u.snap.view /\ u.modal = "filter")
      BY <3>2 DEF WithView, Tidy, Kept
    <3> QED BY <3>1, <3>2
  <2> HIDE DEF m
  <2>2. n \in Models BY <2>1 DEF Models
  <2>3. /\ n.snap = s /\ n.modal = m.modal /\ n.pending = m.pending
        /\ n.approve = m.approve /\ n.sql = m.sql /\ n.fields = m.fields
        /\ n.form = m.form /\ n.busy = m.busy /\ n.draft = m.draft
    BY <2>1 DEF Models
  <2>4. Accept(u, s) = v BY <1>3 DEF Accept, m
  <2> HIDE DEF n
  <2>5. Neat(n) BY <2>1, <2>3 DEF Neat
  <2>6. Kept(n, u) BY <2>1, <2>3 DEF Kept, Text
  <2>7. /\ v \in Models /\ Tidy(v) /\ Kept(v, n) /\ v.snap = s
        /\ v.modal = "filter" => n.modal = "filter"
    BY <2>2, <2>3, <2>5, ReviewKeeps
  <2> HIDE DEF v
  <2>8. Kept(v, u) BY <2>6, <2>7 DEF Kept
  <2>9. s.rev >= u.snap.rev BY <1>1, <1>3 DEF Stale
  <2> QED BY <2>1, <2>3, <2>4, <2>7, <2>8, <2>9
<1> QED BY <1>2, <1>3

-----------------------------------------------------------------------------
(* The App *)

LEMMA Next1Typed ==
  ASSUME NEW s \in Snapshots, s.rev < MaxRevision
  PROVE  Next1(s) \in Snapshots /\ Next1(s).rev = s.rev + 1
BY BoundAssumption DEF Next1, Snapshots

LEMMA Counted == Publications \in 2..3 /\ (Writes # {} => Publications = 3)
BY DEF Publications

LEMMA MovedShown ==
  ASSUME call \in [Callers -> CallRecords], NEW c \in Callers, NEW ok \in BOOLEAN,
         NEW at \in {"over", "called", "running", "executing", "rejected", "done"},
         NEW s \in Snapshots \cup {Nothing}, Moved(c, at, ok, s)
  PROVE  /\ call' \in [Callers -> CallRecords]
         /\ \A d \in Callers : d # c => call'[d] = call[d]
         /\ call'[c].at = at /\ call'[c].ok = ok /\ call'[c].snap = s
         /\ call'[c].kind = call[c].kind /\ call'[c].write = call[c].write
         /\ call'[c].form = call[c].form /\ call'[c].test = call[c].test
         /\ call'[c].opened = call[c].opened
<1>1. call' = [call EXCEPT ![c] = [call[c] EXCEPT !.at = at, !.ok = ok, !.snap = s]]
  BY DEF Moved
<1>2. call[c] \in CallRecords
  OBVIOUS
<1> DEFINE r == [call[c] EXCEPT !.at = at, !.ok = ok, !.snap = s]
<1>3. r \in CallRecords BY <1>2 DEF CallRecords
<1>4. /\ r.at = at /\ r.ok = ok /\ r.snap = s /\ r.kind = call[c].kind
      /\ r.write = call[c].write /\ r.form = call[c].form /\ r.test = call[c].test
      /\ r.opened = call[c].opened
  BY <1>2 DEF CallRecords
<1>5. call' = [call EXCEPT ![c] = r] BY <1>1
<1> HIDE DEF r
<1> QED BY <1>3, <1>4, <1>5

(* A call goes on inside the App, and the interface does not notice. *)
LEMMA Served ==
  ASSUME TuiInvariant, NEW c \in Callers, NEW ok \in BOOLEAN,
         NEW at \in {"running", "executing", "rejected", "done"},
         NEW s \in Snapshots \cup {Nothing}, Moved(c, at, ok, s), InFlight(c),
         UNCHANGED <<ui, listener, history>>,
         state' \in Snapshots, slot' \in Snapshots \cup {Nothing},
         op' \in Callers \cup {Nothing}, staged' \subseteq Writes,
         \A d \in Callers : CallFits(d)'
  PROVE  TuiInvariant'
<1> USE DEF TuiInvariant
<1>1. call \in [Callers -> CallRecords] BY DEF TypeOK
<1>2. /\ call' \in [Callers -> CallRecords]
      /\ \A d \in Callers : /\ InFlight(d)' <=> InFlight(d)
                            /\ call'[d].kind = call[d].kind
                            /\ call'[d].opened = call[d].opened
  BY <1>1, MovedShown DEF InFlight
<1>3. TypeOK' BY <1>2 DEF TypeOK, history
<1>4. \A d \in Calls : Setup(d)' <=> Setup(d) BY <1>2 DEF Setup, Callers
<1>5. Blocked' <=> Blocked BY <1>4, <1>2 DEF Blocked, Setup, InFlight, Callers, history
<1>6. FormsFit' BY <1>2, <1>4, <1>5 DEF FormsFit, Callers, history
<1> QED BY <1>3, <1>6 DEF DraftsSurvive, history

LEMMA RefusedStep ==
  ASSUME TuiInvariant, NEW c \in Callers, Refused(c) \/ ReadState(c)
  PROVE  TuiInvariant'
<1> USE DEF TuiInvariant
<1>1. /\ call[c].at \in {"called", "rejected"} /\ state \in Snapshots
      /\ call \in [Callers -> CallRecords] /\ call[c].ok \in BOOLEAN
      /\ UNCHANGED <<state, op, slot, staged, listener, ui, history>>
  BY DEF Refused, ReadState, TypeOK, CallRecords, appVars
<1>2. \E at \in {"rejected", "done"} : \E ok \in BOOLEAN :
        \E s \in Snapshots \cup {Nothing} :
           Moved(c, at, ok, s) /\ (at = "done" => s = state)
  BY <1>1 DEF Refused, ReadState
<1>3. PICK at \in {"rejected", "done"}, ok \in BOOLEAN, s \in Snapshots \cup {Nothing} :
           Moved(c, at, ok, s) /\ (at = "done" => s = state)
  BY <1>2
<1>4. state # Nothing BY SnapshotAssumption, <1>1
<1>5. \A d \in Callers : CallFits(d)'
  BY <1>1, <1>3, <1>4, MovedShown DEF CallFits, InFlight, Setup, history
<1> QED BY <1>1, <1>3, <1>5, Served DEF TypeOK, InFlight

LEMMA BeginStep ==
  ASSUME TuiInvariant, NEW c \in Callers, Begin(c) PROVE TuiInvariant'
<1> USE DEF TuiInvariant
<1>1. /\ call[c].at = "called" /\ call[c].kind # "reject" /\ ~Unavailable /\ op' = c
      /\ Moved(c, "running", TRUE, Nothing)
      /\ UNCHANGED <<staged, listener, ui, history>>
  BY DEF Begin
<1> DEFINE s == [state EXCEPT !.busy = TRUE]
<1>2. state' = Next1(s) /\ slot' = Next1(s) BY DEF Begin, Publish
<1>3. /\ state.rev \in Nat /\ s \in Snapshots /\ s.rev = state.rev
      /\ call \in [Callers -> CallRecords]
      /\ op = Nothing /\ state.rev + Publications =< MaxRevision /\ s.rev < MaxRevision
  <2>1. /\ state.rev \in 0..MaxRevision /\ s \in Snapshots /\ s.rev = state.rev
        /\ call \in [Callers -> CallRecords]
    BY DEF TypeOK, Snapshots
  <2> HIDE DEF s
  <2> QED BY <1>1, <2>1, Counted, BoundAssumption DEF Unavailable
<1> HIDE DEF s
<1>4. state' \in Snapshots /\ slot' \in Snapshots /\ state'.rev = state.rev + 1
  BY <1>2, <1>3, Next1Typed
<1>5. \A d \in Callers : call[d].at \notin {"running", "executing"}
  BY <1>3, CallersAssumption DEF CallFits, Callers
<1>6. state'.rev + Publications =< MaxRevision + 1
  BY <1>3, <1>4, Counted, BoundAssumption
<1>7. \A d \in Callers : CallFits(d)'
  <2>1. /\ \A d \in Callers : d # c => call'[d] = call[d]
        /\ call'[c].at = "running" /\ call'[c].kind = call[c].kind
        /\ call'[c].write = call[c].write /\ call'[c].form = call[c].form
        /\ call'[c].opened = call[c].opened
    BY <1>1, <1>3, MovedShown
  <2>2. CallFits(c)'
    BY <1>1, <1>6, <2>1 DEF CallFits, InFlight, Setup, history, Publications
  <2>3. \A d \in Callers : d # c => CallFits(d)'
    BY <1>1, <1>3, <1>5, <2>1 DEF CallFits, InFlight, Setup, history
  <2> QED BY <2>2, <2>3
<1> QED BY <1>1, <1>4, <1>7, Served DEF TypeOK, InFlight

LEMMA ConsumeStep ==
  ASSUME TuiInvariant, NEW c \in Callers, Consume(c) PROVE TuiInvariant'
<1> USE DEF TuiInvariant
<1>1. /\ call[c].at = "running" /\ call[c].kind = "approve" /\ op = c
      /\ state.rev + Publications =< MaxRevision + 1
      /\ Moved(c, "executing", TRUE, Nothing)
      /\ UNCHANGED <<op, staged, listener, ui, history>>
  BY DEF Consume, CallFits
<1>2. Publications = 3
  <2>1. call[c].write \in Writes
    BY <1>1 DEF CallFits, InFlight, TypeOK, CallRecords
  <2> QED BY <2>1, Counted
<1> DEFINE s == [state EXCEPT !.pending = Nothing]
<1>3. state' = Next1(s) /\ slot' = Next1(s) BY DEF Consume, Publish
<1>4. /\ s \in Snapshots /\ s.rev = state.rev /\ state.rev + 2 =< MaxRevision
      /\ call \in [Callers -> CallRecords] /\ state.rev \in Nat
  BY <1>1, <1>2, BoundAssumption DEF TypeOK, Snapshots
<1> HIDE DEF s
<1>5. state' \in Snapshots /\ slot' \in Snapshots /\ state'.rev = state.rev + 1
  BY <1>3, <1>4, Next1Typed, BoundAssumption
<1>6. \A d \in Callers : d # c => call[d].at \notin {"running", "executing"}
  BY <1>1 DEF CallFits
<1>7. state'.rev < MaxRevision BY <1>4, <1>5, BoundAssumption
<1>8. \A d \in Callers : CallFits(d)'
  <2>1. /\ \A d \in Callers : d # c => call'[d] = call[d]
        /\ call'[c].at = "executing" /\ call'[c].kind = call[c].kind
        /\ call'[c].write = call[c].write /\ call'[c].form = call[c].form
        /\ call'[c].opened = call[c].opened
    BY <1>1, <1>4, MovedShown
  <2>2. CallFits(c)' BY <1>1, <1>7, <2>1 DEF CallFits, InFlight, Setup, history
  <2>3. \A d \in Callers : d # c => CallFits(d)'
    BY <1>1, <1>6, <2>1 DEF CallFits, InFlight, Setup, history
  <2> QED BY <2>2, <2>3
<1> QED BY <1>1, <1>5, <1>8, Served DEF TypeOK, InFlight

LEMMA ShownTyped ==
  ASSUME NEW t \in Snapshots
  PROVE  /\ \A s \in Contract!Shown(t) : s \in Snapshots /\ s.rev = t.rev
         /\ \A s \in Contract!Connected(t) : s \in Snapshots /\ s.rev = t.rev
<1>1. ASSUME NEW x \in Snapshots
      PROVE \A s \in Contract!Shown(x) : s \in Snapshots /\ s.rev = x.rev
  BY DEF Contract!Shown, Snapshots
<1>2. [t EXCEPT !.pending = Nothing] \in Snapshots
      /\ [t EXCEPT !.pending = Nothing].rev = t.rev
  BY DEF Snapshots
<1> QED BY <1>1, <1>2 DEF Contract!Connected

LEMMA ResultsTyped ==
  ASSUME state \in Snapshots, NEW c \in Callers, NEW s \in Results(c)
  PROVE  s \in Snapshots /\ s.rev = state.rev
<1> DEFINE k == Role(c)
<1> HIDE DEF k
<1>1. s \in Contract!Outcomes(k, state, staged) BY DEF Results, k
<1>2. CASE k = "dispatch" BY <1>1, <1>2, ShownTyped DEF Contract!Outcomes
<1>3. CASE k = "write" BY <1>1, <1>3 DEF Contract!Outcomes, Snapshots
<1>4. CASE k = "setup" BY <1>1, <1>4, ShownTyped DEF Contract!Outcomes
<1>5. CASE k = "test" BY <1>1, <1>5 DEF Contract!Outcomes
<1>6. CASE k = "approved" BY <1>1, <1>6, ShownTyped DEF Contract!Outcomes
<1>7. CASE k \notin {"dispatch", "write", "setup", "test", "approved"}
  BY <1>1, <1>7 DEF Contract!Outcomes
<1> QED BY <1>2, <1>3, <1>4, <1>5, <1>6, <1>7

LEMMA FinishStep ==
  ASSUME TuiInvariant, NEW c \in Callers, Finish(c) PROVE TuiInvariant'
<1> USE DEF TuiInvariant
<1>1. /\ call[c].at \in {"running", "executing"} /\ op = c /\ op' = Nothing
      /\ call \in [Callers -> CallRecords] /\ state \in Snapshots
      /\ UNCHANGED <<listener, ui, history>>
  BY DEF Finish, CallFits, TypeOK
<1>2. state.rev < MaxRevision /\ state.rev \in Nat
  BY <1>1, Counted, BoundAssumption DEF CallFits, Snapshots
<1>3. PICK ok \in BOOLEAN : \E s \in IF ok THEN Results(c) ELSE {state} :
          /\ Publish([s EXCEPT !.busy = FALSE])
          /\ Moved(c, "done", ok, Next1([s EXCEPT !.busy = FALSE]))
          /\ staged' = staged \cup ({s.pending} \ {Nothing})
  BY DEF Finish
<1>4. PICK s \in IF ok THEN Results(c) ELSE {state} :
          /\ Publish([s EXCEPT !.busy = FALSE])
          /\ Moved(c, "done", ok, Next1([s EXCEPT !.busy = FALSE]))
          /\ staged' = staged \cup ({s.pending} \ {Nothing})
  BY <1>3
<1>5. call[c].kind \in Kinds \ {"reject"}
  BY <1>1 DEF CallFits, CallRecords
<1>6. s \in Snapshots /\ s.rev = state.rev BY <1>1, <1>5, ResultsTyped
<1> DEFINE n == [s EXCEPT !.busy = FALSE]
<1>7. n \in Snapshots /\ n.rev = state.rev BY <1>6 DEF Snapshots
<1>8. state' = Next1(n) /\ slot' = Next1(n) /\ Moved(c, "done", ok, Next1(n))
  BY <1>4 DEF Publish
<1> HIDE DEF n
<1>9. Next1(n) \in Snapshots /\ Next1(n).rev = state.rev + 1
  BY <1>2, <1>7, Next1Typed
<1>10. staged' \subseteq Writes BY <1>4, <1>6 DEF TypeOK, Snapshots
<1>11. \A d \in Callers : d # c => call[d].at \notin {"running", "executing"}
  BY <1>1 DEF CallFits
<1>12. \A d \in Callers : CallFits(d)'
  BY <1>1, <1>8, <1>9, <1>11, MovedShown, SnapshotAssumption, CallersAssumption
  DEF CallFits, InFlight, Setup, history, Callers
<1> QED BY <1>1, <1>8, <1>9, <1>10, <1>12, Served DEF InFlight

LEMMA RejectStep ==
  ASSUME TuiInvariant, NEW c \in Callers, Reject(c) PROVE TuiInvariant'
<1> USE DEF TuiInvariant
<1>1. /\ call[c].at = "called" /\ op = Nothing /\ op' = Nothing
      /\ state.rev < MaxRevision /\ state \in Snapshots /\ state.rev \in Nat
      /\ call \in [Callers -> CallRecords] /\ slot \in Snapshots \cup {Nothing}
      /\ UNCHANGED <<staged, listener, ui, history>>
  BY Counted, BoundAssumption DEF Reject, Unavailable, TypeOK, Snapshots
<1> DEFINE n == [state EXCEPT !.pending = Nothing]
<1>2. \/ state' = Next1(n) /\ slot' = Next1(n)
      \/ UNCHANGED <<state, slot>>
  BY DEF Reject, Publish
<1>3. n \in Snapshots /\ n.rev = state.rev BY <1>1 DEF Snapshots
<1> HIDE DEF n
<1>4. state' \in Snapshots /\ slot' \in Snapshots \cup {Nothing}
  BY <1>1, <1>2, <1>3, Next1Typed
<1>5. PICK ok \in BOOLEAN : Moved(c, "rejected", ok, Nothing) BY DEF Reject
<1>6. \A d \in Callers : call[d].at \notin {"running", "executing"}
  BY <1>1, CallersAssumption DEF CallFits, Callers
<1>7. \A d \in Callers : CallFits(d)'
  BY <1>1, <1>5, <1>6, MovedShown DEF CallFits, InFlight, Setup, history
<1> QED BY <1>1, <1>4, <1>5, <1>7, Served DEF TypeOK, InFlight

-----------------------------------------------------------------------------
(* Calls that begin and end *)

(* A call that has not begun relies on what its handler has put in it. *)
Sound(r) ==
    /\ r \in CallRecords /\ r.at \in {"called", "over"}
    /\ r.at = "called" /\ r.kind \in {"approve", "reject"} => r.write # Nothing
    /\ r.at = "called" /\ r.kind = "setup" =>
          r.opened >= 1 /\ r.opened =< opened /\ r.form = 2 * r.opened - 1

LEMMA CallsFit ==
  ASSUME TuiInvariant, NEW c \in Callers, NEW r, Sound(r),
         call[c].at \notin {"running", "executing"},
         call' = [call EXCEPT ![c] = r], UNCHANGED <<state, op>>,
         opened' = opened \/ opened' = opened + 1
  PROVE  /\ call' \in [Callers -> CallRecords] /\ call'[c] = r
         /\ \A d \in Callers : d # c => call'[d] = call[d]
         /\ \A d \in Callers : CallFits(d)'
<1> USE DEF TuiInvariant
<1>1. /\ call \in [Callers -> CallRecords] /\ opened \in Nat
      /\ \A d \in Callers : call[d].opened \in Nat
  BY BoundAssumption DEF TypeOK, CallRecords
<1>2. call' \in [Callers -> CallRecords] /\ call'[c] = r BY <1>1 DEF Sound
<1>3. \A d \in Callers : d # c => call'[d] = call[d] BY <1>1
<1>4. r.opened \in Nat BY BoundAssumption DEF Sound, CallRecords
<1>5. CallFits(c)' BY <1>1, <1>2, <1>4 DEF CallFits, Sound, InFlight, Setup
<1>6. \A d \in Callers : d # c => CallFits(d)'
  BY <1>1, <1>3 DEF CallFits, InFlight, Setup
<1> QED BY <1>2, <1>3, <1>5, <1>6

(* The same when no call begins or ends. *)
LEMMA CallsStay ==
  ASSUME TuiInvariant, UNCHANGED <<state, op, call>>,
         opened' = opened \/ opened' = opened + 1
  PROVE  \A d \in Callers : CallFits(d)'
<1>1. /\ opened \in Nat /\ \A d \in Callers : call[d].opened \in Nat
  BY BoundAssumption DEF TuiInvariant, TypeOK, CallRecords
<1> QED BY <1>1 DEF TuiInvariant, CallFits, InFlight, Setup

(* The setups in flight are as before. *)
SetupsKept == \A c \in Calls : /\ Setup(c)' <=> Setup(c)
                               /\ Setup(c) => call'[c].opened = call[c].opened

LEMMA FormsKept ==
  ASSUME TuiInvariant, SetupsKept, UNCHANGED opened,
         ui'.form = ui.form, ui'.busy = ui.busy, IsForm(ui'.modal) <=> IsForm(ui.modal)
  PROVE  FormsFit'
<1>1. Blocked' <=> Blocked BY DEF Blocked, SetupsKept, Setup, InFlight
<1> QED BY <1>1 DEF TuiInvariant, FormsFit, SetupsKept

(* A form, or another modal, is closed. *)
LEMMA FormsClosed ==
  ASSUME TuiInvariant, UNCHANGED opened,
         \A c, d \in Calls : Setup(c)' /\ Setup(d)' /\ call'[c].opened = call'[d].opened => c = d,
         ui'.form = IF IsForm(ui.modal) THEN ui.form + 1 ELSE ui.form,
         ui'.modal = "none", ui'.busy = FALSE
  PROVE  FormsFit'
<1>1. opened \in Nat BY BoundAssumption DEF TuiInvariant, TypeOK
<1>2. ~Blocked' BY DEF Blocked, IsForm
<1>3. ui'.form = 2 * opened' BY <1>1 DEF TuiInvariant, FormsFit
<1> QED BY <1>2, <1>3 DEF FormsFit, IsForm

(* Whatever a message or a key does to the interface. *)
LEMMA Settled ==
  ASSUME TuiInvariant, ui' \in Models, Tidy(ui'), FormsFit',
         \A e \in Editors : typed'[e] = Text(ui', e),
         ui'.approve => typedFor' = ui'.pending,
         typed' \in [Editors -> Texts \cup {Nothing}], typedFor' \in Writes \cup {Nothing},
         call' \in [Callers -> CallRecords], \A d \in Callers : CallFits(d)',
         slot' \in Snapshots \cup {Nothing}, listener' \in Snapshots \cup {Nothing},
         opened' \in 0..MaxForm, UNCHANGED <<state, op, staged>>
  PROVE  TuiInvariant'
<1>1. TypeOK' BY DEF TuiInvariant, TypeOK, Tidy, Neat
<1>2. DraftsSurvive' BY DEF DraftsSurvive, Text
<1> QED BY <1>1, <1>2 DEF TuiInvariant

(* What TypeOK says of the interface. *)
LEMMA UiTyped ==
  ASSUME TuiInvariant
  PROVE  /\ ui \in Models /\ Tidy(ui) /\ Neat(ui)
         /\ \A e \in Editors : typed[e] = Text(ui, e)
         /\ typed \in [Editors -> Texts \cup {Nothing}]
         /\ typedFor \in Writes \cup {Nothing}
         /\ call \in [Callers -> CallRecords]
         /\ slot \in Snapshots \cup {Nothing} /\ listener \in Snapshots \cup {Nothing}
         /\ opened \in 0..MaxForm /\ opened \in Nat
BY BoundAssumption DEF TuiInvariant, TypeOK, Tidy, DraftsSurvive, Text

-----------------------------------------------------------------------------
(* Messages *)

LEMMA NoCallSound ==
  Sound(NoCall)
BY BoundAssumption DEF Sound, NoCall, CallRecords, Kinds

(* A call as its handler starts it. *)
LEMMA StartSound ==
  ASSUME NEW k \in Kinds, NEW w \in Writes \cup {Nothing}, NEW f \in 0..MaxForm,
         NEW t \in BOOLEAN, NEW o \in 0..MaxForm,
         k \in {"approve", "reject"} => w # Nothing,
         k = "setup" => o >= 1 /\ o =< opened /\ f = 2 * o - 1,
         NEW r, r = [at |-> "called", kind |-> k, write |-> w, form |-> f, test |-> t,
                     opened |-> o, ok |-> TRUE, snap |-> Nothing]
  PROVE  Sound(r) /\ r.kind = k
BY DEF Sound, CallRecords

LEMMA RemoteStep ==
  ASSUME TuiInvariant, RemoteCall \/ RemoteReturn PROVE TuiInvariant'
<1>1. PICK r : /\ call' = [call EXCEPT ![Remote] = r]
               /\ r = NoCall
                  \/ \E k \in {"dispatch", "write"} :
                        r = [NoCall EXCEPT !.at = "called", !.kind = k]
  BY DEF RemoteCall, RemoteReturn
<1>2. /\ Sound(r) /\ r.kind # "setup"
  <2>1. CASE r = NoCall BY <2>1, NoCallSound DEF NoCall
  <2>2. ASSUME NEW k \in {"dispatch", "write"},
               r = [NoCall EXCEPT !.at = "called", !.kind = k]
        PROVE  Sound(r) /\ r.kind # "setup"
    <3>1. r = [at |-> "called", kind |-> k, write |-> Nothing, form |-> 0, test |-> FALSE,
               opened |-> 0, ok |-> TRUE, snap |-> Nothing]
      BY <2>2 DEF NoCall
    <3>2. k \in Kinds /\ 0 \in 0..MaxForm BY BoundAssumption DEF Kinds
    <3> QED BY <3>1, <3>2, StartSound
  <2> QED BY <1>1, <2>1, <2>2
<1>3. Remote \in Callers /\ call[Remote].at \in {"over", "done"}
      /\ UNCHANGED <<appVars, listener, ui, history>>
  BY DEF RemoteCall, RemoteReturn, Callers
<1>4. /\ call' \in [Callers -> CallRecords]
      /\ \A d \in Callers : d # Remote => call'[d] = call[d]
      /\ \A d \in Callers : CallFits(d)'
  BY <1>1, <1>2, <1>3, CallsFit DEF appVars, history
<1>5. SetupsKept BY <1>4, CallersAssumption DEF SetupsKept, Setup, InFlight, Callers
<1>6. FormsFit' BY <1>3, <1>5, FormsKept DEF history
<1> QED BY <1>3, <1>4, <1>6, UiTyped, Settled DEF TuiInvariant, appVars, history

LEMMA ListenStep ==
  ASSUME TuiInvariant, Listen PROVE TuiInvariant'
<1>1. /\ UNCHANGED <<state, op, staged, call, ui, history>>
      /\ listener' = slot /\ slot' = Nothing
  BY DEF Listen
<1>2. SetupsKept BY <1>1 DEF SetupsKept, Setup, InFlight
<1>3. FormsFit' BY <1>1, <1>2, FormsKept DEF history
<1>4. \A d \in Callers : CallFits(d)' BY <1>1, CallsStay DEF history
<1> QED BY <1>1, <1>3, <1>4, UiTyped, Settled DEF TuiInvariant, history

(* A snapshot is accepted, with the calls that stay in flight. *)
LEMMA Accepting ==
  ASSUME TuiInvariant, NEW s \in Snapshots, ui' = Accept(ui, s), SetupsKept,
         call' \in [Callers -> CallRecords], \A d \in Callers : CallFits(d)',
         listener' \in Snapshots \cup {Nothing}, UNCHANGED <<appVars, history>>
  PROVE  TuiInvariant'
<1>1. ui' \in Models /\ Tidy(ui') /\ Kept(ui', ui) BY UiTyped, AcceptKeeps
<1>2. FormsFit' BY <1>1, FormsKept DEF Kept, history
<1> QED BY <1>1, <1>2, UiTyped, Settled DEF TuiInvariant, Kept, appVars, history

LEMMA HandleEventStep ==
  ASSUME TuiInvariant, HandleEvent PROVE TuiInvariant'
<1>1. /\ ui' = Accept(ui, listener) /\ listener \in Snapshots /\ listener' = Nothing
      /\ UNCHANGED <<appVars, call, history>>
  BY UiTyped DEF HandleEvent, Relisten
<1>2. SetupsKept BY <1>1 DEF SetupsKept, Setup, InFlight
<1>3. \A d \in Callers : CallFits(d)' BY <1>1, CallsStay DEF history, appVars
<1> QED BY <1>1, <1>2, <1>3, UiTyped, Accepting

(* A call is over. *)
LEMMA Over ==
  ASSUME TuiInvariant, NEW c \in Calls, call[c].at = "done",
         call' = [call EXCEPT ![c] = NoCall], UNCHANGED <<state, op, opened>>
  PROVE  /\ call' \in [Callers -> CallRecords] /\ \A d \in Callers : CallFits(d)'
         /\ ~Setup(c)'
         /\ \A d \in Calls : d # c => /\ Setup(d)' <=> Setup(d)
                                      /\ call'[d].opened = call[d].opened
<1>1. c \in Callers BY DEF Callers
<1>2. /\ call' \in [Callers -> CallRecords] /\ call'[c] = NoCall
      /\ \A d \in Callers : d # c => call'[d] = call[d]
      /\ \A d \in Callers : CallFits(d)'
  BY <1>1, NoCallSound, CallsFit
<1>3. ~Setup(c)' BY <1>2 DEF Setup, InFlight, NoCall
<1> QED BY <1>2, <1>3 DEF Setup, InFlight, Callers

LEMMA HandleResultStep ==
  ASSUME TuiInvariant, NEW c \in Calls, HandleResult(c) PROVE TuiInvariant'
<1> DEFINE r == call[c]
           v == Accept(ui, r.snap)
<1>1. /\ r.at = "done" /\ c \in Callers /\ r.snap \in Snapshots
      /\ call' = [call EXCEPT ![c] = NoCall]
      /\ UNCHANGED <<appVars, listener, history>>
  <2>1. CallFits(c) /\ c \in Callers BY DEF TuiInvariant, Callers
  <2>2. r \in CallRecords BY <2>1, UiTyped
  <2> QED BY <2>1, <2>2 DEF HandleResult, CallFits, CallRecords
<1>2. /\ call' \in [Callers -> CallRecords] /\ \A d \in Callers : CallFits(d)'
      /\ ~Setup(c)'
      /\ \A d \in Calls : d # c => /\ Setup(d)' <=> Setup(d)
                                   /\ call'[d].opened = call[d].opened
  BY <1>1, Over DEF appVars, history
<1>3. CASE r.kind # "setup"
  <2>1. ui' = v BY <1>3 DEF HandleResult
  <2>2. SetupsKept BY <1>2, <1>3 DEF SetupsKept, Setup
  <2> QED BY <1>1, <1>2, <2>1, <2>2, UiTyped, Accepting
<1>4. CASE r.kind = "setup"
  <2>1. v \in Models /\ Tidy(v) /\ Kept(v, ui) BY <1>1, UiTyped, AcceptKeeps
  <2>2. /\ r.opened \in Nat /\ r.opened =< opened /\ r.form = 2 * r.opened - 1
        /\ Setup(c)
    <3>1. r \in CallRecords BY <1>1, UiTyped
    <3>2. r.opened \in Nat BY <3>1, BoundAssumption DEF CallRecords
    <3> QED BY <1>1, <1>4, <3>2 DEF TuiInvariant, CallFits, Setup, InFlight
  <2>3. ui' = AcceptSetup(ui, r) BY <1>4 DEF HandleResult
  <2>4. ui.form = (IF IsForm(ui.modal) THEN 2 * opened - 1 ELSE 2 * opened)
        /\ (ui.busy <=> Blocked) /\ opened \in Nat
        /\ \A d, e \in Calls : Setup(d) /\ Setup(e) /\ call[d].opened = call[e].opened => d = e
    BY UiTyped DEF TuiInvariant, FormsFit
  <2>5. v.form = ui.form /\ v.busy = ui.busy /\ (IsForm(v.modal) <=> IsForm(ui.modal))
    BY <2>1 DEF Kept
  <2>6. \A d, e \in Calls : Setup(d)' /\ Setup(e)' /\ call'[d].opened = call'[e].opened
                              => d = e
    BY <1>2, <2>4
  <2>7. CASE ~ForThisForm(v, r)
    <3>1. ui' = v BY <2>3, <2>7 DEF AcceptSetup
    <3>2. IsForm(ui.modal) => r.opened # opened
      BY <2>2, <2>4, <2>5, <2>7 DEF ForThisForm
    <3>3. Blocked' <=> Blocked
      BY <1>1, <1>2, <2>5, <3>1, <3>2 DEF Blocked, Setup, InFlight, history
    <3>4. FormsFit'
      BY <1>1, <2>4, <2>5, <2>6, <3>1, <3>3 DEF FormsFit, TuiInvariant, history
    <3> QED
      BY <1>1, <1>2, <2>1, <3>1, <3>4, UiTyped, Settled
      DEF TuiInvariant, Kept, appVars, history
  <2>8. CASE ForThisForm(v, r)
    <3>1. IsForm(ui.modal) /\ r.opened = opened BY <2>2, <2>4, <2>5, <2>8 DEF ForThisForm
    <3>2. \A d \in Calls : Setup(d)' => call'[d].opened # opened'
      BY <1>1, <1>2, <2>2, <2>4, <3>1 DEF history
    <3>3. v.form + 1 =< MaxForm BY <2>5, <3>1 DEF TuiInvariant, FormsFit
    <3>4. CASE r.ok /\ ~r.test
      <4> DEFINE n == CloseModal(v)
      <4>1. ui' = n BY <2>3, <2>8, <3>4 DEF AcceptSetup
      <4>2. n \in Models BY <2>1, <3>3, CloseTyped
      <4>3. /\ n.snap = v.snap /\ n.modal = "none" /\ n.pending = v.pending
            /\ n.approve = FALSE /\ n.sql = Nothing /\ n.fields = FALSE
            /\ n.form = v.form + 1 /\ n.busy = FALSE
            /\ \A e \in Editors : n.draft[e] = Text(v, e)
        BY <2>1, <2>5, <3>1, CloseShown
      <4> HIDE DEF n
      <4>4. Tidy(n) BY <4>3 DEF Tidy, Neat, IsForm
      <4>5. \A e \in Editors : Text(n, e) = Text(ui, e)
        BY <2>1, <4>3 DEF Text, Kept, Editors
      <4>6. FormsFit' BY <1>1, <2>5, <2>6, <3>1, <4>1, <4>3, FormsClosed DEF history
      <4> QED
        BY <1>1, <1>2, <4>1, <4>2, <4>3, <4>4, <4>5, <4>6, UiTyped, Settled
        DEF TuiInvariant, appVars, history
    <3>5. CASE ~(r.ok /\ ~r.test)
      <4> DEFINE n == Released(v, r)
      <4>1. ui' = n BY <2>3, <2>8, <3>5 DEF AcceptSetup
      <4>2. n \in Models BY <2>1 DEF Released, Models
      <4>3. /\ n.snap = v.snap /\ n.modal = v.modal /\ n.pending = v.pending
            /\ n.approve = v.approve /\ n.sql = v.sql /\ n.fields = v.fields
            /\ n.form = v.form /\ n.busy = FALSE /\ n.draft = v.draft
        BY <2>1 DEF Released, Models
      <4> HIDE DEF n
      <4>4. Tidy(n) BY <2>1, <4>3 DEF Tidy, Neat
      <4>5. \A e \in Editors : Text(n, e) = Text(ui, e)
        BY <2>1, <4>3 DEF Text, Kept
      <4>6. ~Blocked' BY <3>2 DEF Blocked, Setup, InFlight
      <4>7. FormsFit'
        BY <1>1, <2>4, <2>5, <2>6, <3>1, <3>3, <4>1, <4>3, <4>6 DEF FormsFit, history
      <4>8. n.approve => ui.approve /\ n.pending = ui.pending BY <2>1, <4>3 DEF Kept
      <4> QED
        BY <1>1, <1>2, <4>1, <4>2, <4>4, <4>5, <4>7, <4>8, UiTyped, Settled
        DEF TuiInvariant, appVars, history
    <3> QED BY <3>4, <3>5
  <2> QED BY <2>7, <2>8
<1> QED BY <1>3, <1>4

-----------------------------------------------------------------------------
(* Keys *)

(* A handler that starts a call other than a setup. *)
LEMMA CallingFits ==
  ASSUME TuiInvariant, NEW u, NEW r, Calling(u, r), UNCHANGED opened,
         Sound([r EXCEPT !.at = "called"]), [r EXCEPT !.at = "called"].kind # "setup"
  PROVE  /\ ui' = u /\ UNCHANGED <<appVars, listener>> /\ SetupsKept
         /\ call' \in [Callers -> CallRecords] /\ \A d \in Callers : CallFits(d)'
<1>1. PICK c \in Calls : /\ call[c].at = "over"
                         /\ call' = [call EXCEPT ![c] = [r EXCEPT !.at = "called"]]
  BY DEF Calling
<1>2. c \in Callers /\ ui' = u /\ UNCHANGED <<appVars, listener>>
  BY DEF Callers, Calling
<1> DEFINE n == [r EXCEPT !.at = "called"]
<1>3. Sound(n) /\ n.kind # "setup" /\ call' = [call EXCEPT ![c] = n] BY <1>1
<1> HIDE DEF n
<1>4. /\ call' \in [Callers -> CallRecords] /\ call'[c] = n
      /\ \A d \in Callers : d # c => call'[d] = call[d]
      /\ \A d \in Callers : CallFits(d)'
  BY <1>1, <1>2, <1>3, CallsFit DEF appVars
<1>5. SetupsKept BY <1>1, <1>3, <1>4 DEF SetupsKept, Setup, InFlight, Callers
<1> QED BY <1>2, <1>4, <1>5

(* A handler that starts no call. *)
LEMMA OnlyFits ==
  ASSUME TuiInvariant, NEW u, Only(u), opened' = opened \/ opened' = opened + 1
  PROVE  /\ ui' = u /\ UNCHANGED <<appVars, listener>> /\ SetupsKept
         /\ call' \in [Callers -> CallRecords] /\ \A d \in Callers : CallFits(d)'
<1>1. ui' = u /\ UNCHANGED <<appVars, listener, call>> BY DEF Only
<1>2. SetupsKept BY <1>1 DEF SetupsKept, Setup, InFlight
<1> QED BY <1>1, <1>2, UiTyped, CallsStay DEF appVars

(* What a modal is closed with. *)
LEMMA Closed ==
  ASSUME TuiInvariant
  PROVE  LET n == CloseModal(ui)
         IN  /\ n \in Models /\ Tidy(n) /\ n.modal = "none" /\ n.approve = FALSE
             /\ n.snap = ui.snap /\ n.pending = ui.pending /\ n.sql = Nothing
             /\ n.form = IF IsForm(ui.modal) THEN ui.form + 1 ELSE ui.form
             /\ n.busy = FALSE /\ n.fields = FALSE
             /\ \A e \in Editors : Text(n, e) = Text(ui, e) /\ n.draft[e] = Text(ui, e)
<1> DEFINE n == CloseModal(ui)
<1>1. n \in Models BY UiTyped, CloseTyped DEF TuiInvariant, FormsFit
<1>2. /\ n.snap = ui.snap /\ n.modal = "none" /\ n.pending = ui.pending
      /\ n.approve = FALSE /\ n.sql = Nothing /\ n.fields = FALSE
      /\ n.form = IF IsForm(ui.modal) THEN ui.form + 1 ELSE ui.form
      /\ n.busy = IF IsForm(ui.modal) THEN FALSE ELSE ui.busy
      /\ \A e \in Editors : n.draft[e] = Text(ui, e)
  BY UiTyped, CloseShown
<1> HIDE DEF n
<1>3. n.busy = FALSE BY <1>1, <1>2, UiTyped DEF Tidy, Neat, Models
<1>4. Tidy(n) BY <1>2, <1>3 DEF Tidy, Neat, IsForm
<1>5. \A e \in Editors : Text(n, e) = Text(ui, e) BY <1>2 DEF Text, Editors
<1> QED BY <1>1, <1>2, <1>3, <1>4, <1>5 DEF n

(* A modal is closed, whatever call it starts. *)
LEMMA Closing ==
  ASSUME TuiInvariant, ui' = CloseModal(ui), UNCHANGED <<appVars, listener, history>>,
         SetupsKept, call' \in [Callers -> CallRecords], \A d \in Callers : CallFits(d)'
  PROVE  TuiInvariant'
<1>1. /\ ui' \in Models /\ Tidy(ui') /\ ui'.modal = "none" /\ ui'.approve = FALSE
      /\ ui'.form = IF IsForm(ui.modal) THEN ui.form + 1 ELSE ui.form
      /\ ui'.busy = FALSE
      /\ \A e \in Editors : Text(ui', e) = Text(ui, e)
  BY Closed
<1>2. \A c, d \in Calls : Setup(c)' /\ Setup(d)' /\ call'[c].opened = call'[d].opened => c = d
  BY DEF SetupsKept, TuiInvariant, FormsFit
<1>3. FormsFit' BY <1>1, <1>2, FormsClosed DEF history
<1> QED BY <1>1, <1>3, UiTyped, Settled DEF TuiInvariant, appVars, history

LEMMA NoWrite ==
  ASSUME NEW k, NEW r, r = [NoCall EXCEPT !.kind = k]
  PROVE  r = [NoCall EXCEPT !.kind = k, !.write = Nothing]
<1> DEFINE n == [at |-> "over", kind |-> k, write |-> Nothing, form |-> 0, test |-> FALSE,
                 opened |-> 0, ok |-> TRUE, snap |-> Nothing]
<1>1. ASSUME NEW q, q = [NoCall EXCEPT !.kind = k, !.write = Nothing] PROVE q = n
  BY <1>1 DEF NoCall
<1>2. r = n BY DEF NoCall
<1> QED BY <1>1, <1>2

LEMMA CalledSound ==
  ASSUME NEW k \in Kinds \ {"setup"}, NEW w \in Writes \cup {Nothing},
         k \in {"approve", "reject"} => w # Nothing,
         NEW r, r = [NoCall EXCEPT !.kind = k, !.write = w]
  PROVE  Sound([r EXCEPT !.at = "called"]) /\ [r EXCEPT !.at = "called"].kind # "setup"
<1>1. SUFFICES ASSUME NEW n, n = [r EXCEPT !.at = "called"]
               PROVE  Sound(n) /\ n.kind # "setup"
  OBVIOUS
<1>2. n = [at |-> "called", kind |-> k, write |-> w, form |-> 0, test |-> FALSE,
           opened |-> 0, ok |-> TRUE, snap |-> Nothing]
  BY <1>1 DEF NoCall
<1>3. 0 \in 0..MaxForm BY BoundAssumption
<1> QED BY <1>2, <1>3, StartSound

LEMMA DispatchSound ==
  /\ Sound([Dispatch EXCEPT !.at = "called"])
  /\ [Dispatch EXCEPT !.at = "called"].kind # "setup"
<1>1. ASSUME NEW r, r = Dispatch
      PROVE  r = [NoCall EXCEPT !.kind = "dispatch", !.write = Nothing]
  BY <1>1, NoWrite DEF Dispatch
<1> QED BY <1>1, CalledSound DEF Kinds

LEMMA EscStep ==
  ASSUME TuiInvariant, Esc PROVE TuiInvariant'
<1>1. Only(CloseModal(ui)) /\ UNCHANGED history BY DEF Esc
<1> QED BY <1>1, OnlyFits, Closing DEF history

LEMMA ChooseStep ==
  ASSUME TuiInvariant, Choose PROVE TuiInvariant'
<1>1. Calling(CloseModal(ui), Dispatch) /\ UNCHANGED history BY DEF Choose
<1>2. /\ ui' = CloseModal(ui) /\ UNCHANGED <<appVars, listener>> /\ SetupsKept
      /\ call' \in [Callers -> CallRecords] /\ \A d \in Callers : CallFits(d)'
  BY <1>1, DispatchSound, CallingFits DEF history
<1> QED BY <1>1, <1>2, Closing

LEMMA BrowseStep ==
  ASSUME TuiInvariant, Browse PROVE TuiInvariant'
<1>1. Calling(ui, Dispatch) /\ UNCHANGED history BY DEF Browse
<1>2. /\ ui' = ui /\ UNCHANGED <<appVars, listener>> /\ SetupsKept
      /\ call' \in [Callers -> CallRecords] /\ \A d \in Callers : CallFits(d)'
  BY <1>1, DispatchSound, CallingFits DEF history
<1>3. FormsFit' BY <1>1, <1>2, FormsKept DEF history
<1> QED BY <1>1, <1>2, <1>3, UiTyped, Settled DEF TuiInvariant, appVars, history

LEMMA SubmitStep ==
  ASSUME TuiInvariant, SubmitSQL \/ EnterApprove \/ EnterReject PROVE TuiInvariant'
<1>1. PICK r : /\ Calling(CloseModal(ui), r) /\ UNCHANGED history
               /\ \E k \in Kinds \ {"setup"} : \E w \in Writes \cup {Nothing} :
                     /\ r = [NoCall EXCEPT !.kind = k, !.write = w]
                     /\ k \in {"approve", "reject"} => w # Nothing
  <2>1. ui.pending \in Writes \cup {Nothing} BY UiTyped DEF Models
  <2>2. CASE SubmitSQL
    <3>1. PICK k \in {"write", "dispatch"} : Calling(CloseModal(ui), [NoCall EXCEPT !.kind = k])
      BY <2>2 DEF SubmitSQL
    <3>2. PICK r : r = [NoCall EXCEPT !.kind = k] /\ Calling(CloseModal(ui), r)
      BY <3>1
    <3>3. r = [NoCall EXCEPT !.kind = k, !.write = Nothing] BY <3>2, NoWrite
    <3> QED BY <2>2, <3>2, <3>3 DEF SubmitSQL, Kinds
  <2>3. CASE EnterApprove \/ EnterReject
    <3>1. PICK k \in {"approve", "reject"} :
            Calling(CloseModal(ui), [NoCall EXCEPT !.kind = k, !.write = ui.pending])
      BY <2>3 DEF EnterApprove, EnterReject
    <3>2. ui.pending # Nothing /\ UNCHANGED history BY <2>3 DEF EnterApprove, EnterReject
    <3> QED BY <2>1, <3>1, <3>2 DEF Kinds
  <2> QED BY <2>2, <2>3
<1>2. Sound([r EXCEPT !.at = "called"]) /\ [r EXCEPT !.at = "called"].kind # "setup"
  BY <1>1, CalledSound
<1>3. /\ ui' = CloseModal(ui) /\ UNCHANGED <<appVars, listener>> /\ SetupsKept
      /\ call' \in [Callers -> CallRecords] /\ \A d \in Callers : CallFits(d)'
  BY <1>1, <1>2, CallingFits DEF history
<1> QED BY <1>1, <1>3, Closing

(* A modal other than a form opens on the main screen. *)
LEMMA OpenStep ==
  ASSUME TuiInvariant,
         OpenList \/ OpenFilter \/ \E e \in Editors : OpenEditor(e)
  PROVE  TuiInvariant'
<1>1. PICK m \in Editors \cup {"list", "filter"} :
        OpenModal(m) /\ ui.modal = "none" /\ UNCHANGED history
  BY DEF OpenList, OpenFilter, OpenEditor
<1> DEFINE k == CloseModal(ui)
           text == IF m \in Editors THEN ui.draft[m] ELSE k.sql
           n == [k EXCEPT !.modal = m, !.sql = text, !.fields = FALSE]
<1>2. /\ k \in Models /\ Tidy(k) /\ k.modal = "none" /\ k.approve = FALSE
      /\ k.snap = ui.snap /\ k.sql = Nothing
      /\ k.form = ui.form /\ k.busy = FALSE /\ k.fields = FALSE
      /\ \A e \in Editors : Text(k, e) = Text(ui, e) /\ k.draft[e] = Text(ui, e)
  BY <1>1, Closed DEF IsForm
<1>3. /\ text \in Texts \cup {Nothing}
      /\ m \in Editors => text = Text(ui, m)
      /\ m \notin Editors => text = Nothing
  BY <1>1, <1>2, UiTyped DEF Models, Text, Editors
<1>4. Only(n)
  <2>1. IsForm(m) = FALSE BY <1>1 DEF IsForm, Editors
  <2>2. [k EXCEPT !.modal = m, !.sql = IF m \in Editors THEN ui.draft[m] ELSE @,
                  !.fields = IsForm(m), !.form = IF IsForm(m) THEN @ + 1 ELSE @]
        = [k EXCEPT !.modal = m, !.sql = text, !.fields = FALSE, !.form = k.form]
    BY <2>1
  <2>3. [k EXCEPT !.modal = m, !.sql = text, !.fields = FALSE, !.form = k.form] = n
    <3> HIDE DEF k, text
    <3> QED BY <1>2 DEF Models
  <2> QED BY <1>1, <2>2, <2>3 DEF OpenModal
<1> HIDE DEF k, text
<1>5. n \in Models BY <1>2, <1>3 DEF Models, Modals, Editors
<1>6. /\ n.snap = k.snap /\ n.modal = m /\ n.pending = k.pending
      /\ n.approve = k.approve /\ n.sql = text /\ n.fields = FALSE
      /\ n.form = k.form /\ n.busy = k.busy /\ n.draft = k.draft
  BY <1>2 DEF Models
<1> HIDE DEF n
<1>7. /\ ui' = n /\ UNCHANGED <<appVars, listener>> /\ SetupsKept
      /\ call' \in [Callers -> CallRecords] /\ \A d \in Callers : CallFits(d)'
  BY <1>1, <1>4, OnlyFits DEF history
<1>8. Tidy(n) BY <1>2, <1>3, <1>6 DEF Tidy, Neat, IsForm, Editors
<1>9. \A e \in Editors : Text(n, e) = Text(ui, e) BY <1>2, <1>3, <1>6 DEF Text
<1>10. ui.busy = FALSE BY <1>1, UiTyped DEF Tidy, Neat, IsForm, Models
<1>11. FormsFit'
  BY <1>1, <1>2, <1>6, <1>7, <1>10, FormsKept DEF history, IsForm, Editors
<1> QED
  BY <1>1, <1>2, <1>5, <1>6, <1>7, <1>8, <1>9, <1>11, UiTyped, Settled
  DEF TuiInvariant, appVars, history

(* A form opens, and no setup in flight is its own. *)
LEMMA OpenFormStep ==
  ASSUME TuiInvariant, OpenForm PROVE TuiInvariant'
<1>1. /\ OpenModal("profile") /\ ui.modal = "none" /\ ui.form + 2 <= MaxForm
      /\ opened' = opened + 1 /\ UNCHANGED <<typedFor, typed>>
  BY DEF OpenForm
<1> DEFINE k == CloseModal(ui)
           form == k.form + 1
           n == [k EXCEPT !.modal = "profile", !.fields = TRUE, !.form = form]
<1>2. /\ k \in Models /\ Tidy(k) /\ k.modal = "none" /\ k.approve = FALSE
      /\ k.snap = ui.snap /\ k.sql = Nothing
      /\ k.form = ui.form /\ k.busy = FALSE /\ k.fields = FALSE
      /\ \A e \in Editors : Text(k, e) = Text(ui, e) /\ k.draft[e] = Text(ui, e)
  BY <1>1, Closed DEF IsForm
<1>3. /\ opened \in Nat /\ ui.form = 2 * opened /\ ui.busy = FALSE
      /\ form \in 0..MaxForm /\ form = 2 * (opened + 1) - 1 /\ form + 1 =< MaxForm
      /\ opened + 1 \in 0..MaxForm
  <2>1. opened \in Nat /\ ui.form = 2 * opened
    BY <1>1, UiTyped DEF TuiInvariant, FormsFit, IsForm
  <2>2. ui.busy = FALSE BY <1>1, UiTyped DEF Tidy, Neat, IsForm, Models
  <2> QED BY <1>1, <1>2, <2>1, <2>2, BoundAssumption
<1>4. Only(n)
  <2>1. [k EXCEPT !.modal = "profile",
                  !.sql = IF "profile" \in Editors THEN ui.draft["profile"] ELSE @,
                  !.fields = IsForm("profile"),
                  !.form = IF IsForm("profile") THEN @ + 1 ELSE @] = n
    BY <1>2 DEF Models, IsForm, Editors
  <2> QED BY <1>1, <2>1 DEF OpenModal
<1> HIDE DEF k, form
<1>5. n \in Models BY <1>2, <1>3 DEF Models, Modals, Editors
<1>6. /\ n.snap = k.snap /\ n.modal = "profile" /\ n.pending = k.pending
      /\ n.approve = k.approve /\ n.sql = k.sql /\ n.fields = TRUE
      /\ n.form = form /\ n.busy = k.busy /\ n.draft = k.draft
  BY <1>2 DEF Models
<1> HIDE DEF n
<1>7. /\ ui' = n /\ UNCHANGED <<appVars, listener>> /\ SetupsKept /\ UNCHANGED call
      /\ call' \in [Callers -> CallRecords] /\ \A d \in Callers : CallFits(d)'
  BY <1>1, <1>4, OnlyFits DEF Only
<1>8. Tidy(n) BY <1>2, <1>6 DEF Tidy, Neat, IsForm
<1>9. \A e \in Editors : Text(n, e) = Text(ui, e)
  BY <1>2, <1>6 DEF Text, Editors
<1>10. ~Blocked'
  <2>1. \A c \in Calls : Setup(c) => call[c].opened =< opened
    BY DEF TuiInvariant, CallFits, Callers
  <2> QED
    BY <1>1, <1>3, <1>7, <2>1, UiTyped, BoundAssumption
    DEF Blocked, Setup, InFlight, Callers, CallRecords
<1>11. FormsFit'
  BY <1>1, <1>2, <1>3, <1>6, <1>7, <1>10
  DEF FormsFit, IsForm, TuiInvariant, SetupsKept
<1> QED
  BY <1>1, <1>2, <1>3, <1>5, <1>6, <1>7, <1>8, <1>9, <1>11, UiTyped, Settled
  DEF TuiInvariant, appVars

LEMMA OpenReviewStep ==
  ASSUME TuiInvariant, OpenReview PROVE TuiInvariant'
<1>1. /\ ui.modal = "none" /\ ui.snap.pending \in Writes
      /\ Only(ShowPending(ui, ui.snap.pending)) /\ UNCHANGED history
  BY UiTyped DEF OpenReview, Models, Snapshots
<1> DEFINE n == ShowPending(ui, ui.snap.pending)
<1>2. /\ n \in Models /\ Neat(n) /\ Kept(n, ui)
      /\ n.snap = ui.snap /\ n.modal = "approve" /\ n.pending = ui.snap.pending
      /\ n.approve = FALSE
  BY <1>1, UiTyped, ShowKeeps DEF IsForm
<1>3. Only(n) BY <1>1
<1> HIDE DEF n
<1>4. /\ ui' = n /\ UNCHANGED <<appVars, listener>> /\ SetupsKept
      /\ call' \in [Callers -> CallRecords] /\ \A d \in Callers : CallFits(d)'
  BY <1>1, <1>3, OnlyFits DEF history
<1>5. Tidy(n) BY <1>2 DEF Tidy
<1>6. FormsFit' BY <1>1, <1>2, <1>4, FormsKept DEF Kept, history
<1> QED
  BY <1>1, <1>2, <1>4, <1>5, <1>6, UiTyped, Settled DEF TuiInvariant, Kept, appVars, history

LEMMA TypeStep ==
  ASSUME TuiInvariant, TypeSQL \/ TypeApprove PROVE TuiInvariant'
<1>1. CASE TypeSQL
  <2>1. PICK x \in Texts : /\ Only([ui EXCEPT !.sql = x])
                           /\ typed' = [typed EXCEPT ![ui.modal] = x]
    BY <1>1 DEF TypeSQL
  <2>2. ui.modal \in Editors /\ UNCHANGED <<typedFor, opened>> BY <1>1 DEF TypeSQL
  <2> DEFINE n == [ui EXCEPT !.sql = x]
  <2>3. n \in Models BY UiTyped DEF Models
  <2>4. /\ n.snap = ui.snap /\ n.modal = ui.modal /\ n.pending = ui.pending
        /\ n.approve = ui.approve /\ n.sql = x /\ n.fields = ui.fields
        /\ n.form = ui.form /\ n.busy = ui.busy /\ n.draft = ui.draft
    BY UiTyped DEF Models
  <2>5. Only(n) BY <2>1
  <2> HIDE DEF n
  <2>6. /\ ui' = n /\ UNCHANGED <<appVars, listener>> /\ SetupsKept
        /\ call' \in [Callers -> CallRecords] /\ \A d \in Callers : CallFits(d)'
    BY <2>2, <2>5, OnlyFits
  <2>7. Tidy(n) BY <2>2, <2>4, UiTyped DEF Tidy, Neat, IsForm, Editors
  <2>8. \A e \in Editors : typed'[e] = Text(n, e)
    BY <2>1, <2>2, <2>4, UiTyped DEF Text
  <2>9. typed' \in [Editors -> Texts \cup {Nothing}] BY <2>1, UiTyped
  <2>10. FormsFit' BY <2>2, <2>4, <2>6, FormsKept
  <2>11. n.approve => typedFor' = n.pending BY <2>2, <2>4 DEF TuiInvariant
  <2> QED
    BY <2>2, <2>3, <2>6, <2>7, <2>8, <2>9, <2>10, <2>11, UiTyped, Settled DEF appVars
<1>2. CASE TypeApprove
  <2>1. /\ Only([ui EXCEPT !.approve = TRUE]) /\ ui.modal = "approve"
        /\ typedFor' = ui.pending /\ UNCHANGED <<typed, opened>>
    BY <1>2 DEF TypeApprove
  <2> DEFINE n == [ui EXCEPT !.approve = TRUE]
  <2>2. n \in Models BY UiTyped DEF Models
  <2>3. /\ n.snap = ui.snap /\ n.modal = ui.modal /\ n.pending = ui.pending
        /\ n.sql = ui.sql /\ n.fields = ui.fields
        /\ n.form = ui.form /\ n.busy = ui.busy /\ n.draft = ui.draft
        /\ n.pending \in Writes \cup {Nothing}
    BY UiTyped DEF Models
  <2>4. Only(n) BY <2>1
  <2> HIDE DEF n
  <2>5. /\ ui' = n /\ UNCHANGED <<appVars, listener>> /\ SetupsKept
        /\ call' \in [Callers -> CallRecords] /\ \A d \in Callers : CallFits(d)'
    BY <2>1, <2>4, OnlyFits
  <2>6. Tidy(n) BY <2>1, <2>3, UiTyped DEF Tidy, Neat
  <2>7. \A e \in Editors : Text(n, e) = Text(ui, e) BY <2>3 DEF Text
  <2>8. FormsFit' BY <2>1, <2>3, <2>5, FormsKept
  <2> QED
    BY <2>1, <2>2, <2>3, <2>5, <2>6, <2>7, <2>8, UiTyped, Settled DEF appVars
<1> QED BY <1>1, <1>2

(* The only setup of an open form is in flight from now on. *)
LEMMA SubmitFormStep ==
  ASSUME TuiInvariant, SubmitForm PROVE TuiInvariant'
<1>1. PICK test \in BOOLEAN :
        /\ IsForm(ui.modal) /\ ui.busy = FALSE /\ UNCHANGED history
        /\ Calling([ui EXCEPT !.busy = TRUE],
                   [NoCall EXCEPT !.kind = "setup", !.form = ui.form, !.test = test,
                                  !.opened = opened])
  BY UiTyped DEF SubmitForm, Models
<1> DEFINE r == [[NoCall EXCEPT !.kind = "setup", !.form = ui.form, !.test = test,
                                !.opened = opened] EXCEPT !.at = "called"]
<1>2. PICK c \in Calls :
        /\ call[c].at = "over" /\ call' = [call EXCEPT ![c] = r]
        /\ ui' = [ui EXCEPT !.busy = TRUE] /\ UNCHANGED <<appVars, listener>>
  BY <1>1 DEF Calling
<1>3. r = [at |-> "called", kind |-> "setup", write |-> Nothing, form |-> ui.form,
           test |-> test, opened |-> opened, ok |-> TRUE, snap |-> Nothing]
  <2>1. ASSUME NEW x,
               x = [[NoCall EXCEPT !.kind = "setup", !.form = ui.form, !.test = test,
                                   !.opened = opened] EXCEPT !.at = "called"]
        PROVE  x = [at |-> "called", kind |-> "setup", write |-> Nothing,
                    form |-> ui.form, test |-> test, opened |-> opened, ok |-> TRUE,
                    snap |-> Nothing]
    BY <2>1 DEF NoCall
  <2> QED BY <2>1
<1> HIDE DEF r
<1>4. /\ opened \in 0..MaxForm /\ opened >= 1 /\ ui.form \in 0..MaxForm
      /\ ui.form = 2 * opened - 1 /\ c \in Callers
  <2>1. /\ opened \in 0..MaxForm /\ ui.form \in 0..MaxForm
        /\ ui.form = 2 * opened - 1 /\ c \in Callers
    BY <1>1, UiTyped DEF TuiInvariant, FormsFit, Models, Callers
  <2> QED BY <2>1, BoundAssumption
<1>5. Sound(r)
  <2>1. "setup" \in Kinds BY DEF Kinds
  <2> QED BY <1>3, <1>4, <2>1, StartSound, BoundAssumption
<1>6. /\ call' \in [Callers -> CallRecords] /\ call'[c] = r
      /\ \A d \in Callers : d # c => call'[d] = call[d]
      /\ \A d \in Callers : CallFits(d)'
  BY <1>1, <1>2, <1>4, <1>5, CallsFit DEF appVars, history
<1>7. /\ ui' \in Models /\ ui'.snap = ui.snap /\ ui'.modal = ui.modal
      /\ ui'.pending = ui.pending /\ ui'.approve = ui.approve /\ ui'.sql = ui.sql
      /\ ui'.fields = ui.fields /\ ui'.form = ui.form /\ ui'.busy = TRUE
      /\ ui'.draft = ui.draft
  BY <1>2, UiTyped DEF Models
<1>8. /\ Setup(c)' /\ call'[c].opened = opened
      /\ \A d \in Calls : d # c => /\ Setup(d)' <=> Setup(d)
                                   /\ call'[d].opened = call[d].opened
  BY <1>3, <1>6 DEF Setup, InFlight, Callers
<1>9. \A d \in Calls : Setup(d) => call[d].opened # opened
  BY <1>1 DEF TuiInvariant, FormsFit, Blocked, Setup, InFlight
<1>10. FormsFit'
  <2>1. Blocked' BY <1>1, <1>7, <1>8 DEF Blocked, Setup, InFlight, history
  <2>2. \A d, e \in Calls :
          Setup(d)' /\ Setup(e)' /\ call'[d].opened = call'[e].opened => d = e
    BY <1>8, <1>9 DEF TuiInvariant, FormsFit
  <2> QED BY <1>1, <1>7, <2>1, <2>2 DEF TuiInvariant, FormsFit, history
<1>11. Tidy(ui') BY <1>1, <1>7, UiTyped DEF Tidy, Neat
<1>12. \A e \in Editors : Text(ui', e) = Text(ui, e) BY <1>7 DEF Text
<1> QED
  BY <1>1, <1>2, <1>6, <1>7, <1>10, <1>11, <1>12, UiTyped, Settled
  DEF TuiInvariant, appVars, history

-----------------------------------------------------------------------------
(* The invariant *)

LEMMA TuiInit == Init => TuiInvariant
<1> SUFFICES ASSUME Init PROVE TuiInvariant
  OBVIOUS
<1>1. /\ state \in Snapshots /\ ui.snap = state /\ ui \in Models
      /\ ui.modal \in {"none", "approve"} /\ (ui.modal = "approve" => ui.pending # Nothing)
      /\ ui.pending = state.pending /\ ui.approve = FALSE /\ ui.sql = Nothing
      /\ ui.fields = FALSE /\ ui.busy = FALSE /\ ui.form = 0 /\ opened = 0
      /\ \A e \in Editors : ui.draft[e] = Nothing
      /\ 0 \in 0..MaxForm
  <2>1. 0 \in 0..MaxForm /\ 0 \in 0..MaxRevision BY BoundAssumption
  <2>2. state \in Snapshots /\ state.pending \in Writes \cup {Nothing}
    BY <2>1 DEF Init, Snapshots
  <2> DEFINE draft == [e \in Editors |-> Nothing]
             modal == IF state.pending = Nothing THEN "none" ELSE "approve"
  <2>3. /\ draft \in [Editors -> Texts \cup {Nothing}] /\ \A e \in Editors : draft[e] = Nothing
        /\ modal \in {"none", "approve"} /\ (modal = "approve" => state.pending # Nothing)
    OBVIOUS
  <2>4. ui = [snap |-> state, modal |-> modal, pending |-> state.pending, approve |-> FALSE,
              sql |-> Nothing, draft |-> draft, fields |-> FALSE, form |-> 0,
              busy |-> FALSE]
    BY DEF Init
  <2> HIDE DEF draft, modal
  <2>5. ui \in Models BY <2>1, <2>2, <2>3, <2>4 DEF Models, Modals
  <2> QED BY <2>1, <2>2, <2>3, <2>4, <2>5 DEF Init
<1>2. NoCall \in CallRecords /\ NoCall.at = "over"
  BY BoundAssumption DEF NoCall, CallRecords, Kinds
<1>3. \A c \in Callers : call[c] = NoCall BY DEF Init
<1>4. TypeOK
  <2>1. state.pending \in Writes \cup {Nothing} BY <1>1 DEF Snapshots
  <2>2. staged \subseteq Writes BY <2>1 DEF Init
  <2>3. slot \in Snapshots \cup {Nothing} BY <1>1 DEF Init
  <2> QED BY <1>1, <1>2, <2>2, <2>3 DEF Init, TypeOK, IsForm
<1>5. Tidy(ui) BY <1>1 DEF Tidy, Neat, IsForm
<1>6. \A c \in Callers : CallFits(c)
  BY <1>2, <1>3, CallersAssumption DEF Init, CallFits, Setup, InFlight, Callers
<1>7. FormsFit
  BY <1>1, <1>2, <1>3 DEF FormsFit, Blocked, Setup, InFlight, IsForm, Callers
<1>8. DraftsSurvive BY <1>1 DEF Init, DraftsSurvive, Editors
<1> QED BY <1>1, <1>4, <1>5, <1>6, <1>7, <1>8 DEF TuiInvariant

LEMMA TuiNext == TuiInvariant /\ [Next]_vars => TuiInvariant'
<1> SUFFICES ASSUME TuiInvariant, [Next]_vars PROVE TuiInvariant'
  OBVIOUS
<1>1. ASSUME NEW c \in Callers, Serve(c) PROVE TuiInvariant'
  BY <1>1, RefusedStep, BeginStep, ConsumeStep, FinishStep, RejectStep DEF Serve
<1>2. CASE RemoteCall \/ RemoteReturn BY <1>2, RemoteStep
<1>3. CASE Listen BY <1>3, ListenStep
<1>4. CASE HandleEvent BY <1>4, HandleEventStep
<1>5. ASSUME NEW c \in Calls, HandleResult(c) PROVE TuiInvariant'
  BY <1>5, HandleResultStep
<1>6. CASE Key
  BY <1>6, BrowseStep, OpenStep, OpenFormStep, OpenReviewStep, EscStep, ChooseStep,
     TypeStep, SubmitStep, SubmitFormStep DEF Key
<1>7. CASE UNCHANGED vars
  BY <1>7
  DEF vars, appVars, history, TuiInvariant, TypeOK, Tidy, Neat, CallFits, FormsFit,
      DraftsSurvive, Setup, InFlight, Blocked
<1> QED BY <1>1, <1>2, <1>3, <1>4, <1>5, <1>6, <1>7 DEF Next

LEMMA TuiInvariance == Spec => []TuiInvariant
BY TuiInit, TuiNext, PTL DEF Spec

(* Types hold, and nothing typed into a modal outlives it. *)
THEOREM NothingOutlivesItsModal == Spec => []TypeOK
<1>1. TuiInvariant => TypeOK BY DEF TuiInvariant
<1> QED BY <1>1, TuiInvariance, PTL

(* The review on screen is of the write the interface knows to be pending. *)
THEOREM ReviewIsOfThePending == Spec => []ReviewIsCurrent
<1>1. TuiInvariant => ReviewIsCurrent
  BY DEF TuiInvariant, ReviewIsCurrent, Tidy, Neat
<1> QED BY <1>1, TuiInvariance, PTL

(* No text of an SQL editor is lost, whatever closes the editor. *)
THEOREM NoDraftIsLost == Spec => []DraftsSurvive
<1>1. TuiInvariant => DraftsSurvive BY DEF TuiInvariant
<1> QED BY <1>1, TuiInvariance, PTL

-----------------------------------------------------------------------------
(* What a step may do *)

(* A key keeps the snapshot, and at most starts a call, which approves only what was typed for. *)
LEMMA KeyShape ==
  ASSUME TuiInvariant, Key
  PROVE  \E u : /\ u.snap = ui.snap
                /\ \/ Only(u)
                   \/ \E r : Calling(u, r) /\ (r.kind = "approve" => r.write = typedFor)
<1>1. /\ ui \in Models /\ CloseModal(ui).snap = ui.snap /\ Dispatch.kind # "approve"
      /\ ui.approve => typedFor = ui.pending
  BY UiTyped, CloseShown DEF Dispatch, NoCall, TuiInvariant
<1>2. CASE Browse \/ Choose BY <1>1, <1>2 DEF Browse, Choose
<1>3. CASE OpenList \/ OpenFilter \/ OpenForm \/ \E e \in Editors : OpenEditor(e)
  <2>1. PICK m : OpenModal(m) BY <1>3 DEF OpenList, OpenFilter, OpenForm, OpenEditor
  <2>2. PICK u : /\ u = [CloseModal(ui) EXCEPT
                            !.modal = m, !.sql = IF m \in Editors THEN ui.draft[m] ELSE @,
                            !.fields = IsForm(m), !.form = IF IsForm(m) THEN @ + 1 ELSE @]
                 /\ Only(u)
    BY <2>1 DEF OpenModal
  <2>3. u.snap = CloseModal(ui).snap BY <2>2 DEF CloseModal
  <2> QED BY <1>1, <2>2, <2>3
<1>4. CASE OpenReview
  <2>1. Only(ShowPending(ui, ui.snap.pending)) BY <1>4 DEF OpenReview
  <2>2. ShowPending(ui, ui.snap.pending).snap = ui.snap
    BY <1>1 DEF ShowPending, CloseModal
  <2> QED BY <2>1, <2>2
<1>5. CASE Esc BY <1>1, <1>5 DEF Esc
<1>6. CASE TypeSQL \/ TypeApprove
  <2>1. CASE TypeSQL
    <3>1. PICK t : Only([ui EXCEPT !.sql = t]) BY <2>1 DEF TypeSQL
    <3>2. [ui EXCEPT !.sql = t].snap = ui.snap BY <1>1 DEF Models
    <3> QED BY <3>1, <3>2
  <2>2. CASE TypeApprove
    <3>1. Only([ui EXCEPT !.approve = TRUE]) BY <2>2 DEF TypeApprove
    <3>2. [ui EXCEPT !.approve = TRUE].snap = ui.snap BY <1>1 DEF Models
    <3> QED BY <3>1, <3>2
  <2> QED BY <1>6, <2>1, <2>2
<1>7. CASE SubmitSQL
  <2>1. PICK r : /\ r = [NoCall EXCEPT !.kind = IF ui.modal = "write" THEN "write"
                                                                    ELSE "dispatch"]
                 /\ Calling(CloseModal(ui), r)
    BY <1>7 DEF SubmitSQL
  <2>2. r.kind # "approve" BY <2>1 DEF NoCall
  <2> QED BY <1>1, <2>1, <2>2
<1>8. CASE SubmitForm
  <2>1. PICK test : Calling([ui EXCEPT !.busy = TRUE],
                            [NoCall EXCEPT !.kind = "setup", !.form = ui.form, !.test = test,
                                           !.opened = opened])
    BY <1>8 DEF SubmitForm
  <2>2. PICK r : /\ r = [NoCall EXCEPT !.kind = "setup", !.form = ui.form, !.test = test,
                                       !.opened = opened]
                 /\ Calling([ui EXCEPT !.busy = TRUE], r)
    BY <2>1
  <2>3. r.kind # "approve" /\ [ui EXCEPT !.busy = TRUE].snap = ui.snap
    BY <1>1, <2>2 DEF NoCall, Models
  <2> QED BY <2>2, <2>3
<1>9. CASE EnterApprove
  <2>1. PICK r : /\ r = [NoCall EXCEPT !.kind = "approve", !.write = ui.pending]
                 /\ Calling(CloseModal(ui), r)
    BY <1>9 DEF EnterApprove
  <2>2. r.write = typedFor BY <1>1, <1>9, <2>1 DEF EnterApprove, NoCall
  <2> QED BY <1>1, <2>1, <2>2
<1>10. CASE EnterReject
  <2>1. PICK r : /\ r = [NoCall EXCEPT !.kind = "reject", !.write = ui.pending]
                 /\ Calling(CloseModal(ui), r)
    BY <1>10 DEF EnterReject
  <2>2. r.kind # "approve" BY <2>1 DEF NoCall
  <2> QED BY <1>1, <2>1, <2>2
<1> QED BY <1>2, <1>3, <1>4, <1>5, <1>6, <1>7, <1>8, <1>9, <1>10 DEF Key

(* A message changes the snapshot as accept does, and a modal only to close it. *)
LEMMA MessageShape ==
  ASSUME TuiInvariant, NEW s \in Snapshots, NEW u,
         \/ u = Accept(ui, s)
         \/ \E r : u = AcceptSetup(ui, r) /\ r.snap = s
  PROVE  /\ u.snap = Accept(ui, s).snap
         /\ u.modal \in {"none", Accept(ui, s).modal}
<1>1. Accept(ui, s) \in Models BY UiTyped, AcceptKeeps
<1>2. ASSUME NEW r, u = AcceptSetup(ui, r), r.snap = s
      PROVE  /\ u.snap = Accept(ui, s).snap
             /\ u.modal \in {"none", Accept(ui, s).modal}
  <2> DEFINE v == Accept(ui, s)
  <2>1. u \in {v, CloseModal(v), Released(v, r)} BY <1>2 DEF AcceptSetup
  <2>2. v \in Models BY <1>1
  <2> HIDE DEF v
  <2>3. /\ CloseModal(v).snap = v.snap /\ CloseModal(v).modal = "none"
        /\ Released(v, r).snap = v.snap /\ Released(v, r).modal = v.modal
    BY <2>2, CloseShown DEF Released, Models
  <2> QED BY <2>1, <2>3 DEF v
<1> QED BY <1>2

LEMMA SnapMoves ==
  ASSUME TuiInvariant, [Next]_vars
  PROVE  /\ ui'.snap.rev >= ui.snap.rev
         /\ ui.modal = "filter" /\ ui'.modal = "filter" => ui'.snap.view = ui.snap.view
<1>1. ui.snap.rev \in Nat BY UiTyped, BoundAssumption DEF Models, Snapshots
<1>2. CASE ui'.snap = ui.snap BY <1>1, <1>2
<1>3. ASSUME NEW s \in Snapshots,
             \/ ui' = Accept(ui, s)
             \/ \E r : ui' = AcceptSetup(ui, r) /\ r.snap = s
      PROVE  /\ ui'.snap.rev >= ui.snap.rev
             /\ ui.modal = "filter" /\ ui'.modal = "filter" => ui'.snap.view = ui.snap.view
  <2>1. ui'.snap = Accept(ui, s).snap /\ ui'.modal \in {"none", Accept(ui, s).modal}
    BY <1>3, MessageShape
  <2>2. /\ Accept(ui, s).snap.rev >= ui.snap.rev
        /\ Accept(ui, s).modal = "filter" => Accept(ui, s).snap.view = ui.snap.view
    BY UiTyped, AcceptKeeps
  <2> QED BY <2>1, <2>2
<1>4. CASE Key BY <1>2, <1>4, KeyShape DEF Only, Calling
<1>5. CASE HandleEvent
  <2>1. ui' = Accept(ui, listener) /\ listener \in Snapshots
    BY <1>5, UiTyped DEF HandleEvent
  <2> QED BY <1>3, <2>1
<1>6. ASSUME NEW c \in Calls, HandleResult(c) PROVE (\E s \in Snapshots :
             \/ ui' = Accept(ui, s)
             \/ \E r : ui' = AcceptSetup(ui, r) /\ r.snap = s)
  <2>1. c \in Callers /\ CallFits(c) BY DEF Callers, TuiInvariant
  <2>2. call[c].snap \in Snapshots
    BY <1>6, <2>1, UiTyped DEF HandleResult, CallFits, CallRecords
  <2> QED BY <1>6, <2>2 DEF HandleResult
<1>7. CASE UNCHANGED ui BY <1>2, <1>7
<1>8. ASSUME ~Key, ~HandleEvent, \A c \in Calls : ~HandleResult(c) PROVE UNCHANGED ui
  BY <1>8
  DEF Next, Serve, Refused, Begin, Consume, Finish, Reject, ReadState, RemoteCall,
      RemoteReturn, Listen, vars
<1> QED BY <1>3, <1>4, <1>5, <1>6, <1>7, <1>8

(* The interface never goes back to an older state of the App. *)
THEOREM NeverBehind == Spec => NeverGoesBack
<1>1. TuiInvariant /\ [Next]_vars => [ui'.snap.rev >= ui.snap.rev]_vars BY SnapMoves
<1> QED BY <1>1, TuiInvariance, PTL DEF Spec, NeverGoesBack

(* A filter does not outlive the view it was opened on. *)
THEOREM FilterKeepsItsView == Spec => FilterFitsView
<1>1. TuiInvariant /\ [Next]_vars =>
        [ui.modal = "filter" /\ ui'.modal = "filter" => ui'.snap.view = ui.snap.view]_vars
  BY SnapMoves
<1> QED BY <1>1, TuiInvariance, PTL DEF Spec, FilterFitsView

(* What a step does to a goroutine of the interface. *)
LEMMA CallMoves ==
  ASSUME TuiInvariant, [Next]_vars, NEW c \in Calls
  PROVE  /\ call[c].at = "over" /\ call'[c].at = "called" /\ call'[c].kind = "approve"
               => typedFor = call'[c].write
         /\ call[c].at = "done" /\ call'[c].at = "over" => HandleResult(c)
<1> DEFINE Good == /\ call[c].at = "over" /\ call'[c].at = "called"
                      /\ call'[c].kind = "approve" => typedFor = call'[c].write
                   /\ call[c].at = "done" /\ call'[c].at = "over" => HandleResult(c)
<1> SUFFICES Good
  OBVIOUS
<1>1. /\ call \in [Callers -> CallRecords] /\ c \in Callers /\ c # Remote
      /\ NoCall.at = "over"
  BY UiTyped, CallersAssumption DEF Callers, NoCall
<1>2. CASE UNCHANGED call BY <1>2
<1>3. ASSUME NEW d \in Callers, Serve(d) PROVE Good
  <2>1. PICK at \in {"running", "executing", "rejected", "done"} :
          \E ok, s : Moved(d, at, ok, s) /\ call[d].at \notin {"over", "done"}
    BY <1>3 DEF Serve, Refused, Begin, Consume, Finish, Reject, ReadState
  <2>2. CASE d = c
    <3>4. PICK ok, s : Moved(d, at, ok, s) BY <2>1
    <3>1. call' = [call EXCEPT ![c] = [call[c] EXCEPT !.at = at, !.ok = ok, !.snap = s]]
      BY <2>2, <3>4 DEF Moved
    <3>2. call[c] \in CallRecords BY <1>1
    <3>3. call'[c].at = at BY <1>1, <3>1, <3>2 DEF CallRecords
    <3> QED BY <2>1, <2>2, <3>3
  <2>3. CASE d # c BY <1>1, <2>1, <2>3 DEF Moved
  <2> QED BY <2>2, <2>3
<1>4. CASE RemoteCall \/ RemoteReturn
  <2>1. call'[c] = call[c] BY <1>1, <1>4 DEF RemoteCall, RemoteReturn
  <2> QED BY <2>1
<1>5. ASSUME NEW d \in Calls, HandleResult(d) PROVE Good
  <2>1. call[d].at = "done" /\ call' = [call EXCEPT ![d] = NoCall]
    BY <1>5 DEF HandleResult
  <2>2. CASE d = c BY <1>1, <1>5, <2>1, <2>2
  <2>3. CASE d # c BY <1>1, <2>1, <2>3
  <2> QED BY <2>2, <2>3
<1>6. ASSUME Key PROVE Good
  <2>1. PICK u : \/ Only(u)
                 \/ \E r : Calling(u, r) /\ (r.kind = "approve" => r.write = typedFor)
    BY <1>6, KeyShape
  <2>2. CASE Only(u) BY <1>2, <2>2 DEF Only
  <2>3. ASSUME NEW r, Calling(u, r), r.kind = "approve" => r.write = typedFor PROVE Good
    <3>1. PICK d \in Calls : /\ call[d].at = "over"
                             /\ call' = [call EXCEPT ![d] = [r EXCEPT !.at = "called"]]
      BY <2>3 DEF Calling
    <3>2. CASE d = c
      <4>1. call'[c] = [r EXCEPT !.at = "called"] BY <1>1, <3>1, <3>2
      <4>2. [r EXCEPT !.at = "called"].kind = "approve" =>
               [r EXCEPT !.at = "called"].write = typedFor
        BY <2>3
      <4> QED BY <3>1, <3>2, <4>1, <4>2
    <3>3. CASE d # c BY <1>1, <3>1, <3>3
    <3> QED BY <3>2, <3>3
  <2> QED BY <2>1, <2>2, <2>3
<1>7. CASE Listen \/ HandleEvent \/ UNCHANGED vars
  BY <1>2, <1>7 DEF Listen, HandleEvent, vars
<1> HIDE DEF Good
<1> QED BY <1>3, <1>4, <1>5, <1>6, <1>7 DEF Next

(* A write is approved only after "approve" was typed with that write on display. *)
THEOREM ApprovalIsOfTheReviewed == Spec => ApprovesWhatWasReviewed
<1>1. TuiInvariant /\ [Next]_vars =>
        [\A c \in Calls :
            call'[c].at = "called" /\ call[c].at = "over" /\ call'[c].kind = "approve"
               => typedFor = call'[c].write]_vars
  BY CallMoves
<1> QED BY <1>1, TuiInvariance, PTL DEF Spec, ApprovesWhatWasReviewed

LEMMA LateAnswers ==
  ASSUME TuiInvariant, [Next]_vars, NEW c \in Calls, LateAnswer(c)
  PROVE  ui'.modal = ui.modal /\ ui'.form = ui.form /\ ui'.busy = ui.busy
<1> DEFINE v == Accept(ui, call[c].snap)
<1>1. /\ HandleResult(c) /\ call[c].kind = "setup" /\ call[c].at = "done"
      /\ call[c].opened # opened /\ IsForm(ui.modal) /\ c \in Callers
  BY CallMoves DEF LateAnswer, Callers
<1>2. call[c].snap \in Snapshots /\ call[c].opened \in Nat /\ opened \in Nat
  BY <1>1, UiTyped, BoundAssumption DEF TuiInvariant, CallFits, CallRecords
<1>3. v \in Models /\ Kept(v, ui) BY <1>2, UiTyped, AcceptKeeps
<1>4. call[c].form # ui.form
  BY <1>1, <1>2 DEF TuiInvariant, CallFits, Setup, InFlight, FormsFit
<1>5. ui' = v BY <1>1, <1>3, <1>4 DEF HandleResult, AcceptSetup, ForThisForm, Kept
<1> HIDE DEF v
<1> QED BY <1>1, <1>3, <1>5 DEF Kept, IsForm

(* A form is blocked exactly as long as its own setup is in flight. *)
THEOREM FormsWaitForTheirSetup == Spec => FormWaitsForItsSetup
<1>1. TuiInvariant => (ui.busy <=> Blocked) BY DEF TuiInvariant, FormsFit
<1>2. TuiInvariant /\ [Next]_vars =>
        [\A c \in Calls : LateAnswer(c) =>
            /\ ui'.modal = ui.modal /\ ui'.form = ui.form /\ ui'.busy = ui.busy]_vars
  BY LateAnswers
<1> QED BY <1>1, <1>2, TuiInvariance, PTL DEF Spec, FormWaitsForItsSetup
-----------------------------------------------------------------------------
(***************************************************************************)
(* The App of Tui does only what Feed allows.                              *)
(***************************************************************************)

Promised == Contract!Next \/ UNCHANGED Contract!feedVars

LEMMA FaceOf ==
  ASSUME NEW s \in Snapshots
  PROVE  /\ \A b \in BOOLEAN : Face([s EXCEPT !.busy = b]) = [Face(s) EXCEPT !.busy = b]
         /\ Face([s EXCEPT !.pending = Nothing]) = [Face(s) EXCEPT !.pending = Nothing]
         /\ Face(Next1(s)) = Face(s)
<1>1. \A b \in BOOLEAN : Face([s EXCEPT !.busy = b]) = [Face(s) EXCEPT !.busy = b]
  BY DEF Face, Snapshots
<1>2. Face([s EXCEPT !.pending = Nothing]) = [Face(s) EXCEPT !.pending = Nothing]
  BY DEF Face, Snapshots
<1>3. Face(Next1(s)) = Face(s) BY DEF Face, Next1, Snapshots
<1> QED BY <1>1, <1>2, <1>3

(* A step that the App has no part in. *)
LEMMA NotTheApp ==
  ASSUME TuiInvariant, UNCHANGED appVars,
         op # Nothing => /\ call'[op].kind = call[op].kind /\ call'[op].test = call[op].test
                         /\ call'[op].at = "executing" <=> call[op].at = "executing"
  PROVE  Promised
<1>1. op # Nothing => Role(op)' = Role(op) BY DEF Role, appVars
<1>2. UNCHANGED Contract!feedVars BY <1>1 DEF Contract!feedVars, appVars, Face
<1> QED BY <1>2 DEF Promised

LEMMA KeyPromised == ASSUME TuiInvariant, Key PROVE Promised
<1>1. UNCHANGED appVars /\ \A c \in Callers : call'[c] = call[c] \/ call[c].at = "over"
  <2>1. PICK u : Only(u) \/ \E r : Calling(u, r) BY KeyShape
  <2>2. call \in [Callers -> CallRecords] /\ Calls \subseteq Callers
    BY UiTyped DEF Callers
  <2> QED BY <2>1, <2>2 DEF Only, Calling
<1>2. op # Nothing => call[op].at # "over" /\ op \in Callers
  BY DEF TuiInvariant, TypeOK, CallFits
<1> QED BY <1>1, <1>2, NotTheApp

(* What the App publishes is its state with the next revision. *)
LEMMA PublishPromised ==
  ASSUME TuiInvariant', NEW s \in Snapshots, Publish(s)
  PROVE  Contract!Publish(Face(s))
<1>1. slot' = Next1(s) /\ state' = Next1(s) BY DEF Publish
<1>2. slot' # Nothing BY <1>1, SnapshotAssumption DEF TuiInvariant, TypeOK
<1>3. Face(slot') = Face(s) /\ Face(state') = Face(s) BY <1>1, FaceOf
<1> QED BY <1>2, <1>3 DEF Contract!Publish, Face

LEMMA BeginPromised ==
  ASSUME TuiInvariant, TuiInvariant', NEW c \in Callers, Begin(c) PROVE Promised
<1>1. /\ op = Nothing /\ op' = c /\ c # Nothing /\ state \in Snapshots
      /\ call[c].kind \in Kinds \ {"reject"} /\ call[c].test \in BOOLEAN
      /\ Publish([state EXCEPT !.busy = TRUE]) /\ UNCHANGED staged
  BY CallersAssumption DEF Begin, Unavailable, TuiInvariant, TypeOK, CallRecords, Callers
<1>2. Contract!Publish([Face(state) EXCEPT !.busy = TRUE])
  <2>1. [state EXCEPT !.busy = TRUE] \in Snapshots BY <1>1 DEF Snapshots
  <2> QED BY <1>1, <2>1, FaceOf, PublishPromised
<1>3. Role(c)' \in Contract!Kinds
  <2>1. /\ call'[c].kind = call[c].kind /\ call'[c].at = "running"
    BY MovedShown DEF Begin, TuiInvariant, TypeOK
  <2> QED BY <1>1, <2>1 DEF Role, Kinds, Contract!Kinds
<1>4. Contract!Begin BY <1>1, <1>2, <1>3 DEF Contract!Begin
<1> QED BY <1>4 DEF Promised, Contract!Next

LEMMA ConsumePromised ==
  ASSUME TuiInvariant, TuiInvariant', NEW c \in Callers, Consume(c) PROVE Promised
<1>1. /\ op = c /\ op' = c /\ c # Nothing /\ state \in Snapshots
      /\ call[c].kind = "approve" /\ call[c].at = "running" /\ state.pending # Nothing
      /\ Publish([state EXCEPT !.pending = Nothing]) /\ UNCHANGED staged
  BY CallersAssumption DEF Consume, TuiInvariant, TypeOK, CallFits, InFlight, Callers
<1>2. Contract!Publish([Face(state) EXCEPT !.pending = Nothing])
  <2>1. [state EXCEPT !.pending = Nothing] \in Snapshots BY <1>1 DEF Snapshots
  <2> QED BY <1>1, <2>1, FaceOf, PublishPromised
<1>3. Role(c) = "approve" /\ Role(c)' = "approved"
  <2>1. call'[c].kind = "approve" /\ call'[c].at = "executing"
    BY <1>1, MovedShown DEF Consume, TuiInvariant, TypeOK
  <2> QED BY <1>1, <2>1 DEF Role
<1>4. Face(state).pending # Nothing BY <1>1 DEF Face
<1>5. Contract!Consume BY <1>1, <1>2, <1>3, <1>4 DEF Contract!Consume
<1> QED BY <1>5 DEF Promised, Contract!Next

LEMMA RejectPromised ==
  ASSUME TuiInvariant, TuiInvariant', NEW c \in Callers, Reject(c) PROVE Promised
<1>1. /\ op = Nothing /\ op' = Nothing /\ state \in Snapshots /\ UNCHANGED staged
      /\ call[c].at = "called" /\ call[c].kind = "reject"
  BY DEF Reject, Unavailable, TuiInvariant, TypeOK
<1>2. CASE UNCHANGED <<state, slot>> BY <1>1, <1>2, NotTheApp DEF appVars
<1>3. CASE ~UNCHANGED <<state, slot>>
  <2>1. Publish([state EXCEPT !.pending = Nothing]) /\ state.pending # Nothing
    BY <1>1, <1>3 DEF Reject, TuiInvariant, CallFits, InFlight
  <2>2. [state EXCEPT !.pending = Nothing] \in Snapshots BY <1>1 DEF Snapshots
  <2>3. Contract!Publish([Face(state) EXCEPT !.pending = Nothing])
    BY <1>1, <2>1, <2>2, FaceOf, PublishPromised
  <2>4. Face(state).pending # Nothing BY <2>1 DEF Face
  <2>5. Contract!Reject BY <1>1, <2>3, <2>4 DEF Contract!Reject
  <2> QED BY <2>5 DEF Promised, Contract!Next
<1> QED BY <1>2, <1>3

(* The revision is not what an outcome is about. *)
LEMMA OutcomeShown ==
  ASSUME state \in Snapshots, NEW k, NEW s \in Contract!Outcomes(k, state, staged)
  PROVE  s \in Snapshots /\ Face(s) \in Contract!Outcomes(k, Face(state), staged)
<1>1. ASSUME NEW x \in Snapshots, NEW y \in Contract!Shown(x)
      PROVE  y \in Snapshots /\ Face(y) \in Contract!Shown(Face(x))
  <2>1. PICK v \in Views : y = [x EXCEPT !.view = v] BY <1>1 DEF Contract!Shown
  <2>2. y \in Snapshots /\ Face(y) = [Face(x) EXCEPT !.view = v]
    BY <2>1 DEF Face, Snapshots
  <2> QED BY <2>2 DEF Contract!Shown
<1>2. ASSUME NEW y \in Contract!Connected(state)
      PROVE  y \in Snapshots /\ Face(y) \in Contract!Connected(Face(state))
  <2> DEFINE x == [state EXCEPT !.pending = Nothing]
  <2>1. x \in Snapshots /\ Face(x) = [Face(state) EXCEPT !.pending = Nothing]
    BY FaceOf DEF Snapshots
  <2>2. y \in Contract!Shown(x) BY <1>2 DEF Contract!Connected
  <2> HIDE DEF x
  <2>3. y \in Snapshots /\ Face(y) \in Contract!Shown(Face(x)) BY <1>1, <2>1, <2>2
  <2> QED BY <2>1, <2>3 DEF Contract!Connected
<1>3. ASSUME NEW w \in Writes, s = [state EXCEPT !.pending = w]
      PROVE  s \in Snapshots /\ Face(s) = [Face(state) EXCEPT !.pending = w]
  BY <1>3 DEF Face, Snapshots
<1>4. CASE k = "dispatch" BY <1>1, <1>2, <1>4 DEF Contract!Outcomes
<1>5. CASE k = "write" BY <1>3, <1>5 DEF Contract!Outcomes
<1>6. CASE k = "setup" BY <1>2, <1>6 DEF Contract!Outcomes
<1>7. CASE k = "test" BY <1>7 DEF Contract!Outcomes
<1>8. CASE k = "approved" BY <1>1, <1>8 DEF Contract!Outcomes
<1>9. k \in {"dispatch", "write", "setup", "test", "approved"} BY DEF Contract!Outcomes
<1> QED BY <1>4, <1>5, <1>6, <1>7, <1>8, <1>9

LEMMA FinishPromised ==
  ASSUME TuiInvariant, TuiInvariant', NEW c \in Callers, Finish(c) PROVE Promised
<1>1. /\ op = c /\ op' = Nothing /\ c # Nothing /\ state \in Snapshots
  BY CallersAssumption DEF Finish, TuiInvariant, TypeOK, CallFits, Callers
<1>2. PICK s \in Results(c) \cup {state} :
         /\ Publish([s EXCEPT !.busy = FALSE])
         /\ staged' = staged \cup ({s.pending} \ {Nothing})
  BY DEF Finish
<1>3. s \in Snapshots /\ Face(s) \in Contract!Outcomes(Role(c), Face(state), staged)
                                     \cup {Face(state)}
  BY <1>1, <1>2, OutcomeShown DEF Results
<1>4. Contract!Publish([Face(s) EXCEPT !.busy = FALSE])
  <2>1. [s EXCEPT !.busy = FALSE] \in Snapshots BY <1>3 DEF Snapshots
  <2> QED BY <1>2, <1>3, <2>1, FaceOf, PublishPromised
<1>5. Face(s).pending = s.pending BY DEF Face
<1>6. Role(c) # "none"
  BY <1>1 DEF Role, TuiInvariant, TypeOK, CallRecords, Kinds
<1>7. Contract!Finish BY <1>1, <1>2, <1>3, <1>4, <1>5, <1>6 DEF Contract!Finish
<1> QED BY <1>7 DEF Promised, Contract!Next

LEMMA NextPromised ==
  ASSUME TuiInvariant, TuiInvariant', [Next]_vars PROVE Promised
<1>1. /\ call \in [Callers -> CallRecords] /\ Remote \in Callers /\ Calls \subseteq Callers
      /\ op # Nothing => op \in Callers /\ call[op].at \in {"running", "executing"}
  BY DEF TuiInvariant, TypeOK, CallFits, Callers
<1>2. ASSUME NEW c \in Callers, Refused(c) \/ ReadState(c) PROVE Promised
  <2>1. UNCHANGED appVars /\ c # op /\ \A d \in Callers : d # c => call'[d] = call[d]
    BY <1>1, <1>2, CallersAssumption DEF Refused, ReadState, Moved, Callers
  <2> QED BY <1>1, <2>1, NotTheApp
<1>3. CASE RemoteCall \/ RemoteReturn
  <2>1. /\ UNCHANGED appVars /\ call[Remote].at \in {"over", "done"}
        /\ \A d \in Callers : d # Remote => call'[d] = call[d]
    BY <1>1, <1>3 DEF RemoteCall, RemoteReturn
  <2>2. op # Nothing => op # Remote BY <1>1, <2>1
  <2> QED BY <1>1, <2>1, <2>2, NotTheApp
<1>4. ASSUME NEW c \in Calls, HandleResult(c) PROVE Promised
  <2>1. /\ UNCHANGED appVars /\ call[c].at = "done"
        /\ \A d \in Callers : d # c => call'[d] = call[d]
    BY <1>1, <1>4 DEF HandleResult
  <2>2. op # Nothing => op # c BY <1>1, <2>1
  <2> QED BY <1>1, <2>1, <2>2, NotTheApp
<1>5. CASE Listen
  <2>1. UNCHANGED <<state, op, staged, call>> /\ slot # Nothing /\ slot' = Nothing
    BY <1>5 DEF Listen
  <2>2. op # Nothing => Role(op)' = Role(op) BY <2>1 DEF Role
  <2>3. Contract!Receive BY <2>1, <2>2 DEF Contract!Receive, Face
  <2> QED BY <2>3 DEF Promised, Contract!Next
<1>6. CASE HandleEvent \/ UNCHANGED vars
  BY <1>6, NotTheApp DEF HandleEvent, vars, appVars
<1> QED
  BY <1>2, <1>3, <1>4, <1>5, <1>6, KeyPromised, BeginPromised, ConsumePromised,
     FinishPromised, RejectPromised
  DEF Next, Serve

(***************************************************************************)
(* The App that the interface is modelled against keeps to the promise     *)
(* that App is shown to keep: in every step, of any goroutine, it begins,  *)
(* consumes, ends, rejects or hands over an event as Feed allows (begin,   *)
(* Approve, finish, Reject, listen).                                       *)
(***************************************************************************)
THEOREM OnlyWhatIsPromised == Spec => [][Contract!Next]_(Contract!feedVars)
<1>1. TuiInvariant /\ TuiInvariant' /\ [Next]_vars => [Contract!Next]_(Contract!feedVars)
  BY NextPromised DEF Promised
<1> QED BY <1>1, TuiInvariance, PTL DEF Spec
=============================================================================
