-------------------------------- MODULE Feed --------------------------------
(***************************************************************************)
(* What internal/app promises to the interface that shows it: what one     *)
(* operation may do to the published state, and what waits in the channel  *)
(* of events.  App keeps this promise; it is all that Tui relies on.       *)
(***************************************************************************)
CONSTANTS
    Writes,     \* identifiers of writes
    Views,      \* what can be on view
    Nothing     \* no write

VARIABLES
    shown,      \* what is published of the state: busy, the pending write, the view
    slot,       \* the events that wait, one at most
    kind,       \* the operation under way, or "none"
    known       \* the writes that have been pending

feedVars == <<shown, slot, kind, known>>

(* Dispatch of anything but a write, of a write; Setup with and without Save. *)
Kinds == {"dispatch", "write", "setup", "test", "approve"}

Init ==
    /\ shown \in [busy : {FALSE}, pending : {Nothing}, view : Views]
    /\ slot \in {{}, {shown}}
    /\ kind = "none" /\ known = {}

Publish(s) == shown' = s /\ slot' = {s}

Shown(s) == {[s EXCEPT !.view = v] : v \in Views}

(* A connect changes the view and drops the pending write. *)
Connected(s) == Shown([s EXCEPT !.pending = Nothing])

(* What an operation that succeeds may make of s, in whatever other fields s has. *)
Outcomes(k, s, ids) ==
    CASE k = "dispatch" -> Shown(s) \cup Connected(s)
      [] k = "write" -> {[s EXCEPT !.pending = w] : w \in Writes \ ids}
      [] k = "setup" -> Connected(s)
      [] k = "test" -> {s}
      [] k = "approved" -> Shown(s)
      [] OTHER -> {}

Begin ==
    /\ kind = "none" /\ kind' \in Kinds
    /\ Publish([shown EXCEPT !.busy = TRUE])
    /\ UNCHANGED known

(* The write under review is consumed before it runs. *)
Consume ==
    /\ kind = "approve" /\ shown.pending # Nothing
    /\ kind' = "approved"
    /\ Publish([shown EXCEPT !.pending = Nothing])
    /\ UNCHANGED known

(* The operation has failed: it will leave what is published alone. *)
GiveUp ==
    /\ kind # "none" /\ kind' = "failed"
    /\ UNCHANGED <<shown, slot, known>>

Finish ==
    /\ kind # "none" /\ kind' = "none"
    /\ \E s \in Outcomes(kind, shown, known) \cup {shown} :
          /\ Publish([s EXCEPT !.busy = FALSE])
          /\ known' = known \cup ({s.pending} \ {Nothing})

Reject ==
    /\ kind = "none" /\ shown.pending # Nothing
    /\ Publish([shown EXCEPT !.pending = Nothing])
    /\ UNCHANGED <<kind, known>>

(* A change of something else, the list of profiles, is published. *)
Announce ==
    /\ kind = "none"
    /\ Publish(shown)
    /\ UNCHANGED <<kind, known>>

Receive ==
    /\ slot # {} /\ slot' = {}
    /\ UNCHANGED <<shown, kind, known>>

Next == Begin \/ Consume \/ GiveUp \/ Finish \/ Reject \/ Announce \/ Receive

Spec == Init /\ [][Next]_feedVars
=============================================================================
