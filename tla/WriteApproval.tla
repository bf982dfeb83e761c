--------------------------- MODULE WriteApproval ---------------------------
(***************************************************************************)
(* What internal/app promises about writes, without the calls, locks and   *)
(* snapshots that make it hold.  A write is drafted by an agent, posted    *)
(* for review, accepted by the local user while it is still valid, granted *)
(* (taken out of review, so that nothing can accept it again) and only     *)
(* then sent to the database, once.  A write that was not accepted is      *)
(* dropped: rejected, replaced after it lapsed, or left behind by a change *)
(* of connection.                                                          *)
(***************************************************************************)
EXTENDS Naturals

CONSTANT WriteIds

VARIABLES
    status,     \* how far each write has come
    lapsed,     \* the writes whose time for review is over
    calls       \* how often each write was sent to the database

wvars == <<status, lapsed, calls>>

(* Only one write is under review, and only one is being drafted. *)
UnderReview(i) == status[i] \in {"posted", "accepted"}
Nobody(s) == \A i \in WriteIds : status[i] # s

Init ==
    /\ status = [i \in WriteIds |-> "unused"]
    /\ lapsed = {}
    /\ calls = [i \in WriteIds |-> 0]

Move(i, from, to) ==
    /\ status[i] = from
    /\ status' = [status EXCEPT ![i] = to]

Draft(i) ==
    /\ Move(i, "unused", "drafted")
    /\ \A j \in WriteIds : ~UnderReview(j) \/ j \in lapsed
    /\ Nobody("drafted") /\ Nobody("accepted") /\ Nobody("granted")
    /\ UNCHANGED <<lapsed, calls>>

(* Posting replaces the lapsed write that was under review. *)
Post(i) ==
    /\ status[i] = "drafted"
    /\ status' = [j \in WriteIds |-> IF j = i THEN "posted"
                                     ELSE IF status[j] = "posted" THEN "dropped"
                                     ELSE status[j]]
    /\ UNCHANGED <<lapsed, calls>>

Accept(i) ==
    /\ i \notin lapsed
    /\ Move(i, "posted", "accepted")
    /\ UNCHANGED <<lapsed, calls>>

Grant(i) ==
    /\ Move(i, "accepted", "granted")
    /\ UNCHANGED <<lapsed, calls>>

Send(i) ==
    /\ Move(i, "granted", "sent")
    /\ calls' = [calls EXCEPT ![i] = @ + 1]
    /\ UNCHANGED lapsed

Drop(i) ==
    /\ Move(i, "posted", "dropped")
    /\ UNCHANGED <<lapsed, calls>>

Lapse(i) ==
    /\ status[i] # "unused"
    /\ lapsed' = lapsed \cup {i}
    /\ UNCHANGED <<status, calls>>

Next == \E i \in WriteIds :
    Draft(i) \/ Post(i) \/ Accept(i) \/ Grant(i) \/ Send(i) \/ Drop(i) \/ Lapse(i)

Spec == Init /\ [][Next]_wvars
=============================================================================
