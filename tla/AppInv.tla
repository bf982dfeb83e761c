------------------------------- MODULE AppInv -------------------------------
(***************************************************************************)
(* The inductive invariant of App.  The properties of App say what callers *)
(* may rely on; the parts below add what makes them inductive: what holds  *)
(* at each point of a call, and which copy of the snapshot agrees with the *)
(* store while an operation runs.                                          *)
(***************************************************************************)
EXTENDS App

(* Points at which a call of the store is made, or prepared by Approve. *)
StorePoints == {"load", "refresh-tables", "query", "approve", "execute", "approve-tables"}

Connecting(r) == r.type \in {"connect", "setup", "test", "setup-test"}

(* What a call relies on at each of its points. *)
CallOK(c) ==
    /\ pc[c] # "idle" => req[c] \in Requests
    /\ pc[c] \in Running => req[c].type \in Operations /\ work[c] \in SnapshotType
    /\ pc[c] \notin Running => work[c] = Nothing
    /\ pc[c] \in Running \ {"finish"} => ~failed[c]
    /\ pc[c] = "connect-tables" <=> draft[c] # Nothing
    /\ pc[c] = "open" => Connecting(req[c]) /\ req[c].name # Nothing
    /\ pc[c] = "connect-tables" =>
          Connecting(req[c]) /\ ~Testing(req[c]) /\ req[c].name # Nothing
    /\ pc[c] \in StorePoints => store # Nothing
    /\ pc[c] \in StorePoints \ {"load"} => ~Connecting(req[c])
    /\ pc[c] = "load" => work[c].browse.table # Nothing
    /\ pc[c] = "load" /\ Connecting(req[c]) => ~Testing(req[c]) /\ req[c].name # Nothing
    /\ pc[c] = "query" => req[c].sql # Nothing
    /\ pc[c] = "approve" =>
          /\ work[c].pending # Nothing /\ work[c].pending.id = req[c].id
          /\ work[c].pending.connection = work[c].connection
    /\ pc[c] = "execute" <=> grant[c] # Nothing

CallsOK == \A c \in Callers : CallOK(c)

(* The store and the drafts are open pools, all different. *)
PoolsOK ==
    /\ store # Nothing /\ ~closed => opened[store] # Nothing
    /\ closed => \A c \in Callers : pc[c] \notin Running
    /\ \A c \in Callers : draft[c] # Nothing =>
          draft[c] # store /\ opened[draft[c]] = req[c].name

(* The snapshot names the connection the store is open for. *)
Agrees(s) == IF store = Nothing THEN s.connection = Nothing
             ELSE s.connection = opened[store]

(* Between the replacement of the store and finish the state lags behind. *)
Switched(c) ==
    pc[c] \in {"load", "finish"} /\ ~failed[c] /\ req[c].type \in {"connect", "setup"}

ConnectionOK ==
    ~closed =>
        /\ \A c \in Callers : pc[c] \in Running => Agrees(work[c])
        /\ (\A c \in Callers : ~Switched(c)) => Agrees(state)

(* A write that may still be approved: it was staged so, and not used yet. *)
Open(p) ==
    /\ staged[p.id] = p
    /\ executed[p.id] = <<>>
    /\ p.id \notin rejected
    /\ \A c \in Callers : grant[c] # Nothing => grant[c].id # p.id

(* What is in flight was staged for the store's connection and not sent. *)
InFlight(c) ==
    /\ staged[grant[c].id] = grant[c]
    /\ executed[grant[c].id] = <<>>
    /\ grant[c].id \notin rejected
    /\ grant[c].connection = work[c].connection

WritesOK ==
    /\ state.pending # Nothing => Open(state.pending)
    /\ \A c \in Callers :
          pc[c] \in Running /\ work[c].pending # Nothing => Open(work[c].pending)
    /\ \A c \in Callers : grant[c] # Nothing => InFlight(c)
    /\ \A i \in WriteIds : staged[i] = Nothing => executed[i] = <<>> /\ i \notin rejected
    /\ WritesAsApproved

AppInvariant == TypeOK /\ OneOperation /\ CallsOK /\ PoolsOK /\ ConnectionOK /\ WritesOK

-----------------------------------------------------------------------------
(* What is shown and remembered.  These parts rest on AppInvariant. *)

TableListed(s) == s.browse.table # Nothing => s.browse.table \in s.tables

StructureFits(s) ==
    s.schema # Nothing =>
        s.schema = [connection |-> s.connection, table |-> s.browse.table]

RowsFit(s) ==
    s.result # Nothing =>
        /\ s.result.connection = s.connection
        /\ IF s.query THEN s.result.of \in SQLs
           ELSE s.result.of = s.browse /\ s.schema # Nothing

Fresh(s) == s.result # Nothing => applied \subseteq s.result.after

PendingFits(s) == s.pending # Nothing => s.pending.connection = s.connection

(* The view a connection was left with is the one it is shown with. *)
Resumes(s) ==
    LET kept == views[s.connection]
    IN  kept # Nothing /\ kept.table \in s.tables => s.browse = kept

(* A write has succeeded that the rows shown may not know of. *)
AfterWrite(c) ==
    \/ pc[c] = "approve-tables"
    \/ pc[c] \in {"load", "finish"} /\ req[c].type = "approve" /\ ~failed[c]

(* Setup has added its profile, and finish has not shown it yet. *)
Added(c) == pc[c] = "finish" /\ req[c].type = "setup" /\ ~failed[c]

(* What the working copy of a call is worth at each of its points. *)
WorkFits(c) ==
    pc[c] \in Running /\ ~failed[c] =>
        /\ work[c].connections = profiles
        /\ PendingFits(work[c])
        /\ TableListed(work[c])
        /\ \/ pc[c] = "load" /\ req[c].type \in BrowseActions
           \/ StructureFits(work[c])
        /\ pc[c] # "load" => RowsFit(work[c])
        /\ pc[c] = "load" /\ Connecting(req[c]) => work[c].result = Nothing
        /\ pc[c] \in {"approve-tables", "load"} \/ Fresh(work[c])
        /\ pc[c] \in {"perform", "open", "connect-tables"} =>
              work[c].connection = state.connection /\ work[c].browse = state.browse
        /\ Switched(c) =>
              /\ Resumes(work[c])
              /\ state.connection # Nothing => views[state.connection] = state.browse
        /\ pc[c] \in {"approve", "execute", "approve-tables"} => req[c].type = "approve"
        /\ /\ pc[c] \in {"open", "connect-tables", "load"}
           /\ req[c].type \in {"setup", "setup-test"}
           => req[c].name \notin InRange(profiles)

Distinct(s) == \A i, j \in 1..Len(s) : s[i] = s[j] => i = j

StateFits ==
    /\ EventIsLatest
    /\ Distinct(profiles)
    /\ (\A c \in Callers : ~Added(c)) => state.connections = profiles
    /\ PendingFits(state)
    /\ TableListed(state) /\ StructureFits(state) /\ RowsFit(state)
    /\ (\A c \in Callers : ~AfterWrite(c)) => Fresh(state)
    /\ closed => (store = Nothing <=> state.connection = Nothing)

ScreenInvariant ==
    /\ PoolsAccounted
    /\ StateFits
    /\ \A c \in Callers : WorkFits(c)

-----------------------------------------------------------------------------
(* Where a page begins, in every copy of a browse request.  Rests on AppInvariant. *)
PagesFit ==
    /\ PagesAligned
    /\ \A c \in Callers : pc[c] \in Running => Aligned(work[c].browse)

-----------------------------------------------------------------------------
(* Where a write is kept.  This part rests on AppInvariant. *)

(* The pending write of a working copy: the one of the state, but for a write
   just staged and a connection just changed. *)
CopyFits(c) ==
    pc[c] \in Running =>
        /\ req[c].type = "write" => pc[c] \in {"perform", "finish"}
        /\ IF Drafting(c)
           THEN /\ work[c].pending # Nothing
                /\ state.pending # Nothing => state.pending.id # work[c].pending.id
           ELSE work[c].pending = IF Switched(c) THEN Nothing ELSE state.pending

CopiesFit == \A c \in Callers : CopyFits(c)

-----------------------------------------------------------------------------
(* What an operation that is not for looking leaves on view.  This part rests on
   AppInvariant and CopiesFit. *)
ViewsHeld ==
    \A c \in Callers :
        pc[c] \in Running /\ ~failed[c] /\ req[c].type \in {"write", "setup-test"}
            => ViewOf(work[c]) = ViewOf(state)
=============================================================================
