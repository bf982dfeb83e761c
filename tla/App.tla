-------------------------------- MODULE App --------------------------------
(***************************************************************************)
(* internal/app/app.go: the application core shared by the terminal UI and *)
(* the control server.                                                     *)
(*                                                                         *)
(* Every caller (a UI command, a control connection, the startup connect,  *)
(* the shutdown in main) runs one call at a time.  The mutex op serialises *)
(* operations, which other callers fail to start rather than wait for; the *)
(* mutex mu covers short sections that never call the store.  A section    *)
(* under mu, and a call of the store, is one step here; everything between *)
(* two such steps touches only what op protects and is folded into one of  *)
(* them.  The operation works on a private copy of the snapshot, which     *)
(* finish installs when it succeeded.                                      *)
(*                                                                         *)
(* Rows and metadata are represented by where they came from: the          *)
(* connection of the store that answered and the request it answered.      *)
(***************************************************************************)
EXTENDS Integers, Sequences, FiniteSets, TLC

CONSTANTS
    Callers,        \* goroutines that call the App
    Names,          \* non-blank profile names; a name stands for its endpoint
    Tables,         \* table names
    Filters,        \* non-empty filter lists
    Orders,         \* sort columns with their direction
    SQLs,           \* SQL texts that are neither blank nor too long
    WriteIds,       \* what rand.Text can return; bounds the writes of a run
    Handles,        \* open database pools; bounds how many exist at once
    Requests,       \* the calls a caller may make
    Seeded,         \* Options.Profiles: the profiles of the command line
    AllowWrites,    \* Options.AllowWrites
    DefaultLimit,   \* 100
    MaxPage,        \* 1000
    MaxInt,         \* int(^uint(0)>>1)
    Nothing         \* nil, "", an empty list, a zero Schema, Result or time

BrowseActions == {"open-table", "filter", "clear-filters", "sort", "page-size",
                  "next", "prev"}

(***************************************************************************)
(* The actions that raw query results reject.                              *)
(***************************************************************************)
PagingActions == BrowseActions \ {"open-table"}

Dispatched == BrowseActions \cup {"connect", "test", "refresh", "query", "write"}

Operations == Dispatched \cup {"setup", "setup-test", "approve"}

CallTypes == Operations \cup {"add", "reject", "close"}

RequestType ==
    [type : CallTypes, name : Names \cup {Nothing}, table : Tables \cup {Nothing},
     filters : Filters \cup {Nothing}, order : Orders \cup {Nothing}, size : Int,
     sql : SQLs \cup {Nothing}, id : WriteIds \cup {Nothing}]

BrowseType ==
    [table : Tables \cup {Nothing}, filters : Filters \cup {Nothing},
     order : Orders \cup {Nothing}, limit : 1..MaxPage, offset : 0..MaxInt]

WriteType == [id : WriteIds, connection : Names, sql : SQLs]

SnapshotType ==
    [connection : Names \cup {Nothing}, connections : Seq(Names), tables : SUBSET Tables,
     schema : [connection : Names, table : Tables] \cup {Nothing}, browse : BrowseType,
     result : [connection : Names, of : BrowseType \cup SQLs, more : BOOLEAN,
               after : SUBSET WriteIds] \cup {Nothing},
     busy : BOOLEAN, query : BOOLEAN, pending : WriteType \cup {Nothing}]

ASSUME NullAssumption ==
    /\ Nothing \notin Names \cup Tables \cup Filters \cup Orders \cup SQLs
                      \cup WriteIds \cup Handles \cup Callers
    /\ Nothing \notin RequestType /\ Nothing \notin BrowseType
    /\ Nothing \notin WriteType /\ Nothing \notin SnapshotType
    /\ Nothing \notin [connection : Names, table : Tables]

ASSUME PageAssumption ==
    /\ DefaultLimit \in Nat /\ MaxPage \in Nat /\ MaxInt \in Nat
    /\ 1 =< DefaultLimit /\ DefaultLimit =< MaxPage /\ MaxPage =< MaxInt

ASSUME RequestAssumption == Requests \subseteq RequestType

ASSUME OptionsAssumption ==
    /\ AllowWrites \in BOOLEAN
    /\ Seeded \in Seq(Names)
    /\ \A i, j \in 1..Len(Seeded) : Seeded[i] = Seeded[j] => i = j

VARIABLES
    op,         \* holder of the mutex op
    cancel,     \* App.cancel: the operation whose context it ends
    closed,     \* App.closed
    store,      \* App.store
    opened,     \* each handle: the profile it is open for, Nothing when closed
    profiles,   \* App.profiles, in order
    views,      \* App.views
    state,      \* App.state
    events,     \* App.events: the snapshot in the one-slot channel
    pc,         \* where each caller is
    req,        \* the call each caller makes
    done,       \* the context of each caller's operation has ended
    work,       \* the snapshot s an operation works on
    draft,      \* the handle connectProfile has opened and not installed
    failed,     \* the operation ends in an error
    \* History: what became of the staged writes.
    grant,      \* the write each caller has taken out of the state to execute
    staged,     \* each identifier: the write it was issued for
    lapsed,     \* identifiers whose five minutes are over
    rejected,   \* identifiers the user rejected
    executed,   \* each identifier: the Execute calls made for it
    applied     \* identifiers whose Execute reported success

coreVars == <<op, cancel, closed, store, opened, profiles, views, state, events>>
callVars == <<pc, req, done, work, draft, failed>>
writeVars == <<grant, staged, lapsed, rejected, executed, applied>>
vars == <<coreVars, callVars, writeVars>>

FirstPage(table, filters, limit) ==
    [table |-> table, filters |-> filters, order |-> Nothing, limit |-> limit,
     offset |-> 0]

EmptyBrowse == FirstPage(Nothing, Nothing, DefaultLimit)

InRange(s) == {s[i] : i \in 1..Len(s)}

(***************************************************************************)
(* publishLocked: the caller holds mu, drains the slot and puts the new    *)
(* snapshot in it.  The revision number it also takes is in module Tui.    *)
(***************************************************************************)
Publish(s) == state' = s /\ events' = s

Init ==
    /\ op = Nothing /\ cancel = Nothing /\ closed = FALSE
    /\ store = Nothing
    /\ opened = [h \in Handles |-> Nothing]
    /\ profiles = Seeded
    /\ views = [n \in Names |-> Nothing]
    /\ state = [connection |-> Nothing, connections |-> Seeded, tables |-> {},
                schema |-> Nothing, browse |-> EmptyBrowse, result |-> Nothing,
                busy |-> FALSE, query |-> FALSE, pending |-> Nothing]
    /\ events = IF Seeded = <<>> THEN Nothing ELSE state
    /\ pc = [c \in Callers |-> "idle"]
    /\ req = [c \in Callers |-> Nothing]
    /\ done = [c \in Callers |-> FALSE]
    /\ work = [c \in Callers |-> Nothing]
    /\ draft = [c \in Callers |-> Nothing]
    /\ failed = [c \in Callers |-> FALSE]
    /\ grant = [c \in Callers |-> Nothing]
    /\ staged = [i \in WriteIds |-> Nothing]
    /\ lapsed = {} /\ rejected = {} /\ applied = {}
    /\ executed = [i \in WriteIds |-> <<>>]

-----------------------------------------------------------------------------
(* Taking and leaving an operation *)

(* Seeded fault: operations do not exclude each other. *)
OpIgnored == TRUE

OpFree == op = Nothing

(* Seeded fault: a closed App goes on. *)
ClosedIgnored == FALSE

Closed == closed

(***************************************************************************)
(* op.TryLock succeeds.  A caller that finds op taken returns an error and *)
(* changes nothing.  A write is requested only while an identifier is left.*)
(***************************************************************************)
TryLock(c, r) ==
    /\ pc[c] = "idle" /\ r.type # "close"
    /\ OpFree
    /\ r.type = "write" => \E i \in WriteIds : staged[i] = Nothing
    /\ op' = c
    /\ req' = [req EXCEPT ![c] = r]
    /\ pc' = [pc EXCEPT ![c] = "locked"]
    /\ UNCHANGED <<cancel, closed, store, opened, profiles, views, state, events,
                   done, work, draft, failed, writeVars>>

(* Seeded fault: op is not released. *)
BeginClosedKeepsOp(c) ==
    /\ pc[c] = "locked" /\ Closed
    /\ pc' = [pc EXCEPT ![c] = "idle"]
    /\ req' = [req EXCEPT ![c] = Nothing]
    /\ UNCHANGED <<coreVars, done, work, draft, failed, writeVars>>

(* On a closed App begin, AddProfile and Reject release op and return. *)
BeginClosed(c) ==
    /\ pc[c] = "locked" /\ Closed
    /\ op' = Nothing
    /\ pc' = [pc EXCEPT ![c] = "idle"]
    /\ req' = [req EXCEPT ![c] = Nothing]
    /\ UNCHANGED <<cancel, closed, store, opened, profiles, views, state, events,
                   done, work, draft, failed, writeVars>>

Begin(c) ==
    /\ pc[c] = "locked" /\ req[c].type \in Operations /\ ~Closed
    /\ cancel' = c
    /\ done' = [done EXCEPT ![c] = FALSE]
    /\ Publish([state EXCEPT !.busy = TRUE])
    /\ work' = [work EXCEPT ![c] = state']
    /\ failed' = [failed EXCEPT ![c] = FALSE]
    /\ pc' = [pc EXCEPT ![c] = "perform"]
    /\ UNCHANGED <<op, closed, store, opened, profiles, views, req, draft, writeVars>>

(***************************************************************************)
(* finish under mu.  The snapshot of a failed operation is discarded.      *)
(***************************************************************************)
Finish(c) ==
    /\ pc[c] = "finish"
    /\ cancel' = Nothing
    /\ Publish([(IF failed[c] THEN state ELSE work[c]) EXCEPT !.busy = FALSE])
    /\ work' = [work EXCEPT ![c] = Nothing]
    /\ done' = [done EXCEPT ![c] = FALSE]
    /\ failed' = [failed EXCEPT ![c] = FALSE]
    /\ pc' = [pc EXCEPT ![c] = "unlock"]
    /\ UNCHANGED <<op, closed, store, opened, profiles, views, req, draft, writeVars>>

(* op.Unlock comes after mu.Unlock: others already see that nothing runs. *)
Unlock(c) ==
    /\ pc[c] = "unlock"
    /\ op' = Nothing
    /\ pc' = [pc EXCEPT ![c] = "idle"]
    /\ req' = [req EXCEPT ![c] = Nothing]
    /\ UNCHANGED <<cancel, closed, store, opened, profiles, views, state, events,
                   done, work, draft, failed, writeVars>>

(* The operation returns through finish, with the snapshot s on success. *)
Return(c, s) ==
    /\ work' = [work EXCEPT ![c] = s]
    /\ failed' = [failed EXCEPT ![c] = FALSE]
    /\ pc' = [pc EXCEPT ![c] = "finish"]

Fail(c) ==
    /\ failed' = [failed EXCEPT ![c] = TRUE]
    /\ pc' = [pc EXCEPT ![c] = "finish"]
    /\ UNCHANGED work

(* The operation goes on to the store call named by point. *)
Goto(c, point, s) ==
    /\ work' = [work EXCEPT ![c] = s]
    /\ pc' = [pc EXCEPT ![c] = point]
    /\ UNCHANGED failed

-----------------------------------------------------------------------------
(* Calls that hold op and mu throughout *)

Connectable(n) == n # Nothing /\ n \notin InRange(profiles)

AddProfile(c) ==
    /\ pc[c] = "locked" /\ req[c].type = "add" /\ ~Closed
    /\ IF Connectable(req[c].name)
       THEN /\ profiles' = Append(profiles, req[c].name)
            /\ Publish([state EXCEPT !.connections = Append(@, req[c].name)])
       ELSE UNCHANGED <<profiles, state, events>>
    /\ pc' = [pc EXCEPT ![c] = "unlock"]
    /\ UNCHANGED <<op, cancel, closed, store, opened, views, req, done, work, draft,
                   failed, writeVars>>

Reject(c) ==
    /\ pc[c] = "locked" /\ req[c].type = "reject" /\ ~Closed
    /\ IF state.pending # Nothing /\ state.pending.id = req[c].id
       THEN /\ Publish([state EXCEPT !.pending = Nothing])
            /\ rejected' = rejected \cup {req[c].id}
       ELSE UNCHANGED <<state, events, rejected>>
    /\ pc' = [pc EXCEPT ![c] = "unlock"]
    /\ UNCHANGED <<op, cancel, closed, store, opened, profiles, views, req, done,
                   work, draft, failed, grant, staged, lapsed, executed, applied>>

(* Cancel, from Dispatch, from the UI or from Close: only mu is taken. *)
Cancel ==
    /\ cancel # Nothing
    /\ done' = [done EXCEPT ![cancel] = TRUE]
    /\ UNCHANGED <<coreVars, pc, req, work, draft, failed, writeVars>>

(* Close, first half: a.Cancel(). *)
CloseCancel(c, r) ==
    /\ pc[c] = "idle" /\ r.type = "close"
    /\ done' = [d \in Callers |-> done[d] \/ d = cancel]
    /\ req' = [req EXCEPT ![c] = r]
    /\ pc' = [pc EXCEPT ![c] = "closing"]
    /\ UNCHANGED <<coreVars, work, draft, failed, writeVars>>

(* Close, second half: a.op.Lock() waits, unlike TryLock. *)
CloseLocked(c) ==
    /\ pc[c] = "closing" /\ OpFree
    /\ op' = c
    /\ closed' = TRUE
    /\ opened' = IF closed \/ store = Nothing THEN opened
                 ELSE [opened EXCEPT ![store] = Nothing]
    /\ pc' = [pc EXCEPT ![c] = "unlock"]
    /\ UNCHANGED <<cancel, store, profiles, views, state, events, req, done, work,
                   draft, failed, writeVars>>

(* The 30 second timeout of begin, or the end of the caller's own context. *)
Running == {"perform", "open", "connect-tables", "load", "refresh-tables", "query",
            "approve", "execute", "approve-tables", "finish"}

(* Seeded fault: Execute runs without the deadline. *)
TimeoutSparesWrites(c) ==
    /\ pc[c] \in Running \ {"execute"}
    /\ done' = [done EXCEPT ![c] = TRUE]
    /\ UNCHANGED <<coreVars, pc, req, work, draft, failed, writeVars>>

Timeout(c) ==
    /\ pc[c] \in Running
    /\ done' = [done EXCEPT ![c] = TRUE]
    /\ UNCHANGED <<coreVars, pc, req, work, draft, failed, writeVars>>

-----------------------------------------------------------------------------
(* perform and Setup, up to the first call of the store *)

(* Seeded fault: the offset outlives a change of what is paged through. *)
KeptOffset(b) == b

FromTop(b) == [b EXCEPT !.offset = 0]

(***************************************************************************)
(* The browse request an action asks for.                                  *)
(***************************************************************************)
Requested(s, r) ==
    LET b == s.browse
    IN CASE r.type = "open-table" -> FirstPage(r.table, r.filters, b.limit)
         [] r.type = "filter" -> FromTop([b EXCEPT !.filters = r.filters])
         [] r.type = "clear-filters" -> FromTop([b EXCEPT !.filters = Nothing])
         [] r.type = "sort" -> FromTop([b EXCEPT !.order = r.order])
         [] r.type = "page-size" -> FromTop([b EXCEPT !.limit = r.size])
         [] r.type = "next" -> [b EXCEPT !.offset = @ + b.limit]
         [] r.type = "prev" ->
               [b EXCEPT !.offset = IF @ < b.limit THEN 0 ELSE @ - b.limit]
         [] OTHER -> b

HasMore(s) == s.result # Nothing /\ s.result.more

(* A next that finds no further page succeeds without touching anything. *)
AtLastPage(s, r) == r.type = "next" /\ ~s.query /\ ~HasMore(s)

(* Seeded fault: a page of no rows is accepted. *)
BadSizeButZero(r) == r.type = "page-size" /\ r.size \notin 0..MaxPage

BadSize(r) == r.type = "page-size" /\ r.size \notin 1..MaxPage

(* Seeded fault: a new write silently replaces the one under review. *)
NeverAwaiting(s) == FALSE

Awaiting(s) == s.pending # Nothing /\ s.pending.id \notin lapsed

(***************************************************************************)
(* The errors perform returns before it calls the store or stages a write. *)
(***************************************************************************)
Refusable(s, r) ==
    \/ r.type \in {"connect", "test"} /\ r.name \notin InRange(profiles)
    \/ r.type \notin {"connect", "test"} /\ store = Nothing
    \/ r.type \in PagingActions /\ s.query
    \/ r.type = "open-table" /\ r.table \notin s.tables
    \/ BadSize(r)
    \/ r.type = "next" /\ HasMore(s) /\ s.browse.offset > MaxInt - s.browse.limit
    \/ r.type \in {"query", "write"} /\ r.sql = Nothing
    \/ r.type = "write" /\ (~AllowWrites \/ Awaiting(s))
    \/ /\ r.type \in BrowseActions /\ ~AtLastPage(s, r)
       /\ Requested(s, r).table = Nothing

Refuse(c) ==
    /\ pc[c] = "perform" /\ req[c].type \in Dispatched
    /\ done[c] \/ Refusable(work[c], req[c])
    /\ Fail(c)
    /\ UNCHANGED <<coreVars, req, done, draft, writeVars>>

Accepted(c) ==
    /\ pc[c] = "perform" /\ req[c].type \in Dispatched
    /\ ~done[c] /\ ~Refusable(work[c], req[c])

BrowseAction(c) ==
    /\ Accepted(c) /\ req[c].type \in BrowseActions
    /\ IF AtLastPage(work[c], req[c])
       THEN Return(c, work[c])
       ELSE Goto(c, "load", [work[c] EXCEPT !.browse = Requested(work[c], req[c])])
    /\ UNCHANGED <<coreVars, req, done, draft, writeVars>>

StartConnect(c) ==
    /\ Accepted(c) /\ req[c].type \in {"connect", "test"}
    /\ Goto(c, "open", work[c])
    /\ UNCHANGED <<coreVars, req, done, draft, writeVars>>

StartRefresh(c) ==
    /\ Accepted(c) /\ req[c].type = "refresh"
    /\ Goto(c, "refresh-tables", work[c])
    /\ UNCHANGED <<coreVars, req, done, draft, writeVars>>

StartQuery(c) ==
    /\ Accepted(c) /\ req[c].type = "query"
    /\ Goto(c, "query", work[c])
    /\ UNCHANGED <<coreVars, req, done, draft, writeVars>>

(* A write is only staged; an expired one may be replaced. *)
StageWrite(c) ==
    /\ Accepted(c) /\ req[c].type = "write"
    /\ \E i \in WriteIds :
          LET p == [id |-> i, connection |-> work[c].connection, sql |-> req[c].sql]
          IN /\ staged[i] = Nothing
             /\ staged' = [staged EXCEPT ![i] = p]
             /\ Return(c, [work[c] EXCEPT !.pending = p])
    /\ UNCHANGED <<coreVars, req, done, draft, grant, lapsed, rejected, executed,
                   applied>>

(* Setup looks at the draft's name and not at the context. *)
SetupCheck(c) ==
    /\ pc[c] = "perform" /\ req[c].type \in {"setup", "setup-test"}
    /\ IF Connectable(req[c].name) THEN Goto(c, "open", work[c]) ELSE Fail(c)
    /\ UNCHANGED <<coreVars, req, done, draft, writeVars>>

-----------------------------------------------------------------------------
(* Calls of the store.  A call whose context has ended fails; any may fail. *)

(* Seeded fault: what the form only tests is connected. *)
TestingSaved(r) == r.type = "test"

Testing(r) == r.type \in {"test", "setup-test"}

(* connectProfile: Resolve and open. *)
OpenFails(c) ==
    /\ pc[c] = "open"
    /\ Fail(c)
    /\ UNCHANGED <<coreVars, req, done, draft, writeVars>>

OpenStore(c) ==
    /\ pc[c] = "open" /\ ~done[c]
    /\ IF Testing(req[c])
       THEN Return(c, work[c]) /\ UNCHANGED <<opened, draft>>
       ELSE \E h \in Handles :
              /\ opened[h] = Nothing
              /\ opened' = [opened EXCEPT ![h] = req[c].name]
              /\ draft' = [draft EXCEPT ![c] = h]
              /\ Goto(c, "connect-tables", work[c])
    /\ UNCHANGED <<op, cancel, closed, store, profiles, views, state, events, req,
                   done, writeVars>>

(* Seeded fault: the pool of a failed connect stays open. *)
Abandon(c) == UNCHANGED opened /\ draft' = [draft EXCEPT ![c] = Nothing]

Discard(c) ==
    /\ opened' = [opened EXCEPT ![draft[c]] = Nothing]
    /\ draft' = [draft EXCEPT ![c] = Nothing]

(* connectProfile: db.Tables fails and the draft is closed. *)
ConnectTablesFail(c) ==
    /\ pc[c] = "connect-tables"
    /\ Discard(c)
    /\ Fail(c)
    /\ UNCHANGED <<op, cancel, closed, store, profiles, views, state, events, req,
                   done, writeVars>>

(* What Setup adds once connectProfile has succeeded. *)
WithProfile(r, s) ==
    IF r.type = "setup" THEN [s EXCEPT !.connections = Append(@, r.name)] ELSE s

Installed(r) ==
    profiles' = IF r.type = "setup" THEN Append(profiles, r.name) ELSE profiles

(* Seeded fault: the view of a connection is only saved the first time. *)
SavedOnce(s) ==
    IF store = Nothing \/ views[s.connection] # Nothing THEN views
    ELSE [views EXCEPT ![s.connection] = s.browse]

(* The view of the connection that is left. *)
Saved(s) ==
    IF store = Nothing THEN views ELSE [views EXCEPT ![s.connection] = s.browse]

(* The view of the new connection, as far as its table still exists. *)
Restored(view, tables) ==
    IF view = Nothing THEN EmptyBrowse
    ELSE IF view.table \in tables THEN view
    ELSE FirstPage(Nothing, Nothing, view.limit)

Connected(s, name, tables, browse) ==
    [s EXCEPT !.connection = name, !.tables = tables, !.schema = Nothing,
              !.result = Nothing, !.query = FALSE, !.pending = Nothing,
              !.browse = browse]

(***************************************************************************)
(* connectProfile after db.Tables: the draft replaces the store, and the   *)
(* first table is shown when no table is restored.                         *)
(***************************************************************************)
Switch(c) ==
    /\ pc[c] = "connect-tables" /\ ~done[c]
    /\ \E tables \in SUBSET Tables :
         LET s == work[c]
             name == req[c].name
             view == Restored(Saved(s)[name], tables)
         IN IF tables = {}
            THEN /\ Return(c, WithProfile(req[c], Connected(s, name, tables, view)))
                 /\ Installed(req[c])
            ELSE /\ \E first \in tables :
                       Goto(c, "load",
                            Connected(s, name, tables,
                                      [view EXCEPT !.table = IF @ = Nothing THEN first
                                                             ELSE @]))
                 /\ UNCHANGED profiles
    /\ views' = Saved(work[c])
    /\ opened' = [h \in Handles |-> IF h = store THEN Nothing ELSE opened[h]]
    /\ store' = draft[c]
    /\ draft' = [draft EXCEPT ![c] = Nothing]
    /\ UNCHANGED <<op, cancel, closed, state, events, req, done, writeVars>>

(***************************************************************************)
(* browse: Schema, then Browse, both of which must answer.                 *)
(***************************************************************************)
Rows(of, more) ==
    [connection |-> opened[store], of |-> of, more |-> more, after |-> applied]

(* Seeded fault: table rows are shown as the result of a raw query. *)
LoadedAsQuery(s, more) ==
    [s EXCEPT !.schema = [connection |-> opened[store], table |-> s.browse.table],
              !.result = Rows(s.browse, more)]

Loaded(s, more) ==
    [s EXCEPT !.schema = [connection |-> opened[store], table |-> s.browse.table],
              !.result = Rows(s.browse, more), !.query = FALSE]

Load(c) ==
    /\ pc[c] = "load" /\ ~done[c]
    /\ \E more \in BOOLEAN : Return(c, WithProfile(req[c], Loaded(work[c], more)))
    /\ Installed(req[c])
    /\ UNCHANGED <<op, cancel, closed, store, opened, views, state, events, req, done,
                   draft, writeVars>>

(* Seeded fault: the connect is reported as failed after all. *)
ConnectLoadFailsHard(c) ==
    /\ pc[c] = "load" /\ req[c].type \in {"connect", "setup"}
    /\ Fail(c)
    /\ UNCHANGED <<coreVars, req, done, draft, writeVars>>

(* A connect counts as done even when its first table does not load. *)
ConnectLoadFails(c) ==
    /\ pc[c] = "load" /\ req[c].type \in {"connect", "setup"}
    /\ Return(c, WithProfile(req[c], work[c]))
    /\ Installed(req[c])
    /\ UNCHANGED <<op, cancel, closed, store, opened, views, state, events, req, done,
                   draft, writeVars>>

(* So does a refresh, which shows no rows and no query any more. *)
RefreshLoadFails(c) ==
    /\ pc[c] = "load" /\ req[c].type = "refresh"
    /\ Return(c, [work[c] EXCEPT !.result = Nothing, !.query = FALSE])
    /\ UNCHANGED <<coreVars, req, done, draft, writeVars>>

(* Seeded fault: the rows of before the write stay on screen. *)
StillShown(s) == s

(* A reload after a write clears the rows; Query keeps its value. *)
Unshown(s) == [s EXCEPT !.result = Nothing]

ApproveLoadFails(c) ==
    /\ pc[c] = "load" /\ req[c].type = "approve"
    /\ Return(c, Unshown(work[c]))
    /\ UNCHANGED <<coreVars, req, done, draft, writeVars>>

LoadFails(c) ==
    /\ pc[c] = "load" /\ req[c].type \in BrowseActions
    /\ Fail(c)
    /\ UNCHANGED <<coreVars, req, done, draft, writeVars>>

(* The table shown is gone: both refresh and Approve drop what is shown. *)
Emptied(s) == [s EXCEPT !.browse = EmptyBrowse, !.schema = Nothing, !.result = Nothing,
                        !.query = FALSE]

Relist(c, point) ==
    /\ pc[c] = point /\ ~done[c]
    /\ \E tables \in SUBSET Tables :
         LET s == [work[c] EXCEPT !.tables = tables]
         IN IF s.browse.table \in tables THEN Goto(c, "load", s) ELSE Return(c, Emptied(s))
    /\ UNCHANGED <<coreVars, req, done, draft, writeVars>>

RefreshTables(c) == Relist(c, "refresh-tables")

RefreshTablesFail(c) ==
    /\ pc[c] = "refresh-tables"
    /\ Fail(c)
    /\ UNCHANGED <<coreVars, req, done, draft, writeVars>>

Query(c) ==
    /\ pc[c] = "query" /\ ~done[c]
    /\ \E more \in BOOLEAN :
          Return(c, [work[c] EXCEPT !.result = Rows(req[c].sql, more), !.query = TRUE])
    /\ UNCHANGED <<coreVars, req, done, draft, writeVars>>

QueryFails(c) ==
    /\ pc[c] = "query"
    /\ Fail(c)
    /\ UNCHANGED <<coreVars, req, done, draft, writeVars>>

-----------------------------------------------------------------------------
(* Approve *)

(* The write under review is the one asked for, still valid, and ours. *)
Approvable(s, id) ==
    /\ s.pending # Nothing
    /\ s.pending.id = id
    /\ AllowWrites
    /\ s.pending.connection = s.connection
    /\ id \notin lapsed

ApproveRefused(c) ==
    /\ pc[c] = "perform" /\ req[c].type = "approve"
    /\ ~Approvable(work[c], req[c].id)
    /\ Fail(c)
    /\ UNCHANGED <<coreVars, req, done, draft, writeVars>>

ApproveChecked(c) ==
    /\ pc[c] = "perform" /\ req[c].type = "approve"
    /\ Approvable(work[c], req[c].id)
    /\ Goto(c, "approve", work[c])
    /\ UNCHANGED <<coreVars, req, done, draft, writeVars>>

(* Seeded fault: the request stays pending while it runs. *)
NotConsumed(s) == s

Consumed(s) == [s EXCEPT !.pending = Nothing]

(* The request is consumed, and that published, before anything runs. *)
Consume(c) ==
    /\ pc[c] = "approve"
    /\ Publish(Consumed(state))
    /\ grant' = [grant EXCEPT ![c] = work[c].pending]
    /\ Goto(c, "execute", Consumed(work[c]))
    /\ UNCHANGED <<op, cancel, closed, store, opened, profiles, views, req, done, draft,
                   staged, lapsed, rejected, executed, applied>>

Sent(c) ==
    /\ executed' = [executed EXCEPT ![grant[c].id] =
                      Append(@, [grant[c] EXCEPT !.connection = opened[store]])]
    /\ grant' = [grant EXCEPT ![c] = Nothing]
    /\ UNCHANGED <<coreVars, req, done, draft, staged, lapsed, rejected>>

Execute(c) ==
    /\ pc[c] = "execute" /\ ~done[c]
    /\ Sent(c)
    /\ applied' = applied \cup {grant[c].id}
    /\ Goto(c, "approve-tables", work[c])

(* The outcome in the database is unknown: it may have run or not. *)
ExecuteFails(c) ==
    /\ pc[c] = "execute"
    /\ Sent(c)
    /\ UNCHANGED applied
    /\ Fail(c)

ApproveTables(c) == Relist(c, "approve-tables")

ApproveTablesFail(c) ==
    /\ pc[c] = "approve-tables"
    /\ Return(c, Unshown(work[c]))
    /\ UNCHANGED <<coreVars, req, done, draft, writeVars>>

-----------------------------------------------------------------------------
(* The environment *)

(* Five minutes pass since a write was staged. *)
Lapse ==
    /\ \E i \in WriteIds \ lapsed : /\ staged[i] # Nothing
                                    /\ lapsed' = lapsed \cup {i}
    /\ UNCHANGED <<coreVars, callVars, grant, staged, rejected, executed, applied>>

(* The UI's listener, the only receiver, empties the channel. *)
Receive ==
    /\ events # Nothing
    /\ events' = Nothing
    /\ UNCHANGED <<op, cancel, closed, store, opened, profiles, views, state, callVars,
                   writeVars>>

Call(c) == \E r \in Requests : TryLock(c, r) \/ CloseCancel(c, r)

(* Steps that wait for nothing but a short section under mu. *)
Internal(c) ==
    \/ BeginClosed(c) \/ Begin(c) \/ AddProfile(c) \/ Reject(c)
    \/ Refuse(c) \/ BrowseAction(c) \/ StartConnect(c) \/ StartRefresh(c)
    \/ StartQuery(c) \/ StageWrite(c) \/ SetupCheck(c)
    \/ ApproveRefused(c) \/ ApproveChecked(c) \/ Consume(c)
    \/ Finish(c) \/ Unlock(c)

(* Steps that wait for the database to answer. *)
Succeeds(c) ==
    \/ OpenStore(c) \/ Switch(c) \/ Load(c) \/ RefreshTables(c) \/ Query(c)
    \/ Execute(c) \/ ApproveTables(c)

Fails(c) ==
    \/ OpenFails(c) \/ ConnectTablesFail(c) \/ LoadFails(c) \/ ConnectLoadFails(c)
    \/ RefreshLoadFails(c) \/ ApproveLoadFails(c) \/ RefreshTablesFail(c)
    \/ QueryFails(c) \/ ExecuteFails(c) \/ ApproveTablesFail(c)

Step(c) == Call(c) \/ Internal(c) \/ Succeeds(c) \/ Fails(c) \/ Timeout(c) \/ CloseLocked(c)

Next == (\E c \in Callers : Step(c)) \/ Cancel \/ Lapse \/ Receive

Spec == Init /\ [][Next]_vars

(***************************************************************************)
(* The database need never answer, but a call whose context has ended      *)
(* fails, and the timer of every context fires.  A goroutine blocked in    *)
(* Lock for a millisecond makes the mutex refuse TryLock and is handed the *)
(* lock, which is strong fairness of CloseLocked.                          *)
(***************************************************************************)
Fairness == \A c \in Callers :
    /\ WF_vars(Internal(c))
    /\ WF_vars(Timeout(c))
    /\ WF_vars(done[c] /\ Fails(c))
    /\ SF_vars(CloseLocked(c))

FairSpec == Spec /\ Fairness

-----------------------------------------------------------------------------
(* Properties *)

Points == Running \cup {"idle", "locked", "unlock", "closing"}

(* The values the fields of App and the locals of its calls range over. *)
TypeOK ==
    /\ op \in Callers \cup {Nothing} /\ cancel \in Callers \cup {Nothing}
    /\ closed \in BOOLEAN
    /\ store \in Handles \cup {Nothing}
    /\ opened \in [Handles -> Names \cup {Nothing}]
    /\ profiles \in Seq(Names)
    /\ views \in [Names -> BrowseType \cup {Nothing}]
    /\ state \in SnapshotType
    /\ events \in SnapshotType \cup {Nothing}
    /\ pc \in [Callers -> Points]
    /\ req \in [Callers -> Requests \cup {Nothing}]
    /\ done \in [Callers -> BOOLEAN]
    /\ work \in [Callers -> SnapshotType \cup {Nothing}]
    /\ draft \in [Callers -> Handles \cup {Nothing}]
    /\ failed \in [Callers -> BOOLEAN]
    /\ grant \in [Callers -> WriteType \cup {Nothing}]
    /\ staged \in [WriteIds -> WriteType \cup {Nothing}]
    /\ lapsed \subseteq WriteIds /\ rejected \subseteq WriteIds
    /\ applied \subseteq WriteIds
    /\ executed \in [WriteIds -> Seq(WriteType)]

Holding == Running \cup {"locked", "unlock"}

(***************************************************************************)
(* One operation at a time: whoever is past TryLock is the holder of op,   *)
(* Busy is shown exactly while an operation runs, and App.cancel is that   *)
(* operation's and nobody else's (begin, finish, Close).                   *)
(***************************************************************************)
OneOperation ==
    /\ \A c \in Callers : pc[c] \in Holding <=> op = c
    /\ \A c \in Callers : pc[c] \in Running <=> cancel = c
    /\ state.busy <=> \E c \in Callers : pc[c] \in Running

(***************************************************************************)
(* A snapshot waiting in the channel is the current one: nothing changes   *)
(* the state without publishing it (publishLocked and all its callers).    *)
(***************************************************************************)
EventIsLatest == events \in {Nothing, state}

(***************************************************************************)
(* The open database pools are the store and the draft of a connect in     *)
(* flight: none leaks, none is closed while it is in use, and after Close  *)
(* none is left (connectProfile and Close).                                *)
(***************************************************************************)
PoolsAccounted ==
    {h \in Handles : opened[h] # Nothing} =
        (({store} \cup {draft[c] : c \in Callers}) \ {Nothing}) \ (IF closed THEN {store} ELSE {})

(***************************************************************************)
(* Between operations the snapshot names the connection of the store, and  *)
(* lists the profiles of App.profiles in order and without repetition: a   *)
(* connect or Setup that fails half-way leaves neither ahead of the other. *)
(***************************************************************************)
StateMatchesApp ==
    ~state.busy =>
        /\ store = Nothing <=> state.connection = Nothing
        /\ store # Nothing /\ ~closed => opened[store] = state.connection
        /\ state.connections = profiles
        /\ \A i, j \in 1..Len(profiles) : profiles[i] = profiles[j] => i = j

(***************************************************************************)
(* What is on screen belongs together, whatever failed on the way there:   *)
(* the table is listed, the structure is that of the table, and rows that  *)
(* are not shown as a raw query were read for exactly the current browse   *)
(* request, all on the current connection.                                 *)
(***************************************************************************)
ShownTogether(s) ==
    /\ s.browse.table # Nothing => s.browse.table \in s.tables
    /\ s.schema # Nothing =>
           s.schema = [connection |-> s.connection, table |-> s.browse.table]
    /\ s.result # Nothing =>
           /\ s.result.connection = s.connection
           /\ IF s.query THEN s.result.of \in SQLs
              ELSE s.result.of = s.browse /\ s.schema # Nothing

ScreenConsistent == ShownTogether(state)

(***************************************************************************)
(* Rows read before a write that succeeded are gone from the screen once   *)
(* Approve has returned, even when the reload after the write failed.      *)
(***************************************************************************)
RowsFollowWrites ==
    ~state.busy /\ state.result # Nothing => applied \subseteq state.result.after

(***************************************************************************)
(* A page starts at a multiple of the page size and inside the int range,  *)
(* after any mix of paging, resizing, filtering and connection changes.    *)
(***************************************************************************)
Aligned(b) == b.offset % b.limit = 0 /\ b.offset =< MaxInt

PagesAligned ==
    /\ Aligned(state.browse)
    /\ \A n \in Names : views[n] # Nothing => Aligned(views[n])

(***************************************************************************)
(* Each staged write is sent to the database at most once, as it was       *)
(* staged, on the connection it was staged for, and never after the user   *)
(* rejected it (Approve consumes the request before it executes it).       *)
(***************************************************************************)
WritesAsApproved ==
    \A i \in WriteIds :
        /\ Len(executed[i]) =< 1
        /\ executed[i] # <<>> => executed[i] = <<staged[i]>> /\ i \notin rejected

(***************************************************************************)
(* The write on offer is as it was staged, for the current connection, and *)
(* neither sent, in flight nor rejected.                                   *)
(***************************************************************************)
PendingIsOpen ==
    state.pending # Nothing =>
        LET p == state.pending
        IN /\ staged[p.id] = p /\ p.connection = state.connection
           /\ executed[p.id] = <<>> /\ p.id \notin rejected
           /\ \A c \in Callers : grant[c] = Nothing \/ grant[c].id # p.id

(***************************************************************************)
(* Leaving a connection saves its view, nothing else touches a saved view, *)
(* and coming back restores it whole when its table still exists.          *)
(***************************************************************************)
ViewsRemembered ==
    [][/\ \A n \in Names : views'[n] # views[n] =>
              n = state.connection /\ views'[n] = state.browse
       /\ state'.connection # state.connection =>
             /\ state.connection # Nothing => views[state.connection] = state.browse
             /\ LET kept == views[state'.connection]
                IN kept # Nothing /\ kept.table \in state'.tables
                     => state'.browse = kept]_vars

(***************************************************************************)
(* Once Close has closed the channel nothing is published, which would     *)
(* panic, and no operation starts.                                         *)
(***************************************************************************)
QuietAfterClose ==
    [][closed => /\ closed' /\ UNCHANGED <<state, cancel, opened, executed>>
                 /\ events' \in {events, Nothing}]_vars

(***************************************************************************)
(* How far a staged write has come, read off the state, the working copies *)
(* and what was executed.  A write that is nowhere any more was dropped.   *)
(***************************************************************************)
WriteStatus(i) ==
    IF staged[i] = Nothing THEN "unused"
    ELSE IF executed[i] # <<>> THEN "sent"
    ELSE IF \E c \in Callers : grant[c] # Nothing /\ grant[c].id = i THEN "granted"
    ELSE IF \E c \in Callers : pc[c] = "approve" /\ req[c].id = i THEN "accepted"
    ELSE IF state.pending # Nothing /\ state.pending.id = i THEN "posted"
    ELSE IF \E c \in Callers : /\ work[c] # Nothing /\ work[c].pending # Nothing
                               /\ work[c].pending.id = i THEN "drafted"
    ELSE "dropped"

Approval == INSTANCE WriteApproval
    WITH status <- [i \in WriteIds |-> WriteStatus(i)],
         calls <- [i \in WriteIds |-> Len(executed[i])]

(***************************************************************************)
(* The App implements WriteApproval: every write takes the steps of its    *)
(* life in order, whatever else the callers, the clock and the database do.*)
(***************************************************************************)
WritesFollowApproval == Approval!Spec

(* The part of a snapshot that places the interface (model.accept). *)
ViewOf(s) == [connection |-> s.connection, table |-> s.browse.table,
              offset |-> s.browse.offset, query |-> s.query]

Face(s) == [busy |-> s.busy, view |-> ViewOf(s),
            pending |-> IF s.pending = Nothing THEN Nothing ELSE s.pending.id]

(* The operation has staged a write that finish has not shown yet. *)
Drafting(c) == pc[c] = "finish" /\ ~failed[c] /\ req[c].type = "write"

Unseen(i) == \E c \in Callers : Drafting(c) /\ work[c].pending.id = i

(* What a call is to the interface. *)
Role(c) ==
    LET type == req[c].type
    IN  CASE type \in {"setup", "write"} -> type
          [] type = "setup-test" -> "test"
          [] type = "approve" -> IF pc[c] \in {"perform", "approve"} THEN "approve"
                                 ELSE "approved"
          [] OTHER -> "dispatch"

Underway == IF cancel = Nothing THEN "none"
            ELSE IF failed[cancel] THEN "failed" ELSE Role(cancel)

Seen == {i \in WriteIds : staged[i] # Nothing /\ ~Unseen(i)}

ViewType == [connection : Names \cup {Nothing}, table : Tables \cup {Nothing},
             offset : 0..MaxInt, query : BOOLEAN]

Interface == INSTANCE Feed
    WITH Writes <- WriteIds, Views <- ViewType, shown <- Face(state),
         slot <- IF events = Nothing THEN {} ELSE {Face(events)},
         kind <- Underway, known <- Seen

(***************************************************************************)
(* The App implements Feed, which is all that the model of the interface   *)
(* assumes of it: an operation publishes when it begins and ends, changes  *)
(* only what its kind may change, nothing if it fails, and offers no write *)
(* for approval a second time (begin, perform, Setup, Approve, finish).    *)
(***************************************************************************)
FeedsInterface == Interface!Spec

(***************************************************************************)
(* Whatever the database does, an operation ends and frees the App.        *)
(***************************************************************************)
OperationEnds == \A c \in Callers : pc[c] = "locked" ~> pc[c] = "idle"

(***************************************************************************)
(* Close returns, though others keep starting operations while it waits.   *)
(***************************************************************************)
CloseEnds == \A c \in Callers : pc[c] = "closing" ~> pc[c] = "idle"
=============================================================================
