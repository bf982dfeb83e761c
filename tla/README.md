# Verification of relvo

TLA+ models of relvo (a terminal browser for MySQL databases, with a local
control socket for scripts and agents), TLC runs over small instances of them,
and TLAPS proofs of their safety properties for every instance.

Every module is translated from the Go source. `PROJECT.json` names, for each
definition, the lines it stands for, for each property the run that checks it
and a plausible bug that it catches (a *seeded fault*: an alternative
definition placed before the one it would replace), and for each theorem what
it establishes.

- [The system](#the-system): components, state, operations, what is hard
- [Modules](#modules): what models what, and how
- [Runs](#runs): what is checked, the bounds, fairness
- [Proofs](#proofs): what is proved, from what, how
- [Only model-checked, and not modelled](#only-model-checked-and-not-modelled)
- [Observations](#observations)
- [Plan](#plan): what comes next, in order

## The system

```
 keys --> tui.model --Dispatch, Setup, Approve, Reject, Cancel--> app.App --> database.Store
              ^  one goroutine per call; results come back            |          mysql | demo
              +---------- Events(): one slot, newest snapshot --------+
 relvo ctl --> unix socket --> control.Server --Dispatch, Snapshot, Cancel--> app.App
 relvo connections add --> connections.Add --> connections.json  <-- connections.Load (start)
 cmd/relvo: Load, Discover, DiscoverDocker -> New; Start; Run; server.Close; app.Close
```

### Application core, `internal/app`

*State.* `op`, a mutex that is only ever tried, except by Close; `mu`, held for
short sections; the snapshot `state` (connection, connections, tables, schema,
browse request, result, pending write, busy, query, revision); `store`, the
open pool; `profiles`; `views`, the browse request each connection was left at;
`events`, a channel of capacity one; `cancel`; `closed`.

*Operations.* `Dispatch` (connect, test, open-table, filter, clear-filters,
sort, page-size, next, prev, refresh, query, write), `Setup`, `Approve`,
`Reject`, `AddProfile`, `Cancel`, `Close`, `Snapshot`, `Events`. An operation
takes `op` or fails, works on a private copy of the snapshot, calls the store
without holding `mu`, and installs its copy in `finish` if it succeeded.

*Hard.* Callers race for `op`; `Cancel`, and the cancellation that begins
`Close`, act without it, and `Reject` takes it without the rest of `begin`.
`Approve` takes the pending write out of the state before it executes it, in two
copies. A connect replaces the store before it has loaded the rows of the new
connection. Every call of the store may fail, or not answer until a timeout.
Close waits for `op` while others keep trying it.

*Correct when* writes run at most once, as staged, where staged, and never
after a rejection; what is on screen belongs together; pools neither leak nor
close under an operation; paging stays aligned; saved views come back;
operations end and Close returns.

### Terminal interface, `internal/tui`

*State.* The last snapshot, the open modal and its contents (SQL text,
confirmation, form fields), the drafts of the editors, the identity of the open
form, whether a submitted form waits; the cursor (row, column, table), where
each window of the screen begins, the search of the table list, the focus, the
tab and the size of the terminal. *Operations.* `Update` over keys, events
and results of calls; each call to the App, and each wait for an event, is a
goroutine. *Hard.* Events and results arrive in any order, older after newer;
unread events are replaced; writes of a control client ask for approval while
the user types something else; answers come for forms that are gone. A snapshot
may have fewer rows, columns or tables than the cursor is at, a resize moves
every window, and several handlers return before `clamp`. *Correct when* the
interface never goes back and always catches up, approves only what was
reviewed, loses no text, blocks a form exactly while its own setup runs, and
keeps the cursor on something that exists and is drawn.

### Control server, `internal/control/server.go`

*State.* The socket file and the identity of the inode it bound, `closed`, the
set of connections, a wait group. *Operations.* `Start`, the accept loop, one
goroutine per request (`serve`), `Close`; `Start` and `Close` also race with
other processes of the same session name through the file system. *Hard.*
A connection accepted just before Close, a client that says nothing, an App
that does not answer, a socket left by a process that was killed. *Correct
when* a live session keeps its socket, Close waits for exactly what is in
progress and returns, and every request ends.

### Control command line, `internal/control/cli.go`

*State.* Of one invocation of `relvo ctl`: the sockets it found, the sessions
that answered, the connection of its call. *Operations.* `RunCLI` names a
session or lists the sockets of the runtime directory and probes them one after
another (`listSessions`); every probe and every command is a `call` on a
connection of its own, with a timer. *Hard.* Sessions start, close and die
between the listing, the probe and the call; the answer of an action is lost,
or its connection is cut when it is done. *Correct when* an invocation acts at
most once, reports as done only what was done, and without a name acts only on
the one session that answered.

### Profile file, `internal/connections` (`Add`, `Load`, `Save`)

*State.* `connections.json`, temporary files beside it, an flock on
`connections.json.lock`. *Operations.* Add (lock, load, check, save by rename,
unlock) and Load without the lock. *Hard.* Several processes, a failure or a
kill at every system call. *Correct when* readers see a whole file, names are
unique, what was acknowledged is kept, and locks are released.

### Resolution and discovery, `internal/connections`, `cmd/relvo`

*State.* The profiles a session offers: saved ones, one described by flags or
found in `./.env`, one per published Docker address, the demo. A profile holds
references (environment file, mapping, password variable) that are resolved
anew at every connect. *Hard.* The `.env` changes between discovery, probe and
connect; a port is published under several addresses that become one. *Correct
when* candidates follow the references of their profile, and discovery does not
keep the session from starting.

### Stores, `internal/database/mysql`, `internal/database/demo`

*State.* None of their own besides the pool; the demo keeps its rows in memory.
*Operations.* Tables, Schema, Browse, Query, Execute. *Hard.* Each page is a
query of its own, so ties without an order shift rows between pages; which index
tells rows apart is read from a list of index parts, some without a column, on
columns that may be NULL; HasMore at the boundary; the demo has its own filter
and sort. *Correct when* paging shows each row once, HasMore is exact, and the
demo answers as MySQL would.

### The rest

`tui/view.go`, `panel.go`, `schema.go` and `help.go` draw; only the layout that
the cursor depends on is modelled (`Viewport`). `scripts/dev` is a tool for
developers. `PROJECT.json` lists every component with what is left out of it.

## Modules

| module | models | kind |
|---|---|---|
| `App` | `internal/app/app.go`, all exported operations that change state | state machine |
| `WriteApproval` | what a staged write is promised: its life, step by step | abstract; `App` implements it |
| `Feed` | what the interface is promised: how operations change what is published, and what waits for it | abstract; `App` implements it, `Tui` is built on it |
| `AppInv` | the inductive invariant of `App` | invariant |
| `ProfileStore` | `connections.Add`, `Load`, `Save` over inodes and an flock | state machine |
| `Registry` | an append-only list of unique names with acknowledgements | abstract; `ProfileStore` implements it |
| `Tui` | `internal/tui` model, modals, listener, calls and results, over a reduced App | state machine |
| `Viewport` | the cursor, the windows and the search of `tui/model.go`, over the layout of `view.go` | state machine |
| `ControlServer` | `internal/control/server.go` in several processes, under several names | state machine |
| `ControlClient` | `internal/control/cli.go` and the answers of `serve` | composed with `ControlServer` |
| `Startup` | the profile list of `cmd/relvo`, `Discover`, `parseDocker`, `Resolve` | state machine over pure operators |
| `Rows`, `MySQLStore`, `DemoStore` | tables and requests; the indexes of `Schema`, `browseSQL`, `collect`; the demo's `Browse` | pure operators |
| `Paging` | a reader who pages with `App` over either store | composes the three above |
| `MC*` | small instances: requests, tables, snapshots, contents | model checking |
| `AppProofs`, `ScreenProofs` | theorems about `App`, the second extending the first | proofs |
| `TuiProofs`, `ViewportProofs` | theorems about the interface | proofs |
| `ControlProofs` | theorems about the sessions and, in a second part, the invocations | proofs |
| `ProfileProofs`, `PagingProofs`, `StartupProofs` | theorems about the profile file, paging and the start | proofs |

**App.** One variable per field of `App`; one `pc`, request, working snapshot,
draft pool and failure flag per caller, which are the locals of its goroutine.
A step is a critical section under `mu` or a call of the store; what lies
between touches only what `op` protects and is folded into one of them. The
success and the failure of each call of the store are two actions (`Query`,
`QueryFails`, ...); failure is always possible. `Timeout` ends the context of an
operation, and from then on its calls can only fail, and have no effect that is
reported. `ExecuteFails` leaves open whether the statement ran: it counts as
sent. `Cancel` ends whichever operation holds `cancel`. Rows are represented by
where they came from: the connection, the request they answered and the writes
applied before (`after`), which is what the screen properties compare. Schema
is the table it describes. Error texts and the status line are left out.

**Feed.** The published state is reduced to the busy flag, the pending write and
what is on view, and an operation to its kind. `Outcomes` lists what an
operation of each kind may make of the published state if it succeeds; one that
fails leaves it as it was, except that an approved write is consumed before it
runs. `App` keeps to this through the mapping `ViewOf`, `Role` and `Seen`.

**Tui.** The App is what `Feed` promises, with a revision added: the results of
an operation of any caller are its `Outcomes`. A control client may have staged
a write before the interface starts; then the review is open from the
beginning. An operation may be refused although nothing is shown to be running,
since `op` is held a little longer than the busy flag is shown. The listener is a goroutine that has, or has not, taken
the event it will deliver: `publishLocked` may replace the slot meanwhile. Keys
are enabled per modal as in `Update`. The constant `Keys` selects the parts of
the interface an instance uses. Three histories (`typed`, `typedFor`, `opened`)
say what the user typed, for which write, and how many forms were opened.

**Viewport.** One record `m` holds what `model` keeps for the layout; every key,
click, wheel, resize and snapshot is a function from `m` to the next. `Clamp` is
part of each step that ends with it in the code, and absent from those that
return before it (`ShowData`, `PaletteFocus`, some clicks). A snapshot is
reduced to what the layout asks of it: the number of rows, the widths of
columns, the listed tables, and the texts of the structure, each as the number
of lines `wrapSafe` cuts it into at each width. `StructureLines` adds these up at
the width of the grid, which is one cell while a narrow screen shows the list. A search is the set of tables that it matches. Modals
keep the cursor as it is, so that what they do to it is a step of its own.

**ProfileStore.** A directory is a set of inodes, of which one may bear the name
of the profile file and others temporary names. `WriteTemp` may leave an inode
`Partial`; `Rename` is atomic, as rename(2) is. `Kill` drops the lock and leaves
the temporary file. Readers open the inode and read it in two steps.

**ControlServer.** `Look` and `Bind` are the two Lstat/Listen steps of Start,
`Identify` the Lstat after it; `Compare` and `Remove` are the two steps at the
end of Close. `Register` and `TurnAway` are the section under the mutex that
decides whether an accepted connection is served. A request is its course:
reading, dispatched, ending, gone. Sockets of dead processes stay and are
removed by hand, as `docs/control.md` asks; only sockets that no running
session has bound are. Each session has a name and each name a path; sessions of
different names share nothing but the directory.

**ControlClient.** It EXTENDS `ControlServer`: an invocation's `Dial` is the
`Connect` of a session, and the steps of `serve` (`AnswerState`, `Perform`,
`AnswerAction`, `CutOff`) are those of `ControlServer` with what they write to
the connection. `Perform`, the App's side of an action, may come or not come
before an error is answered, as `Dispatch` may fail after it has changed
something. Invocations stand for the connections; those of other programs are
left to the run of `ControlServer` alone. The theorem `Composition` says that
the composition adds no behaviour of the sessions.

**Startup.** `Resolve` is composed of one operator per stage (`FromEnv`,
`WithPassword`, `AtEndpoint`, `WithPort`) in the order of the code. `Endpoints`
is the loop of `parseDocker` over the publishers, which passes over addresses it
has seen. `Offer`, `Probe` (once per profile) and `New` are the steps of `run`; `Edit` changes the
`.env` at any time between them. One file stands for all environment files, and
a variable is named like the field it is for by default. Ports are numbers,
with 0 for a text that is none.

**Paging.** A table's `statistics` are the rows of information_schema that
`Schema` reads, one per part of an index. `IndexAt` assembles them as its loop
does, and `SortKey` is the search of `browseSQL` over the result. `MySQLBrowse`
is the set of answers the server may give: every order of the matching rows that
`ORDER BY` allows. `Sound` restricts the tables to those a database with these
indexes can hold (a unique index lets NULL repeat; one on a prefix of a column
is unique on the whole of it, too). Values are numbers, and "contains" is a
relation between them; letter case, which the demo documents as different, is
not represented.

## Runs

Every run finishes within five minutes on two cores. Each property of each run
is violated by its seeded fault under the same configuration.

| run | asks | instance | distinct states |
|---|---|---|---|
| `app_writes` | does a write run at most once, as reviewed, whatever callers, clock and database do, and does it follow `WriteApproval`? | 2 callers, 2 profiles, 1 table, 2 writes, 2 pools | 1.0 M |
| `app_paging` | do pages stay aligned and in range over every mix of paging, filters, sorts and sizes? | 1 caller, 1 profile, page size up to 2, largest int 3 | 1.0 M |
| `app_screen` | do rows, structure, request and state belong together and follow the writes, and do views come back, when any reload fails? | 1 caller, 2 profiles, 1 write, tables that come and go | 1.3 M |
| `app_live` | do operations exclude each other and end, are pools released, does Close return and leave silence, and does what is published follow `Feed`? | 2 callers, 1 profile, 1 write, 2 pools, fair | 179 k |
| `profiles_file` | is the profile file whole, unique, a `Registry`, does an Add that returns leave no temporary file, and does every Add end? | 2 adders, 1 reader, 2 names, 3 inodes, fair | 262 k |
| `tui_review` | is only the reviewed write approved, and no text lost? | 2 calls and a remote caller, 2 writes, 1 text, 5 revisions | 3.6 M |
| `tui_forms` | do late answers disturb neither form nor filter, does the interface catch up and release its forms? | 1 call and a remote caller, 2 views, 4 revisions, 4 forms, fair | 174 k |
| `tui_viewport` | does the cursor stay in range and on screen through keys, mouse, sizes and new snapshots, and does the sidebar follow the table? | 5 screens, 7 snapshots, 3 searches | 40 k |
| `control_sockets` | do sessions keep their socket, does Close wait for what is in progress, do requests end? | 2 processes, 1 name, 2 connections, 2 inodes, fair | 46 k |
| `control_clients` | does a command act at most once, and without `--session` on the only session there was? | 2 processes, 2 names, 3 connections, 2 inodes, 1 invocation | 154 k |
| `browse_pages` | does paging show each row once, with an exact HasMore, and the demo what MySQL shows? | all tables of 3 rows and 2 columns, 7 index lists, pages up to 2 rows | 61 k |
| `startup_profiles` | do Docker candidates follow the `.env`, and clash only over names that are taken anyway? | 8 contents, 6 saved lists, 3 flag profiles, 3 sets of publishers | 194 k |

### Why the bounds are enough

- *Two callers, two writes* (`app_writes`): the hazards are one caller
  approving while another stages, connects or rejects, and a write replacing an
  older one. `op` lets one operation run; a second caller is enough to do all
  that does not take it. The proofs lift the properties to any number.
- *Two pools*: the store and the draft of the one connect that can be in flight.
- *Largest int 3, page size 2*: the overflow guard, the last page, offset 0, and
  a page size above the maximum are all reached; one caller, because paging
  touches only what `op` protects.
- *Three inodes* (`profiles_file`): the file, one being written, one still held
  by a reader or left by a process that was killed. `SaveFails` covers a
  directory that is full.
- *Two processes* (`control_*`): one to own the path and one to contend. Two
  connections let one be registered while another is served as Close begins; a
  client needs a third, since its list dials every name before it dials again.
- *Revisions* (`tui_*`): every operation publishes twice, so four or five leave
  room for an operation to overtake another's result and for the slot to be
  replaced twice.
- *Five screens* (`tui_viewport`): the first, one too small to draw, a narrow one
  on which the focus decides what is drawn, one that is just wide enough for both,
  and one just wide enough for the structure in columns; the last four have less
  room than there are rows, tables or columns. The snapshots: no connection, no
  table opened, a page and a shorter one, a raw result, a shorter list of tables
  and another source, whose structure has a text of up to nine lines. On the narrow
  screen clamp counts other lines of it while the list has the focus, so that the
  exception which `SelectionShown` states is met.
- *Three rows* (`browse_pages`): a page of one or two rows, a page after it and
  a row that could be lost or repeated between them. Requests vary all orders
  without a filter, and all filters in one order, because the two are
  independent in both stores. A reader makes one request, since the next would
  start over; an invalid one is refused.

`control_sockets` and `control_clients` set `CHECK_DEADLOCK FALSE`: both
processes may have ended and all requests with them, which is the intended end.
In every other run a state without successor would be an error.

Symmetry is used in safety runs only, never where a liveness property is
checked: for callers, pools and writes of `App`, and for processes, names and
inodes of `control_clients`, whose connections are taken in a fixed order and
therefore are not symmetric.

### Fairness

| specification | assumed | because |
|---|---|---|
| `App!FairSpec` | weak fairness of steps that wait for nothing, of the timer of a context, and of the failure of a store call whose context has ended; the database itself need never answer | goroutines are scheduled; `context.WithTimeout` fires; database/sql returns when a context ends |
| | strong fairness of the lock that Close takes | a Go mutex whose waiter has been blocked for a millisecond is handed over and refuses TryLock |
| `ProfileStore!FairSpec` | weak fairness of system calls, strong fairness of acquiring the flock | the kernel wakes the waiters of an flock |
| `Tui!FairSpec` | weak fairness of goroutines, of `Update` for every message, and of the remote caller's return | the runtime of Bubble Tea runs commands and delivers their messages; operations end (`OperationEnds`) |
| `ControlServer!FairSpec` | weak fairness of the loops, of deadlines, and of the end of a request whose context is done | the App returns once a context is done (`OperationEnds`), connections have deadlines and are closed by Close |

Keys, clients, failures and kills are never assumed to happen. `Viewport`,
`ControlClient`, `Paging` and `Startup` state no fairness: nothing is promised
of them that must eventually happen.

## Proofs

Checked by TLAPS from the named assumptions on the constants alone (that
`Nothing` is none of the values it stands beside, that page bounds are ordered,
that requests, snapshots and index lists are well typed): any number of
callers, profiles, tables, writes, pools, processes, clients, files and rows.
Each proof follows the same line: an inductive invariant that adds what the
property rests on, a lemma per action, and the property from the invariant.

**`AppProofs`**: `Invariance`, `TypeCorrect`, `Exclusion`, `ApprovedWritesOnly`,
`WritesFollow`.
`WritesAsApproved` is not inductive: that a write was not sent yet, when an
operation is about to send it, rests on where it was kept until then.
`AppInvariant` adds what does hold at each step: `CallsOK` (what
each caller relies on at each of its points), `PoolsOK` (drafts and store are
open and different), `ConnectionOK` (the working copy of a running operation
names the connection of the store; the state does too except between the
replacement of the store and `finish`), and `WritesOK` (a pending write, in the
state or in a working copy, is as staged, unsent and not rejected; one in
flight belongs to the store's connection). Lemma `Move` covers the many actions
that only move their caller on with another working copy, and `Exclusion` is
used throughout: since one operation runs, the copies of others need not be
considered. `WritesFollow` says that `App` implements `WriteApproval`: the
mapping `WriteStatus` reads the status of a write off the place where it is
kept, `CopiesFit` says that a write is in one place at a time (`Held`, `Checked`,
`Offered`, `Copied`), and each action then leaves every status, or takes one step
of the abstract specification.

**`ScreenProofs`**: `NoPoolLeaks`, `OfferStands`, `LatestEvent`,
`StateFollowsApp`, `ScreenBelongsTogether`, `NoStaleRows`,
`NothingAfterAppClose`, `ViewsComeBack`, `PagesStayAligned`, `InterfaceIsFed`. What the user sees
is built in a working copy over several steps, and the state holds it only at
the end. `ScreenInvariant` says of the state that it is consistent (`StateFits`)
and of the copy of each running caller how far it has come towards that at its
present point (`WorkFits`): rows are those of the request just sent, structure
those of the table just opened, and both gone once a reload failed. `PagesFit`
carries alignment through every way an offset is computed, from a few lemmas of
arithmetic; the guard against overflow is what keeps the next offset a number.

`InterfaceIsFed` says that `App` implements `Feed`. What an operation will publish
is in its working copy, which the abstract specification does not have. `Role`
maps the present point of the running caller to what its operation may still do.
`CopiesFit` knows the pending write of the working copy, and `ViewsHeld` adds that
an operation that is not for looking keeps the view. A step that leaves the state
is then a stutter or a `GiveUp`, begin is `Begin`, consuming the write is `Consume`,
and what `finish` publishes is one of the `Outcomes` of the role.

**`TuiProofs`**: `NothingOutlivesItsModal`, `ReviewIsOfThePending`,
`NoDraftIsLost`, `ApprovalIsOfTheReviewed`, `FormsWaitForTheirSetup`,
`FilterKeepsItsView`, `NeverBehind`. `TuiInvariant` ties each modal to what it
was opened with, and each result in flight to the call that will deliver it: an
editor keeps its text until the result that clears it is its own, and a review
shows the write of the snapshot it was opened from or is closed by the next.
`OnlyWhatIsPromised` says that the App of `Tui`, whose calls are reduced to begin
and end, takes steps of `Feed` only: the two models agree on what an operation may
do. That `Tui` leaves out nothing that `Feed` allows is seen from its text, where
`Results` is `Outcomes`; it is not proved.

**`ViewportProofs`**: `CursorAlwaysInRange`, `SelectionAlwaysHeld`,
`SidebarAlwaysFollows`. Most handlers end in a clamp of the cursors and of the
windows; `ViewportInvariant` is what a clamp restores from any state they may have
left, for every size of the terminal and every snapshot (`ClampFits`), and what
the handlers that return before clamp keep, because they move only the focus, the
tab and the entry that is selected within its window (`FocusFits`). For the
structure this rests on the width of the grid, which the focus changes on a
narrow screen: `StructureHeld` bounds it on wide ones, and `Fits` says of each step
that it either leaves the structure within its end or is the one that
`OnlyFocusMoves` describes. The columns that are drawn and the lines of the
structure depend on sums, which are defined by recursion. That such a function
exists and obeys its equations is shown by a least counterexample instead of an
induction over an operator. Such a sum is then a natural number, and no less than
two of its terms together (`SumOfNaturals`), so that a hidden grid, of one cell,
holds one column and comes back with it.

**`ProfileProofs`**: `StoreInvariance`, `WholeFile`, `UniqueNames`, `Refinement`.
The invariant says that only the owner of the lock is
between Load and Rename, so that what it loaded is still the content
(`LockOK`, `AddersOK`), that its temporary inode is its own and not the file
(`TempsOK`), and that what was acknowledged is in the file (`AckedOK`). A Rename
then appends one new name, which is the step of `Registry`; all other steps
leave the list unchanged.

**`ControlProofs`**: `Reachable`, `CloseWaits`, `TypeCorrect`, `Composition`,
`AtMostOnce`, `OnlySession`. `SocketInvariant`: at most one process is between
Bind and the end of Close on a name, and the path holds its inode; hence no
Start replaces it, and what another process's Close removes cannot be it.
`RequestInvariant`: the wait group equals the accept loop and the requests being
served; a connection that is accepted and not yet registered is the acceptor's,
which is counted. When the group is empty, nothing is in progress, and after
`closed` nothing is added. `Composition` shows that every step of a client is a
step of the server's environment, `ClientSpec => Spec`, so that all the above
holds with clients too; `ClientInvariant` then follows an invocation through
its list and its one call.

**`PagingProofs`**: `PagesOfOneOrder`, `MoreExact`, `DemoIsMySQL`, `RowsOnce`.
The parts of an index are numbered without gap, so `Schema` puts each column at
its place; a key so assembled tells rows apart; an ORDER BY that ends in such a
key, or in all columns, is total up to equal rows; every page of one reader is
then a stretch of one order, and the offsets of successive pages join. For the
demo, the order in which its own sort lists the rows is one of those MySQL may
choose.

**`StartupProofs`**: `EndpointsFollowEnv`, `OnlyNamesClash`. Every step of the loop
of `Endpoints` keeps the addresses found so far apart from each other, so the
loop ends with distinct ones (`LoopStays`, by a least counterexample again).
`StartupInvariant` says of the list on offer that each candidate was made of one
named profile that has been probed, with one address of its own (`Listed`,
`Candidates`), and of a connection what it was resolved from (`Connected`). A
candidate shares the references of its profile, hence resolves as it does but for
the address (`ResolvesAlike`). Two candidates have different names unless two
named profiles have the same, and a candidate clashes with a named one only if
that took its name. The assumptions are that Load, the flags and Compose return
lists of profiles and publishers, that no port is empty and no address is
`Nothing`.

Six results are proved that no run checks, because a small instance adds nothing
to them: `EventIsLatest` (what is offered to subscribers is the state),
`PendingIsOpen` (a write that waits for review is one that may still be approved
or rejected), `NamesUnique`, `WaitGroupExact`, `NeverGoesBack` (the interface
never returns to an older revision) and `OnlyWhatIsPromised`.

## Only model-checked, and not modelled

Every safety property of every run is proved, too. Only checked by TLC on the
instances above are the liveness properties (`OperationEnds`, `CloseEnds`,
`AddEnds`, `CatchesUp`, `FormIsReleased`, `CloseReturns`, `RequestsEnd`): fairness
and ENABLED are beyond TLAPS.

Not modelled:

- the text that is drawn, and the contents and scrolling of the list modals, of
  help and of the inspector;
- the words and flags of `relvo ctl` (`parseAction`), their counterpart
  `validateAction` in the server, and the JSON between them: a request is well
  formed or not;
- the ownership and permissions of the runtime directory, which Start checks
  before it binds;
- `validateQuery`, which scans the text of a query ahead of the read-only
  transaction that decides; columns and foreign keys of `Schema`; the size
  limits of `collect` and the conversion of values;
- the syntax of `.env` and JSON files, flags, the call of `docker` and the
  decoding of its output, and the development launcher;
- that the server has closed before the App is (`defer` in `main.go:216` and `:222`):
  each closes in its own module, and the connect begun at start-up is one caller
  of the App among others, who may still call when it closes;
- a crash of the machine (what `fsync` of the temporary file, without one of
  its directory, guarantees) and hand edits of the profile file.

## Observations

No run contradicts what a document, comment or test of the repository says. A
reader of the models should know of the following, which the code accepts:

- *The window at the end of Close.* `server.go:156` compares the inode at the
  path with its own and removes the path in a second system call. Another
  session cannot come between as long as sockets are removed by hand only when
  no running session has bound them, as `docs/control.md:22` asks;
  `SessionReachable` is checked and proved under that discipline
  (`RemoveByHand`).
- *A filter belongs to the table that is current when it is applied.* The
  interface submits it without naming a table or a revision (`modal.go:441`);
  `FilterFitsView` holds up to the submission, and not beyond.
- *A failed command may have acted.* The deadline of a control connection is
  that of the action (`server.go:303`); a client that got no answer cannot tell
  whether its action was performed or still will be, and may repeat it.
  `ActsAtMostOnce` is about one invocation.
- *The only session may be another by the time of the call.* Without
  `--session`, a command lists the sessions and then dials the name of the one
  it found (`cli.go`). The name may meanwhile have passed to another process;
  `ActsOnTheOnlySession` is about names.
- *A saved profile may take the name of a discovered one.* The candidate of
  `./.env` is named after the directory (`connections.go:70`). A saved profile of
  that name for another file, or one called `demo` with `--demo`, ends the program
  in `app.New`. So does, with `--docker`, one that is named like a candidate of
  Docker. `CandidatesNeverClash` says that these are the only cases.
- *The error of a call is dropped with its stale snapshot* (`model.go:177`) when
  an event of a later operation was handled first.
- *A narrow screen may show the structure from beyond its end.* Below 64 columns
  the list takes the whole width while it has the focus, and `clamp` (`model.go:458`)
  counts the lines of the structure in a grid of one cell, of which there are more
  than will be drawn. The palette's filter and clear-filter commands move the focus
  to the grid and return before `clamp` (`modal.go:378`), and the structure then
  begins below its last screenful, until the next key that scrolls, a resize or a
  snapshot. `SelectionShown` says that no other step leads there.
- *Cursors are indices.* The inspector stays open when a reload puts another row
  at the same offset, and the cursor of the sidebar may point to another table
  when the list changes while the table does not.

## Plan

Done: the core (`App`, `WriteApproval`, `Feed`, `AppInv`, `AppProofs`,
`ScreenProofs`), the profile file (`Registry`, `ProfileStore`, `ProfileProofs`),
the interface (`Tui`, `TuiProofs`, `Viewport`, `ViewportProofs`), control
(`ControlServer`, `ControlClient`, `ControlProofs`), the stores (`Rows`,
`MySQLStore`, `DemoStore`, `Paging`, `PagingProofs`) and the start (`Startup`,
`StartupProofs`).

To extend the model:

1. `parseAction` against `validateAction`: that the server accepts every
   request the command line builds.
2. The states of the scanner in `validateQuery`, against a reference definition
   of what is a comment or a literal.
3. The list modals, with the fuzzy order of the pickers, and
   `followForeignKey` in the interface.
4. A composition of `ControlServer` with the end of `run`: `server.Close`, then
   `app.Close`, with the connect of the start still under way.

To prove more: that the App of `Tui` has every behaviour of `Feed`, and with it
that the interface over the whole `App` is one over `Tui`'s; and the same contract
between `App` and `ControlServer`, whose requests end when operations do.
