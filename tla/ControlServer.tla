---------------------------- MODULE ControlServer ----------------------------
(***************************************************************************)
(* internal/control, server.go: Start, Close, the accept loop and the      *)
(* goroutines that serve one request each, for several processes, which    *)
(* may have been given the same session name, hence the same socket path.  *)
(*                                                                         *)
(* A request is abstracted to its course: it may be malformed or late, it  *)
(* reaches the App or not, and the App may answer or keep it until its     *)
(* context is done.  The permissions of the runtime directory are taken to *)
(* be in order.                                                            *)
(***************************************************************************)
EXTENDS Integers, FiniteSets

CONSTANTS
    Processes,  \* relvo processes, each started once
    Names,      \* session names
    Conns,      \* connections, each made once
    Inodes,     \* bounds the socket files that exist at the same time
    Nothing     \* no file, no process

ASSUME NothingAssumption == Nothing \notin Processes \cup Conns \cup Inodes

ASSUME ConnsAssumption == Conns \cap {"idle", "listening", "over", "accept"} = {}

VARIABLES
    session,    \* the name each process was given
    path,       \* the file at the socket path of each name
    private,    \* the socket files that have mode 0600
    life,       \* where each process is between Start and the end
    inode,      \* the socket each process has bound
    identity,   \* Server.identity: the file found after binding
    acceptor,   \* the accept goroutine: idle, listening, over, or a connection
    counted,    \* Server.wg: the goroutines that Close waits for
    at,         \* where each connection is
    server,     \* the process that a connection was made to
    late        \* connections whose deadline is over

vars == <<session, path, private, life, inode, identity, acceptor, counted, at, server, late>>
files == <<session, path, private, inode, identity>>
requests == <<at, server, late>>

Stages == {"off", "absent", "bound", "identified", "up", "closing", "compare", "remove",
           "closed", "over"}
Points == {"none", "queued", "accepted", "reading", "dispatched", "ending", "left", "over"}

Init ==
    /\ session \in [Processes -> Names]
    /\ path = [n \in Names |-> Nothing]
    /\ private = {}
    /\ life = [p \in Processes |-> "off"]
    /\ inode = [p \in Processes |-> Nothing]
    /\ identity = [p \in Processes |-> Nothing]
    /\ acceptor = [p \in Processes |-> "idle"]
    /\ counted = [p \in Processes |-> {}]
    /\ at = [c \in Conns |-> "none"]
    /\ server = [c \in Conns |-> Nothing]
    /\ late = [c \in Conns |-> FALSE]

(* The listener is open from ListenUnix to the critical section of Close. *)
Open(p) == life[p] \in {"bound", "identified", "up"}

(* Server.closed, and at the same time the context of its requests. *)
Closed(p) == life[p] \in {"closing", "compare", "remove", "closed", "over"}

Running(p) == life[p] \notin {"off", "over"}

(* The file at the path of a process. *)
Socket(p) == path[session[p]]

Enter(p, stage) == life' = [life EXCEPT ![p] = stage]

-----------------------------------------------------------------------------
(* Start *)

(* Nothing is at the path; otherwise Start refuses to replace it. *)
Look(p) ==
    /\ life[p] = "off" /\ Socket(p) = Nothing
    /\ Enter(p, "absent")
    /\ UNCHANGED <<files, acceptor, counted, requests>>

(* Seeded fault: a file at the path is removed first. *)
Replaceable(p) == TRUE

(* The kernel refuses to bind a path that exists. *)
Bindable(p) == Socket(p) = Nothing

Fresh(i) == (\A n \in Names : path[n] # i) /\ \A p \in Processes : Open(p) => inode[p] # i

Bind(p) ==
    /\ life[p] = "absent" /\ Bindable(p)
    /\ \E i \in Inodes : /\ Fresh(i)
                         /\ path' = [path EXCEPT ![session[p]] = i]
                         /\ private' = private \ {i}
                         /\ inode' = [inode EXCEPT ![p] = i]
    /\ Enter(p, "bound")
    /\ UNCHANGED <<session, identity, acceptor, counted, requests>>

BindFails(p) ==
    /\ life[p] = "absent"
    /\ Enter(p, "over")
    /\ UNCHANGED <<files, acceptor, counted, requests>>

Identify(p) ==
    /\ life[p] = "bound" /\ Socket(p) # Nothing
    /\ identity' = [identity EXCEPT ![p] = Socket(p)]
    /\ Enter(p, "identified")
    /\ UNCHANGED <<session, path, private, inode, acceptor, counted, requests>>

(* The second Lstat fails: the listener is closed and its file stays. *)
IdentifyFails(p) ==
    /\ life[p] = "bound"
    /\ Enter(p, "over")
    /\ at' = [c \in Conns |-> IF server[c] = p THEN "over" ELSE at[c]]
    /\ UNCHANGED <<files, acceptor, counted, server, late>>

(* The mode is changed, and the accept loop begins. *)
Serving(p) ==
    /\ life[p] = "identified" /\ Socket(p) # Nothing
    /\ private' = private \cup {Socket(p)}
    /\ Enter(p, "up")
    /\ acceptor' = [acceptor EXCEPT ![p] = "listening"]
    /\ counted' = [counted EXCEPT ![p] = {"accept"}]
    /\ UNCHANGED <<session, path, inode, identity, requests>>

-----------------------------------------------------------------------------
(* Connections *)

Connect(c) ==
    /\ at[c] = "none"
    /\ \E p \in Processes : /\ Open(p) /\ inode[p] = Socket(p)
                            /\ server' = [server EXCEPT ![c] = p]
    /\ at' = [at EXCEPT ![c] = "queued"]
    /\ UNCHANGED <<files, life, acceptor, counted, late>>

Accept(p, c) ==
    /\ acceptor[p] = "listening" /\ Open(p) /\ at[c] = "queued" /\ server[c] = p
    /\ acceptor' = [acceptor EXCEPT ![p] = c]
    /\ at' = [at EXCEPT ![c] = "accepted"]
    /\ UNCHANGED <<files, life, counted, server, late>>

AcceptFails(p) ==
    /\ acceptor[p] = "listening" /\ ~Open(p)
    /\ acceptor' = [acceptor EXCEPT ![p] = "over"]
    /\ counted' = [counted EXCEPT ![p] = @ \ {"accept"}]
    /\ UNCHANGED <<files, life, requests>>

(* Seeded fault: the goroutine of a connection is not waited for. *)
NotCounted(p, c) == counted[p]

Counting(p, c) == counted[p] \cup {c}

Register(p) ==
    /\ acceptor[p] \in Conns /\ ~Closed(p)
    /\ at' = [at EXCEPT ![acceptor[p]] = "reading"]
    /\ counted' = [counted EXCEPT ![p] = Counting(p, acceptor[p])]
    /\ acceptor' = [acceptor EXCEPT ![p] = "listening"]
    /\ UNCHANGED <<files, life, server, late>>

(* Seeded fault: the loop ends without wg.Done when the server is closed. *)
StillCounted(p) == counted[p]

Uncounted(p) == counted[p] \ {"accept"}

(* The server was closed between Accept and the lock. *)
TurnAway(p) ==
    /\ acceptor[p] \in Conns /\ Closed(p)
    /\ at' = [at EXCEPT ![acceptor[p]] = "over"]
    /\ acceptor' = [acceptor EXCEPT ![p] = "over"]
    /\ counted' = [counted EXCEPT ![p] = Uncounted(p)]
    /\ UNCHANGED <<files, life, server, late>>

(* A well-formed action goes to the App, under a context that may be done *)
(* already: the deadline or Close may come after the line was read.       *)
Request(c) ==
    /\ at[c] = "reading"
    /\ at' = [at EXCEPT ![c] = "dispatched"]
    /\ UNCHANGED <<files, life, acceptor, counted, server, late>>

(* Malformed, refused, a state or cancel request, at its end, or cut off. *)
NoRequest(c) ==
    /\ at[c] = "reading"
    /\ at' = [at EXCEPT ![c] = "ending"]
    /\ UNCHANGED <<files, life, acceptor, counted, server, late>>

(* Seeded fault: an action has no deadline. *)
CancelledOnly(c) == Closed(server[c])

ContextDone(c) == late[c] \/ Closed(server[c])

(* The App returns: at any time, and in the end when the context is done. *)
Answer(c) ==
    /\ at[c] = "dispatched"
    /\ at' = [at EXCEPT ![c] = "ending"]
    /\ UNCHANGED <<files, life, acceptor, counted, server, late>>

AnswerDone(c) == at[c] = "dispatched" /\ ContextDone(c) /\ Answer(c)

ReadingDone(c) == at[c] = "reading" /\ ContextDone(c) /\ NoRequest(c)

Deadline(c) ==
    /\ at[c] \in {"reading", "dispatched"} /\ ~late[c]
    /\ late' = [late EXCEPT ![c] = TRUE]
    /\ UNCHANGED <<files, life, acceptor, counted, at, server>>

(* The deferred functions: close and unregister, then wg.Done. *)
Leave(c) ==
    /\ at[c] = "ending"
    /\ at' = [at EXCEPT ![c] = "left"]
    /\ UNCHANGED <<files, life, acceptor, counted, server, late>>

Done(c) ==
    /\ at[c] = "left"
    /\ at' = [at EXCEPT ![c] = "over"]
    /\ counted' = [counted EXCEPT ![server[c]] = @ \ {c}]
    /\ UNCHANGED <<files, life, acceptor, server, late>>

-----------------------------------------------------------------------------
(* Close *)

(* One critical section; also called when Start cannot change the mode. *)
CloseBegins(p) ==
    /\ life[p] \in {"identified", "up"}
    /\ Enter(p, "closing")
    /\ at' = [c \in Conns |-> IF server[c] = p /\ at[c] = "queued" THEN "over" ELSE at[c]]
    /\ UNCHANGED <<files, acceptor, counted, server, late>>

Waited(p) == counted[p] = {}

Wait(p) ==
    /\ life[p] = "closing" /\ Waited(p)
    /\ Enter(p, "compare")
    /\ UNCHANGED <<files, acceptor, counted, requests>>

Compare(p) ==
    /\ life[p] = "compare"
    /\ Enter(p, IF Socket(p) = identity[p] THEN "remove" ELSE "closed")
    /\ UNCHANGED <<files, acceptor, counted, requests>>

Remove(p) ==
    /\ life[p] = "remove"
    /\ path' = [path EXCEPT ![session[p]] = Nothing]
    /\ Enter(p, "closed")
    /\ UNCHANGED <<session, private, inode, identity, acceptor, counted, requests>>

(* run then closes the App and ends. *)
Exit(p) ==
    /\ life[p] = "closed"
    /\ Enter(p, "over")
    /\ UNCHANGED <<files, acceptor, counted, requests>>

-----------------------------------------------------------------------------
(* The environment *)

Crash(p) ==
    /\ Running(p)
    /\ Enter(p, "over")
    /\ acceptor' = [acceptor EXCEPT ![p] = "over"]
    /\ counted' = [counted EXCEPT ![p] = {}]
    /\ at' = [c \in Conns |-> IF server[c] = p THEN "over" ELSE at[c]]
    /\ UNCHANGED <<files, server, late>>

(* The user removes the socket of a session that is no longer running. *)
RemoveByHand(n) ==
    /\ path[n] # Nothing
    /\ \A p \in Processes : Running(p) => inode[p] # path[n]
    /\ path' = [path EXCEPT ![n] = Nothing]
    /\ UNCHANGED <<session, private, life, inode, identity, acceptor, counted, requests>>

-----------------------------------------------------------------------------
Starting(p) ==
    Look(p) \/ Bind(p) \/ BindFails(p) \/ Identify(p) \/ IdentifyFails(p) \/ Serving(p)

Looping(p) == AcceptFails(p) \/ Register(p) \/ TurnAway(p)

Closing(p) == Wait(p) \/ Compare(p) \/ Remove(p) \/ Exit(p)

Course(c) == Connect(c) \/ Request(c) \/ Answer(c) \/ Deadline(c)

Ending(c) == NoRequest(c) \/ Leave(c) \/ Done(c)

Next ==
    \/ \E p \in Processes : \/ Starting(p) \/ Looping(p) \/ CloseBegins(p) \/ Closing(p)
                            \/ Crash(p) \/ \E c \in Conns : Accept(p, c)
    \/ \E c \in Conns : Course(c) \/ Ending(c)
    \/ \E n \in Names : RemoveByHand(n)

Spec == Init /\ [][Next]_vars

(* Goroutines run, and clocks; the App returns once a context is done, and *)
(* reading ends at the deadline or when Close has cut the connection.      *)
Fairness ==
    /\ \A p \in Processes : WF_vars(Looping(p)) /\ WF_vars(Closing(p))
    /\ \A c \in Conns : /\ WF_vars(Deadline(c)) /\ WF_vars(AnswerDone(c))
                        /\ WF_vars(ReadingDone(c))
                        /\ WF_vars(Leave(c)) /\ WF_vars(Done(c))

FairSpec == Spec /\ Fairness

-----------------------------------------------------------------------------
(* Properties *)

TypeOK ==
    /\ session \in [Processes -> Names]
    /\ path \in [Names -> Inodes \cup {Nothing}]
    /\ private \subseteq Inodes
    /\ life \in [Processes -> Stages]
    /\ inode \in [Processes -> Inodes \cup {Nothing}]
    /\ identity \in [Processes -> Inodes \cup {Nothing}]
    /\ acceptor \in [Processes -> Conns \cup {"idle", "listening", "over"}]
    /\ counted \in [Processes -> SUBSET (Conns \cup {"accept"})]
    /\ at \in [Conns -> Points]
    /\ server \in [Conns -> Processes \cup {Nothing}]
    /\ late \in [Conns -> BOOLEAN]

(***************************************************************************)
(* The wait group counts the accept loop and the requests being served, no *)
(* more, or Close would not return, and no less.                           *)
(***************************************************************************)
Served(p) == {c \in Conns : /\ server[c] = p
                            /\ at[c] \in {"reading", "dispatched", "ending", "left"}}

Accepting(p) == acceptor[p] \in Conns \cup {"listening"}

WaitGroupExact ==
    \A p \in Processes :
        counted[p] = Served(p) \cup (IF Accepting(p) THEN {"accept"} ELSE {})

(***************************************************************************)
(* A session that is up is reachable under its name: neither another Start *)
(* nor another Close takes its socket away, and so no name has two live    *)
(* sessions (Start refuses to replace a socket).                           *)
(***************************************************************************)
SessionReachable == \A p \in Processes : life[p] = "up" => Socket(p) = inode[p]

(***************************************************************************)
(* When Close has returned no request is in progress, so that run can      *)
(* close the App: none that was accepted at the last moment either.        *)
(***************************************************************************)
NothingAfterClose ==
    \A c \in Conns : server[c] # Nothing /\ at[c] # "over"
                        => life[server[c]] \notin {"compare", "remove", "closed", "over"}

(***************************************************************************)
(* Close returns, whatever clients and the database do.                    *)
(***************************************************************************)
CloseReturns == \A p \in Processes : life[p] = "closing" ~> life[p] = "over"

(***************************************************************************)
(* Every request is over in the end, though its client may say nothing and *)
(* the database may never answer (requestTimeout).                         *)
(***************************************************************************)
RequestsEnd == \A c \in Conns : at[c] \in {"reading", "dispatched"} ~> at[c] = "over"
=============================================================================
