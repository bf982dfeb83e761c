---------------------------- MODULE ControlClient ----------------------------
(***************************************************************************)
(* internal/control, cli.go and the answers of server.go: invocations of   *)
(* relvo ctl, composed with the sessions of ControlServer, whose other     *)
(* connections are left to the runs of that module.                        *)
(*                                                                         *)
(* An invocation names a session or looks for the only one that answers.   *)
(* Each call makes one connection: it looks at the socket, dials, sends    *)
(* one request and waits for one response, the loss of the connection or   *)
(* its timer.  What is sent and answered is reduced to whether it is an    *)
(* action, whether the App performs it, and whether a result, an error or  *)
(* nothing comes back; a command whose words or flags are wrong ends       *)
(* before anything is read or sent.                                        *)
(***************************************************************************)
EXTENDS ControlServer

CONSTANTS
    Clients     \* invocations of relvo ctl

ASSUME ClientsAssumption == Nothing \notin Clients \cup Names

VARIABLES
    stage,      \* where each invocation is
    target,     \* the session that a call is made to
    probing,    \* the call is the probe of listSessions
    listed,     \* sessions still to be probed
    found,      \* sessions that answered their probe
    link,       \* the connection of the call
    report,     \* what the invocation printed
    owner,      \* the invocation that made a connection
    action,     \* connections that carry an action, and not state
    reply,      \* what came back on a connection
    performed   \* connections whose action the App has performed

clients == <<stage, target, probing, listed, found, link, report>>
wires == <<owner, action, reply, performed>>
allVars == <<vars, clients, wires>>

ClientInit ==
    /\ stage = [k \in Clients |-> "off"]
    /\ target = [k \in Clients |-> Nothing]
    /\ probing = [k \in Clients |-> FALSE]
    /\ listed = [k \in Clients |-> {}]
    /\ found = [k \in Clients |-> {}]
    /\ link = [k \in Clients |-> Nothing]
    /\ report = [k \in Clients |-> "none"]
    /\ owner = [c \in Conns |-> Nothing]
    /\ action = {}
    /\ reply = [c \in Conns |-> "none"]
    /\ performed = {}

Unasked == UNCHANGED vars /\ UNCHANGED wires

-----------------------------------------------------------------------------
(* RunCLI and listSessions *)

(* The call of an action that --session directs. *)
Named(k) ==
    /\ stage[k] = "off"
    /\ \E n \in Names : target' = [target EXCEPT ![k] = n]
    /\ stage' = [stage EXCEPT ![k] = "look"]
    /\ UNCHANGED <<probing, listed, found, link, report>> /\ Unasked

(* The names of the sockets in the runtime directory. *)
List(k) ==
    /\ stage[k] = "off"
    /\ listed' = [listed EXCEPT ![k] = {n \in Names : path[n] # Nothing}]
    /\ probing' = [probing EXCEPT ![k] = TRUE]
    /\ stage' = [stage EXCEPT ![k] = "listing"]
    /\ UNCHANGED <<target, found, link, report>> /\ Unasked

Probe(k) ==
    /\ stage[k] = "listing"
    /\ \E n \in listed[k] : /\ target' = [target EXCEPT ![k] = n]
                            /\ listed' = [listed EXCEPT ![k] = @ \ {n}]
    /\ stage' = [stage EXCEPT ![k] = "look"]
    /\ UNCHANGED <<probing, found, link, report>> /\ Unasked

(* Seeded fault: the first session that answered is taken. *)
AnySession(k) == found[k] # {}

OneSession(k) == \E n \in Names : found[k] = {n}

Choose(k) ==
    /\ stage[k] = "listing" /\ listed[k] = {}
    /\ IF OneSession(k)
       THEN /\ \E n \in found[k] : target' = [target EXCEPT ![k] = n]
            /\ probing' = [probing EXCEPT ![k] = FALSE]
            /\ stage' = [stage EXCEPT ![k] = "look"]
            /\ UNCHANGED report
       ELSE /\ stage' = [stage EXCEPT ![k] = "over"]
            /\ report' = [report EXCEPT ![k] = "unselected"]
            /\ UNCHANGED <<target, probing>>
    /\ UNCHANGED <<listed, found, link>> /\ Unasked

(* ctl is interrupted while it looks for sessions. *)
Interrupt(k) ==
    /\ stage[k] = "listing"
    /\ stage' = [stage EXCEPT ![k] = "over"]
    /\ report' = [report EXCEPT ![k] = "failed"]
    /\ UNCHANGED <<target, probing, listed, found, link>> /\ Unasked

-----------------------------------------------------------------------------
(* call *)

(* A probe that fails passes its session over; another call is the end. *)
Fails(k) ==
    /\ stage' = [stage EXCEPT ![k] = IF probing[k] THEN "listing" ELSE "over"]
    /\ report' = [report EXCEPT ![k] = IF probing[k] THEN @ ELSE "failed"]
    /\ UNCHANGED <<target, probing, listed, found, link>>

Succeeds(k) ==
    /\ stage' = [stage EXCEPT ![k] = IF probing[k] THEN "listing" ELSE "over"]
    /\ report' = [report EXCEPT ![k] = IF probing[k] THEN @ ELSE "done"]
    /\ found' = [found EXCEPT ![k] = IF probing[k] THEN @ \cup {target[k]} ELSE @]
    /\ UNCHANGED <<target, probing, listed, link>>

(* The file has to be a socket of this user with mode 0600. *)
LookAt(k) ==
    /\ stage[k] = "look"
    /\ IF path[target[k]] \in private
       THEN stage' = [stage EXCEPT ![k] = "dial"]
            /\ UNCHANGED <<target, probing, listed, found, link, report>>
       ELSE Fails(k)
    /\ Unasked

(* Connections are alike: the one to be made is taken in a fixed order. *)
Unmade == {c \in Conns : at[c] = "none"}

NewConn == IF Unmade = {} THEN {} ELSE {CHOOSE c \in Unmade : TRUE}

(* Whatever listens at the path by now is dialled, and sent the request. *)
Dial(k) ==
    /\ stage[k] = "dial"
    /\ \E c \in NewConn :
          /\ Connect(c)
          /\ session[server'[c]] = target[k]
          /\ link' = [link EXCEPT ![k] = c]
          /\ owner' = [owner EXCEPT ![c] = k]
          /\ action' = IF probing[k] THEN action ELSE action \cup {c}
    /\ stage' = [stage EXCEPT ![k] = "wait"]
    /\ UNCHANGED <<target, probing, listed, found, report, reply, performed>>

Listening(n) == \E p \in Processes : session[p] = n /\ Open(p) /\ inode[p] = path[n]

Refused(k) == stage[k] = "dial" /\ ~Listening(target[k]) /\ Fails(k) /\ Unasked

Answered(k) ==
    /\ stage[k] = "wait" /\ reply[link[k]] = "result"
    /\ Succeeds(k) /\ Unasked

GivesUp(k) == Fails(k)

(* An error, or the connection is closed without a response. *)
Unanswered(k) ==
    /\ stage[k] = "wait"
    /\ \/ reply[link[k]] = "error"
       \/ reply[link[k]] = "none" /\ at[link[k]] \in {"left", "over"}
    /\ GivesUp(k) /\ Unasked

(* The timer of a probe, or that of a request. *)
TimesOut(k) == stage[k] \in {"dial", "wait"} /\ Fails(k) /\ Unasked

-----------------------------------------------------------------------------
(* What the server makes of a client's request *)

(* Its response is written unless its deadline has cut the connection, or Close. *)
Responds(c, r) == reply' = [reply EXCEPT ![c] = IF ContextDone(c) THEN "none" ELSE r]

(* State is answered by serve itself. *)
AnswerState(c) ==
    /\ c \notin action /\ NoRequest(c) /\ Responds(c, "result")
    /\ UNCHANGED <<owner, action, performed>>

Perform(c) ==
    /\ at[c] = "dispatched" /\ c \in action \ performed
    /\ performed' = performed \cup {c}
    /\ UNCHANGED <<owner, action, reply>> /\ UNCHANGED vars

(* Seeded fault: the answer does not wait for the App. *)
Promised(c) == {"result", "error"}

(* Dispatch may fail before or after the App has changed what it shows. *)
Results(c) == IF c \in performed THEN {"result", "error"} ELSE {"error"}

AnswerAction(c) ==
    /\ Answer(c)
    /\ \E r \in Results(c) : Responds(c, r)
    /\ UNCHANGED <<owner, action, performed>>

(* Reading ends before the line has come. *)
CutOff(c) == ReadingDone(c) /\ UNCHANGED wires

ServeClient(c) ==
    /\ owner[c] # Nothing
    /\ \/ c \in action /\ Request(c) /\ UNCHANGED wires
       \/ AnswerState(c) \/ Perform(c) \/ AnswerAction(c) \/ CutOff(c)

ServeAny(c) == (Deadline(c) \/ Leave(c) \/ Done(c)) /\ UNCHANGED wires

Sessions ==
    /\ \/ \E p \in Processes : \/ Starting(p) \/ Looping(p) \/ CloseBegins(p) \/ Closing(p)
                               \/ Crash(p) \/ \E c \in Conns : Accept(p, c)
       \/ \E n \in Names : RemoveByHand(n)
    /\ UNCHANGED wires

Invocation(k) ==
    \/ Named(k) \/ List(k) \/ Probe(k) \/ Choose(k) \/ Interrupt(k)
    \/ LookAt(k) \/ Dial(k) \/ Refused(k) \/ Answered(k) \/ Unanswered(k) \/ TimesOut(k)

ClientNext ==
    \/ \E k \in Clients : Invocation(k)
    \/ /\ Sessions \/ \E c \in Conns : ServeClient(c) \/ ServeAny(c)
       /\ UNCHANGED clients

ClientSpec == Init /\ ClientInit /\ [][ClientNext]_allVars

-----------------------------------------------------------------------------
(* Properties *)

PerformedFor(k) == {c \in performed : owner[c] = k}

(* An invocation acts once or not at all: what it reports as done was done once,
   and nothing was done by one that found no session to take.  One that fails may
   have acted, and may still act (call of cli.go, serve of server.go). *)
ActsAtMostOnce ==
    \A k \in Clients :
        /\ Cardinality(PerformedFor(k)) =< 1
        /\ report[k] = "done" => Cardinality(PerformedFor(k)) = 1
        /\ report[k] = "unselected" => PerformedFor(k) = {}

(* Without --session an action is sent only to the one session that answered, and
   no other did (docs/control.md). *)
ActsOnTheOnlySession ==
    \A k \in Clients, c \in action :
        owner[c] = k /\ found[k] # {} => found[k] = {session[server[c]]}
=============================================================================
