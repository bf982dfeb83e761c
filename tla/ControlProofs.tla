---------------------------- MODULE ControlProofs ----------------------------
(***************************************************************************)
(* Proofs about ControlServer and ControlClient, for any number of         *)
(* processes, connections, files and invocations: a session that is up     *)
(* owns its socket path, no request outlives Close, the invocations add    *)
(* nothing to what sessions may do, and each acts once or not at all, on   *)
(* the session it has to.                                                  *)
(***************************************************************************)
EXTENDS ControlClient, TLAPS, FiniteSetTheorems

-----------------------------------------------------------------------------
(* Sessions: ControlServer *)

(* Stages in which the socket that a process has bound is at the path. *)
Bound == {"bound", "identified", "up", "closing", "compare", "remove"}

SocketTypes ==
    /\ session \in [Processes -> Names]
    /\ path \in [Names -> Inodes \cup {Nothing}]
    /\ life \in [Processes -> Stages]
    /\ inode \in [Processes -> Inodes \cup {Nothing}]

SocketOwned ==
    /\ \A p \in Processes : life[p] \in Bound => Socket(p) = inode[p] /\ Socket(p) # Nothing
    /\ \A p, q \in Processes :
          life[p] \in Bound /\ life[q] \in Bound /\ session[p] = session[q] => p = q

SocketInvariant == SocketTypes /\ SocketOwned

RequestTypes ==
    /\ life \in [Processes -> Stages]
    /\ acceptor \in [Processes -> Conns \cup {"idle", "listening", "over"}]
    /\ counted \in [Processes -> SUBSET (Conns \cup {"accept"})]
    /\ at \in [Conns -> Points]
    /\ server \in [Conns -> Processes \cup {Nothing}]

(* A connection that was accepted and not registered is the acceptor's. *)
AcceptedOK ==
    /\ \A p \in Processes :
          acceptor[p] \in Conns => at[acceptor[p]] = "accepted" /\ server[acceptor[p]] = p
    /\ \A c \in Conns : at[c] = "accepted" => acceptor[server[c]] = c

(* A connection waits only for an open listener. *)
QueuedOK ==
    /\ \A c \in Conns : at[c] = "queued" => Open(server[c])
    /\ \A c \in Conns : at[c] = "none" <=> server[c] = Nothing

(* Before Start has succeeded no goroutine runs, and after Close none. *)
IdleOK ==
    /\ \A p \in Processes : life[p] \in {"off", "absent", "bound", "identified"}
                               => acceptor[p] = "idle" /\ counted[p] = {}
    /\ \A p \in Processes : life[p] \in {"compare", "remove", "closed", "over"}
                               => counted[p] = {}
    /\ \A c \in Conns : server[c] # Nothing => life[server[c]] \notin {"off", "absent"}

RequestInvariant ==
    RequestTypes /\ AcceptedOK /\ QueuedOK /\ IdleOK /\ WaitGroupExact

-----------------------------------------------------------------------------
(* The socket path *)

LEMMA SocketInit == Init => SocketInvariant
BY NothingAssumption DEF Init, SocketInvariant, SocketTypes, SocketOwned, Stages, Bound

LEMMA SocketStep ==
  ASSUME SocketInvariant, [Next]_vars PROVE SocketInvariant'
<1> USE DEF SocketInvariant, SocketTypes, Socket
<1>1. CASE \E p \in Processes : Bind(p)
  <2> PICK p \in Processes : Bind(p) BY <1>1
  <2>1. PICK i \in Inodes : /\ path' = [path EXCEPT ![session[p]] = i]
                            /\ inode' = [inode EXCEPT ![p] = i]
                            /\ session' = session
    BY DEF Bind
  <2>2. path[session[p]] = Nothing /\ life[p] = "absent" /\ life' = [life EXCEPT ![p] = "bound"]
    BY DEF Bind, Bindable, Enter
  <2>3. \A q \in Processes : session[q] = session[p] => life[q] \notin Bound BY <2>2 DEF SocketOwned
  <2>4. SocketTypes' BY <2>1, <2>2 DEF Stages
  <2>5. SocketOwned'
    BY <2>1, <2>2, <2>3, NothingAssumption DEF SocketOwned, Bound
  <2> QED BY <2>4, <2>5
<1>2. CASE \E p \in Processes : Remove(p)
  <2> PICK p \in Processes : Remove(p) BY <1>2
  <2>1. /\ life[p] = "remove" /\ path' = [path EXCEPT ![session[p]] = Nothing]
        /\ inode' = inode /\ session' = session
        /\ life' = [life EXCEPT ![p] = "closed"]
    BY DEF Remove, Enter
  <2>2. \A q \in Processes : q # p /\ session[q] = session[p] => life[q] \notin Bound
    BY <2>1 DEF SocketOwned, Bound
  <2> QED BY <2>1, <2>2 DEF SocketOwned, Bound, Stages
<1>3. CASE \E n \in Names : RemoveByHand(n)
  <2> PICK n \in Names : RemoveByHand(n) BY <1>3
  <2>1. \A p \in Processes : session[p] = n => life[p] \notin Bound
    BY DEF RemoveByHand, SocketOwned, Running, Bound
  <2> QED BY <2>1 DEF RemoveByHand, SocketOwned
<1>4. CASE \E p \in Processes : \/ Look(p) \/ BindFails(p) \/ Identify(p)
                                \/ IdentifyFails(p) \/ Serving(p) \/ CloseBegins(p)
                                \/ Wait(p) \/ Compare(p) \/ Exit(p) \/ Crash(p)
  <2> PICK p \in Processes : \/ Look(p) \/ BindFails(p) \/ Identify(p) \/ IdentifyFails(p)
                             \/ Serving(p) \/ CloseBegins(p) \/ Wait(p) \/ Compare(p)
                             \/ Exit(p) \/ Crash(p)
    BY <1>4
  <2>1. UNCHANGED <<session, path, inode>>
    BY DEF Look, BindFails, Identify, IdentifyFails, Serving, CloseBegins, Wait, Compare,
           Exit, Crash, files
  <2>2. \E s \in Stages : life' = [life EXCEPT ![p] = s] /\ (s \in Bound => life[p] \in Bound)
    BY DEF Look, BindFails, Identify, IdentifyFails, Serving, CloseBegins, Wait, Compare,
           Exit, Crash, Enter, Stages, Bound
  <2> QED BY <2>1, <2>2 DEF SocketOwned
<1>5. CASE \/ UNCHANGED vars
           \/ \E c \in Conns : Course(c) \/ Ending(c) \/ \E p \in Processes : Accept(p, c)
           \/ \E p \in Processes : Looping(p)
  <2>1. UNCHANGED <<session, path, inode, life>>
    BY <1>5 DEF vars, files, Course, Ending, Looping, Connect, Request, Answer, Deadline,
                NoRequest, Leave, Done, Accept, AcceptFails, Register, TurnAway
  <2> QED BY <2>1 DEF SocketOwned
<1> QED BY <1>1, <1>2, <1>3, <1>4, <1>5 DEF Next, Starting, Closing

(***************************************************************************)
(* A session that is up is reachable under its name, whatever the other    *)
(* processes of that name do.                                              *)
(***************************************************************************)
THEOREM Reachable == Spec => []SessionReachable
<1>1. SocketInvariant => SessionReachable
  BY DEF SocketInvariant, SocketOwned, SessionReachable, Bound, Socket
<1>2. SocketInvariant /\ [Next]_vars => SocketInvariant' BY SocketStep
<1> QED BY <1>1, <1>2, SocketInit, PTL DEF Spec

-----------------------------------------------------------------------------
(* Requests *)

LEMMA RequestInit == Init => RequestInvariant
<1> SUFFICES ASSUME Init PROVE RequestInvariant OBVIOUS
<1> USE DEF Init
<1>1. RequestTypes BY DEF RequestTypes, Stages, Points
<1>2. AcceptedOK BY ConnsAssumption DEF AcceptedOK
<1>3. QueuedOK BY DEF QueuedOK
<1>4. IdleOK BY DEF IdleOK
<1>5. WaitGroupExact BY ConnsAssumption DEF WaitGroupExact, Served, Accepting
<1> QED BY <1>1, <1>2, <1>3, <1>4, <1>5 DEF RequestInvariant

(* What the steps that leave the goroutines alone need: only life changes. *)
LEMMA LifeStep ==
  ASSUME RequestInvariant, NEW p \in Processes,
         \/ Look(p) \/ Bind(p) \/ BindFails(p) \/ Identify(p) \/ Wait(p) \/ Compare(p)
         \/ Remove(p) \/ Exit(p)
  PROVE  RequestInvariant'
<1> USE DEF RequestInvariant
<1>a. PICK s \in Stages :
         /\ life' = [life EXCEPT ![p] = s]
         /\ Open(p) => s \in {"bound", "identified", "up"}
         /\ s \in {"off", "absent", "bound", "identified"}
               => life[p] \in {"off", "absent", "bound", "identified"}
         /\ s \in {"compare", "remove", "closed", "over"} => counted[p] = {}
         /\ s \notin {"off"} /\ (s = "absent" => life[p] = "off")
  <2>1. CASE Look(p) BY <2>1 DEF Look, Enter, Stages, Open
  <2>2. CASE Bind(p) BY <2>2 DEF Bind, Enter, Stages, Open
  <2>3. CASE BindFails(p) BY <2>3 DEF BindFails, Enter, Stages, Open, IdleOK
  <2>4. CASE Identify(p) BY <2>4 DEF Identify, Enter, Stages, Open
  <2>5. CASE Wait(p) BY <2>5 DEF Wait, Waited, Enter, Stages, Open
  <2>6. CASE Compare(p) BY <2>6 DEF Compare, Enter, Stages, Open, IdleOK
  <2>7. CASE Remove(p) BY <2>7 DEF Remove, Enter, Stages, Open, IdleOK
  <2>8. CASE Exit(p) BY <2>8 DEF Exit, Enter, Stages, Open, IdleOK
  <2> QED BY <2>1, <2>2, <2>3, <2>4, <2>5, <2>6, <2>7, <2>8
<1>b. UNCHANGED <<acceptor, counted, at, server>>
  BY DEF Look, Bind, BindFails, Identify, Wait, Compare, Remove, Exit, requests
<1>1. RequestTypes' BY <1>a, <1>b DEF RequestTypes
<1>2. AcceptedOK' BY <1>b DEF AcceptedOK
<1>3. QueuedOK' BY <1>a, <1>b DEF QueuedOK, Open, RequestTypes, Points
<1>4. IdleOK'
  <2>1. \A q \in Processes : q # p => life'[q] = life[q] BY <1>a DEF RequestTypes
  <2>2. life'[p] = s BY <1>a DEF RequestTypes
  <2>3. \A c \in Conns : server[c] # Nothing => life'[server[c]] \notin {"off", "absent"}
    <3> SUFFICES ASSUME NEW c \in Conns, server[c] # Nothing
                 PROVE  life'[server[c]] \notin {"off", "absent"}
      OBVIOUS
    <3>1. CASE server[c] = p BY <3>1, <2>2, <1>a DEF IdleOK
    <3>2. CASE server[c] # p BY <3>2, <2>1 DEF IdleOK, RequestTypes
    <3> QED BY <3>1, <3>2
  <2> QED BY <2>1, <2>2, <2>3, <1>a, <1>b DEF IdleOK
<1>5. WaitGroupExact' BY <1>b DEF WaitGroupExact, Served, Accepting
<1> QED BY <1>1, <1>2, <1>3, <1>4, <1>5

(***************************************************************************)
(* Steps that end every connection of one process, or those in its queue.  *)
(***************************************************************************)
LEMMA IdentifyFailsStep ==
  ASSUME RequestInvariant, NEW p \in Processes, IdentifyFails(p) PROVE RequestInvariant'
<1> USE DEF RequestInvariant
<1>a. /\ life[p] = "bound" /\ life' = [life EXCEPT ![p] = "over"]
      /\ at' = [c \in Conns |-> IF server[c] = p THEN "over" ELSE at[c]]
      /\ UNCHANGED <<acceptor, counted, server>>
  BY DEF IdentifyFails, Enter
<1>b. acceptor[p] = "idle" BY <1>a DEF IdleOK
<1>1. RequestTypes' BY <1>a DEF RequestTypes, Stages, Points
<1>2. AcceptedOK' BY <1>a, <1>b, ConnsAssumption DEF AcceptedOK, RequestTypes
<1>3. QueuedOK' BY <1>a, NothingAssumption DEF QueuedOK, Open, RequestTypes
<1>6. Served(p) = {} BY <1>a DEF IdleOK, WaitGroupExact
<1>7. Served(p)' = {} BY <1>a DEF Served, RequestTypes
<1>5. WaitGroupExact'
  <2> SUFFICES ASSUME NEW q \in Processes
               PROVE  (counted[q] = Served(q) \cup (IF Accepting(q) THEN {"accept"} ELSE {}))'
    BY DEF WaitGroupExact
  <2>1. Accepting(q)' <=> Accepting(q) BY <1>a DEF Accepting
  <2>2. CASE q = p BY <2>1, <2>2, <1>6, <1>7, <1>a DEF WaitGroupExact
  <2>3. CASE q # p
    <3>1. Served(q)' = Served(q) BY <2>3, <1>a DEF Served, RequestTypes
    <3> QED BY <2>1, <3>1, <1>a DEF WaitGroupExact
  <2> QED BY <2>2, <2>3
<1>4. IdleOK'
  <2>1. life'[p] = "over" /\ \A q \in Processes : q # p => life'[q] = life[q]
    BY <1>a DEF RequestTypes
  <2>2. acceptor[p] = "idle" /\ counted[p] = {} BY <1>a DEF IdleOK
  <2>3. \A c \in Conns : server[c] # Nothing => server[c] \in Processes
    BY DEF RequestTypes
  <2> QED BY <2>1, <2>2, <2>3, <1>a DEF IdleOK
<1> QED BY <1>1, <1>2, <1>3, <1>4, <1>5

LEMMA ServingStep ==
  ASSUME RequestInvariant, NEW p \in Processes, Serving(p) PROVE RequestInvariant'
<1> USE DEF RequestInvariant
<1>a. /\ life[p] = "identified" /\ life' = [life EXCEPT ![p] = "up"]
      /\ acceptor' = [acceptor EXCEPT ![p] = "listening"]
      /\ counted' = [counted EXCEPT ![p] = {"accept"}]
      /\ UNCHANGED <<at, server>>
  BY DEF Serving, Enter, requests
<1>b. acceptor[p] = "idle" /\ counted[p] = {} BY <1>a DEF IdleOK
<1>1. RequestTypes' BY <1>a DEF RequestTypes, Stages
<1>2. AcceptedOK' BY <1>a, <1>b, ConnsAssumption DEF AcceptedOK, RequestTypes
<1>3. QueuedOK' BY <1>a DEF QueuedOK, Open, RequestTypes
<1>4. IdleOK' BY <1>a, NothingAssumption DEF IdleOK, RequestTypes
<1>5. WaitGroupExact' BY <1>a, <1>b DEF WaitGroupExact, Served, Accepting, RequestTypes
<1> QED BY <1>1, <1>2, <1>3, <1>4, <1>5

LEMMA CloseBeginsStep ==
  ASSUME RequestInvariant, NEW p \in Processes, CloseBegins(p) PROVE RequestInvariant'
<1> USE DEF RequestInvariant
<1>a. /\ life[p] \in {"identified", "up"} /\ life' = [life EXCEPT ![p] = "closing"]
      /\ at' = [c \in Conns |-> IF server[c] = p /\ at[c] = "queued" THEN "over" ELSE at[c]]
      /\ UNCHANGED <<acceptor, counted, server>>
  BY DEF CloseBegins, Enter
<1>1. RequestTypes' BY <1>a DEF RequestTypes, Stages, Points
<1>2. AcceptedOK' BY <1>a DEF AcceptedOK, RequestTypes
<1>3. QueuedOK' BY <1>a DEF QueuedOK, Open, RequestTypes
<1>4. IdleOK' BY <1>a, NothingAssumption DEF IdleOK, RequestTypes
<1>5. WaitGroupExact' BY <1>a DEF WaitGroupExact, Served, Accepting, RequestTypes
<1> QED BY <1>1, <1>2, <1>3, <1>4, <1>5

LEMMA CrashStep ==
  ASSUME RequestInvariant, NEW p \in Processes, Crash(p) PROVE RequestInvariant'
<1> USE DEF RequestInvariant
<1>a. /\ life[p] # "off" /\ life' = [life EXCEPT ![p] = "over"]
      /\ acceptor' = [acceptor EXCEPT ![p] = "over"]
      /\ counted' = [counted EXCEPT ![p] = {}]
      /\ at' = [c \in Conns |-> IF server[c] = p THEN "over" ELSE at[c]]
      /\ server' = server
  BY DEF Crash, Running, Enter
<1>1. RequestTypes' BY <1>a DEF RequestTypes, Stages, Points
<1>2. AcceptedOK' BY <1>a, ConnsAssumption DEF AcceptedOK, RequestTypes
<1>3. QueuedOK' BY <1>a, NothingAssumption DEF QueuedOK, Open, RequestTypes
<1>4. IdleOK' BY <1>a, NothingAssumption DEF IdleOK, RequestTypes
<1>5. WaitGroupExact' BY <1>a, ConnsAssumption DEF WaitGroupExact, Served, Accepting, RequestTypes
<1> QED BY <1>1, <1>2, <1>3, <1>4, <1>5

LEMMA ConnectStep ==
  ASSUME RequestInvariant, NEW c \in Conns, Connect(c) PROVE RequestInvariant'
<1> USE DEF RequestInvariant
<1>a. PICK p \in Processes : Open(p) /\ server' = [server EXCEPT ![c] = p]
  BY DEF Connect
<1>b. /\ at[c] = "none" /\ at' = [at EXCEPT ![c] = "queued"]
      /\ UNCHANGED <<life, acceptor, counted>>
  BY DEF Connect
<1>1. RequestTypes' BY <1>a, <1>b DEF RequestTypes, Points
<1>2. AcceptedOK' BY <1>a, <1>b DEF AcceptedOK, RequestTypes
<1>3. QueuedOK' BY <1>a, <1>b, NothingAssumption DEF QueuedOK, Open, RequestTypes
<1>4. IdleOK' BY <1>a, <1>b DEF IdleOK, Open, RequestTypes
<1>5. WaitGroupExact' BY <1>a, <1>b DEF WaitGroupExact, Served, Accepting, RequestTypes
<1> QED BY <1>1, <1>2, <1>3, <1>4, <1>5

LEMMA AcceptStep ==
  ASSUME RequestInvariant, NEW p \in Processes, NEW c \in Conns, Accept(p, c)
  PROVE  RequestInvariant'
<1> USE DEF RequestInvariant
<1>a. /\ acceptor[p] = "listening" /\ at[c] = "queued" /\ server[c] = p
      /\ acceptor' = [acceptor EXCEPT ![p] = c] /\ at' = [at EXCEPT ![c] = "accepted"]
      /\ UNCHANGED <<life, counted, server>>
  BY DEF Accept
<1>1. RequestTypes' BY <1>a DEF RequestTypes, Points
<1>2. AcceptedOK' BY <1>a, ConnsAssumption DEF AcceptedOK, RequestTypes
<1>3. QueuedOK' BY <1>a DEF QueuedOK, Open, RequestTypes
<1>4. IdleOK' BY <1>a DEF IdleOK, RequestTypes
<1>5. WaitGroupExact' BY <1>a DEF WaitGroupExact, Served, Accepting, RequestTypes
<1> QED BY <1>1, <1>2, <1>3, <1>4, <1>5

LEMMA AcceptFailsStep ==
  ASSUME RequestInvariant, NEW p \in Processes, AcceptFails(p) PROVE RequestInvariant'
<1> USE DEF RequestInvariant
<1>a. /\ acceptor[p] = "listening" /\ acceptor' = [acceptor EXCEPT ![p] = "over"]
      /\ counted' = [counted EXCEPT ![p] = @ \ {"accept"}]
      /\ UNCHANGED <<life, at, server>>
  BY DEF AcceptFails, requests
<1>1. RequestTypes' BY <1>a DEF RequestTypes
<1>2. AcceptedOK' BY <1>a, ConnsAssumption DEF AcceptedOK, RequestTypes
<1>3. QueuedOK' BY <1>a DEF QueuedOK, Open
<1>4. IdleOK' BY <1>a DEF IdleOK, RequestTypes
<1>5. WaitGroupExact' BY <1>a, ConnsAssumption DEF WaitGroupExact, Served, Accepting, RequestTypes
<1> QED BY <1>1, <1>2, <1>3, <1>4, <1>5

LEMMA RegisterStep ==
  ASSUME RequestInvariant, NEW p \in Processes, Register(p) PROVE RequestInvariant'
<1> USE DEF RequestInvariant
<1> DEFINE c == acceptor[p]
<1>a. /\ c \in Conns /\ ~Closed(p) /\ at' = [at EXCEPT ![c] = "reading"]
      /\ counted' = [counted EXCEPT ![p] = counted[p] \cup {c}]
      /\ acceptor' = [acceptor EXCEPT ![p] = "listening"]
      /\ UNCHANGED <<life, server>>
  BY DEF Register, Counting
<1>b. at[c] = "accepted" /\ server[c] = p BY <1>a DEF AcceptedOK
<1> HIDE DEF c
<1>1. RequestTypes' BY <1>a DEF RequestTypes, Points
<1>2. AcceptedOK' BY <1>a, <1>b, ConnsAssumption DEF AcceptedOK, RequestTypes, c
<1>3. QueuedOK' BY <1>a, <1>b DEF QueuedOK, Open, RequestTypes
<1>4. IdleOK' BY <1>a, ConnsAssumption DEF IdleOK, RequestTypes, Closed, c
<1>5. WaitGroupExact' BY <1>a, <1>b DEF WaitGroupExact, Served, Accepting, RequestTypes, c
<1> QED BY <1>1, <1>2, <1>3, <1>4, <1>5

LEMMA TurnAwayStep ==
  ASSUME RequestInvariant, NEW p \in Processes, TurnAway(p) PROVE RequestInvariant'
<1> USE DEF RequestInvariant
<1> DEFINE c == acceptor[p]
<1>a. /\ c \in Conns /\ at' = [at EXCEPT ![c] = "over"]
      /\ counted' = [counted EXCEPT ![p] = counted[p] \ {"accept"}]
      /\ acceptor' = [acceptor EXCEPT ![p] = "over"]
      /\ UNCHANGED <<life, server>>
  BY DEF TurnAway, Uncounted
<1>b. at[c] = "accepted" /\ server[c] = p BY <1>a DEF AcceptedOK
<1> HIDE DEF c
<1>1. RequestTypes' BY <1>a DEF RequestTypes, Points
<1>2. AcceptedOK' BY <1>a, <1>b, ConnsAssumption DEF AcceptedOK, RequestTypes, c
<1>3. QueuedOK' BY <1>a, <1>b DEF QueuedOK, Open, RequestTypes
<1>4. IdleOK' BY <1>a, ConnsAssumption DEF IdleOK, RequestTypes, Closed, c
<1>5. WaitGroupExact'
  BY <1>a, <1>b, ConnsAssumption DEF WaitGroupExact, Served, Accepting, RequestTypes, c
<1> QED BY <1>1, <1>2, <1>3, <1>4, <1>5

(* Steps of a request that do not end it. *)
LEMMA CourseStep ==
  ASSUME RequestInvariant, NEW c \in Conns,
         Request(c) \/ Answer(c) \/ Deadline(c) \/ NoRequest(c) \/ Leave(c)
  PROVE  RequestInvariant'
<1> USE DEF RequestInvariant
<1>a. /\ UNCHANGED <<life, acceptor, counted, server>>
      /\ \/ at' = at
         \/ /\ at[c] \in {"reading", "dispatched", "ending"}
            /\ \E s \in {"dispatched", "ending", "left"} : at' = [at EXCEPT ![c] = s]
  BY DEF Request, Answer, Deadline, NoRequest, Leave
<1>1. RequestTypes' BY <1>a DEF RequestTypes, Points
<1>2. AcceptedOK' BY <1>a DEF AcceptedOK, RequestTypes
<1>3. QueuedOK' BY <1>a DEF QueuedOK, Open, RequestTypes
<1>4. IdleOK' BY <1>a DEF IdleOK
<1>5. WaitGroupExact' BY <1>a DEF WaitGroupExact, Served, Accepting, RequestTypes
<1> QED BY <1>1, <1>2, <1>3, <1>4, <1>5

LEMMA DoneStep ==
  ASSUME RequestInvariant, NEW c \in Conns, Done(c) PROVE RequestInvariant'
<1> USE DEF RequestInvariant
<1>a. /\ at[c] = "left" /\ at' = [at EXCEPT ![c] = "over"]
      /\ counted' = [counted EXCEPT ![server[c]] = @ \ {c}]
      /\ UNCHANGED <<life, acceptor, server>>
  BY DEF Done
<1>b. server[c] \in Processes BY <1>a DEF QueuedOK, RequestTypes
<1>1. RequestTypes' BY <1>a DEF RequestTypes, Points
<1>2. AcceptedOK' BY <1>a DEF AcceptedOK, RequestTypes
<1>3. QueuedOK' BY <1>a DEF QueuedOK, Open, RequestTypes
<1>4. IdleOK' BY <1>a DEF IdleOK, RequestTypes
<1>5. WaitGroupExact'
  BY <1>a, <1>b, ConnsAssumption DEF WaitGroupExact, Served, Accepting, RequestTypes
<1> QED BY <1>1, <1>2, <1>3, <1>4, <1>5

LEMMA RequestStep ==
  ASSUME RequestInvariant, [Next]_vars PROVE RequestInvariant'
<1>1. CASE UNCHANGED vars \/ \E n \in Names : RemoveByHand(n)
  BY <1>1 DEF RequestInvariant, RequestTypes, AcceptedOK, QueuedOK, Open, IdleOK,
              WaitGroupExact, Served, Accepting, RemoveByHand, vars, requests
<1>2. CASE \E p \in Processes : Starting(p) \/ Closing(p)
  BY <1>2, LifeStep, IdentifyFailsStep, ServingStep DEF Starting, Closing
<1>3. CASE \E p \in Processes : Looping(p) \/ CloseBegins(p) \/ Crash(p)
  BY <1>3, AcceptFailsStep, RegisterStep, TurnAwayStep, CloseBeginsStep, CrashStep DEF Looping
<1>4. CASE \E p \in Processes, c \in Conns : Accept(p, c) BY <1>4, AcceptStep
<1>5. CASE \E c \in Conns : Course(c) \/ Ending(c)
  BY <1>5, ConnectStep, CourseStep, DoneStep DEF Course, Ending
<1> QED BY <1>1, <1>2, <1>3, <1>4, <1>5 DEF Next

(***************************************************************************)
(* The wait group is exact, and so no request outlives Close, for any      *)
(* number of clients and whenever they connect.                            *)
(***************************************************************************)
THEOREM CloseWaits == Spec => []WaitGroupExact /\ []NothingAfterClose
<1>1. RequestInvariant => WaitGroupExact BY DEF RequestInvariant
<1>2. RequestInvariant => NothingAfterClose
  <2> SUFFICES ASSUME RequestInvariant, NEW c \in Conns, server[c] # Nothing, at[c] # "over",
                      life[server[c]] \in {"compare", "remove", "closed", "over"}
               PROVE  FALSE
    BY DEF NothingAfterClose
  <2> USE DEF RequestInvariant
  <2>1. server[c] \in Processes /\ counted[server[c]] = {} BY DEF RequestTypes, IdleOK
  <2>2. Served(server[c]) = {} /\ ~Accepting(server[c])
    BY <2>1, ConnsAssumption DEF WaitGroupExact
  <2>3. at[c] # "queued" BY DEF QueuedOK, Open
  <2>4. at[c] # "accepted" BY <2>2 DEF AcceptedOK, Accepting
  <2>5. at[c] # "none" BY DEF QueuedOK
  <2> QED BY <2>2, <2>3, <2>4, <2>5 DEF Served, RequestTypes, Points
<1>3. RequestInvariant /\ [Next]_vars => RequestInvariant' BY RequestStep
<1> QED BY <1>1, <1>2, <1>3, RequestInit, PTL DEF Spec

-----------------------------------------------------------------------------
(* Types *)

RestTypes ==
    /\ private \subseteq Inodes
    /\ identity \in [Processes -> Inodes \cup {Nothing}]
    /\ late \in [Conns -> BOOLEAN]

LEMMA RestStep ==
  ASSUME SocketTypes, RestTypes, [Next]_vars PROVE RestTypes'
<1> USE DEF RestTypes
<1>1. CASE \E p \in Processes : Identify(p)
  BY <1>1 DEF Identify, SocketTypes, Socket, requests
<1>2. CASE \E c \in Conns : Deadline(c) BY <1>2 DEF Deadline, files
<1>4. CASE \E p \in Processes : Serving(p)
  <2> PICK p \in Processes : Serving(p) BY <1>4
  <2>1. /\ private' = private \cup {Socket(p)} /\ Socket(p) # Nothing
        /\ identity' = identity /\ late' = late
    BY DEF Serving, requests
  <2>2. Socket(p) \in Inodes BY <2>1 DEF Socket, SocketTypes
  <2> QED BY <2>1, <2>2
<1>5. CASE \E p \in Processes : Bind(p)
  <2>1. private' \subseteq private /\ UNCHANGED <<identity, late>>
    BY <1>5 DEF Bind, requests
  <2> QED BY <2>1
<1>3. CASE \/ UNCHANGED vars \/ \E n \in Names : RemoveByHand(n)
           \/ \E p \in Processes : \/ Look(p) \/ BindFails(p) \/ IdentifyFails(p)
                                   \/ CloseBegins(p) \/ Crash(p)
                                   \/ Looping(p) \/ Closing(p) \/ \E c \in Conns : Accept(p, c)
           \/ \E c \in Conns : \/ Connect(c) \/ Request(c) \/ Answer(c) \/ Ending(c)
  <2>1. UNCHANGED <<private, identity, late>>
    BY <1>3 DEF vars, files, requests, RemoveByHand, Look, BindFails, IdentifyFails, CloseBegins,
                Crash, Looping, AcceptFails, Register, TurnAway,
                Closing, Wait, Compare, Remove, Exit, Accept, Connect, Request, Answer,
                Ending, NoRequest, Leave, Done
  <2> QED BY <2>1
<1> QED BY <1>1, <1>2, <1>3, <1>4, <1>5 DEF Next, Starting, Course

(***************************************************************************)
(* Every variable of the server keeps its type.                            *)
(***************************************************************************)
THEOREM TypeCorrect == Spec => []TypeOK
<1>1. Init => RestTypes BY DEF Init, RestTypes
<1>2. SocketInvariant /\ RequestInvariant /\ RestTypes => TypeOK
  BY DEF SocketInvariant, SocketTypes, RequestInvariant, RequestTypes, RestTypes, TypeOK
<1>3. SocketInvariant /\ RestTypes /\ [Next]_vars => RestTypes'
  BY RestStep DEF SocketInvariant
<1> QED BY <1>1, <1>2, <1>3, SocketInit, SocketStep, RequestInit, RequestStep, PTL DEF Spec

-----------------------------------------------------------------------------
(* Invocations: ControlClient *)

ClientStages == {"off", "listing", "look", "dial", "wait", "over"}

ClientTypes ==
    /\ stage \in [Clients -> ClientStages]
    /\ target \in [Clients -> Names \cup {Nothing}]
    /\ probing \in [Clients -> BOOLEAN]
    /\ listed \in [Clients -> SUBSET Names]
    /\ found \in [Clients -> SUBSET (Names \cup {Nothing})]
    /\ link \in [Clients -> Conns \cup {Nothing}]
    /\ report \in [Clients -> {"none", "done", "failed", "unselected"}]
    /\ owner \in [Conns -> Clients \cup {Nothing}]
    /\ action \subseteq Conns
    /\ performed \subseteq action
    /\ reply \in [Conns -> {"none", "result", "error"}]
    /\ at \in [Conns -> Points]
    /\ server \in [Conns -> Processes \cup {Nothing}]

(* A connection that carries an action is that of the call its owner waits for,
   or has waited for. *)
SentOK ==
    \A c \in action :
        /\ at[c] # "none"
        /\ owner[c] \in Clients
        /\ link[owner[c]] = c
        /\ stage[owner[c]] \in {"wait", "over"}
        /\ ~probing[owner[c]]
        /\ report[owner[c]] # "unselected"
        /\ session[server[c]] = target[owner[c]]

WaitOK ==
    \A k \in Clients :
        stage[k] = "wait" /\ ~probing[k] => link[k] \in action /\ owner[link[k]] = k

(* A call follows the choice of a session, and a report ends an invocation. *)
CourseOK ==
    \A k \in Clients :
        /\ stage[k] = "listing" => probing[k]
        /\ report[k] # "none" => stage[k] = "over"
        /\ found[k] # {} /\ ~probing[k] => found[k] = {target[k]}
        /\ stage[k] = "off" => found[k] = {}

(* A result says that the App has acted. *)
AnswerOK ==
    /\ \A c \in Conns : at[c] = "none" => reply[c] = "none"
    /\ \A c \in action : reply[c] = "result" => c \in performed
    /\ \A k \in Clients :
          report[k] = "done" => link[k] \in performed /\ owner[link[k]] = k

ClientInvariant == ClientTypes /\ SentOK /\ WaitOK /\ CourseOK /\ AnswerOK

-----------------------------------------------------------------------------
(* The composition *)

LEMMA ComposedStep ==
  ASSUME [ClientNext]_allVars PROVE [Next]_vars
<1>1. CASE UNCHANGED allVars BY <1>1 DEF allVars
<1>2. CASE \E k \in Clients : Invocation(k)
  <2> PICK k \in Clients : Invocation(k) BY <1>2
  <2>1. CASE Dial(k)
    <3>1. PICK c \in NewConn : Connect(c) BY <2>1 DEF Dial
    <3>2. c \in Conns
      BY <3>1 DEF NewConn, Unmade
    <3> QED BY <3>1, <3>2 DEF Next, Course
  <2>2. CASE ~Dial(k)
    BY <2>2 DEF Invocation, Named, List, Probe, Choose, Interrupt, LookAt, Refused, Answered,
                Unanswered, TimesOut, Unasked
  <2> QED BY <2>1, <2>2
<1>3. CASE Sessions BY <1>3 DEF Sessions, Next
<1>4. CASE \E c \in Conns : ServeClient(c) \/ ServeAny(c)
  BY <1>4 DEF ServeClient, ServeAny, AnswerState, Perform, AnswerAction, CutOff, ReadingDone,
              Next, Course, Ending
<1> QED BY <1>1, <1>2, <1>3, <1>4 DEF ClientNext

(* Whatever invocations do, sessions do what ControlServer says, so that all that
   is proved and checked of them holds beside their clients. *)
THEOREM Composition == ClientSpec => Spec
<1>1. [ClientNext]_allVars => [Next]_vars BY ComposedStep
<1> QED BY <1>1, PTL DEF ClientSpec, Spec

-----------------------------------------------------------------------------
(* Steps of the sessions *)

(* A connection that was made stays with its process, and is not made again. *)
LEMMA MadeOnce ==
  ASSUME ClientTypes, Next
  PROVE  /\ at' \in [Conns -> Points]
         /\ server' \in [Conns -> Processes \cup {Nothing}]
         /\ session' = session
         /\ \A c \in Conns : at[c] # "none" => at'[c] # "none" /\ server'[c] = server[c]
<1> USE DEF ClientTypes, Points
<1>1. CASE \E c \in Conns : Connect(c) BY <1>1 DEF Connect, files
<1>2. CASE \E c \in Conns : Request(c) \/ Answer(c) \/ NoRequest(c) \/ Leave(c) \/ Done(c)
  BY <1>2 DEF Request, Answer, NoRequest, Leave, Done, files, requests
<1>3. CASE \E c \in Conns : Deadline(c) BY <1>3 DEF Deadline, files
<1>4. CASE \E p \in Processes : \/ Look(p) \/ Bind(p) \/ BindFails(p) \/ Identify(p)
                                \/ Serving(p) \/ AcceptFails(p) \/ Closing(p)
  BY <1>4 DEF Look, Bind, BindFails, Identify, Serving, AcceptFails, Closing, Wait, Compare,
              Remove, Exit, files, requests
<1>5. CASE \E p \in Processes : IdentifyFails(p) \/ CloseBegins(p) \/ Crash(p)
  BY <1>5 DEF IdentifyFails, CloseBegins, Crash, files
<1>6. CASE \E p \in Processes : Register(p) \/ TurnAway(p)
  BY <1>6 DEF Register, TurnAway, files
<1>7. CASE \E p \in Processes, c \in Conns : Accept(p, c) BY <1>7 DEF Accept, files
<1>8. CASE \E n \in Names : RemoveByHand(n) BY <1>8 DEF RemoveByHand, requests
<1> QED
  BY <1>1, <1>2, <1>3, <1>4, <1>5, <1>6, <1>7, <1>8
  DEF Next, Starting, Looping, Course, Ending

LEMMA ServeStep ==
  ASSUME ClientInvariant, Next, UNCHANGED clients, UNCHANGED <<owner, action>>,
         performed \subseteq performed', performed' \subseteq action,
         reply' \in [Conns -> {"none", "result", "error"}],
         \A c \in action : reply'[c] = "result" => c \in performed',
         \A c \in Conns : at[c] = "none" => reply'[c] = reply[c]
  PROVE  ClientInvariant'
<1> USE MadeOnce DEF ClientInvariant, clients
<1>1. ClientTypes' BY DEF ClientTypes
<1>2. SentOK' BY DEF SentOK, ClientTypes
<1>3. WaitOK' BY DEF WaitOK
<1>4. CourseOK' BY DEF CourseOK
<1>5. AnswerOK' BY DEF AnswerOK, ClientTypes
<1> QED BY <1>1, <1>2, <1>3, <1>4, <1>5

LEMMA SessionsStep ==
  ASSUME ClientInvariant, Sessions, UNCHANGED clients PROVE ClientInvariant'
<1>1. Next BY DEF Sessions, Next
<1>2. UNCHANGED <<owner, action, reply, performed>> BY DEF Sessions, wires
<1> QED BY <1>1, <1>2, ServeStep DEF ClientInvariant, ClientTypes, AnswerOK

LEMMA ServedStep ==
  ASSUME ClientInvariant, UNCHANGED clients, NEW c \in Conns, ServeClient(c) \/ ServeAny(c)
  PROVE  ClientInvariant'
<1>1. CASE Perform(c)
  <2>1. UNCHANGED vars /\ UNCHANGED <<owner, action, reply>>
        /\ performed' = performed \cup {c} /\ c \in action
    BY <1>1 DEF Perform
  <2>2. UNCHANGED <<at, server, session>> BY <2>1 DEF vars
  <2> USE DEF ClientInvariant, clients
  <2>3. ClientTypes' BY <2>1, <2>2 DEF ClientTypes
  <2>4. SentOK' BY <2>1, <2>2 DEF SentOK
  <2>5. WaitOK' BY <2>1 DEF WaitOK
  <2>6. CourseOK' BY DEF CourseOK
  <2>7. AnswerOK' BY <2>1, <2>2 DEF AnswerOK
  <2> QED BY <2>3, <2>4, <2>5, <2>6, <2>7
<1>2. CASE AnswerState(c)
  <2>1. Next BY <1>2 DEF AnswerState, Next, Ending
  <2>2. /\ UNCHANGED <<owner, action, performed>> /\ c \notin action /\ at[c] = "reading"
        /\ reply' = [reply EXCEPT ![c] = IF ContextDone(c) THEN "none" ELSE "result"]
    BY <1>2 DEF AnswerState, Responds, NoRequest
  <2> QED BY <2>1, <2>2, ServeStep DEF ClientInvariant, ClientTypes, AnswerOK
<1>3. CASE AnswerAction(c)
  <2>1. Next BY <1>3 DEF AnswerAction, Next, Course
  <2>2. /\ UNCHANGED <<owner, action, performed>> /\ at[c] = "dispatched"
        /\ \E r \in Results(c) :
              reply' = [reply EXCEPT ![c] = IF ContextDone(c) THEN "none" ELSE r]
    BY <1>3 DEF AnswerAction, Responds, Answer
  <2>3. PICK r \in {"none", "result", "error"} :
           reply' = [reply EXCEPT ![c] = r] /\ (r = "result" => c \in performed)
    BY <2>2 DEF Results
  <2> QED BY <2>1, <2>2, <2>3, ServeStep DEF ClientInvariant, ClientTypes, AnswerOK
<1>4. CASE (c \in action /\ Request(c) /\ UNCHANGED wires) \/ CutOff(c) \/ ServeAny(c)
  <2>1. Next BY <1>4 DEF CutOff, ReadingDone, ServeAny, Next, Course, Ending
  <2>2. UNCHANGED <<owner, action, reply, performed>> BY <1>4 DEF CutOff, ServeAny, wires
  <2> QED BY <2>1, <2>2, ServeStep DEF ClientInvariant, ClientTypes, AnswerOK
<1> QED BY <1>1, <1>2, <1>3, <1>4 DEF ServeClient

-----------------------------------------------------------------------------
(* Steps of the invocations *)

LEMMA DialStep ==
  ASSUME ClientInvariant, NEW k \in Clients, Dial(k) PROVE ClientInvariant'
<1>1. PICK c \in NewConn : /\ Connect(c)
                           /\ session[server'[c]] = target[k]
                           /\ link' = [link EXCEPT ![k] = c]
                           /\ owner' = [owner EXCEPT ![c] = k]
                           /\ action' = IF probing[k] THEN action ELSE action \cup {c}
  BY DEF Dial
<1>2. /\ stage[k] = "dial" /\ stage' = [stage EXCEPT ![k] = "wait"]
      /\ UNCHANGED <<target, probing, listed, found, report, reply, performed>>
  BY DEF Dial
<1>3. c \in Conns /\ at[c] = "none" BY <1>1 DEF Connect, NewConn, Unmade
<1>4. Next BY <1>1, <1>3 DEF Next, Course
<1>5. at'[c] = "queued" /\ session' = session
  BY <1>1, <1>3 DEF Connect, ClientInvariant, ClientTypes, files
<1>6. c \notin action BY <1>3 DEF ClientInvariant, SentOK
<1>7. \A d \in action : owner[d] # k BY <1>2 DEF ClientInvariant, SentOK
<1> USE DEF ClientInvariant
<1>8. ClientTypes'
  BY <1>1, <1>2, <1>3, <1>4, MadeOnce DEF ClientTypes, ClientStages
<1>9. SentOK'
  <2> SUFFICES ASSUME NEW d \in action' PROVE
        /\ at'[d] # "none"
        /\ owner'[d] \in Clients
        /\ link'[owner'[d]] = d
        /\ stage'[owner'[d]] \in {"wait", "over"}
        /\ ~probing'[owner'[d]]
        /\ report'[owner'[d]] # "unselected"
        /\ session'[server'[d]] = target'[owner'[d]]
    BY DEF SentOK
  <2>1. CASE d = c
    <3>1. ~probing[k] BY <1>1, <1>6, <2>1
    <3>2. report[k] = "none" BY <1>2 DEF CourseOK, ClientTypes
    <3> QED BY <1>1, <1>2, <1>3, <1>5, <2>1, <3>1, <3>2 DEF ClientTypes
  <2>2. CASE d # c
    <3>1. d \in action /\ owner'[d] = owner[d] /\ owner[d] # k
      BY <1>1, <1>3, <1>7, <2>2 DEF ClientTypes
    <3> QED BY <1>1, <1>2, <1>4, <1>5, <3>1, MadeOnce DEF SentOK, ClientTypes
  <2> QED BY <2>1, <2>2
<1>10. WaitOK'
  <2> SUFFICES ASSUME NEW j \in Clients, stage'[j] = "wait", ~probing'[j]
               PROVE  link'[j] \in action' /\ owner'[link'[j]] = j
    BY DEF WaitOK
  <2>1. CASE j = k BY <1>1, <1>2, <1>3, <2>1 DEF ClientTypes
  <2>2. CASE j # k
    <3>1. link'[j] = link[j] /\ link[j] \in action /\ owner[link[j]] = j
      BY <1>1, <1>2, <2>2 DEF WaitOK, ClientTypes
    <3> QED BY <1>1, <1>3, <1>6, <3>1 DEF ClientTypes
  <2> QED BY <2>1, <2>2
<1>11. CourseOK' BY <1>2 DEF CourseOK, ClientTypes
<1>12. AnswerOK'
  <2>1. reply[c] = "none" BY <1>3 DEF AnswerOK
  <2>2. \A j \in Clients : report[j] = "done" => link'[j] = link[j] /\ link[j] # c
    BY <1>1, <1>2, <1>6 DEF AnswerOK, CourseOK, ClientTypes
  <2>3. \A j \in Clients : report[j] = "done" => link'[j] \in performed /\ owner'[link'[j]] = j
    BY <1>1, <2>2 DEF AnswerOK, ClientTypes
  <2>4. \A d \in Conns : at'[d] = "none" => reply[d] = "none"
    BY <1>4, MadeOnce DEF AnswerOK
  <2> QED BY <1>1, <1>2, <2>1, <2>3, <2>4 DEF AnswerOK
<1> QED BY <1>8, <1>9, <1>10, <1>11, <1>12

(* The steps that concern no connection. *)
LEMMA StayStep ==
  ASSUME ClientInvariant, UNCHANGED vars, UNCHANGED wires, NEW k \in Clients, UNCHANGED link,
         ClientTypes', CourseOK',
         \A j \in Clients : j # k => /\ stage'[j] = stage[j] /\ report'[j] = report[j]
                                   /\ probing'[j] = probing[j] /\ target'[j] = target[j],
         stage[k] \in {"off", "listing", "look", "dial"}
            => stage'[k] # "wait" /\ report'[k] # "done",
         stage[k] = "wait" => /\ stage'[k] \in {"listing", "over"}
                              /\ stage'[k] = "listing" => probing[k]
                              /\ report'[k] # "unselected"
                              /\ probing'[k] = probing[k] /\ target'[k] = target[k]
                              /\ report'[k] = "done" => ~probing[k] /\ reply[link[k]] = "result",
         stage[k] # "over"
  PROVE  ClientInvariant'
<1>1. UNCHANGED <<owner, action, reply, performed, at, server, session>> BY DEF vars, wires
<1> USE DEF ClientInvariant
<1>2. SentOK' BY <1>1 DEF SentOK, ClientTypes
<1>3. WaitOK' BY <1>1 DEF WaitOK, ClientTypes, ClientStages
<1>4. AnswerOK' BY <1>1 DEF AnswerOK, WaitOK, CourseOK, ClientTypes, ClientStages
<1> QED BY <1>2, <1>3, <1>4

LEMMA InvocationStep ==
  ASSUME ClientInvariant, NEW k \in Clients, Invocation(k) PROVE ClientInvariant'
<1> USE DEF ClientInvariant
<1>1. CASE Dial(k) BY <1>1, DialStep
<1>2. CASE Named(k) \/ List(k) \/ Probe(k) \/ Choose(k) \/ Interrupt(k)
  <2>1. /\ UNCHANGED vars /\ UNCHANGED wires /\ UNCHANGED <<link, found>>
        /\ stage[k] \in {"off", "listing"}
    BY <1>2 DEF Named, List, Probe, Choose, Interrupt, Unasked
  <2>2. ClientTypes'
    <3>1. CASE Named(k) BY <2>1, <3>1 DEF Named, ClientTypes, ClientStages, vars, wires
    <3>2. CASE List(k) BY <2>1, <3>2 DEF List, ClientTypes, ClientStages, vars, wires
    <3>3. CASE Probe(k) BY <2>1, <3>3 DEF Probe, ClientTypes, ClientStages, vars, wires
    <3>4. CASE Choose(k)
      <4>1. \A n \in found[k] : n \in Names \cup {Nothing} BY DEF ClientTypes
      <4> QED BY <2>1, <3>4, <4>1 DEF Choose, ClientTypes, ClientStages, vars, wires
    <3>5. CASE Interrupt(k) BY <2>1, <3>5 DEF Interrupt, ClientTypes, ClientStages, vars, wires
    <3> QED BY <1>2, <3>1, <3>2, <3>3, <3>4, <3>5
  <2>3. CourseOK'
    BY <1>2, <2>1 DEF Named, List, Probe, Choose, Interrupt, CourseOK, ClientTypes, OneSession
  <2>4. /\ stage'[k] # "wait" /\ report'[k] # "done"
        /\ \A j \in Clients : j # k => /\ stage'[j] = stage[j] /\ report'[j] = report[j]
                                     /\ probing'[j] = probing[j] /\ target'[j] = target[j]
    BY <1>2, <2>1 DEF Named, List, Probe, Choose, Interrupt, CourseOK, ClientTypes
  <2> QED BY <2>1, <2>2, <2>3, <2>4, StayStep
<1>3. CASE \/ stage[k] \in {"look", "dial", "wait"} /\ Fails(k) /\ Unasked
           \/ Answered(k)
  <2>1. /\ UNCHANGED vars /\ UNCHANGED wires /\ UNCHANGED <<link, listed, target, probing>>
        /\ stage[k] \in {"look", "dial", "wait"}
        /\ stage' = [stage EXCEPT ![k] = IF probing[k] THEN "listing" ELSE "over"]
        /\ \E r \in {"done", "failed"} :
              /\ report' = [report EXCEPT ![k] = IF probing[k] THEN @ ELSE r]
              /\ r = "done" => stage[k] = "wait" /\ reply[link[k]] = "result"
        /\ \/ found' = found
           \/ probing[k] /\ found' = [found EXCEPT ![k] = @ \cup {target[k]}]
    BY <1>3 DEF Answered, Fails, Succeeds, Unasked, ClientTypes
  <2>2. ClientTypes'
    <3>1. target[k] \in Names \cup {Nothing} BY DEF ClientTypes
    <3>2. UNCHANGED <<at, server, owner, action, performed, reply>> BY <2>1 DEF vars, wires
    <3>3. found' \in [Clients -> SUBSET (Names \cup {Nothing})]
      BY <2>1, <3>1 DEF ClientTypes
    <3>4. /\ stage' \in [Clients -> ClientStages]
          /\ report' \in [Clients -> {"none", "done", "failed", "unselected"}]
      BY <2>1 DEF ClientTypes, ClientStages
    <3> QED BY <2>1, <3>2, <3>3, <3>4 DEF ClientTypes
  <2>3. CourseOK' BY <2>1 DEF CourseOK, ClientTypes
  <2>4. report[k] = "none" BY <2>1 DEF CourseOK, ClientTypes
  <2> QED BY <2>1, <2>2, <2>3, <2>4, StayStep DEF ClientTypes
<1>4. CASE LookAt(k) /\ stage' = [stage EXCEPT ![k] = "dial"]
  <2>1. /\ UNCHANGED vars /\ UNCHANGED wires /\ stage[k] = "look"
        /\ UNCHANGED <<target, probing, listed, found, link, report>>
    BY <1>4 DEF LookAt, Fails, Unasked, ClientTypes
  <2>2. ClientTypes' BY <1>4, <2>1 DEF ClientTypes, ClientStages, vars, wires
  <2>3. CourseOK' BY <1>4, <2>1 DEF CourseOK, ClientTypes
  <2>4. report[k] = "none" BY <2>1 DEF CourseOK, ClientTypes
  <2> QED BY <1>4, <2>1, <2>2, <2>3, <2>4, StayStep DEF ClientTypes
<1>5. LookAt(k) =>
        \/ stage' = [stage EXCEPT ![k] = "dial"]
        \/ stage[k] \in {"look", "dial", "wait"} /\ Fails(k) /\ Unasked
  BY DEF LookAt
<1>6. Refused(k) \/ Unanswered(k) \/ TimesOut(k) =>
        stage[k] \in {"look", "dial", "wait"} /\ Fails(k) /\ Unasked
  BY DEF Refused, Unanswered, TimesOut, GivesUp
<1> QED BY <1>1, <1>2, <1>3, <1>4, <1>5, <1>6 DEF Invocation

LEMMA ClientStep ==
  ASSUME ClientInvariant, [ClientNext]_allVars PROVE ClientInvariant'
<1>1. CASE UNCHANGED allVars
  BY <1>1
  DEF allVars, vars, clients, wires, ClientInvariant, ClientTypes, SentOK, WaitOK, CourseOK,
      AnswerOK
<1>2. CASE \E k \in Clients : Invocation(k) BY <1>2, InvocationStep
<1>3. CASE Sessions /\ UNCHANGED clients BY <1>3, SessionsStep
<1>4. CASE (\E c \in Conns : ServeClient(c) \/ ServeAny(c)) /\ UNCHANGED clients
  BY <1>4, ServedStep
<1> QED BY <1>1, <1>2, <1>3, <1>4 DEF ClientNext

LEMMA ClientStart == Init /\ ClientInit => ClientInvariant
BY DEF Init, ClientInit, ClientInvariant, ClientTypes, ClientStages, Points, SentOK, WaitOK,
       CourseOK, AnswerOK

-----------------------------------------------------------------------------
(* An invocation acts once or not at all, and what it reports is true. *)
THEOREM AtMostOnce == ClientSpec => []ActsAtMostOnce
<1>1. ASSUME ClientInvariant PROVE ActsAtMostOnce
  <2> SUFFICES ASSUME NEW k \in Clients
               PROVE  /\ Cardinality(PerformedFor(k)) =< 1
                      /\ report[k] = "done" => Cardinality(PerformedFor(k)) = 1
                      /\ report[k] = "unselected" => PerformedFor(k) = {}
    BY DEF ActsAtMostOnce
  <2> USE <1>1 DEF ClientInvariant
  <2>1. \A c \in PerformedFor(k) : c = link[k] /\ report[k] # "unselected"
    BY DEF PerformedFor, SentOK, ClientTypes
  <2>2. PerformedFor(k) = {} \/ PerformedFor(k) = {link[k]} BY <2>1
  <2>3. Cardinality({}) = 0 /\ Cardinality({link[k]}) = 1 BY FS_EmptySet, FS_Singleton
  <2>4. report[k] = "done" => PerformedFor(k) = {link[k]}
    BY <2>1 DEF PerformedFor, AnswerOK
  <2> QED BY <2>1, <2>2, <2>3, <2>4
<1>2. ClientInvariant /\ [ClientNext]_allVars => ClientInvariant' BY ClientStep
<1> QED BY <1>1, <1>2, ClientStart, PTL DEF ClientSpec

(* Without --session, the session acted on is the only one that answered. *)
THEOREM OnlySession == ClientSpec => []ActsOnTheOnlySession
<1>1. ClientInvariant => ActsOnTheOnlySession
  BY DEF ClientInvariant, ActsOnTheOnlySession, SentOK, CourseOK
<1>2. ClientInvariant /\ [ClientNext]_allVars => ClientInvariant' BY ClientStep
<1> QED BY <1>1, <1>2, ClientStart, PTL DEF ClientSpec
=============================================================================
