------------------------------ MODULE Startup -------------------------------
(***************************************************************************)
(* cmd/relvo and internal/connections: the profiles a session offers, from *)
(* the saved ones, the flags, the project's .env and Docker Compose, and   *)
(* what a profile is resolved to when it is connected.  The .env may be    *)
(* edited at any time.                                                     *)
(***************************************************************************)
EXTENDS Integers, Sequences, SequencesExt

CONSTANTS
    Contents,       \* what may be in .env: functions from variables, or Unreadable
    Saved,          \* lists of profiles that Load may return
    Explicit,       \* profiles that flags may describe, or Nothing
    Secrets,        \* values of the process variable of PasswordEnv, or Nothing
    Published,      \* lists of publishers that Compose may answer with
    Project,        \* the project's .env, and the name of its profile
    Seeded,         \* the name of the profile of --demo
    MySQL,          \* DB_CONNECTION of a database relvo can open
    Loopback, AnyAddress,   \* 127.0.0.1; the addresses that mean all of them
    MaxPort,        \* 65535; a port that is not a number is 0
    DefaultPort,    \* 3306
    Unreadable, Empty, Nothing

VARIABLES
    phase,          \* how far run has come
    env,            \* the .env
    flags,          \* options
    offered,        \* profiles, with those of Docker after the others
    named,          \* how many of them do not come from Docker
    probed,         \* how many of these have been probed
    opened          \* what the last connect resolved, or Nothing

(* The address of a publisher. *)
Address(x) ==
    [host |-> IF x.url \in AnyAddress THEN Loopback ELSE x.url, port |-> x.published]

IsProfile(p) ==
    p = [name |-> p.name, envFile |-> p.envFile, mapping |-> p.mapping, config |-> p.config,
         passwordEnv |-> p.passwordEnv, endpoint |-> p.endpoint]

(* Load, the flags and docker compose answer with what they are asked for. *)
ASSUME ListAssumption ==
    /\ \A list \in Saved \cup Published : list \in Seq(Range(list))
    /\ \A list \in Saved : \A i \in DOMAIN list : IsProfile(list[i])
    /\ \A p \in Explicit : p = Nothing \/ IsProfile(p)

(* No port is empty, and an address is not nothing. *)
ASSUME AddressAssumption ==
    /\ Empty \notin 1..MaxPort
    /\ \A list \in Published : \A i \in DOMAIN list : Address(list[i]) # Nothing

vars == <<phase, env, flags, offered, named, probed, opened>>

(* A variable of .env is called like the field that it is for by default. *)
Fields == {"host", "port", "user", "password", "database", "socket", "tls"}

Value(e, v) == IF v \in DOMAIN e THEN e[v] ELSE Empty

Static == [f \in Fields |-> Empty]

-----------------------------------------------------------------------------
(* Resolve *)

(* An environment file is read when a profile has one. *)
FromEnv(p, e) ==
    [f \in Fields |->
        LET v == IF f \in DOMAIN p.mapping THEN p.mapping[f] ELSE f
        IN  IF p.envFile # Nothing /\ v \in DOMAIN e THEN e[v] ELSE p.config[f]]

WithPassword(p, cfg, secret) ==
    IF p.passwordEnv THEN [cfg EXCEPT !.password = secret] ELSE cfg

AtEndpoint(p, cfg) ==
    IF p.endpoint = Nothing THEN cfg
    ELSE [cfg EXCEPT !.host = p.endpoint.host, !.port = p.endpoint.port, !.socket = Empty]

WithPort(cfg) == IF cfg.port = Empty THEN [cfg EXCEPT !.port = DefaultPort] ELSE cfg

Complete(cfg) ==
    /\ cfg.host # Empty \/ cfg.socket # Empty
    /\ cfg.user # Empty /\ cfg.database # Empty

(* Errors in the references; one file stands for every environment file. *)
Unresolvable(p, e, secret) ==
    \/ \E f \in DOMAIN p.mapping : f \notin Fields \/ p.mapping[f] = Empty
    \/ p.envFile = Nothing /\ DOMAIN p.mapping # {}
    \/ p.envFile # Nothing /\ e = Unreadable
    \/ p.envFile # Nothing /\ \E f \in DOMAIN p.mapping : p.mapping[f] \notin DOMAIN e
    \/ p.passwordEnv /\ secret = Nothing

Resolve(p, e, secret) ==
    IF Unresolvable(p, e, secret) THEN Nothing
    ELSE LET cfg == AtEndpoint(p, WithPassword(p, FromEnv(p, e), secret))
         IN  IF Complete(cfg) THEN WithPort(cfg) ELSE Nothing

-----------------------------------------------------------------------------
(* Discovery *)

IsProject(e) ==
    /\ e # Unreadable
    /\ Value(e, "driver") \in {Empty, MySQL}
    /\ Value(e, "driver") # Empty \/ Value(e, "database") # Empty

Discover(e, tls) ==
    IF ~IsProject(e) THEN <<>>
    ELSE << [name |-> Project, envFile |-> Project, mapping |-> <<>>,
             config |-> [Static EXCEPT !.tls = tls], passwordEnv |-> FALSE, endpoint |-> Nothing] >>

Matches(x, cfg) ==
    /\ cfg.host # Empty /\ x.service = cfg.host
    /\ x.target = cfg.port /\ x.tcp /\ x.published \in 1..MaxPort

(* Seeded fault: an address that is published twice is offered twice. *)
EveryEndpoint(ps, cfg) ==
    LET hits == SelectSeq(ps, LAMBDA x : Matches(x, cfg))
    IN  IF cfg.port \in 1..MaxPort THEN [n \in DOMAIN hits |-> Address(hits[n])] ELSE <<>>

(* parseDocker: the addresses at which the service of a config is published. *)
Endpoints(ps, cfg) ==
    LET seen[n \in 0..Len(ps)] ==
            IF n = 0 THEN <<>>
            ELSE IF Matches(ps[n], cfg) /\ Address(ps[n]) \notin Range(seen[n - 1])
                 THEN Append(seen[n - 1], Address(ps[n])) ELSE seen[n - 1]
    IN  IF cfg.port \in 1..MaxPort THEN seen[Len(ps)] ELSE <<>>

DockerName(p, at) == [base |-> p.name, at |-> at]

(* Seeded fault: what was resolved for the probe is kept. *)
Frozen(p, cfg, at) ==
    [p EXCEPT !.name = DockerName(p, at), !.config = cfg, !.envFile = Nothing,
              !.mapping = <<>>, !.passwordEnv = FALSE, !.endpoint = at]

(* A candidate keeps the references of its profile, not what they came to. *)
Candidate(p, cfg, at) == [p EXCEPT !.name = DockerName(p, at), !.endpoint = at]

-----------------------------------------------------------------------------
(* run *)

Init ==
    /\ phase = "load" /\ env \in Contents
    /\ flags = Nothing /\ offered = <<>>
    /\ named = 0 /\ probed = 0
    /\ opened = Nothing

(* The .env of the project, unless it is saved, the flags describe a profile or --demo. *)
Found(profiles, o, e) ==
    IF o.explicit # Nothing THEN <<o.explicit>>
    ELSE IF o.demo \/ \E i \in DOMAIN profiles : profiles[i].envFile = Project THEN <<>>
    ELSE Discover(e, o.tls)

Offer ==
    /\ phase = "load"
    /\ \E profiles \in Saved,
          o \in [explicit : Explicit, demo : BOOLEAN, docker : BOOLEAN, secret : Secrets,
               tls : {Empty, "off"}] :
          /\ flags' = o
          /\ offered' = profiles \o Found(profiles, o, env)
    /\ named' = Len(offered') /\ phase' = "docker"
    /\ UNCHANGED <<env, probed, opened>>

(* docker compose fails as if nothing were published. *)
Probe ==
    /\ phase = "docker" /\ flags.docker /\ probed < named
    /\ LET p == offered[probed + 1]
           cfg == Resolve(p, env, flags.secret)
       IN  \E ps \in Published \cup {<<>>} :
              LET at == IF cfg = Nothing THEN <<>> ELSE Endpoints(ps, cfg)
              IN  offered' = offered \o [n \in DOMAIN at |-> Candidate(p, cfg, at[n])]
    /\ probed' = probed + 1
    /\ UNCHANGED <<phase, env, flags, named, opened>>

Demo == [name |-> Seeded, envFile |-> Nothing, mapping |-> <<>>, passwordEnv |-> FALSE,
         endpoint |-> Nothing,
         config |-> [Static EXCEPT !.host = "demo", !.user = "demo", !.database = "demo"]]

Distinct(profiles) ==
    \A i, j \in DOMAIN profiles : i # j => profiles[i].name # profiles[j].name

(* app.New adds the profiles in turn; a name that is taken ends the program. *)
New ==
    /\ phase = "docker" /\ (flags.docker => probed = named)
    /\ offered' = offered \o (IF flags.demo THEN <<Demo>> ELSE <<>>)
    /\ phase' = IF Distinct(offered') THEN "running" ELSE "failed"
    /\ UNCHANGED <<env, flags, named, probed, opened>>

(* connectProfile resolves the profile again. *)
Connect ==
    /\ phase = "running"
    /\ \E i \in DOMAIN offered :
          LET cfg == Resolve(offered[i], env, flags.secret)
          IN  /\ cfg # Nothing
              /\ opened' = [profile |-> offered[i], config |-> cfg, env |-> env]
    /\ UNCHANGED <<phase, env, flags, offered, named, probed>>

Edit ==
    /\ env' \in Contents
    /\ UNCHANGED <<phase, flags, offered, named, probed, opened>>

Next == Offer \/ Probe \/ New \/ Connect \/ Edit

Spec == Init /\ [][Next]_vars

-----------------------------------------------------------------------------
(* Properties *)

FromDocker == {i \in DOMAIN offered : i \in (named + 1)..Len(offered) /\ offered[i] # Demo}

(***************************************************************************)
(* A candidate of Docker is connected with the user, password, database    *)
(* and TLS that its profile has at that time in a .env edited since, and   *)
(* at the published address, over TCP (docs/architecture.md, Endpoint).    *)
(***************************************************************************)
CandidatesFollowEnv ==
    \A i \in FromDocker, j \in 1..named :
        opened # Nothing /\ opened.profile = offered[i] /\ offered[j].name = offered[i].name.base =>
            LET now == Resolve(offered[j], opened.env, flags.secret)
            IN  /\ \/ now = Nothing
                   \/ \A f \in {"user", "password", "database", "tls"} : opened.config[f] = now[f]
                /\ opened.config.socket = Empty
                /\ [host |-> opened.config.host, port |-> opened.config.port] = offered[i].name.at

(* What would be offered without Docker. *)
Own == SubSeq(offered, 1, named) \o (IF flags.demo THEN <<Demo>> ELSE <<>>)

(***************************************************************************)
(* Candidates of Docker never keep a session from starting by themselves:  *)
(* their names are distinct, though a port is published for several        *)
(* addresses that are one to the user (parseDocker, New, AddProfile).  It  *)
(* takes two profiles of one name or one that is called like a candidate.  *)
(***************************************************************************)
CandidatesNeverClash ==
    phase = "failed" =>
        \/ ~Distinct(Own)
        \/ \E i \in FromDocker, j \in DOMAIN Own : Own[j].name = offered[i].name
=============================================================================
