--------------------------- MODULE StartupProofs ----------------------------
(***************************************************************************)
(* Proofs about Startup, for every .env, every list of profiles and every  *)
(* answer of Compose: what a candidate of Docker is connected with, and    *)
(* whose names may clash.  The loop that collects published addresses is a *)
(* recursive function; that it exists and what it collects is proved here. *)
(***************************************************************************)
EXTENDS Startup, TLAPS, WellFoundedInduction

LEMMA LeastNatural ==
  ASSUME NEW S \in SUBSET Nat, S # {}
  PROVE  \E x \in S : \A y \in S : x =< y
<1> DEFINE less == {p \in Nat \X Nat : p[1] < p[2]}
<1>1. IsWellFoundedOn(less, Nat) BY NatLessThanWellFounded DEF OpToRel
<1> HIDE DEF less
<1>2. PICK x \in S : \A y \in S : <<y, x>> \notin less BY <1>1, WFMin
<1>3. ASSUME NEW y \in S PROVE x =< y
  <2>1. <<y, x>> \notin {p \in Nat \X Nat : p[1] < p[2]} BY <1>2 DEF less
  <2>2. ~(y < x) BY <2>1
  <2> QED BY <2>2
<1> QED BY <1>3

LEMMA RangeOf ==
  ASSUME NEW S, NEW s \in Seq(S) PROVE s \in Seq(Range(s))
BY DEF Range

-----------------------------------------------------------------------------
(* The loop of parseDocker *)

(* g is the course of a loop over 1..n that begins with first. *)
Runs(g, n, first, step) ==
    \A k \in 0..n : g[k] = IF k = 0 THEN first ELSE step[<<k, g[k - 1]>>]

(* Loops end: the course of n passes extends to n + 1. *)
LEMMA LoopExists ==
  ASSUME NEW N \in Nat, NEW V, NEW first \in V, NEW step \in [(1..N) \X V -> V]
  PROVE  \E g \in [0..N -> V] : Runs(g, N, first, step)
<1> DEFINE courses(n) == {g \in [0..N -> V] : Runs(g, n, first, step)}
           bad == {n \in 0..N : courses(n) = {}}
<1>1. courses(0) # {}
  <2>1. [k \in 0..N |-> first] \in courses(0) BY DEF Runs
  <2> QED BY <2>1
<1>2. ASSUME NEW n \in 0..(N - 1), courses(n) # {} PROVE courses(n + 1) # {}
  <2>1. PICK g \in [0..N -> V] : Runs(g, n, first, step) BY <1>2
  <2> DEFINE h == [g EXCEPT ![n + 1] = step[<<n + 1, g[n]>>]]
  <2>2. g[n] \in V /\ n + 1 \in 1..N /\ n + 1 \in 0..N BY <2>1
  <2>3. h \in [0..N -> V] BY <2>1, <2>2
  <2>4. ASSUME NEW k \in 0..(n + 1)
        PROVE  h[k] = IF k = 0 THEN first ELSE step[<<k, h[k - 1]>>]
    <3>1. CASE k = n + 1
      <4>1. k # 0 /\ k - 1 = n /\ n # k BY <3>1
      <4>2. h[k] = step[<<k, g[n]>>] BY <2>1, <2>2, <3>1
      <4>3. h[n] = g[n] BY <2>1, <2>2, <3>1, <4>1
      <4> HIDE DEF h
      <4> QED BY <4>1, <4>2, <4>3
    <3>2. CASE k # n + 1
      <4>1. k \in 0..n /\ h[k] = g[k] BY <2>1, <2>2, <3>2
      <4>2. k # 0 => h[k - 1] = g[k - 1] BY <2>1, <2>2, <3>2
      <4> QED BY <2>1, <4>1, <4>2 DEF Runs
    <3> QED BY <3>1, <3>2
  <2>5. h \in courses(n + 1) BY <2>3, <2>4 DEF Runs
  <2> QED BY <2>5
<1>3. bad = {}
  <2>1. SUFFICES ASSUME bad # {} PROVE FALSE OBVIOUS
  <2>2. bad \in SUBSET Nat OBVIOUS
  <2>3. PICK n \in bad : \A k \in bad : n =< k BY <2>1, <2>2, LeastNatural
  <2> HIDE DEF courses
  <2>4. n # 0 /\ n \in Nat BY <1>1, <2>3
  <2>5. n - 1 \in 0..(N - 1) /\ n - 1 \notin bad BY <2>3, <2>4
  <2>6. courses(n - 1) # {} BY <2>5
  <2>7. courses((n - 1) + 1) # {} BY <1>2, <2>5, <2>6
  <2>8. (n - 1) + 1 = n BY <2>4
  <2> QED BY <2>3, <2>7, <2>8
<1>4. courses(N) # {} BY <1>3
<1> QED BY <1>4

(* What holds before the first pass and is kept by each holds after the last. *)
LEMMA LoopStays ==
  ASSUME NEW N \in Nat, NEW V, NEW g, g[0] \in V,
         \A n \in 1..N : g[n - 1] \in V => g[n] \in V
  PROVE  g[N] \in V
<1> DEFINE bad == {n \in 0..N : g[n] \notin V}
<1>1. bad = {}
  <2>1. SUFFICES ASSUME bad # {} PROVE FALSE OBVIOUS
  <2>2. bad \in SUBSET Nat OBVIOUS
  <2>3. PICK n \in bad : \A k \in bad : n =< k BY <2>1, <2>2, LeastNatural
  <2>4. n # 0 BY <2>3
  <2>5. n - 1 \in 0..N /\ n - 1 \notin bad BY <2>3, <2>4
  <2>6. g[n - 1] \in V /\ n \in 1..N BY <2>4, <2>5
  <2> QED BY <2>3, <2>6
<1> QED BY <1>1

IsEndpoint(at) ==
    at # Nothing /\ at.port \in 1..MaxPort /\ at = [host |-> at.host, port |-> at.port]

(* Addresses that may be offered for a publisher of ps, each once. *)
Addresses(ps) ==
    LET all == {Address(ps[k]) : k \in {n \in DOMAIN ps : ps[n].published \in 1..MaxPort}}
    IN  {s \in Seq(all) : \A i, j \in DOMAIN s : i # j => s[i] # s[j]}

(* parseDocker collects published addresses, and none twice. *)
LEMMA EndpointsOnce ==
  ASSUME NEW ps \in Published \cup {<<>>}, NEW cfg
  PROVE  Endpoints(ps, cfg) \in Addresses(ps)
<1> DEFINE N == Len(ps)
           V == Addresses(ps)
           more(n, s) == IF Matches(ps[n], cfg) /\ Address(ps[n]) \notin Range(s)
                         THEN Append(s, Address(ps[n])) ELSE s
           step == [p \in (1..N) \X V |-> more(p[1], p[2])]
           course(g) == g = [n \in 0..N |-> IF n = 0 THEN <<>> ELSE more(n, g[n - 1])]
<1>1. N \in Nat /\ DOMAIN ps = 1..N
  <2>1. CASE ps \in Published
    <3>1. ps \in Seq(Range(ps)) BY <2>1, ListAssumption
    <3> QED BY <3>1
  <2>2. CASE ps = <<>> BY <2>2
  <2> QED BY <2>1, <2>2
<1>2. <<>> \in V BY DEF Addresses
<1>3. ASSUME NEW n \in 1..N, NEW s \in V PROVE more(n, s) \in V
  <2>1. CASE ~(Matches(ps[n], cfg) /\ Address(ps[n]) \notin Range(s)) BY <2>1
  <2>2. CASE Matches(ps[n], cfg) /\ Address(ps[n]) \notin Range(s)
    <3> DEFINE all == {Address(ps[k]) : k \in {i \in DOMAIN ps : ps[i].published \in 1..MaxPort}}
               a == Address(ps[n])
    <3>1. a \in all BY <1>1, <2>2 DEF Matches
    <3>2. s \in Seq(all) /\ \A i, j \in DOMAIN s : i # j => s[i] # s[j] BY DEF Addresses
    <3>3. \A i \in DOMAIN s : s[i] # a BY <2>2 DEF Range
    <3> HIDE DEF all, a
    <3>4. Append(s, a) \in Seq(all) BY <3>1, <3>2
    <3>5. \A i, j \in DOMAIN Append(s, a) : i # j => Append(s, a)[i] # Append(s, a)[j]
      BY <3>2, <3>3
    <3> QED BY <2>2, <3>4, <3>5 DEF Addresses, all, a
  <2> QED BY <2>1, <2>2
<1> HIDE DEF more, V
<1>4. step \in [(1..N) \X V -> V] BY <1>3
<1>5. \E g : course(g)
  <2>1. PICK g \in [0..N -> V] : Runs(g, N, <<>>, step) BY <1>1, <1>2, <1>4, LoopExists
  <2>2. \A n \in 0..N : g[n] = IF n = 0 THEN <<>> ELSE more(n, g[n - 1])
    <3>1. SUFFICES ASSUME NEW n \in 0..N
                   PROVE  g[n] = IF n = 0 THEN <<>> ELSE more(n, g[n - 1])
      OBVIOUS
    <3>2. g[n] = IF n = 0 THEN <<>> ELSE step[<<n, g[n - 1]>>] BY <2>1 DEF Runs
    <3>3. ASSUME n # 0 PROVE <<n, g[n - 1]>> \in (1..N) \X V BY <1>1, <2>1, <3>3
    <3>4. ASSUME n # 0 PROVE step[<<n, g[n - 1]>>] = more(n, g[n - 1]) BY <3>3, <3>4
    <3> QED BY <3>2, <3>4
  <2>3. g = [n \in 0..N |-> g[n]] BY <2>1
  <2>4. g = [n \in 0..N |-> IF n = 0 THEN <<>> ELSE more(n, g[n - 1])] BY <2>2, <2>3
  <2> QED BY <2>4
<1> DEFINE f == CHOOSE g : course(g)
<1>6. course(f) BY <1>5
<1>7. f[0] \in V /\ \A n \in 1..N : f[n] = more(n, f[n - 1])
  <2> HIDE DEF f
  <2>1. \A n \in 0..N : f[n] = IF n = 0 THEN <<>> ELSE more(n, f[n - 1]) BY <1>6
  <2> QED BY <1>1, <1>2, <2>1
<1>8. f[N] \in V
  <2> HIDE DEF f, N
  <2>1. \A n \in 1..N : f[n - 1] \in V => f[n] \in V BY <1>3, <1>7
  <2> QED BY <1>1, <1>7, <2>1, LoopStays
<1>9. Endpoints(ps, cfg) = IF cfg.port \in 1..MaxPort THEN f[N] ELSE <<>>
  BY DEF Endpoints, more
<1> QED BY <1>2, <1>8, <1>9 DEF V

(* What is offered for a publisher has a port and a host. *)
LEMMA AddressTyped ==
  ASSUME NEW ps \in Published \cup {<<>>}, NEW s \in Addresses(ps)
  PROVE  /\ s \in Seq(Range(s))
         /\ \A i \in DOMAIN s : IsEndpoint(s[i])
         /\ \A i, j \in DOMAIN s : i # j => s[i] # s[j]
<1> DEFINE all == {Address(ps[k]) : k \in {n \in DOMAIN ps : ps[n].published \in 1..MaxPort}}
<1>1. s \in Seq(all) /\ \A i, j \in DOMAIN s : i # j => s[i] # s[j] BY DEF Addresses
<1>2. \A i \in DOMAIN s : s[i] \in all BY <1>1
<1>3. ASSUME NEW a \in all PROVE IsEndpoint(a)
  <2>1. PICK k \in DOMAIN ps : a = Address(ps[k]) /\ ps[k].published \in 1..MaxPort BY <1>3
  <2>2. ps \in Published BY <2>1
  <2>3. a # Nothing BY <2>1, <2>2, AddressAssumption
  <2> QED BY <2>1, <2>3 DEF Address, IsEndpoint
<1>4. s \in Seq(Range(s)) BY <1>1, RangeOf
<1> QED BY <1>1, <1>2, <1>3, <1>4

-----------------------------------------------------------------------------
(* The invariant *)

CandidateOf(i, k) ==
    /\ IsEndpoint(offered[i].endpoint)
    /\ offered[i] = Candidate(offered[k], Nothing, offered[i].endpoint)

(* The named profiles come first, then the candidates of those probed, then Demo. *)
Listed ==
    /\ phase \in {"load", "docker", "running", "failed"}
    /\ offered \in Seq(Range(offered)) /\ \A i \in DOMAIN offered : IsProfile(offered[i])
    /\ named \in 0..Len(offered) /\ probed \in 0..named
    /\ phase = "load" => offered = <<>>
    /\ phase \in {"load", "docker"} => FromDocker = (named + 1)..Len(offered)

NamedApart == \A i, j \in 1..named : i # j => offered[i].name # offered[j].name

(* Two candidates are of two profiles or at two addresses. *)
Candidates ==
    /\ \A i \in FromDocker : \E k \in 1..probed : CandidateOf(i, k)
    /\ NamedApart => \A i, j \in FromDocker : i # j => offered[i].name # offered[j].name

Connected ==
    opened # Nothing =>
        /\ phase = "running"
        /\ \E i \in DOMAIN offered : opened.profile = offered[i]
        /\ opened.config = Resolve(opened.profile, opened.env, flags.secret)
        /\ opened.config # Nothing

StartupInvariant ==
    /\ Listed /\ Candidates /\ Connected
    /\ phase = "running" => Distinct(offered)
    /\ CandidatesNeverClash

LEMMA InitListed == ASSUME Init PROVE StartupInvariant
<1>1. FromDocker = {} BY DEF Init, FromDocker
<1>2. offered \in Seq(Range(offered)) BY DEF Init
<1> QED
  BY <1>1, <1>2 DEF Init, StartupInvariant, Listed, Candidates, Connected, NamedApart,
                    CandidatesNeverClash

(* Sequences one after the other. *)
LEMMA Joined ==
  ASSUME NEW s, NEW t, s \in Seq(Range(s)), t \in Seq(Range(t))
  PROVE  /\ s \o t \in Seq(Range(s \o t)) /\ Len(s \o t) = Len(s) + Len(t)
         /\ Len(s) \in Nat /\ Len(t) \in Nat
         /\ \A i \in 1..Len(s) : (s \o t)[i] = s[i]
         /\ \A i \in 1..Len(t) : (s \o t)[Len(s) + i] = t[i]
         /\ DOMAIN s = 1..Len(s) /\ DOMAIN t = 1..Len(t)
         /\ DOMAIN (s \o t) = 1..(Len(s) + Len(t))
<1> DEFINE S == Range(s) \cup Range(t)
<1>1. s \in Seq(S) /\ t \in Seq(S)
  <2> DEFINE R == Range(s)
             Q == Range(t)
  <2> HIDE DEF R, Q
  <2>1. s \in Seq(R) /\ t \in Seq(Q) BY DEF R, Q
  <2> QED BY <2>1 DEF R, Q
<1> HIDE DEF S
<1>2. s \o t \in Seq(S) BY <1>1
<1>3. s \o t \in Seq(Range(s \o t)) BY <1>2, RangeOf
<1> QED BY <1>1, <1>2, <1>3

-----------------------------------------------------------------------------
(* The steps *)

LEMMA OfferKeeps ==
  ASSUME StartupInvariant, Offer PROVE StartupInvariant'
<1>1. PICK list \in Saved, o \in [explicit : Explicit, demo : BOOLEAN, docker : BOOLEAN,
                                secret : Secrets, tls : {Empty, "off"}] :
        flags' = o /\ offered' = list \o Found(list, o, env)
  BY DEF Offer
<1> DEFINE found == Found(list, o, env)
<1>2. list \in Seq(Range(list)) /\ \A i \in DOMAIN list : IsProfile(list[i])
  BY ListAssumption
<1>3. found = <<>> \/ \E p : found = <<p>> /\ IsProfile(p)
  <2>1. CASE o.explicit # Nothing
    <3>1. o.explicit \in Explicit OBVIOUS
    <3>2. IsProfile(o.explicit) BY <2>1, <3>1, ListAssumption
    <3>3. found = <<o.explicit>> BY <2>1 DEF Found
    <3> QED BY <3>2, <3>3
  <2>2. CASE o.explicit = Nothing BY <2>2 DEF Found, Discover, IsProfile
  <2> QED BY <2>1, <2>2
<1> HIDE DEF found
<1>4. found \in Seq(Range(found)) /\ \A i \in DOMAIN found : IsProfile(found[i])
  <2>1. CASE found = <<>> BY <2>1
  <2>2. CASE \E p : found = <<p>> /\ IsProfile(p)
    <3>1. PICK p : found = <<p>> /\ IsProfile(p) BY <2>2
    <3>2. found \in Seq({p}) BY <3>1
    <3>3. found \in Seq(Range(found)) BY <3>2, RangeOf
    <3>4. \A i \in DOMAIN found : found[i] = p BY <3>1
    <3> QED BY <3>1, <3>3, <3>4
  <2> QED BY <1>3, <2>1, <2>2
<1>5. /\ offered' = list \o found /\ named' = Len(offered') /\ phase' = "docker"
      /\ probed' = 0 /\ opened' = opened /\ phase = "load"
  BY <1>1 DEF Offer, StartupInvariant, Listed, found
<1>6. offered' \in Seq(Range(offered')) /\ \A i \in DOMAIN offered' : IsProfile(offered'[i])
  <2>1. ASSUME NEW i \in DOMAIN (list \o found) PROVE IsProfile((list \o found)[i])
    <3>1. CASE i \in 1..Len(list) BY <1>2, <1>4, <3>1, Joined
    <3>2. CASE i \notin 1..Len(list)
      <4>1. i - Len(list) \in 1..Len(found) /\ i = Len(list) + (i - Len(list))
        BY <1>2, <1>4, <3>2, Joined
      <4> QED BY <1>2, <1>4, <4>1, Joined
    <3> QED BY <3>1, <3>2
  <2> QED BY <1>2, <1>4, <1>5, <2>1, Joined
<1>7. Len(offered') \in Nat BY <1>6
<1>8. FromDocker' = {} BY <1>5, <1>7 DEF FromDocker
<1>9. opened' = Nothing BY <1>5 DEF StartupInvariant, Connected
<1> QED
  BY <1>5, <1>6, <1>7, <1>8, <1>9
  DEF StartupInvariant, Listed, Candidates, Connected, CandidatesNeverClash

(* A candidate is its profile with another name and an endpoint. *)
LEMMA CandidateIs ==
  ASSUME NEW p, IsProfile(p), NEW at
  PROVE  Candidate(p, Nothing, at) =
           [name |-> DockerName(p, at), envFile |-> p.envFile, mapping |-> p.mapping,
            config |-> p.config, passwordEnv |-> p.passwordEnv, endpoint |-> at]
<1> DEFINE names == {"name", "envFile", "mapping", "config", "passwordEnv", "endpoint"}
           q == Candidate(p, Nothing, at)
<1>1. p \in [name : {p.name}, envFile : {p.envFile}, mapping : {p.mapping},
             config : {p.config}, passwordEnv : {p.passwordEnv}, endpoint : {p.endpoint}]
  BY SMT DEF IsProfile
<1>2. DOMAIN p = names BY <1>1
<1>3. q = [x \in names |-> q[x]] BY <1>2 DEF Candidate
<1>4. /\ q["name"] = DockerName(p, at) /\ q["endpoint"] = at
      /\ \A x \in {"envFile", "mapping", "config", "passwordEnv"} : q[x] = p[x]
  BY <1>2 DEF Candidate
<1> HIDE DEF q
<1>5. q = [name |-> DockerName(p, at), envFile |-> p.envFile, mapping |-> p.mapping,
           config |-> p.config, passwordEnv |-> p.passwordEnv, endpoint |-> at]
  BY <1>3, <1>4
<1> QED BY <1>5 DEF q

LEMMA ProbeKeeps ==
  ASSUME StartupInvariant, Probe PROVE StartupInvariant'
<1> DEFINE p == offered[probed + 1]
           cfg == Resolve(p, env, flags.secret)
           news(s) == [n \in DOMAIN s |-> Candidate(p, Nothing, s[n])]
<1>1. PICK ps \in Published \cup {<<>>} :
        offered' = offered \o news(IF cfg = Nothing THEN <<>> ELSE Endpoints(ps, cfg))
  BY DEF Probe, Candidate
<1>2. PICK s \in Addresses(ps) : offered' = offered \o news(s)
  <2>1. <<>> \in Addresses(ps) BY DEF Addresses
  <2> QED BY <1>1, <2>1, EndpointsOnce
<1>3. /\ phase = "docker" /\ probed < named /\ probed' = probed + 1
      /\ UNCHANGED <<phase, flags, named, opened>>
  BY DEF Probe
<1>4. /\ offered \in Seq(Range(offered)) /\ \A i \in DOMAIN offered : IsProfile(offered[i])
      /\ named \in 0..Len(offered) /\ probed \in 0..named /\ Len(offered) \in Nat
      /\ DOMAIN offered = 1..Len(offered)
  BY DEF StartupInvariant, Listed
<1>5. /\ s \in Seq(Range(s)) /\ Len(s) \in Nat /\ DOMAIN s = 1..Len(s)
      /\ \A i \in DOMAIN s : IsEndpoint(s[i])
      /\ \A i, j \in DOMAIN s : i # j => s[i] # s[j]
  BY AddressTyped
<1>6. IsProfile(p) /\ probed + 1 \in 1..named BY <1>3, <1>4
<1>7. ASSUME NEW n \in DOMAIN s
      PROVE  /\ news(s)[n] = Candidate(p, Nothing, s[n])
             /\ IsProfile(news(s)[n]) /\ news(s)[n].endpoint = s[n]
             /\ news(s)[n].name = DockerName(p, s[n]) /\ news(s)[n] # Demo
  <2>1. s[n] # Nothing BY <1>5 DEF IsEndpoint
  <2>2. news(s)[n] = Candidate(p, Nothing, s[n]) OBVIOUS
  <2>3. IsProfile(Candidate(p, Nothing, s[n])) BY <1>6, CandidateIs DEF IsProfile
  <2>4. /\ Candidate(p, Nothing, s[n]).endpoint = s[n]
        /\ Candidate(p, Nothing, s[n]).name = DockerName(p, s[n])
    BY <1>6, CandidateIs
  <2>5. Demo.endpoint = Nothing BY DEF Demo
  <2> QED BY <2>1, <2>2, <2>3, <2>4, <2>5
<1>8. news(s) \in Seq(Range(news(s))) /\ Len(news(s)) = Len(s)
  <2> DEFINE t == news(s)
  <2>1. t = [n \in 1..Len(s) |-> t[n]] BY <1>5
  <2> HIDE DEF t
  <2>2. t \in Seq({t[n] : n \in 1..Len(s)}) BY <1>5, <2>1
  <2>3. Len(t) = Len(s) BY <1>5, <2>1
  <2> QED BY <2>2, <2>3, RangeOf DEF t
<1> DEFINE L == Len(offered)
           t == news(s)
<1> HIDE DEF t, p, cfg
<1>9. /\ offered' \in Seq(Range(offered')) /\ Len(offered') = L + Len(s)
      /\ DOMAIN offered' = 1..(L + Len(s))
      /\ \A i \in 1..L : offered'[i] = offered[i]
      /\ \A i \in 1..Len(s) : offered'[L + i] = t[i] /\ L + i \in DOMAIN offered'
  <2>1. offered' = offered \o t /\ t \in Seq(Range(t)) /\ Len(t) = Len(s) BY <1>2, <1>8 DEF t
  <2>2. \A i \in 1..Len(s) : offered'[L + i] = t[i] BY <1>4, <2>1, Joined
  <2>3. Len(offered') = L + Len(s) /\ \A i \in 1..L : offered'[i] = offered[i]
    BY <1>4, <2>1, Joined
  <2>4. offered \o t \in Seq(Range(offered \o t)) BY <1>4, <2>1, Joined
  <2>5. offered' \in Seq(Range(offered')) BY <2>1, <2>4, Zenon
  <2>6. DOMAIN offered' = 1..(L + Len(s)) BY <2>3, <2>5
  <2> QED BY <1>4, <1>5, <2>2, <2>3, <2>5, <2>6
<1>10. \A i \in DOMAIN offered' : i \in 1..L \/ (i - L \in 1..Len(s) /\ i = L + (i - L))
  BY <1>4, <1>5, <1>9
<1>11. \A i \in DOMAIN offered' : IsProfile(offered'[i])
  BY <1>4, <1>5, <1>7, <1>9, <1>10 DEF t
<1>12. FromDocker = (named + 1)..L BY <1>3 DEF StartupInvariant, Listed
<1>13. FromDocker' = (named + 1)..(L + Len(s))
  <2>1. ASSUME NEW i \in (named + 1)..(L + Len(s)) PROVE offered'[i] # Demo
    <3>1. CASE i =< L
      <4>1. i \in FromDocker /\ offered'[i] = offered[i] BY <1>4, <1>9, <1>12, <3>1
      <4> QED BY <4>1 DEF FromDocker
    <3>2. CASE i > L
      <4>1. i - L \in DOMAIN s /\ offered'[i] = t[i - L] BY <1>4, <1>5, <1>9, <1>10, <3>2
      <4> QED BY <1>7, <4>1 DEF t
    <3> QED BY <1>4, <1>5, <3>1, <3>2
  <2> QED BY <1>3, <1>4, <1>5, <1>9, <2>1 DEF FromDocker
<1>14. Listed' BY <1>3, <1>4, <1>5, <1>9, <1>11, <1>13 DEF Listed, StartupInvariant
<1>15. ASSUME NEW i \in (L + 1)..(L + Len(s))
       PROVE  /\ i - L \in DOMAIN s /\ CandidateOf(i, probed)'
              /\ offered'[i].name = DockerName(p, s[i - L])
  <2>1. i - L \in 1..Len(s) /\ L + (i - L) = i BY <1>4, <1>5
  <2>2. offered'[i] = t[i - L] BY <1>9, <2>1
  <2>3. i - L \in DOMAIN s BY <1>5, <2>1
  <2>4. /\ t[i - L] = Candidate(p, Nothing, s[i - L]) /\ t[i - L].endpoint = s[i - L]
        /\ t[i - L].name = DockerName(p, s[i - L])
    BY <1>7, <2>3 DEF t
  <2>5. offered'[probed'] = p BY <1>3, <1>4, <1>6, <1>9 DEF p
  <2>6. CandidateOf(i, probed)' BY <1>5, <2>2, <2>3, <2>4, <2>5 DEF CandidateOf
  <2> QED BY <2>2, <2>3, <2>4, <2>6
<1>16. \A i \in FromDocker' : i > L => i \in (L + 1)..(L + Len(s)) BY <1>4, <1>5, <1>13
<1>17. \A i \in FromDocker : \E k \in 1..probed : CandidateOf(i, k) /\ CandidateOf(i, k)'
  BY <1>4, <1>9, <1>12 DEF StartupInvariant, Candidates, CandidateOf
<1>18. ASSUME NEW i \in FromDocker' PROVE \E k \in 1..probed' : CandidateOf(i, k)'
  <2>1. CASE i =< L BY <1>3, <1>4, <1>12, <1>13, <1>17, <2>1
  <2>2. CASE i > L
    <3>1. CandidateOf(i, probed)' BY <1>15, <1>16, <2>2
    <3>2. probed' \in 1..probed' BY <1>3, <1>4
    <3> QED BY <3>1, <3>2
  <2> QED BY <1>4, <1>13, <2>1, <2>2
<1>19. NamedApart' <=> NamedApart
  <2>1. \A i \in 1..named : offered'[i] = offered[i] BY <1>4, <1>9
  <2>2. named' = named BY <1>3
  <2> QED BY ONLY <2>1, <2>2 DEF NamedApart
<1>20. ASSUME NamedApart, NEW i \in FromDocker', NEW j \in FromDocker', i < j
       PROVE  offered'[i].name # offered'[j].name
  <2>1. CASE j =< L
    <3>1. i \in FromDocker /\ j \in FromDocker BY <1>4, <1>12, <1>13, <1>20, <2>1
    <3> QED BY <1>4, <1>9, <1>12, <1>20, <3>1 DEF StartupInvariant, Candidates
  <2>2. CASE i =< L /\ j > L
    <3>1. i \in FromDocker BY <1>4, <1>12, <1>13, <2>2
    <3>2. PICK k \in 1..probed : CandidateOf(i, k) BY <3>1, <1>17
    <3>3. offered[i].name.base = offered[k].name
      BY <1>3, <1>4, <3>2, CandidateIs DEF CandidateOf, DockerName
    <3>4. offered'[j].name = DockerName(p, s[j - L]) BY <1>15, <1>16, <2>2
    <3>5. offered'[j].name.base = p.name BY <3>4 DEF DockerName
    <3>6. offered[k].name # p.name BY <1>3, <1>4, <1>20, <3>2 DEF NamedApart, p
    <3> QED BY <1>9, <1>12, <1>4, <3>1, <3>3, <3>5, <3>6
  <2>3. CASE i > L
    <3>1. i \in (L + 1)..(L + Len(s)) /\ j \in (L + 1)..(L + Len(s))
      BY <1>4, <1>5, <1>13, <1>16, <1>20, <2>3
    <3>2. /\ i - L \in DOMAIN s /\ offered'[i].name = DockerName(p, s[i - L])
          /\ j - L \in DOMAIN s /\ offered'[j].name = DockerName(p, s[j - L])
      BY <1>15, <3>1
    <3>3. i - L # j - L BY <1>4, <1>5, <1>20, <3>1
    <3>4. s[i - L] # s[j - L] BY <1>5, <3>2, <3>3
    <3> QED BY <3>2, <3>4 DEF DockerName
  <2> QED BY <1>4, <1>5, <1>13, <2>1, <2>2, <2>3
<1>21. Candidates'
  <2>1. ASSUME NamedApart, NEW i \in FromDocker', NEW j \in FromDocker', i # j
        PROVE  offered'[i].name # offered'[j].name
    <3>1. i < j \/ j < i BY <1>4, <1>5, <1>13, <2>1
    <3> QED BY <1>20, <2>1, <3>1
  <2> QED BY <1>18, <1>19, <2>1 DEF Candidates
<1> QED
  BY <1>3, <1>14, <1>21 DEF StartupInvariant, Connected, CandidatesNeverClash

LEMMA DemoList ==
  ASSUME NEW b
  PROVE  LET d == IF b THEN <<Demo>> ELSE <<>>
         IN  /\ d \in Seq(Range(d)) /\ Len(d) = (IF b THEN 1 ELSE 0)
             /\ \A i \in 1..Len(d) : d[i] = Demo /\ b
<1> DEFINE p == Demo
<1> HIDE DEF p
<1>1. <<p>> \in Seq(Range(<<p>>)) /\ Len(<<p>>) = 1 /\ \A i \in 1..Len(<<p>>) : <<p>>[i] = p
  <2>1. <<p>> \in Seq({p}) OBVIOUS
  <2>2. <<p>> \in Seq(Range(<<p>>)) BY <2>1, RangeOf
  <2> QED BY <2>2
<1>2. <<>> \in Seq(Range(<<>>)) /\ Len(<<>>) = 0 OBVIOUS
<1>3. CASE b BY <1>1, <1>3 DEF p
<1>4. CASE ~b BY <1>2, <1>4
<1> QED BY <1>3, <1>4

(* What is offered without Docker, by position. *)
LEMMA OwnList ==
  ASSUME NEW list, list \in Seq(Range(list)), NEW n \in 0..Len(list), NEW b
  PROVE  LET own == SubSeq(list, 1, n) \o (IF b THEN <<Demo>> ELSE <<>>)
         IN  /\ DOMAIN own = 1..(n + (IF b THEN 1 ELSE 0))
             /\ \A i \in 1..n : own[i] = list[i]
             /\ b => own[n + 1] = Demo
<1> DEFINE s == SubSeq(list, 1, n)
           d == IF b THEN <<Demo>> ELSE <<>>
           own == s \o d
<1>1. s \in Seq(Range(s)) /\ Len(s) = n /\ \A i \in 1..n : s[i] = list[i]
  <2> DEFINE S == Range(list)
  <2> HIDE DEF S
  <2>1. list \in Seq(S) BY DEF S
  <2>2. s \in Seq(S) /\ Len(s) = n /\ \A i \in 1..n : s[i] = list[i] BY <2>1
  <2> HIDE DEF s
  <2> QED BY <2>2, RangeOf
<1>2. /\ d \in Seq(Range(d)) /\ Len(d) = (IF b THEN 1 ELSE 0)
      /\ \A i \in 1..Len(d) : d[i] = Demo
  BY DemoList
<1> HIDE DEF s, d
<1>3. DOMAIN own = 1..(n + Len(d)) BY <1>1, <1>2, Joined
<1>4. \A i \in 1..n : own[i] = s[i] BY <1>1, <1>2, Joined
<1>5. \A i \in 1..Len(d) : own[n + i] = d[i] BY <1>1, <1>2, Joined
<1> HIDE DEF own
<1>6. b => own[n + 1] = Demo BY <1>2, <1>5
<1> QED BY <1>1, <1>2, <1>3, <1>4, <1>6 DEF own, s, d

LEMMA NewKeeps ==
  ASSUME StartupInvariant, New PROVE StartupInvariant'
<1> DEFINE d == IF flags.demo THEN <<Demo>> ELSE <<>>
           L == Len(offered)
<1>1. /\ phase = "docker" /\ offered' = offered \o d
      /\ phase' = IF Distinct(offered') THEN "running" ELSE "failed"
      /\ UNCHANGED <<flags, named, probed, opened>>
  BY DEF New
<1>2. /\ offered \in Seq(Range(offered)) /\ \A i \in DOMAIN offered : IsProfile(offered[i])
      /\ named \in 0..L /\ probed \in 0..named /\ L \in Nat /\ DOMAIN offered = 1..L
      /\ FromDocker = (named + 1)..L
  BY <1>1 DEF StartupInvariant, Listed
<1>3. d \in Seq(Range(d)) /\ Len(d) \in 0..1 /\ \A i \in 1..Len(d) : d[i] = Demo /\ flags.demo
  BY DemoList
<1> HIDE DEF d
<1>4. /\ offered' \in Seq(Range(offered')) /\ Len(offered') = L + Len(d)
      /\ DOMAIN offered' = 1..(L + Len(d))
      /\ \A i \in 1..L : offered'[i] = offered[i]
      /\ \A i \in DOMAIN offered' : i > L => offered'[i] = Demo /\ flags.demo
  <2>1. offered \o d \in Seq(Range(offered \o d)) BY <1>2, <1>3, Joined
  <2>2. offered' \in Seq(Range(offered')) BY <1>1, <2>1, Zenon
  <2>3. /\ Len(offered') = L + Len(d) /\ \A i \in 1..L : offered'[i] = offered[i]
        /\ \A i \in 1..Len(d) : offered'[L + i] = d[i]
    BY <1>1, <1>2, <1>3, Joined
  <2>4. DOMAIN offered' = 1..(L + Len(d)) BY <2>2, <2>3
  <2>5. ASSUME NEW i \in DOMAIN offered', i > L PROVE offered'[i] = Demo /\ flags.demo
    <3>1. i - L \in 1..Len(d) /\ L + (i - L) = i
      <4>1. i \in 1..(L + Len(d)) BY <2>4, <2>5
      <4>2. L \in Nat /\ Len(d) \in Nat BY <1>2, <1>3
      <4> HIDE DEF L
      <4> QED BY ONLY <4>1, <4>2, <2>5
    <3> QED BY <1>3, <2>3, <3>1
  <2> QED BY <2>2, <2>3, <2>4, <2>5
<1>5. FromDocker' = FromDocker
  <2>1. \A i \in FromDocker : offered[i] # Demo BY DEF FromDocker
  <2> QED BY <1>1, <1>2, <1>3, <1>4, <2>1 DEF FromDocker
<1>6. \A i \in DOMAIN offered' : IsProfile(offered'[i])
  <2>1. IsProfile(Demo) BY DEF IsProfile, Demo
  <2> QED BY <1>2, <1>3, <1>4, <2>1
<1>7. Listed' BY <1>1, <1>2, <1>3, <1>4, <1>6 DEF Listed
<1>8. Candidates'
  <2>1. \A i \in FromDocker : \E k \in 1..probed : CandidateOf(i, k)'
    BY <1>2, <1>4 DEF StartupInvariant, Candidates, CandidateOf
  <2>2. NamedApart' <=> NamedApart
    <3>1. \A i \in 1..named : offered'[i] = offered[i] BY <1>2, <1>4
    <3>2. named' = named BY <1>1
    <3> QED BY <3>1, <3>2 DEF NamedApart
  <2>3. NamedApart => \A i, j \in FromDocker : i # j => offered'[i].name # offered'[j].name
    BY <1>2, <1>4 DEF StartupInvariant, Candidates
  <2> QED BY <1>1, <1>5, <2>1, <2>2, <2>3 DEF Candidates
<1>9. Connected' BY <1>1 DEF StartupInvariant, Connected
<1>10. phase' = "running" => Distinct(offered)' BY <1>1
<1>11. CandidatesNeverClash'
  <2> DEFINE own == Own'
  <2>1. SUFFICES ASSUME ~Distinct(offered')
                 PROVE  \/ ~Distinct(own)
                        \/ \E i \in FromDocker', j \in DOMAIN own : own[j].name = offered'[i].name
    BY <1>1 DEF CandidatesNeverClash
  <2>2. PICK i \in DOMAIN offered', j \in DOMAIN offered' :
          i # j /\ offered'[i].name = offered'[j].name
    BY <2>1 DEF Distinct
  <2>3. /\ DOMAIN own = 1..(named + (IF flags'.demo THEN 1 ELSE 0))
        /\ \A k \in 1..named : own[k] = offered'[k]
        /\ flags'.demo => own[named + 1] = Demo
    <3>1. named' \in 0..Len(offered') /\ named' = named BY <1>1, <1>2, <1>3, <1>4
    <3> QED BY <1>4, <3>1, OwnList DEF Own
  <2> DEFINE place(k) == IF k =< named THEN k ELSE named + 1
  <2> HIDE DEF own
  <2>4. ASSUME NEW k \in DOMAIN offered', k \notin FromDocker'
        PROVE  place(k) \in DOMAIN own /\ own[place(k)] = offered'[k] /\ (k =< named \/ k > L)
    <3>1. CASE k =< named BY <1>2, <1>4, <2>3, <3>1
    <3>2. CASE k > named
      <4>1. k > L BY <1>2, <1>4, <1>5, <2>4, <3>2
      <4>2. offered'[k] = Demo /\ flags'.demo BY <1>1, <1>4, <4>1
      <4> QED BY <1>2, <2>3, <3>2, <4>1, <4>2
    <3> QED BY <1>2, <1>4, <3>1, <3>2
  <2>5. CASE i \notin FromDocker' /\ j \notin FromDocker'
    <3>1. place(i) # place(j) BY <1>2, <1>3, <1>4, <2>2, <2>4, <2>5
    <3>2. own[place(i)].name = own[place(j)].name BY <2>2, <2>4, <2>5
    <3> HIDE DEF place
    <3>3. place(i) \in DOMAIN own /\ place(j) \in DOMAIN own BY <2>4, <2>5
    <3>4. ~Distinct(own) BY <3>1, <3>2, <3>3 DEF Distinct
    <3> QED BY <3>4
  <2>6. CASE i \in FromDocker' /\ j \notin FromDocker' BY <2>2, <2>4, <2>6
  <2>7. CASE i \notin FromDocker' /\ j \in FromDocker' BY <2>2, <2>4, <2>7
  <2>8. CASE i \in FromDocker' /\ j \in FromDocker'
    <3>1. ~NamedApart' BY <1>8, <2>2, <2>8 DEF Candidates
    <3>2. PICK k \in 1..named', l \in 1..named' : k # l /\ offered'[k].name = offered'[l].name
      BY <3>1 DEF NamedApart
    <3>3. /\ k \in DOMAIN own /\ l \in DOMAIN own
          /\ own[k] = offered'[k] /\ own[l] = offered'[l]
      BY <1>1, <1>2, <2>3
    <3>4. ~Distinct(own) BY <3>2, <3>3 DEF Distinct
    <3> QED BY <3>4
  <2> QED BY <2>5, <2>6, <2>7, <2>8
<1> QED BY <1>7, <1>8, <1>9, <1>10, <1>11 DEF StartupInvariant

LEMMA ConnectKeeps ==
  ASSUME StartupInvariant, Connect PROVE StartupInvariant'
<1>1. PICK i \in DOMAIN offered :
        /\ Resolve(offered[i], env, flags.secret) # Nothing
        /\ opened' = [profile |-> offered[i],
                      config |-> Resolve(offered[i], env, flags.secret), env |-> env]
  BY DEF Connect
<1>2. phase = "running" /\ UNCHANGED <<phase, flags, offered, named, probed>> BY DEF Connect
<1>3. Listed' /\ Candidates'
  BY <1>2 DEF StartupInvariant, Listed, Candidates, FromDocker, CandidateOf, NamedApart
<1>4. Connected' BY <1>1, <1>2 DEF Connected
<1> QED BY <1>2, <1>3, <1>4 DEF StartupInvariant, CandidatesNeverClash

LEMMA NextKeeps ==
  ASSUME StartupInvariant, [Next]_vars PROVE StartupInvariant'
<1>1. CASE Edit \/ UNCHANGED vars
  <2>1. UNCHANGED <<phase, flags, offered, named, probed, opened>> BY <1>1 DEF Edit, vars
  <2> QED
    BY <2>1
    DEF StartupInvariant, Listed, Candidates, Connected, FromDocker, CandidateOf, NamedApart,
        CandidatesNeverClash, Own
<1> QED BY <1>1, OfferKeeps, ProbeKeeps, NewKeeps, ConnectKeeps DEF Next

-----------------------------------------------------------------------------
(* What a candidate comes to *)

(* Profiles that differ in name and endpoint come to configs that differ in address. *)
LEMMA ResolvesAlike ==
  ASSUME NEW p, NEW q, NEW e, NEW secret,
         q.envFile = p.envFile, q.mapping = p.mapping, q.config = p.config,
         q.passwordEnv = p.passwordEnv, IsEndpoint(q.endpoint),
         Resolve(q, e, secret) # Nothing
  PROVE  LET cfg == Resolve(q, e, secret)
             now == Resolve(p, e, secret)
         IN  /\ \/ now = Nothing
                \/ \A f \in {"user", "password", "database", "tls"} : cfg[f] = now[f]
             /\ cfg.socket = Empty
             /\ cfg.host = q.endpoint.host /\ cfg.port = q.endpoint.port
<1> DEFINE c == WithPassword(p, FromEnv(p, e), secret)
<1>1. WithPassword(q, FromEnv(q, e), secret) = c BY DEF WithPassword, FromEnv
<1>2. DOMAIN c = Fields BY DEF WithPassword, FromEnv
<1> HIDE DEF c
<1>3. Resolve(q, e, secret) = WithPort(AtEndpoint(q, c)) BY <1>1 DEF Resolve
<1>4. Resolve(p, e, secret) # Nothing => Resolve(p, e, secret) = WithPort(AtEndpoint(p, c))
  BY DEF Resolve, c
<1> DEFINE a == AtEndpoint(q, c)
           b == AtEndpoint(p, c)
<1>5. /\ DOMAIN a = Fields /\ a.host = q.endpoint.host /\ a.port = q.endpoint.port
      /\ a.socket = Empty
      /\ \A f \in {"user", "password", "database", "tls"} : a[f] = c[f]
  BY <1>2 DEF AtEndpoint, IsEndpoint, Fields
<1>6. DOMAIN b = Fields /\ \A f \in {"user", "password", "database", "tls"} : b[f] = c[f]
  BY <1>2 DEF AtEndpoint, Fields
<1>7. a.port # Empty BY <1>5, AddressAssumption DEF IsEndpoint
<1> HIDE DEF a, b
<1>8. WithPort(a) = a BY <1>7 DEF WithPort
<1>9. \A f \in {"user", "password", "database", "tls"} : WithPort(b)[f] = b[f]
  BY <1>6 DEF WithPort, Fields
<1> QED BY <1>3, <1>4, <1>5, <1>6, <1>8, <1>9 DEF a, b

LEMMA FollowsEnv ==
  ASSUME StartupInvariant PROVE CandidatesFollowEnv
<1> SUFFICES ASSUME NEW i \in FromDocker, NEW j \in 1..named, opened # Nothing,
                    opened.profile = offered[i], offered[j].name = offered[i].name.base
             PROVE  LET now == Resolve(offered[j], opened.env, flags.secret)
                    IN  /\ \/ now = Nothing
                           \/ \A f \in {"user", "password", "database", "tls"} :
                                opened.config[f] = now[f]
                        /\ opened.config.socket = Empty
                        /\ [host |-> opened.config.host, port |-> opened.config.port]
                             = offered[i].name.at
  BY DEF CandidatesFollowEnv
<1>1. /\ phase = "running" /\ Distinct(offered)
      /\ opened.config = Resolve(offered[i], opened.env, flags.secret)
      /\ opened.config # Nothing
  BY DEF StartupInvariant, Connected
<1>2. PICK k \in 1..probed : CandidateOf(i, k) BY DEF StartupInvariant, Candidates
<1>3. /\ k \in DOMAIN offered /\ j \in DOMAIN offered /\ IsProfile(offered[k])
  BY DEF StartupInvariant, Listed
<1> DEFINE at == offered[i].endpoint
           p == offered[k]
           q == offered[i]
<1>4. q = Candidate(p, Nothing, at) /\ IsEndpoint(at) BY <1>2 DEF CandidateOf
<1>5. /\ q.name = DockerName(p, at) /\ q.envFile = p.envFile /\ q.mapping = p.mapping
      /\ q.config = p.config /\ q.passwordEnv = p.passwordEnv
  BY <1>3, <1>4, CandidateIs
<1>6. j = k BY <1>1, <1>3, <1>5 DEF Distinct, DockerName
<1>7. q.name.at = at BY <1>5 DEF DockerName
<1> QED BY <1>1, <1>4, <1>5, <1>6, <1>7, ResolvesAlike DEF IsEndpoint

-----------------------------------------------------------------------------
(* Theorems *)

LEMMA StartupInvariance == Spec => []StartupInvariant
BY InitListed, NextKeeps, PTL DEF Spec

(***************************************************************************)
(* Whatever is saved, published and edited: a candidate of Docker is       *)
(* connected with the user, password, database and TLS that its profile    *)
(* has at that time, at the published address, over TCP (Resolve, run).    *)
(***************************************************************************)
THEOREM EndpointsFollowEnv == Spec => []CandidatesFollowEnv
BY FollowsEnv, StartupInvariance, PTL

(***************************************************************************)
(* Whatever Compose publishes: only two profiles of one name, or one that  *)
(* is called like a candidate, keep a session from starting (parseDocker,  *)
(* run, New).                                                              *)
(***************************************************************************)
THEOREM OnlyNamesClash == Spec => []CandidatesNeverClash
<1>1. StartupInvariant => CandidatesNeverClash BY DEF StartupInvariant
<1> QED BY <1>1, StartupInvariance, PTL
=============================================================================
