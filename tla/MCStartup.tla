----------------------------- MODULE MCStartup ------------------------------
(***************************************************************************)
(* Small instances of Startup: a .env that is edited, saved profiles with  *)
(* and without it, and a service that is published in a few ways.          *)
(***************************************************************************)
EXTENDS Startup

CONSTANTS Shop, Static1, Flagged

Laravel == [driver |-> "mysql", host |-> "db", port |-> 3306, user |-> "root",
            database |-> "shop", password |-> "old", PW |-> "other"]

SomeContents ==
    {Laravel, [Laravel EXCEPT !.password = "new", !.user = "reader"],
     [Laravel EXCEPT !.port = 0], [Laravel EXCEPT !.driver = "sqlite"],
     [host |-> "db", user |-> "root", database |-> "shop", tls |-> "off"],
     [socket |-> "/run/db", user |-> "root", database |-> "shop", password |-> "old"],
     [driver |-> "mysql", password |-> "old"], Unreadable}

OfFile(name, mapping) ==
    [name |-> name, envFile |-> Project, mapping |-> mapping, config |-> Static,
     passwordEnv |-> FALSE, endpoint |-> Nothing]

Configured(name, host) ==
    [name |-> name, envFile |-> Nothing, mapping |-> <<>>, passwordEnv |-> TRUE,
     endpoint |-> Nothing,
     config |-> [Static EXCEPT !.host = host, !.user = "app", !.database = "shop",
                               !.socket = "/run/db"]]

(* A name that a candidate of Shop has. *)
Taken == DockerName([name |-> Shop], [host |-> Loopback, port |-> 13306])

SavedLists ==
    {<<>>, <<OfFile(Shop, [password |-> "PW"])>>,
     <<Configured(Static1, "db"), OfFile(Shop, <<>>)>>,
     <<Configured(Seeded, "db")>>,
     <<OfFile(Shop, <<>>), OfFile(Taken, <<>>)>>,
     <<Configured(Project, Empty), OfFile(Static1, [host |-> Empty])>>}

FlagProfiles == {Nothing, OfFile(Flagged, <<>>), Configured(Shop, "db")}

Publisher(url, target, published) ==
    [service |-> "db", target |-> target, published |-> published, tcp |-> TRUE, url |-> url]

Compose ==
    {<<Publisher("0.0.0.0", 3306, 13306), Publisher("::", 3306, 13306)>>,
     <<Publisher("10.0.0.1", 3306, 13306), Publisher("", 3306, 0), Publisher("", 3306, 13307)>>,
     <<[Publisher("", 3306, 13306) EXCEPT !.service = "cache"],
       [Publisher("", 3306, 13306) EXCEPT !.tcp = FALSE], Publisher("", 33060, 13306)>>}
=============================================================================
