----------------------------- MODULE Connections -----------------------------
(***************************************************************************)
(* What the worker makes of the sections that say how to reach the         *)
(* database and NATS (pkg/config/database.go, ssh.go, nats.go): which of   *)
(* them are accepted and what connection they ask for.                     *)
(*                                                                         *)
(* f is a file of Configuration: f.uri is the form of database.uri, and    *)
(* f.has holds the sections and entries that are there.                    *)
(***************************************************************************)

(* database.uri: nothing; the form of the README, with an address in       *)
(* parentheses; a network without an address; postgres; another scheme.    *)
Uris == {"", "mysql tcp(host:port)", "mysql tcp", "postgres", "sqlite"}

Dsns == [driver : {"none", "mysql", "pgx"}, net : {"none", "tcp", "mysql+tcp", "uri"},
         user : {"none", "config", "uri"}, tls : {"none", "custom", "uri"}]

NoDsn == [driver |-> "none", net |-> "none", user |-> "none", tls |-> "none"]

\* is.URL parses the text: after the last colon of an authority it takes
\* nothing but a port, and the parenthesis is none.
IsURL(uri) == uri # "mysql tcp(host:port)"

\* Database.Validate: neither tls nor ssh is looked at.
ValidDatabase(f) ==
    /\ f.uri # "" /\ IsURL(f.uri)
    /\ "credentials" \in f.has

\* SSH.Validate is applied to the section ssh of the top level only.
ValidSSH(f) == "ssh" \in f.has => "ssh.host" \in f.has

Driver(uri) ==
    CASE uri \in {"mysql tcp(host:port)", "mysql tcp"} -> "mysql"
      [] uri = "postgres" -> "pgx"
      [] OTHER -> "none"

\* mysqlBuild: username and password override the URI, and so does tls, which
\* names the registered configuration.  The dialer of database.ssh is registered
\* for the network mysql+tcp, and the network stays the one of the URI.
mysqlBuild(f) ==
    [driver |-> "mysql", net |-> "tcp",
     user |-> IF "credentials" \in f.has THEN "config" ELSE "uri",
     tls  |-> IF "database.tls" \in f.has THEN "custom" ELSE "uri"]

\* postgresBuild: the URI as it is.
postgresBuild(f) == [driver |-> "pgx", net |-> "uri", user |-> "uri", tls |-> "uri"]

\* Mutant: the section tls is registered and not asked for.
BuildWithoutTLS(f) ==
    IF Driver(f.uri) = "mysql" THEN [mysqlBuild(f) EXCEPT !.tls = "uri"]
                               ELSE postgresBuild(f)

\* Database.Build, for a scheme it supports.
Build(f) == IF Driver(f.uri) = "mysql" THEN mysqlBuild(f) ELSE postgresBuild(f)

\* mysqlBuild gives up when the tunnel or the CA file is of no use.
Buildable(f, sshUp, caReadable) ==
    /\ Driver(f.uri) # "none"
    /\ Driver(f.uri) = "mysql" =>
          /\ "database.ssh" \in f.has => sshUp
          /\ "database.tls" \in f.has => caReadable

\* NatsTLS.Config: without rootCAs the pool of trusted certificates is empty,
\* which is not the pool of the system: the handshake fails.
Trusted(f) == "nats.tls" \in f.has => "nats.tls.rootCAs" \in f.has

=============================================================================
