---------------------------- MODULE Configuration ----------------------------
(***************************************************************************)
(* From the YAML file to what the worker runs with (pkg/config and the     *)
(* start of pkg/cmd): decoding, defaults, validation, log set-up, the      *)
(* backends and the database, and the lists of                             *)
(* publisher.aws.sns.resources with the WHERE clause the repository builds *)
(* from them.                                                              *)
(*                                                                         *)
(* A setting in the file is a set of at most one value: {} when it is not  *)
(* given.  The sections and entries that matter by being there or not are  *)
(* the set has.                                                            *)
(***************************************************************************)
EXTENDS Integers, FiniteSets, Connections

CONSTANTS
    Files,             \* the files the worker may be started with
    Types,             \* values of aggregate_type
    Events             \* values of event

ASSUME FilesAssumption ==
    Files \subseteq
        [readable : BOOLEAN, has : SUBSET STRING, handlers : SUBSET STRING, uri : Uris,
         retryCount : SUBSET Int, findEventLimit : SUBSET Nat, throughput : SUBSET Int,
         refetch : SUBSET BOOLEAN,
         whitelist : SUBSET Types, blacklist : SUBSET Types, skip : SUBSET Events]

VARIABLES
    file,              \* the file of this run
    state,             \* where start-up stands
    cfg,               \* the settings in force
    installed,         \* the log handlers in force
    backends,          \* the backends of the publisher
    dsn,               \* the connection string of the database
    once,              \* whether the effective whitelist is computed
    whitelist,         \* the effective whitelist
    table,             \* rows in the table: pairs of type and event
    fetched            \* rows the last poll selected

settings == <<cfg, installed>>
polls == <<once, whitelist, table, fetched>>
connected == <<backends, dsn>>
vars == <<file, state, settings, connected, polls>>

Row == Types \X Events

Settings == [MaxRetryCount : Int, FindEventLimit : Nat, Throughput : Int,
             RefetchEnabled : BOOLEAN]

TypeOK ==
    /\ file.whitelist \subseteq Types /\ file.blacklist \subseteq Types
    /\ state \in {"starting", "rejected", "loaded", "published", "running", "failed"}
    /\ cfg \in Settings
    /\ installed \subseteq {"default", "text", "json", "sentry"}
    /\ backends \subseteq {"sns", "nats"}
    /\ dsn \in Dsns
    /\ once \in BOOLEAN
    /\ whitelist \subseteq file.whitelist
    /\ table \subseteq Row
    /\ fetched \subseteq table

-----------------------------------------------------------------------------
(***************************************************************************)
(* loadConfig.                                                             *)
(***************************************************************************)
Value(given, zero) == IF given = {} THEN zero ELSE CHOOSE v \in given : TRUE

\* The decoder leaves what is not given at the zero value of its type.
Decode(f) ==
    [MaxRetryCount  |-> Value(f.retryCount, 0),
     FindEventLimit |-> Value(f.findEventLimit, 0),
     Throughput     |-> Value(f.throughput, 0),
     RefetchEnabled |-> Value(f.refetch, FALSE)]

OrDefault(v, zero, default) == IF v = zero THEN default ELSE v

\* Mutant: the defaults are set before the file is decoded.
SetDefaultsFirst(c) == c

\* defaults.Set comes after decoding: it cannot tell a zero from nothing.
SetDefaults(c) ==
    [MaxRetryCount  |-> OrDefault(c.MaxRetryCount, 0, 10),
     FindEventLimit |-> OrDefault(c.FindEventLimit, 0, 1000),
     Throughput     |-> OrDefault(c.Throughput, 0, 3000),
     RefetchEnabled |-> OrDefault(c.RefetchEnabled, FALSE, TRUE)]

MaxFindEventLimit == 10000

\* A throughput above its maximum is only logged.
ValidOutbox(f, c) ==
    /\ {"outbox", "producerName"} \subseteq f.has
    /\ c.FindEventLimit <= MaxFindEventLimit

ValidLogging(f) ==
    /\ f.handlers \subseteq {"json", "text", "sentry", "rollbar", "datadog"}
    /\ f.handlers \cap {"sentry", "rollbar"} \subseteq f.has

ValidTracking(f) == "tracking" \in f.has => "agentAddr" \in f.has

\* Publisher.Validate looks at aws only: a nats section without a server passes.
Validate(f, c) ==
    /\ ValidOutbox(f, c)
    /\ ValidDatabase(f) /\ ValidSSH(f)
    /\ "publisher" \in f.has
    /\ ValidLogging(f)
    /\ ValidTracking(f)

\* The switch is on &config, a pointer to the pointer newConfig has returned;
\* its cases are pointers to a struct.
SwitchType == "**OutboxPolling"
SetupLog(f) ==
    installed' = IF SwitchType \in {"*Config", "*OutboxPolling"}
                   THEN f.handlers ELSE installed

loadConfig ==
    /\ state = "starting"
    /\ LET c == SetDefaults(Decode(file)) IN
       IF file.readable /\ Validate(file, c)
         THEN /\ state' = "loaded"
              /\ cfg' = c
              /\ SetupLog(file)
         ELSE /\ state' = "rejected"
              /\ UNCHANGED settings
    /\ UNCHANGED <<file, connected, polls>>

(***************************************************************************)
(* executePolling: the backends, then the database.                        *)
(***************************************************************************)
\* The backends whose clients can be made: up is what can be reached.
Clients(f, up) ==
    {"sns" : b \in f.has \cap up \cap {"aws"}} \cup
    {"nats" : b \in {s \in f.has \cap up \cap {"nats"} : Trusted(f)}}

\* One backend at least, and none of those in the file may fail.
getPublisher(up) ==
    /\ state = "loaded"
    /\ LET made == Clients(file, up) IN
       IF made # {} /\ Cardinality(made) = Cardinality(file.has \cap {"aws", "nats"})
         THEN state' = "published" /\ backends' = made
         ELSE state' = "failed" /\ UNCHANGED backends
    /\ UNCHANGED <<file, settings, dsn, polls>>

\* outbox.NewClient; the ping has three seconds to answer.
NewClient(up) ==
    /\ state = "published"
    /\ IF Buildable(file, "ssh" \in up, "ca" \in up) /\ "database" \in up
         THEN state' = "running" /\ dsn' = Build(file)
         ELSE state' = "failed" /\ UNCHANGED dsn
    /\ UNCHANGED <<file, settings, backends, polls>>

(***************************************************************************)
(* The lists.                                                              *)
(***************************************************************************)
\* Mutant: everything that is not blacklisted.
EffectiveWhitelistRest == Types \ file.blacklist

\* Resource.GetWhitelist: whitelisted types that are not blacklisted.
EffectiveWhitelist == file.whitelist \ file.blacklist

\* Publisher.WhitelistResources and its like: nothing without AWS.
Given(list) == IF "aws" \in file.has THEN list ELSE {}

\* Mutants: either list lets a row pass; the events are forgotten when there
\* are conditions on the types.
AllowedByEither(r, white, black, skip) ==
    /\ white # {} /\ black # {} => r[1] \in white \/ r[1] \notin black
    /\ skip # {} => r[2] \notin skip
AllowedSkipAlone(r, white, black, skip) ==
    /\ white # {} => r[1] \in white
    /\ black # {} => r[1] \notin black
    /\ white = {} /\ black = {} => r[2] \notin skip

\* outboxTableExpressions: an empty list adds no condition.
Allowed(r, white, black, skip) ==
    /\ white # {} => r[1] \in white
    /\ black # {} => r[1] \notin black
    /\ skip # {} => r[2] \notin skip

\* One poll.  r.once.Do computes the effective whitelist the first time.
FindEvents ==
    /\ state = "running"
    /\ once' = (once \/ "aws" \in file.has)
    /\ whitelist' = IF once \/ "aws" \notin file.has
                      THEN whitelist ELSE EffectiveWhitelist
    /\ fetched' = {r \in table : Allowed(r, Given(whitelist'),
                                         Given(file.blacklist), Given(file.skip))}
    /\ UNCHANGED <<file, state, settings, connected, table>>

\* The application changes the table between two polls.
Change(r) ==
    /\ state = "running"
    /\ table' = IF r \in table THEN table \ {r} ELSE table \cup {r}
    /\ fetched' = {}
    /\ UNCHANGED <<file, state, settings, connected, once, whitelist>>

Init ==
    /\ file \in Files
    /\ state = "starting"
    /\ cfg = Decode([retryCount |-> {}, findEventLimit |-> {},
                     throughput |-> {}, refetch |-> {}])
    /\ installed = {"default"}
    /\ backends = {} /\ dsn = NoDsn
    /\ once = FALSE
    /\ whitelist = {}
    /\ table = {}
    /\ fetched = {}

Next ==
    \/ loadConfig
    \/ \E up \in SUBSET {"aws", "nats"} : getPublisher(up)
    \/ \E up \in SUBSET {"ssh", "ca", "database"} : NewClient(up)
    \/ FindEvents
    \/ \E r \in Row : Change(r)

Spec == Init /\ [][Next]_vars

-----------------------------------------------------------------------------
\* Whatever file gets a worker to run, its settings are values the polling
\* worker works with: at least one attempt, a batch of 1 to 10000 rows, a rate
\* above zero.  Nothing validates the first and the last; the defaults see to
\* it, except for negative numbers, which pass.
RunsWithUsableSettings ==
    state = "running" =>
        /\ cfg.FindEventLimit \in 1 .. MaxFindEventLimit
        /\ (\A n \in file.retryCount : n >= 0) => cfg.MaxRetryCount >= 1
        /\ (\A n \in file.throughput : n >= 0) => cfg.Throughput >= 1

\* No row of a blacklisted type and no row of a skipped event is ever fetched,
\* whatever the other lists say of them.
BlockedNeverFetched ==
    "aws" \in file.has =>
        \A r \in fetched : r[1] \notin file.blacklist /\ r[2] \notin file.skip

\* A poll keeps no row back either: unless the blacklist uses up the whitelist,
\* it fetches exactly the rows the lists are meant to let pass, at the first
\* poll and at every later one, and all of them when AWS is not configured.
FetchesExactly ==
    [][(state = "running" /\ table' = table
        /\ (file.whitelist = {} \/ ~(file.whitelist \subseteq file.blacklist)))
         => fetched' = {r \in table : "aws" \in file.has =>
                          /\ file.whitelist # {} => r[1] \in file.whitelist
                          /\ r[1] \notin file.blacklist
                          /\ r[2] \notin file.skip}]_vars

\* getPublisher and mysqlBuild: a worker that runs has a client for each backend
\* of its file and for no other, its NATS client has the CAs of the file, and its
\* MySQL connection string has the file's credentials, and a TLS configuration
\* exactly if the file has one.  The way through the network is TunnelIsUsed.
ClientsAsConfigured ==
    state = "running" =>
        /\ ("sns" \in backends) <=> ("aws" \in file.has)
        /\ ("nats" \in backends) <=> ("nats" \in file.has)
        /\ {"nats", "nats.tls"} \subseteq file.has => "nats.tls.rootCAs" \in file.has
        /\ dsn.driver = "mysql" =>
              /\ dsn.user = "config"
              /\ dsn.tls = "custom" <=> "database.tls" \in file.has

\* README: the SSH configuration is used when database.ssh is configured (for
\* MySQL only).  The network whose dialer goes through the tunnel is mysql+tcp.
TunnelIsUsed ==
    state = "running" /\ dsn.driver = "mysql" /\ "database.ssh" \in file.has
        => dsn.net = "mysql+tcp"

=============================================================================
