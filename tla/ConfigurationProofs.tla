------------------------- MODULE ConfigurationProofs -------------------------
(***************************************************************************)
(* Proofs about Configuration, for every set of files, types and events.   *)
(***************************************************************************)
EXTENDS Configuration, FiniteSetTheorems, TLAPS

\* What a file that was accepted has gone through on its way to the worker.
Accepted == state \in {"loaded", "published", "running"}
LoadInv ==
    /\ Accepted => cfg = SetDefaults(Decode(file))
    /\ Accepted => cfg.FindEventLimit <= MaxFindEventLimit
    /\ Accepted => "credentials" \in file.has

BackendInv ==
    state \in {"published", "running"} =>
        /\ ("sns" \in backends) <=> ("aws" \in file.has)
        /\ ("nats" \in backends) <=> ("nats" \in file.has)
        /\ {"nats", "nats.tls"} \subseteq file.has => "nats.tls.rootCAs" \in file.has

DsnInv == state = "running" => dsn = Build(file)

\* r.once.Do runs at the first poll, and file never changes.
WhitelistInv == once => whitelist = EffectiveWhitelist

IInv ==
    /\ file \in Files
    /\ TypeOK /\ LoadInv /\ BackendInv /\ DsnInv /\ WhitelistInv
    /\ BlockedNeverFetched

USE DEF settings, polls, connected, vars, Row

-----------------------------------------------------------------------------
(* What decoding and defaults make of a setting. *)

LEMMA ValueType ==
    ASSUME NEW S, NEW given \in SUBSET S, NEW zero \in S
    PROVE  /\ Value(given, zero) \in S
           /\ Value(given, zero) # zero => Value(given, zero) \in given
BY DEF Value

LEMMA FileType ==
    ASSUME NEW f \in Files
    PROVE  /\ f.retryCount \in SUBSET Int /\ f.throughput \in SUBSET Int
           /\ f.findEventLimit \in SUBSET Nat /\ f.refetch \in SUBSET BOOLEAN
BY FilesAssumption

LEMMA SettingsType ==
    ASSUME NEW m \in Int, NEW l \in Nat, NEW t \in Int, NEW e \in BOOLEAN
    PROVE  [MaxRetryCount |-> m, FindEventLimit |-> l, Throughput |-> t,
            RefetchEnabled |-> e] \in Settings
BY DEF Settings

LEMMA DecodeType ==
    ASSUME NEW f,
           f.retryCount \in SUBSET Int, f.throughput \in SUBSET Int,
           f.findEventLimit \in SUBSET Nat, f.refetch \in SUBSET BOOLEAN
    PROVE  /\ Decode(f) \in Settings
           /\ Decode(f).MaxRetryCount \in f.retryCount \cup {0}
           /\ Decode(f).Throughput \in f.throughput \cup {0}
<1>1. Value(f.retryCount, 0) \in Int /\ Value(f.retryCount, 0) \in f.retryCount \cup {0}
  BY ValueType
<1>2. Value(f.throughput, 0) \in Int /\ Value(f.throughput, 0) \in f.throughput \cup {0}
  BY ValueType
<1>3. Value(f.findEventLimit, 0) \in Nat
  BY ValueType
<1>4. Value(f.refetch, FALSE) \in BOOLEAN
  BY ValueType
<1> QED
  BY <1>1, <1>2, <1>3, <1>4, SettingsType DEF Decode

LEMMA DefaultsType ==
    ASSUME NEW c \in Settings
    PROVE  /\ SetDefaults(c) \in Settings
           /\ SetDefaults(c).FindEventLimit >= 1
           /\ SetDefaults(c).MaxRetryCount =
                 IF c.MaxRetryCount = 0 THEN 10 ELSE c.MaxRetryCount
           /\ SetDefaults(c).Throughput =
                 IF c.Throughput = 0 THEN 3000 ELSE c.Throughput
<1> USE DEF Settings
<1>1. OrDefault(c.RefetchEnabled, FALSE, TRUE) \in BOOLEAN
  BY DEF OrDefault
<1>2. /\ OrDefault(c.MaxRetryCount, 0, 10) \in Int
      /\ OrDefault(c.Throughput, 0, 3000) \in Int
      /\ OrDefault(c.FindEventLimit, 0, 1000) \in Nat
      /\ OrDefault(c.FindEventLimit, 0, 1000) >= 1
  BY DEF OrDefault
<1> HIDE DEF Settings
<1> DEFINE m == OrDefault(c.MaxRetryCount, 0, 10)
           l == OrDefault(c.FindEventLimit, 0, 1000)
           t == OrDefault(c.Throughput, 0, 3000)
           e == OrDefault(c.RefetchEnabled, FALSE, TRUE)
<1>3. SetDefaults(c) = [MaxRetryCount |-> m, FindEventLimit |-> l, Throughput |-> t,
                        RefetchEnabled |-> e]
  BY Zenon DEF SetDefaults
<1>4. m \in Int /\ l \in Nat /\ t \in Int
  BY <1>2
<1>5. e \in BOOLEAN
  BY <1>1
<1> HIDE DEF m, l, t, e
<1>6. SetDefaults(c) \in Settings
  BY <1>3, <1>4, <1>5, SettingsType
<1> USE DEF m, l, t, e
<1>7. /\ SetDefaults(c).FindEventLimit = OrDefault(c.FindEventLimit, 0, 1000)
      /\ SetDefaults(c).MaxRetryCount = OrDefault(c.MaxRetryCount, 0, 10)
      /\ SetDefaults(c).Throughput = OrDefault(c.Throughput, 0, 3000)
  BY DEF SetDefaults
<1> QED
  BY <1>2, <1>6, <1>7 DEF OrDefault

LEMMA BuildType ==
    ASSUME NEW f \in Files
    PROVE  Build(f) \in Dsns
BY DEF Build, mysqlBuild, postgresBuild, Dsns

LEMMA PairCardinality ==
    ASSUME NEW a, NEW b, a # b
    PROVE  Cardinality({a, b}) = 2
<1>1. IsFiniteSet({a}) /\ Cardinality({a}) = 1
  BY FS_Singleton
<1>2. {a, b} = {a} \cup {b} /\ b \notin {a}
  OBVIOUS
<1>3. Cardinality({a} \cup {b}) = Cardinality({a}) + 1
  BY <1>1, <1>2, FS_AddElement
<1> QED
  BY <1>1, <1>2, <1>3

\* One client for every backend of the file, or none is missing.
LEMMA ClientsCount ==
    ASSUME NEW f \in Files, NEW up \in SUBSET {"aws", "nats"},
           Cardinality(Clients(f, up)) = Cardinality(f.has \cap {"aws", "nats"})
    PROVE  /\ ("sns" \in Clients(f, up)) <=> ("aws" \in f.has)
           /\ ("nats" \in Clients(f, up)) <=> ("nats" \in f.has)
           /\ "nats" \in f.has => Trusted(f)
<1> DEFINE made == Clients(f, up)
           given == f.has \cap {"aws", "nats"}
<1>1. /\ "sns" \in made <=> "aws" \in f.has /\ "aws" \in up
      /\ "nats" \in made <=> "nats" \in f.has /\ "nats" \in up /\ Trusted(f)
      /\ made \subseteq {"sns", "nats"}
  BY DEF Clients
<1>2. \A a, b : a # b => Cardinality({a, b}) = 2
  BY PairCardinality
<1>3. \A a : Cardinality({a}) = 1
  BY FS_Singleton
<1>4. /\ Cardinality({"sns"}) = 1 /\ Cardinality({"nats"}) = 1 /\ Cardinality({"aws"}) = 1
       /\ Cardinality({"sns", "nats"}) = 2 /\ Cardinality({"aws", "nats"}) = 2
  BY <1>2, <1>3
<1>5. Cardinality({}) = 0
  BY FS_EmptySet
<1>6. made \in {{}, {"sns"}, {"nats"}, {"sns", "nats"}}
  BY <1>1
<1>7. given \in {{}, {"aws"}, {"nats"}, {"aws", "nats"}}
  OBVIOUS
<1>8. CASE given = {}
  <2>1. made = {}
    BY <1>1, <1>5, <1>6, <1>4, <1>8
  <2> QED
    BY <1>8, <2>1
<1>9. CASE given = {"aws"}
  <2>1. made = {"sns"}
    BY <1>1, <1>5, <1>6, <1>4, <1>9
  <2> QED
    BY <1>9, <2>1
<1>10. CASE given = {"nats"}
  <2>1. made = {"nats"}
    BY <1>1, <1>5, <1>6, <1>4, <1>10
  <2> QED
    BY <1>1, <1>10, <2>1
<1>11. CASE given = {"aws", "nats"}
  <2>1. made = {"sns", "nats"}
    BY <1>1, <1>5, <1>6, <1>4, <1>11
  <2> QED
    BY <1>1, <1>11, <2>1
<1> QED
  BY <1>7, <1>8, <1>9, <1>10, <1>11

-----------------------------------------------------------------------------
LEMMA InitIInv == Init => IInv
<1> SUFFICES ASSUME Init PROVE IInv
  OBVIOUS
<1>1. file.whitelist \subseteq Types /\ file.blacklist \subseteq Types
  BY FilesAssumption DEF Init
<1>2. cfg \in Settings
  <2> DEFINE nothing == [retryCount |-> {}, findEventLimit |-> {}, throughput |-> {},
                         refetch |-> {}]
  <2>1. /\ nothing.retryCount = {} /\ nothing.throughput = {}
        /\ nothing.findEventLimit = {} /\ nothing.refetch = {}
    OBVIOUS
  <2>2. cfg = Decode(nothing)
    BY DEF Init
  <2> HIDE DEF nothing
  <2> QED
    BY <2>1, <2>2, DecodeType
<1>3. TypeOK
  BY <1>1, <1>2 DEF Init, TypeOK, Dsns, NoDsn
<1> QED
  BY <1>3 DEF Init, IInv, LoadInv, Accepted, BackendInv, DsnInv, WhitelistInv, BlockedNeverFetched

LEMMA ValidChecks ==
    ASSUME NEW f, NEW c, Validate(f, c)
    PROVE  c.FindEventLimit <= MaxFindEventLimit /\ "credentials" \in f.has
<1>1. ValidOutbox(f, c) /\ ValidDatabase(f)
  BY DEF Validate
<1>2. c.FindEventLimit <= MaxFindEventLimit
  BY <1>1 DEF ValidOutbox
<1>3. "credentials" \in f.has
  BY <1>1 DEF ValidDatabase
<1> QED
  BY <1>2, <1>3

LEMMA LoadStep ==
    ASSUME IInv, loadConfig
    PROVE  IInv'
<1> USE DEF IInv, loadConfig
<1> DEFINE c == SetDefaults(Decode(file))
<1>1. c \in Settings
  BY FileType, DecodeType, DefaultsType
<1>2. cfg' \in Settings /\ installed' = installed
  BY <1>1 DEF TypeOK, SetupLog, SwitchType
<1>3. TypeOK'
  BY <1>2 DEF TypeOK
<1> HIDE DEF c
<1>4. Validate(file, c) => c.FindEventLimit <= MaxFindEventLimit /\ "credentials" \in file.has
  BY ValidChecks
<1> USE DEF c
<1>5. LoadInv'
  <2>1. CASE file.readable /\ Validate(file, c)
    BY <2>1, <1>4 DEF LoadInv
  <2>2. CASE ~(file.readable /\ Validate(file, c))
    BY <2>2 DEF LoadInv, Accepted
  <2> QED
    BY <2>1, <2>2
<1> QED
  BY <1>3, <1>5 DEF BackendInv, DsnInv, WhitelistInv, EffectiveWhitelist,
     BlockedNeverFetched

LEMMA PublisherStep ==
    ASSUME IInv, NEW up \in SUBSET {"aws", "nats"}, getPublisher(up)
    PROVE  IInv'
<1> USE DEF IInv, getPublisher
<1>1. Clients(file, up) \subseteq {"sns", "nats"}
  BY DEF Clients
<1>2. TypeOK'
  BY <1>1 DEF TypeOK
<1>3. BackendInv'
  BY ClientsCount DEF BackendInv, Trusted
<1> QED
  BY <1>2, <1>3 DEF LoadInv, Accepted, DsnInv, WhitelistInv, EffectiveWhitelist,
     BlockedNeverFetched

LEMMA ClientStep ==
    ASSUME IInv, NEW up \in SUBSET {"ssh", "ca", "database"}, NewClient(up)
    PROVE  IInv'
<1> USE DEF IInv, NewClient
<1>1. TypeOK'
  BY BuildType DEF TypeOK
<1> QED
  BY <1>1 DEF LoadInv, Accepted, BackendInv, DsnInv, WhitelistInv, EffectiveWhitelist,
     BlockedNeverFetched

LEMMA FindStep ==
    ASSUME IInv, FindEvents
    PROVE  IInv'
<1> USE DEF IInv, FindEvents
<1>1. TypeOK' /\ WhitelistInv'
  BY DEF TypeOK, WhitelistInv, EffectiveWhitelist
<1>2. BlockedNeverFetched'
  BY DEF BlockedNeverFetched, Allowed, Given
<1> QED
  BY <1>1, <1>2 DEF LoadInv, Accepted, BackendInv, DsnInv

LEMMA ChangeStep ==
    ASSUME IInv, NEW r \in Types \X Events, Change(r)
    PROVE  IInv'
<1> USE DEF IInv, Change
<1>1. TypeOK'
  BY DEF TypeOK
<1> QED
  BY <1>1 DEF LoadInv, Accepted, BackendInv, DsnInv, WhitelistInv, EffectiveWhitelist,
     BlockedNeverFetched

LEMMA IInvStep == IInv /\ [Next]_vars => IInv'
<1> SUFFICES ASSUME IInv, [Next]_vars PROVE IInv'
  OBVIOUS
<1>1. CASE UNCHANGED vars
  BY <1>1 DEF IInv, TypeOK, LoadInv, Accepted, BackendInv, DsnInv, WhitelistInv,
     EffectiveWhitelist, BlockedNeverFetched
<1> QED
  BY <1>1, LoadStep, PublisherStep, ClientStep, FindStep, ChangeStep DEF Next

-----------------------------------------------------------------------------
\* Settings, backends, connection and lists are of their types for any files.
THEOREM TypeCorrect == Spec => []TypeOK
<1>1. IInv => TypeOK
  BY DEF IInv
<1> QED
  BY InitIInv, IInvStep, <1>1, PTL DEF Spec

\* loadConfig lets no worker run with an empty batch or one above the maximum,
\* nor, for numbers that are not negative, without an attempt or a rate.
THEOREM UsableSafe == Spec => []RunsWithUsableSettings
<1>1. IInv => RunsWithUsableSettings
  <2> SUFFICES ASSUME IInv, state = "running" PROVE RunsWithUsableSettings
    BY DEF RunsWithUsableSettings
  <2>1. cfg = SetDefaults(Decode(file)) /\ file \in Files
    BY DEF IInv, LoadInv, Accepted
  <2>2. cfg.FindEventLimit <= MaxFindEventLimit
    BY DEF IInv, LoadInv, Accepted
  <2>3. Decode(file) \in Settings
    BY <2>1, FileType, DecodeType
  <2>4. cfg.MaxRetryCount \in (file.retryCount \ {0}) \cup {10}
    BY <2>1, <2>3, FileType, DecodeType, DefaultsType
  <2>5. cfg.Throughput \in (file.throughput \ {0}) \cup {3000}
    BY <2>1, <2>3, FileType, DecodeType, DefaultsType
  <2>6. cfg.FindEventLimit >= 1
    BY <2>1, <2>3, DefaultsType
  <2>7. cfg \in Settings
    BY <2>1, <2>3, DefaultsType
  <2>8. file.retryCount \subseteq Int /\ file.throughput \subseteq Int
    BY <2>1, FilesAssumption
  <2>9. cfg.FindEventLimit \in Nat
    BY <2>7 DEF Settings
  <2>10. MaxFindEventLimit \in Nat
    BY DEF MaxFindEventLimit
  <2> DEFINE l == cfg.FindEventLimit
  <2>11. l \in Nat /\ l >= 1 /\ l <= MaxFindEventLimit
    BY <2>2, <2>6, <2>9
  <2> HIDE DEF l
  <2>12. l \in 1 .. MaxFindEventLimit
    BY <2>10, <2>11
  <2>13. (\A n \in file.retryCount : n >= 0) => cfg.MaxRetryCount >= 1
    BY <2>4, <2>8
  <2>14. (\A n \in file.throughput : n >= 0) => cfg.Throughput >= 1
    BY <2>8, <2>5
  <2> QED
    BY <2>12, <2>13, <2>14 DEF RunsWithUsableSettings, l
<1> QED
  BY InitIInv, IInvStep, <1>1, PTL DEF Spec

\* outboxTableExpressions keeps every row of a blacklisted type or a skipped
\* event from every poll, for any lists and any rows.
THEOREM BlockedSafe == Spec => []BlockedNeverFetched
<1>1. IInv => BlockedNeverFetched
  BY DEF IInv
<1> QED
  BY InitIInv, IInvStep, <1>1, PTL DEF Spec

\* getPublisher and mysqlBuild: a worker that runs has the backends of its file,
\* and a MySQL connection string with the credentials of its file and with its
\* TLS configuration, if it has one.
THEOREM ClientsSafe == Spec => []ClientsAsConfigured
<1>1. IInv => ClientsAsConfigured
  <2> SUFFICES ASSUME IInv, state = "running" PROVE ClientsAsConfigured
    BY DEF ClientsAsConfigured
  <2>1. dsn = Build(file)
    BY DEF IInv, DsnInv
  <2>2. "credentials" \in file.has
    BY DEF IInv, LoadInv, Accepted
  <2>3. dsn.driver = "mysql" =>
           /\ dsn.user = "config"
           /\ dsn.tls = "custom" <=> "database.tls" \in file.has
    BY <2>1, <2>2 DEF Build, mysqlBuild, postgresBuild
  <2> QED
    BY <2>3 DEF IInv, BackendInv, ClientsAsConfigured
<1> QED
  BY InitIInv, IInvStep, <1>1, PTL DEF Spec

\* A poll fetches exactly the rows the lists are meant to let pass, unless the
\* blacklist uses up the whitelist.
THEOREM FetchSafe == Spec => FetchesExactly
<1> DEFINE Step ==
      (state = "running" /\ table' = table
         /\ (file.whitelist = {} \/ ~(file.whitelist \subseteq file.blacklist)))
        => fetched' = {r \in table : "aws" \in file.has =>
                          /\ file.whitelist # {} => r[1] \in file.whitelist
                          /\ r[1] \notin file.blacklist
                          /\ r[2] \notin file.skip}
<1>1. IInv /\ [Next]_vars => [Step]_vars
  <2> SUFFICES ASSUME IInv, Next, state = "running", table' = table,
                      file.whitelist = {} \/ ~(file.whitelist \subseteq file.blacklist)
               PROVE  Step
    OBVIOUS
  <2>1. FindEvents
    BY DEF Next, loadConfig, getPublisher, NewClient, Change
  <2>2. CASE "aws" \in file.has
    <3>1. whitelist' = EffectiveWhitelist
      BY <2>1, <2>2 DEF FindEvents, IInv, WhitelistInv
    <3>2. fetched' = {r \in table : Allowed(r, EffectiveWhitelist, file.blacklist, file.skip)}
      BY <2>1, <2>2, <3>1 DEF FindEvents, Given
    <3> QED
      BY <2>2, <3>2 DEF Allowed, EffectiveWhitelist
  <2>3. CASE "aws" \notin file.has
    <3>1. fetched' = {r \in table : Allowed(r, {}, {}, {})}
      BY <2>1, <2>3 DEF FindEvents, Given
    <3> QED
      BY <2>3, <3>1 DEF Allowed
  <2> QED
    BY <2>2, <2>3
<1> QED
  BY InitIInv, IInvStep, <1>1, PTL DEF Spec, FetchesExactly

=============================================================================
