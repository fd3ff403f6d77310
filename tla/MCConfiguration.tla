--------------------------- MODULE MCConfiguration ---------------------------
(***************************************************************************)
(* Files for TLC: a complete file in which the lists vary, one in which    *)
(* the numbers and the refetch timer vary, files that lack sections, and   *)
(* files with every way to reach the database and NATS.                    *)
(***************************************************************************)
EXTENDS Configuration

Everything == {"outbox", "producerName", "credentials", "publisher",
               "aws", "nats", "sentry", "tracking", "agentAddr"}

Complete ==
    [readable |-> TRUE, has |-> Everything, handlers |-> {"json"}, uri |-> "postgres",
     retryCount |-> {}, findEventLimit |-> {}, throughput |-> {}, refetch |-> {},
     whitelist |-> {}, blacklist |-> {}, skip |-> {}]

Lists ==
    {[Complete EXCEPT !.has = h, !.whitelist = w, !.blacklist = b, !.skip = s] :
        h \in {Everything, Everything \ {"aws"}},
        w \in SUBSET Types, b \in SUBSET Types, s \in SUBSET Events}

Numbers ==
    {[Complete EXCEPT !.retryCount = c, !.findEventLimit = l,
                      !.throughput = t, !.refetch = r] :
        c \in {{}, {-1}, {0}, {2}}, l \in {{}, {0}, {7}, {10001}},
        t \in {{}, {-1}, {0}, {5000}}, r \in {{}, {FALSE}, {TRUE}}}

Sections ==
    {[Complete EXCEPT !.readable = ok, !.has = h, !.handlers = l] :
        ok \in BOOLEAN, h \in SUBSET Everything,
        l \in {{}, {"text", "sentry"}, {"unknown"}}}

Reaching ==
    {[Complete EXCEPT !.has = h \cup {"outbox", "producerName", "publisher", "nats"},
                      !.uri = u, !.handlers = {}] :
        h \in SUBSET {"credentials", "database.tls", "database.ssh", "ssh",
                      "ssh.host", "nats.tls", "nats.tls.rootCAs"},
        u \in Uris}

MCFiles == Lists \cup Numbers \cup Sections \cup Reaching

=============================================================================
