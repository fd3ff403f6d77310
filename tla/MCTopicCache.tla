---------------------------- MODULE MCTopicCache ----------------------------
(***************************************************************************)
(* Values of the constants of TopicCache for TLC: two topics, a row for    *)
(* the first of them, and a row that no backend serves, because its        *)
(* aggregate_type is no resource name or is one of another service.        *)
(***************************************************************************)
EXTENDS TopicCache

MCNames == {<<"orders">>, <<"users">>}

Orders == <<"arn", "aws", "sns", "region", "account", "orders">>
MCaggregateType ==
    [r \in Rows |-> IF r = "row" THEN Orders ELSE <<"orders">>]
MCotherService ==
    [r \in Rows |-> IF r = "row" THEN Orders
                                 ELSE <<"rn", "", "sqs", "", "", "orders">>]

=============================================================================
