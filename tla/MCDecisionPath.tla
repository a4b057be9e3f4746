--------------------------- MODULE MCDecisionPath ---------------------------
(* Small instances of DecisionPath for TLC: the services that may be        *)
(* launched and the requests that may be sent.                             *)
EXTENDS DecisionPath

Service(ready, mapper, vocabulary, variant) ==
    [ready |-> ready, threshold |-> 1, mapper |-> mapper, vocabulary |-> vocabulary,
     override |-> NoOverride, unknown |-> 0, variant |-> variant]

(* The BERT service, one with a stub predictor, one without the mapper and  *)
(* one that is not ready.                                                  *)
Launched ==
    {Service(TRUE, TRUE, TRUE, "prompt_schema_history"),
     Service(TRUE, TRUE, FALSE, "prompt_schema"),
     Service(TRUE, FALSE, TRUE, "prompt"), Service(FALSE, TRUE, TRUE, "prompt")}
BertService == {Service(TRUE, TRUE, TRUE, "prompt_schema_history")}

Stale == [reliable |-> TRUE, tokens |-> 2]

ClientRequest(error, tools, systems, fields, gate, carried) ==
    [error |-> error, prompt |-> TRUE, text |-> FALSE, tools |-> tools,
     systems |-> systems, fields |-> fields, gate |-> gate, xargs |-> carried]

(* A trusted stratum with its features, and one replayed with its schema in *)
(* the system message and without a conversation; an abstained stratum; an  *)
(* empty tools array; generation controls the service refuses; a body it    *)
(* does not read; and a payload the gateway makes nothing of.               *)
SomeRequests ==
    {ClientRequest(NoError, "some", 0, {"conversation_id"}, 1, Stale),
     ClientRequest(NoError, "none", 1, {}, 1, Absent),
     ClientRequest(NoError, "some", 2, {"conversation_id"}, 0, Stale),
     ClientRequest(NoError, "empty", 0, {}, 1, Absent),
     ClientRequest("unsupported_controls", "some", 0, {}, 1, Stale),
     ClientRequest(TooLarge, "some", 0, {}, 1, Stale),
     ClientRequest(Unreadable, "some", 0, {}, 1, Absent)}
=============================================================================
