--------------------------- MODULE MCRequestPath ---------------------------
(* A small instance of RequestPath for TLC.                                *)
EXTENDS RequestPath

-----------------------------------------------------------------------------
(* Workflows                                                               *)

Body(expected, max, concurrency, reasoning) ==
    [known |-> TRUE, expectedCalls |-> expected, maxCalls |-> max,
     maxConcurrency |-> concurrency, reasoning |-> reasoning]
MCBodies ==
    {Body(e, m, Absent, FALSE) : e \in {Absent, 0, 1, 3}, m \in {Absent, NotAnInteger, 1, 4}}
      \cup {Body(2, Absent, 2, TRUE), [Body(1, 1, 1, FALSE) EXCEPT !.known = FALSE]}

RowOf(samples) ==
    [observations |-> Len(samples), calls |-> FoldSeq(LAMBDA x, y : x + y, 0, samples),
     squares |-> FoldSeq(LAMBDA x, y : x * x + y, 0, samples)]
(* The environment has seen the caller's workflows and those of others.    *)
MCHistories ==
    {[caller |-> RowOf(own), global |-> RowOf(own \o others)] :
        own \in {<< >>, <<0>>, <<3>>, <<1, 5>>}, others \in {<< >>, <<2>>, <<1, 4>>}}
MCProgress ==
    {[callsStarted |-> 0, actualTokens |-> 0, primaryProvider |-> NoProvider],
     [callsStarted |-> 2, actualTokens |-> 9, primaryProvider |-> "groq"]}

-----------------------------------------------------------------------------
(* Accounts                                                                *)

Model(name, context, output, supports, tier, free) ==
    [name |-> name, context |-> context, output |-> output, supports |-> supports,
     tier |-> tier, free |-> free, automatic |-> TRUE]
Agent == Model("agent", 64, 8, {"streaming", "tools"}, "balanced", TRUE)
Large == Model("free/default", 128, 16, {"streaming", "tools", "vision"}, "reasoning", TRUE)
Paid == Model("paid", 128, 16, {"streaming", "tools"}, "balanced", FALSE)
Plain == Model("plain", 64, 4, {}, "fast", TRUE)

MCNvidiaModels == <<Large>>
MCDiagnosticModels == <<[Model("echo", 128, 16, {"streaming"}, "fast", TRUE) EXCEPT !.automatic = FALSE]>>

Extra(origin, provider, scope, usable, models) ==
    [origin |-> origin, provider |-> provider, scope |-> scope, usable |-> usable, models |-> models]
Account(origin, scope, derived, enabled, models) ==
    [origin |-> origin, provider |-> "groq", scope |-> scope, derived |-> derived,
     valid |-> TRUE, enabled |-> enabled, models |-> models]

Config(nvidia, extras, accounts, diagnostic) ==
    [nvidia |-> nvidia, extras |-> extras, accounts |-> accounts, diagnostic |-> diagnostic]

(* Two accounts of one provider, apart or by mistake the same; an extra    *)
(* that is the built-in account again; an account without a scope; one     *)
(* that is disabled; one without a key.                                    *)
MCConfigurations ==
    {Config(FALSE, << >>, <<Account("one", NoScope, "one", TRUE, <<Agent, Paid>>),
                            Account("two", scope, "two", enabled, <<Agent, Plain>>)>>, FALSE) :
        scope \in {NoScope, "one"}, enabled \in BOOLEAN}
      \cup {Config(TRUE, <<Extra("extra", provider, NoScope, usable, <<Large, Plain>>)>>,
                   <<Account("one", NoScope, "one", TRUE, <<Agent>>)>>, TRUE) :
               provider \in {"groq", "nvidia"}, usable \in BOOLEAN}
      \cup {Config(TRUE, << >>, <<Account("none", NoScope, NoScope, TRUE, <<Agent>>)>>, FALSE),
            Config(FALSE, << >>, << >>, TRUE)}

-----------------------------------------------------------------------------
(* Requests                                                                *)

Request(name, input, output, uses, tier, paid) ==
    [model |-> name, input |-> input, output |-> output, uses |-> uses, tier |-> tier, paid |-> paid]
(* 59 + 4 and a margin of 1 fill a contract exactly.                       *)
MCRequests ==
    {Request(<<name>>, input, 4, uses, NoTier, FALSE) :
        name \in {"free/hermes", "free/compression"}, input \in {59, 60},
        uses \in {{}, {"streaming", "tools"}}}
      \cup {Request(<<"free/hermes">>, 1, 5, {}, NoTier, TRUE),
            Request(<<"free/hermes">>, 1, 1, {"vision"}, NoTier, FALSE),
            Request(DefaultModel, 2, 1, {}, NoTier, TRUE),
            Request(DefaultModel, 2, 1, {}, NoTier, FALSE),
            Request(DefaultModel, 2, 1, {}, "fast", FALSE),
            Request(<<"groq", "one", "paid">>, 2, 1, {"tools"}, NoTier, TRUE),
            Request(<<"groq", "one", "paid">>, 2, 1, {"tools"}, NoTier, FALSE),
            Request(<<"echo">>, 2, 1, {}, NoTier, FALSE)}

-----------------------------------------------------------------------------
(* Ranking                                                                 *)

MCRanked == {Request(DefaultModel, 2, 1, {}, NoTier, FALSE)}
MCWorkflowCalls ==
    {Config(TRUE, <<Extra("extra", "groq", NoScope, FALSE, <<Large, Plain>>)>>,
            <<Account("one", NoScope, "one", TRUE, <<Agent>>)>>, TRUE)} \X MCRanked

Headroom(requests, tokens, concurrent, daily) ==
    [requests |-> requests, tokens |-> tokens, concurrent |-> concurrent, daily |-> daily]
MCHeadrooms ==
    {Headroom(Unlimited, Unlimited, Unlimited, Unlimited), Headroom(2, 4, 1, Unlimited),
     Headroom(1, 3, 1, 200)}
Statistic(observations, success, completion, rateRisk, quality, latencyPenalty) ==
    [observations |-> observations, success |-> success, completion |-> completion,
     rateRisk |-> rateRisk, quality |-> quality, latencyPenalty |-> latencyPenalty]
MCStatistics == {Statistic(8, 0, 0, 100, 0, 94 * Thousand),
                 Statistic(3, 100, 100, 0, 100, 10 * Thousand)}
Control(mode, rate, evidence) ==
    [mode |-> mode, explorationRate |-> rate, minObservations |-> evidence]
MCControls == {Control("adaptive", 40, 1), Control("adaptive", -1, 0), Control("shadow", 10, 0)}

-----------------------------------------------------------------------------
(* Answers                                                                 *)

Line(json, reasoning, text, length, tokens, odd) ==
    [json |-> json, reasoning |-> reasoning, text |-> text, length |-> length,
     tokens |-> tokens, odd |-> odd]
MCLines ==
    {Line(TRUE, TRUE, "none", FALSE, NoReport, FALSE), Line(TRUE, TRUE, "text", FALSE, NoReport, TRUE),
     Line(TRUE, FALSE, "text", FALSE, 3, FALSE), Line(TRUE, FALSE, "blank", TRUE, NoReport, FALSE),
     Line(TRUE, FALSE, "blank", FALSE, NoReport, FALSE), Line(FALSE, FALSE, "none", FALSE, NoReport, FALSE),
     Line(TRUE, FALSE, "none", FALSE, 5, FALSE)}
=============================================================================
