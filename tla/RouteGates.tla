----------------------------- MODULE RouteGates -----------------------------
(***************************************************************************)
(* The gates a request passes before any learned score is asked: which     *)
(* models of the catalogue may serve it at all, in the catalogue's order.  *)
(* Besides concrete models a client may name a virtual one, a contract     *)
(* that any of several accounts may fulfil.  Token numbers are in units of *)
(* Margin, CONTEXT_SAFETY_MARGIN.                                          *)
(*                                                                         *)
(* A profile is [id, provider, scope, context, output, supports, tier,     *)
(* free, automatic, origin], where id is the tuple of the names its id is  *)
(* put together from, supports a subset of Features and origin the account *)
(* whose configuration it comes from; a request is [model, input, output,  *)
(* uses, tier, paid], NoTier without a tier hint.  Malformed messages are  *)
(* refused before any of this.                                             *)
(***************************************************************************)
EXTENDS Integers, Sequences, Orderings

Features == {"streaming", "tools", "vision", "structuredOutput"}
Margin == 1
DefaultModel == <<"free/default">>
NoTier == "no tier"

RequestType ==
    [model : Seq(STRING), input : Nat, output : Nat, uses : SUBSET Features, tier : STRING,
     paid : BOOLEAN]

(* VIRTUAL_MODELS: 65,536 tokens of context and 4,096 of output.           *)
VirtualModels ==
    {[id |-> <<"free/hermes">>, context |-> 64, output |-> 4, supports |-> {"streaming", "tools"}],
     [id |-> <<"free/compression">>, context |-> 64, output |-> 4, supports |-> {}]}

IsVirtual(id) == \E v \in VirtualModels : v.id = id
virtualModel(id) == CHOOSE v \in VirtualModels : v.id = id

(* Every virtual model is free.                                            *)
satisfiesVirtualModel(c, v) ==
    /\ c.automatic
    /\ c.free
    /\ c.context >= v.context
    /\ c.output >= v.output
    /\ v.supports \subseteq c.supports

(* Mutated form: the contract's own limits are asked of the request only.  *)
AllowedVirtualUnmatched(c, request) ==
    LET v == virtualModel(request.model)
    IN  (request.uses \cap {"streaming", "tools", "vision"}) \subseteq v.supports /\ c.free

(* What a request for a virtual model may use is what the contract grants. *)
AllowedVirtual(c, request) ==
    LET v == virtualModel(request.model)
    IN  /\ (request.uses \cap {"streaming", "tools", "vision"}) \subseteq v.supports
        /\ satisfiesVirtualModel(c, v)

(* "free/default" asks for any model that is routed automatically, another *)
(* name for exactly that model.                                            *)
AllowedConcrete(c, request) ==
    /\ c.free \/ request.paid
    /\ IF request.model = DefaultModel THEN c.automatic ELSE c.id = request.model

HasRoom(c, request) ==
    /\ request.input + request.output + Margin <= c.context
    /\ request.output <= c.output

Capable(c, request) ==
    /\ request.tier \in {NoTier, c.tier}
    /\ (request.uses \cap {"streaming", "tools", "vision"}) \subseteq c.supports
    /\ HasRoom(c, request)

Eligible(c, request) ==
    /\ IF IsVirtual(request.model) THEN AllowedVirtual(c, request) ELSE AllowedConcrete(c, request)
    /\ Capable(c, request)

(* selectRoutes; the empty sequence stands for "context_unavailable".      *)
selectRoutes(request, catalog) ==
    Subsequence(catalog, {i \in DOMAIN catalog : Eligible(catalog[i], request)})
=============================================================================
