------------------------------ MODULE MCTraffic ------------------------------
(* Controllers of policies for traffic other than that of ClientIntents in the *)
(* pod network, next to each other: a behaviour is one of external traffic,    *)
(* Istio, Linkerd, metrics collection and webhooks.  Variables of the same     *)
(* sort are shared; those that a part has no use for are "off".                *)
EXTENDS Naturals, Sequences, FiniteSets

CONSTANTS   \* of ExternalTraffic
    Workloads, AddressLists, Kinded, Modes, MaxChanges, MaxFaults

VARIABLES part, changes, faults, queued, pass,
    ci, ciCache, pod,                   \* intents and pods, or what Linkerd sees of them
    ingress, ingressCache,              \* policies
    external, externalCache,            \* more policies, or Linkerd's resources
    service, serviceCache, events,      \* the Service, or the resources a handler reads
    mode, removing, run                 \* ExternalTraffic

clientVars == <<ci, ciCache, pod>>
policyVars == <<ingress, ingressCache>>
resourceVars == <<external, externalCache>>
serviceVars == <<service, serviceCache, events>>
handlerVars == <<mode, removing, run>>
vars == <<part, changes, faults, queued, pass, clientVars, policyVars, resourceVars,
          serviceVars, handlerVars>>

-----------------------------------------------------------------------------
External == INSTANCE ExternalTraffic
AddressesOfWeb == {<<>>, <<"web">>}

ASSUME ConstantsAssumption == External!ConstantsAssumption

To(s, m) == [server |-> s, methods |-> m]
Istio == INSTANCE IstioPolicies WITH
    Clients <- {"c"}, Servers <- {"s", "t"}, Accounts <- {"a", "b"}, Enforced <- {"s", "t"},
    Targets <- {<<To("s", <<>>)>>, <<To("s", <<"GET">>), To("t", <<>>)>>, <<To("s", <<"PUT">>)>>},
    MaxChanges <- 2, MaxFaults <- 0,
    intents <- ci, intentsCache <- ciCache, pods <- pod, queue <- queued,
    policies <- ingress, policiesCache <- ingressCache

Call(s, p) == [server |-> s, path |-> p]
Linkerd == INSTANCE LinkerdPolicies WITH
    Clients <- {"c", "d"}, Servers <- {"s"}, Paths <- {"/a", "/p"}, Probe <- "/p", Apart <- {},
    Calls <- {{}, {Call("s", "no HTTP")}, {Call("s", "/a")}},
    MaxIds <- 2, MaxChanges <- 2, MaxFaults <- 1,
    declared <- ci, running <- pod, meshed <- ciCache, resources <- external, cache <- externalCache

Metrics == INSTANCE MetricsTraffic WITH
    Workloads <- {"w"}, Services <- {"s", "t"}, Marks <- {"8080", "9090", "bad"},
    Mode <- "if-blocked-by-otterize", Names <- {"pod", "service"} \X {"w"}, Places <- {"ns"},
    MaxChanges <- 2, MaxFaults <- 1,
    policies <- ingress, policiesCache <- ingressCache, news <- events,
    cluster <- service, known <- serviceCache

Ref(q, p) == [service |-> "s", at |-> q, port |-> p]
Webhooks == INSTANCE WebhookTraffic WITH
    Configurations <- {"c"}, ServiceNames <- {"s"}, Ports <- {443, 9443},
    References <- {{}, {Ref("m", 443)}, {Ref("m", 443), Ref("m", 9443)}, {Ref("n", 443)},
                   {Ref("m", 1)}},
    Mode <- "if-blocked-by-otterize", Names <- {"c"} \X {"s"}, Places <- {"m", "n"},
    MaxChanges <- 2, MaxFaults <- 0,
    policies <- ingress, policiesCache <- ingressCache, news <- events,
    cluster <- service, known <- serviceCache

-----------------------------------------------------------------------------
Off == "off"
ClientOff == ci = Off /\ ciCache = Off /\ pod = Off
PolicyOff == ingress = Off /\ ingressCache = Off
ResourceOff == external = Off /\ externalCache = Off
ServiceOff == service = Off /\ serviceCache = Off /\ events = Off
HandlerOff == mode = Off /\ removing = Off /\ run = Off

Init ==
    \/ /\ part = "external" /\ External!Init
       /\ ClientOff /\ pass = Off
    \/ /\ part = "istio" /\ Istio!Init
       /\ ResourceOff /\ ServiceOff /\ HandlerOff
    \/ /\ part = "linkerd" /\ Linkerd!Init
       /\ PolicyOff /\ ServiceOff /\ HandlerOff
    \/ /\ part = "metrics" /\ Metrics!Init
       /\ ClientOff /\ ResourceOff /\ HandlerOff
    \/ /\ part = "webhooks" /\ Webhooks!Init
       /\ ClientOff /\ ResourceOff /\ HandlerOff

\* Bound: in these parts changes and faults together.
MaxTroubles == 2
FewTroubles == changes' + faults' <= MaxTroubles

InExternal(A) == part = "external" /\ A
                 /\ UNCHANGED <<part, clientVars, pass>>
InIstio(A) == part = "istio" /\ A
              /\ UNCHANGED <<part, resourceVars, serviceVars, handlerVars>>
InLinkerd(A) == part = "linkerd" /\ A /\ FewTroubles
                /\ UNCHANGED <<part, policyVars, serviceVars, handlerVars>>
HandlerOfPolicies(A) == A /\ UNCHANGED <<part, clientVars, resourceVars, handlerVars>>
InMetrics(A) == part = "metrics" /\ HandlerOfPolicies(A) /\ FewTroubles
InWebhooks(A) == part = "webhooks" /\ HandlerOfPolicies(A)

Next == \/ InExternal(External!Next) \/ InIstio(Istio!Next)
        \/ InLinkerd(Linkerd!Next) \/ InMetrics(Metrics!Next) \/ InWebhooks(Webhooks!Next)

-----------------------------------------------------------------------------
\* Fair steps: each controller of a part, the informers and the resyncs.
First == \/ InExternal(External!Step("service"))
         \/ InIstio(Istio!IntentsStep) \/ InLinkerd(Linkerd!Step)
         \/ InMetrics(Metrics!Handle("resources")) \/ InWebhooks(Webhooks!Handle("resources"))
Second == \/ InExternal(External!Step("netpol")) \/ InIstio(Istio!PodStep)
          \/ InMetrics(Metrics!Handle("policies")) \/ InWebhooks(Webhooks!Handle("policies"))
Third == InExternal(External!Step("intents"))
Sync == \/ InExternal(External!SyncService) \/ InIstio(Istio!Sync)
        \/ InLinkerd(Linkerd!Sync) \/ InMetrics(Metrics!Sync) \/ InWebhooks(Webhooks!Sync)
Resync == \/ InExternal(External!SyncPolicy("ingress"))
          \/ InIstio(Istio!Resync) \/ InLinkerd(Linkerd!Resync)

Spec == /\ Init /\ [][Next]_vars
        /\ WF_vars(First) /\ WF_vars(Second) /\ WF_vars(Third) /\ WF_vars(Sync) /\ WF_vars(Resync)
        /\ WF_vars(InExternal(External!SyncPolicy("external")))
        /\ WF_vars(InExternal(External!RemoveAccess))

-----------------------------------------------------------------------------
TypeOK ==
    CASE part = "external" -> External!TypeOK
      [] part = "istio" -> Istio!TypeOK
      [] part = "linkerd" -> Linkerd!TypeOK
      [] part = "metrics" -> Metrics!TypeOK
      [] part = "webhooks" -> Webhooks!TypeOK

\* With nothing left to do, the external policy is there exactly when it is needed
\* (ExternalTraffic).
ExternalMatchesAtRest == part = "external" => External!ExternalMatchesAtRest

\* In the end the controllers agree on the external policy (ExternalTraffic).
ExternalSettles == <>[](part = "external" => External!ExternalAsNeeded)

\* In the end a client has the Istio policies of its targets (IstioPolicies).
IstioClientsServed == <>[](part = "istio" => Istio!ClientsServed)

\* In the end a meshed client reaches what it declares through Linkerd and nothing
\* else (LinkerdPolicies).
LinkerdClientsServed == <>[](part = "linkerd" => Linkerd!ClientsServed)

\* In the end marked workloads, and no others, are open to Prometheus, at each level
\* that no bad mark holds up (MetricsTraffic).
MetricsMatch == <>[](part = "metrics" => Metrics!PoliciesMatch)

\* In the end the control plane is admitted to the Services of webhooks on exactly
\* their ports (WebhookTraffic).
WebhooksAdmitted == <>[](part = "webhooks" => Webhooks!WebhooksAdmitted)
=============================================================================
