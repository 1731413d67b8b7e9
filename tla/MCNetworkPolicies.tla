-------------------------- MODULE MCNetworkPolicies --------------------------
(* NetworkPolicies instantiated for TLC.                                    *)
EXTENDS NetworkPolicies, TLC

CONSTANTS
    a, b,       \* services
    n1, n2,     \* their namespaces
    intents,    \* the ClientIntents controller
    services    \* the Service controller

MCNamespaceOf == (a :> n1) @@ (b :> n2)

\* a and b may call each other.
Mutual == (a :> {b}) @@ (b :> {a})

\* Only a calls.
OneWay == (a :> {b}) @@ (b :> {})

=============================================================================
