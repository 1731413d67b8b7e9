----------------------------- MODULE CloudReports -----------------------------
(***************************************************************************)
(* What the operator tells the cloud from time to time: the events on      *)
(* ClientIntents and their statuses, each unless a cache says that it has  *)
(* been told already, and the operator's own configuration.  One loop      *)
(* reports events and statuses, by lists of so many at a time; what it     *)
(* reports is what the informers' caches held when the pass began.         *)
(*                                                                         *)
(* A status stands for generation, upToDate and observedGeneration.        *)
(***************************************************************************)
EXTENDS Naturals, FiniteSets

CONSTANTS
    Intents,    \* names of ClientIntents
    Events,
    Statuses,   \* what a status may be
    MaxChunk,   \* so many are sent at a time
    MaxCached,  \* and so many remembered
    MaxChanges, MaxFaults \* bounds

Gone == [uid |-> 0]
NoPass == [of |-> "nothing"]
NoReport == [of |-> "no report"]

VARIABLES
    intents, intentsSeen, \* [Intents -> [uid, status] or Gone], and the cache
    events,     \* [Events -> SUBSET Intents]: the one it is about, once it is there
    eventCache, \* the events the loop remembers, and
    statusCache,\* the [uid, status] it does
    pass,       \* [of, all, left]: what is reported, what is left of it
    told,       \* events, statuses by name and configuration the cloud has
    istio,      \* whether Istio is installed, which the configuration says
    uids, changes, faults

vars == <<intents, intentsSeen, events, eventCache, statusCache, pass, told, istio,
          uids, changes, faults>>

Init ==
    /\ intents = [n \in Intents |-> Gone]
    /\ intentsSeen = intents
    /\ events = [e \in Events |-> {}]
    /\ eventCache = {} /\ statusCache = {}
    /\ pass = NoPass
    /\ told = [events |-> {}, statuses |-> [n \in Intents |-> Gone], istio |-> FALSE]
    /\ istio = FALSE
    /\ uids = 0 /\ changes = 0 /\ faults = 0

-----------------------------------------------------------------------------
(* The cluster.                                                            *)

Change == changes < MaxChanges /\ changes' = changes + 1

ChangeIntents(n) ==
    /\ Change
    /\ \E s \in Statuses :
        \/ /\ intents[n] = Gone
           /\ uids' = uids + 1
           /\ intents' = [intents EXCEPT ![n] = [uid |-> uids', status |-> s]]
        \/ /\ intents[n] # Gone /\ s # intents[n].status
           /\ intents' = [intents EXCEPT ![n].status = s] /\ UNCHANGED uids
        \/ /\ intents[n] # Gone
           /\ intents' = [intents EXCEPT ![n] = Gone] /\ UNCHANGED uids
    /\ UNCHANGED <<intentsSeen, events, eventCache, statusCache, pass, told, istio, faults>>

Record(e, n) ==
    /\ events[e] = {} /\ intents[n] # Gone
    /\ events' = [events EXCEPT ![e] = {n}]
    /\ UNCHANGED <<intents, intentsSeen, eventCache, statusCache, pass, told, istio,
                   uids, changes, faults>>

InstallIstio ==
    /\ Change
    /\ istio' = ~istio
    /\ UNCHANGED <<intents, intentsSeen, events, eventCache, statusCache, pass, told,
                   uids, faults>>

Sync(n) ==
    /\ intentsSeen[n] # intents[n]
    /\ intentsSeen' = [intentsSeen EXCEPT ![n] = intents[n]]
    /\ UNCHANGED <<intents, events, eventCache, statusCache, pass, told, istio,
                   uids, changes, faults>>

-----------------------------------------------------------------------------
(* The loop.                                                               *)

\* An event whose ClientIntents is not there is left out, and not remembered.
queryIntentEvents ==
    {e \in Events \ eventCache : \E n \in events[e] : intentsSeen[n] # Gone}

queryIntentStatuses ==
    {n \in Intents : intentsSeen[n] # Gone /\ intentsSeen[n] \notin statusCache}

reportIntentEvents ==
    /\ pass = NoPass /\ queryIntentEvents # {}
    /\ pass' = [of |-> "events", all |-> queryIntentEvents, left |-> queryIntentEvents]
    /\ UNCHANGED <<intents, intentsSeen, events, eventCache, statusCache, told, istio,
                   uids, changes, faults>>

reportIntentStatuses ==
    /\ pass = NoPass /\ queryIntentStatuses # {}
    /\ LET list == {[name |-> n, of |-> intentsSeen[n]] : n \in queryIntentStatuses} IN
       pass' = [of |-> "statuses", all |-> list, left |-> list]
    /\ UNCHANGED <<intents, intentsSeen, events, eventCache, statusCache, told, istio,
                   uids, changes, faults>>

Tell(chunk) ==
    told' = IF pass.of = "events"
            THEN [told EXCEPT !.events = @ \cup chunk]
            ELSE [told EXCEPT !.statuses = [n \in Intents |->
                    IF \E r \in chunk : r.name = n
                    THEN (CHOOSE r \in chunk : r.name = n).of ELSE @[n]]]

\* A bug it could have: one chunk and no more.
NoneLeft(chunk) == {}

Left(chunk) == pass.left \ chunk

\* A chunk is sent, or the call fails, heard by the cloud or not, and the pass
\* with it.
doReport ==
    /\ pass # NoPass /\ pass.left # {}
    /\ \E chunk \in SUBSET pass.left :
        /\ chunk # {}
        /\ \/ Cardinality(chunk) = MaxChunk
           \/ Cardinality(chunk) < MaxChunk /\ chunk = pass.left
        /\ \/ /\ Tell(chunk)
              /\ pass' = [pass EXCEPT !.left = Left(chunk)]
              /\ UNCHANGED faults
           \/ /\ faults < MaxFaults /\ faults' = faults + 1
              /\ Tell(chunk) \/ UNCHANGED told
              /\ pass' = NoPass
    /\ UNCHANGED <<intents, intentsSeen, events, eventCache, statusCache, istio, uids,
                   changes>>

\* A cache of limited size keeps the latest, and perhaps some of the others.
Kept(cache, added) ==
    {c \in SUBSET (cache \cup added) :
        /\ Cardinality(c) <= MaxCached
        /\ \/ added \subseteq c
           \/ Cardinality(c) = MaxCached /\ c \subseteq added}

cacheReported ==
    /\ pass # NoPass /\ pass.left = {}
    /\ IF pass.of = "events"
       THEN eventCache' \in Kept(eventCache, pass.all) /\ UNCHANGED statusCache
       ELSE /\ LET replaced == {r.of.uid : r \in pass.all} IN
               statusCache' \in Kept({s \in statusCache : s.uid \notin replaced},
                                     {r.of : r \in pass.all})
            /\ UNCHANGED eventCache
    /\ pass' = NoPass
    /\ UNCHANGED <<intents, intentsSeen, events, told, istio, uids, changes, faults>>

\* What is remembered is forgotten after an hour.
Expire ==
    /\ eventCache # {} \/ statusCache # {}
    /\ eventCache' = {} /\ statusCache' = {}
    /\ UNCHANGED <<intents, intentsSeen, events, pass, told, istio, uids, changes, faults>>

-----------------------------------------------------------------------------
\* The configuration is sent every so often, changed or not.
uploadConfiguration ==
    /\ \/ told' = [told EXCEPT !.istio = istio] /\ UNCHANGED faults
       \/ faults < MaxFaults /\ faults' = faults + 1 /\ UNCHANGED told
    /\ UNCHANGED <<intents, intentsSeen, events, eventCache, statusCache, pass, istio,
                   uids, changes>>

-----------------------------------------------------------------------------
Next ==
    \/ \E n \in Intents : ChangeIntents(n) \/ Sync(n) \/ \E e \in Events : Record(e, n)
    \/ InstallIstio \/ uploadConfiguration
    \/ reportIntentEvents \/ reportIntentStatuses \/ doReport \/ cacheReported \/ Expire

\* Both tickers tick, and select takes either when both have; calls end.  What is
\* remembered does expire: a status that went back to what it was, after a call
\* that the cloud heard had failed, is told only then.
Fairness ==
    /\ \A n \in Intents : WF_vars(Sync(n))
    /\ SF_vars(reportIntentEvents) /\ SF_vars(reportIntentStatuses)
    /\ WF_vars(doReport) /\ WF_vars(cacheReported)
    /\ WF_vars(uploadConfiguration) /\ WF_vars(Expire)

Spec == Init /\ [][Next]_vars /\ Fairness

-----------------------------------------------------------------------------
CaughtUp ==
    /\ \A n \in Intents : intents[n] # Gone => told.statuses[n] = intents[n]
    /\ \A e \in Events :
        \/ events[e] = {} \/ e \in told.events
        \/ \E n \in events[e] : intents[n] = Gone
    /\ told.istio = istio

\* Whatever failed on the way and however little is remembered, the cloud ends
\* up with the latest status of every ClientIntents there is, every event on one
\* of them, and the configuration as it is.
CloudCaughtUp == <>[]CaughtUp

=============================================================================
