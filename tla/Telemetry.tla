------------------------------ MODULE Telemetry ------------------------------
(***************************************************************************)
(* Usage counts and errors on their way to the cloud: each kind has a      *)
(* batcher, a bounded channel with one goroutine that takes what is there  *)
(* and sends it.  The counts are of unique keys, added up between two      *)
(* resets and sent whole; a batch that fails is not sent again.  What a    *)
(* batcher logs as an error is itself an item of the batcher of errors.    *)
(***************************************************************************)
EXTENDS Naturals, Sequences, SequencesExt

CONSTANTS
    Keys,     \* what is counted
    Buffer,   \* the capacity of a channel
    MaxBatch,
    MaxItems  \* bounds what the operator counts and logs

Batchers == {"counts", "errors"}

VARIABLES
    items,    \* [Batchers -> Seq(item)]: the channels
    batch,    \* [Batchers -> Seq(item)]: what is being handled
    at,       \* [Batchers -> where the goroutine is]
    counters, \* the keys counted since the last reset
    accepted, \* the keys that a channel took, and
    told,     \* those the cloud has been told of; histories
    produced

vars == <<items, batch, at, counters, accepted, told, produced>>

Init ==
    /\ items = [b \in Batchers |-> <<>>]
    /\ batch = [b \in Batchers |-> <<>>]
    /\ at = [b \in Batchers |-> "getBatch"]
    /\ counters = {} /\ accepted = {} /\ told = {}
    /\ produced = 0

-----------------------------------------------------------------------------
\* A bug it could have: the sender waits for room.
AddWait(b, item) ==
    Len(items[b]) < Buffer /\ items' = [items EXCEPT ![b] = Append(@, item)]

\* What there is no room for is dropped.
AddNoWait(b, item) ==
    items' = [items EXCEPT ![b] = IF Len(@) < Buffer THEN Append(@, item) ELSE @]

Produce == produced < MaxItems /\ produced' = produced + 1

IncrementCounter(key) ==
    /\ Produce
    /\ AddNoWait("counts", key)
    /\ accepted' = IF items' # items THEN accepted \cup {key} ELSE accepted
    /\ UNCHANGED <<batch, at, counters, told>>

LogError ==
    /\ Produce
    /\ AddNoWait("errors", "error")
    /\ UNCHANGED <<batch, at, counters, accepted, told>>

-----------------------------------------------------------------------------
(* The goroutine of a batcher.                                             *)

\* What has come in since the last batch, or as soon as something does.
getBatch(b) ==
    /\ at[b] = "getBatch"
    /\ \E n \in 1..MaxBatch :
        /\ n <= Len(items[b])
        /\ batch' = [batch EXCEPT ![b] = SubSeq(items[b], 1, n)]
        /\ items' = [items EXCEPT ![b] = SubSeq(@, n + 1, Len(@))]
    /\ at' = [at EXCEPT ![b] = "handleBatch"]
    /\ UNCHANGED <<counters, accepted, told, produced>>

\* The batch is over, sent or not; one that was not is logged, twice.
Handled(b, sent) ==
    /\ batch' = [batch EXCEPT ![b] = <<>>]
    /\ at' = [at EXCEPT ![b] = IF sent THEN "getBatch" ELSE "log"]

\* A bug it could have: the counts begin anew whether they were sent or not.
ResetAnyway(counted, sent) == {{}, counted}

\* The interval may be over; only what was sent is reset.
AfterSend(counted, sent) == IF sent THEN {{}, counted} ELSE {counted}

HandleCounters ==
    /\ at["counts"] = "handleBatch"
    /\ \E sent \in BOOLEAN :
        LET counted == counters \cup ToSet(batch["counts"]) IN
        /\ told' = IF sent THEN told \cup counted ELSE told
        /\ counters' \in AfterSend(counted, sent)
        /\ Handled("counts", sent)
    /\ UNCHANGED <<items, accepted, produced>>

SendSync ==
    /\ at["errors"] = "handleBatch"
    /\ \E sent \in BOOLEAN : Handled("errors", sent)
    /\ UNCHANGED <<items, counters, accepted, told, produced>>

\* The hook of the logger makes an item of it.
Fire(b) ==
    /\ at[b] \in {"log", "log again"}
    /\ AddNoWait("errors", "error")
    /\ at' = [at EXCEPT ![b] = IF @ = "log" THEN "log again" ELSE "getBatch"]
    /\ UNCHANGED <<batch, counters, accepted, told, produced>>

-----------------------------------------------------------------------------
Next ==
    \/ \E key \in Keys : IncrementCounter(key)
    \/ LogError
    \/ \E b \in Batchers : getBatch(b) \/ Fire(b)
    \/ HandleCounters \/ SendSync

\* The goroutines run; a call to the cloud ends, if with an error.
Fairness ==
    /\ WF_vars(HandleCounters) /\ WF_vars(SendSync)
    /\ \A b \in Batchers : WF_vars(Fire(b)) /\ WF_vars(getBatch(b))

Spec == Init /\ [][Next]_vars /\ Fairness

-----------------------------------------------------------------------------
GoneOn == \A b \in Batchers : at[b] = "getBatch"

\* A key that was accepted is on its way or counted until the cloud has been
\* told of it: no failed call and no reset loses one.
NoCountLost ==
    accepted \subseteq ToSet(items["counts"]) \cup ToSet(batch["counts"])
                           \cup counters \cup told

\* A batcher comes back for its next batch though the cloud may never answer and
\* the channel it logs to, its own for one of them, may be full.
BatchersGoOn == []<>GoneOn

=============================================================================
