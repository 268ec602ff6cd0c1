------------------------------- MODULE Delivery -------------------------------
(***************************************************************************)
(* What the report pipeline promises, without tasks, slots or counters: a  *)
(* report is queued for the broker when it is made, may be stored, and     *)
(* leaves the store only after it has been handed over for replay, which   *)
(* queues it again.  Two things are outside the promise, and the module    *)
(* bounds both: the reports that were stored while the store was being     *)
(* drained (exposed), and what happens between a read of the store's size  *)
(* that failed and the end of the work it started (misled).                *)
(***************************************************************************)
EXTENDS Integers

CONSTANT Faults    \* flash calls may fail

VARIABLES
    made,      \* reports 1 .. made have been produced
    stored,    \* the reports that are in the store
    queued,    \* the reports the MQTT client has to send
    handed,    \* the reports that were queued again from the store
    skipped,   \* the reports that could not be read there
    draining,  \* the store is being drained
    exposed,   \* the reports that were stored during a drain
    misled     \* somebody works from a size that could not be read

vars == <<made, stored, queued, handed, skipped, draining, exposed, misled>>

Init ==
    /\ made = 0 /\ stored = {} /\ queued = {} /\ handed = {} /\ skipped = {}
    /\ draining = FALSE /\ exposed = {} /\ misled = FALSE

\* A report that may leave the store, and come back.
Free == handed \union skipped \union exposed

\* A report is made; without a client nothing queues it.
Make ==
    /\ made' = made + 1
    /\ queued' = queued \/ queued' = queued \union {made + 1}
    /\ UNCHANGED <<stored, handed, skipped, draining, exposed, misled>>

\* The newest report is stored, or with a failed write what its slot held,
\* or nothing; free reports may come back with it.
Keep(new) ==
    /\ new \subseteq {made} \/ Faults
    /\ stored \subseteq stored'
    /\ stored' \subseteq stored \union new \union Free
    /\ exposed' = IF draining THEN exposed \union new ELSE exposed
    /\ UNCHANGED <<made, queued, handed, skipped, draining, misled>>

\* Somebody starts to drain the store.
Start ==
    /\ draining' = TRUE
    /\ UNCHANGED <<made, stored, queued, handed, skipped, exposed, misled>>

\* A stored report is queued again ...
Replay(r) ==
    /\ draining
    /\ r \in stored \/ misled
    /\ queued' = queued \union {r}
    /\ handed' = handed \union {r}
    /\ UNCHANGED <<made, stored, skipped, draining, exposed, misled>>

\* ... unless it cannot be read.
Skip(r) ==
    /\ Faults
    /\ draining
    /\ r \in stored \/ misled
    /\ skipped' = skipped \union {r}
    /\ UNCHANGED <<made, stored, queued, handed, draining, exposed, misled>>

\* Only free reports leave the store, and only by draining it.
Release ==
    /\ draining
    /\ stored' \subseteq stored
    /\ stored \ stored' \subseteq Free
    /\ draining' \in BOOLEAN
    /\ UNCHANGED <<made, queued, handed, skipped, exposed, misled>>

\* The client has sent a report, or forgets it in an outage or a reset, which
\* ends everything else too: the store does not change.
Leave ==
    /\ queued' \subseteq queued
    /\ draining' \in {draining, FALSE}
    /\ misled' \in {misled, FALSE}
    /\ UNCHANGED <<made, stored, handed, skipped, exposed>>

\* The size of the store could not be read: until that work is over anything
\* made so far may be stored.
Mislead ==
    /\ Faults
    /\ misled' \in BOOLEAN
    /\ misled \/ misled'
    /\ stored' \subseteq 1 .. made
    /\ exposed \subseteq exposed' /\ exposed' \subseteq 1 .. made
    /\ draining' \in {draining, FALSE}
    /\ UNCHANGED <<made, queued, handed, skipped>>

Next ==
    \/ Make \/ Start \/ Release \/ Leave \/ Mislead \/ Keep({})
    \/ \E r \in 1 .. made : Keep({r}) \/ Replay(r) \/ Skip(r)

Spec == Init /\ [][Next]_vars
=============================================================================
