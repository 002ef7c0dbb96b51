----------------------------- MODULE BlockStore -----------------------------
(***************************************************************************)
(* What a block driver promises the file system: one call at a time, each  *)
(* applied to the store exactly once between its call and its return, and  *)
(* answered with the outcome of that very application.  A write that is    *)
(* answered with an error may or may not have reached the store.           *)
(***************************************************************************)
CONSTANTS Lbas, Blocks, NoBlock

VARIABLES
    store,      \* [Lbas -> Blocks]
    stage,      \* "free", "called" or "applied"
    call,       \* [op, lba, block] of the call in progress or the last one
    outcome,    \* of the application, NoOutcome before it
    reply       \* what the last finished call returned

storeVars == <<store, stage, call, outcome, reply>>

NoOutcome == [ok |-> FALSE, block |-> NoBlock]
Calls == [op : {"write"}, lba : Lbas, block : Blocks]
           \cup [op : {"read"}, lba : Lbas, block : {NoBlock}]
NoCall == [op |-> "none"]

Init ==
    /\ store \in [Lbas -> Blocks]
    /\ stage = "free" /\ call = NoCall
    /\ outcome = NoOutcome /\ reply = NoOutcome

Call ==
    /\ stage = "free"
    /\ stage' = "called" /\ call' \in Calls
    /\ outcome' = NoOutcome
    /\ UNCHANGED <<store, reply>>

\* The call takes effect: its success, or an error that says nothing of what
\* a write did to its block.
Apply ==
    /\ stage = "called"
    /\ stage' = "applied"
    /\ \/ /\ store' = IF call.op = "write"
                      THEN [store EXCEPT ![call.lba] = call.block] ELSE store
          /\ outcome' = [ok |-> TRUE, block |->
                           IF call.op = "read" THEN store[call.lba] ELSE NoBlock]
       \/ /\ \/ store' = store
             \/ /\ call.op = "write"
                /\ store' = [store EXCEPT ![call.lba] = call.block]
          /\ outcome' = NoOutcome
    /\ UNCHANGED <<call, reply>>

Return ==
    /\ stage = "applied"
    /\ stage' = "free" /\ call' = NoCall
    /\ reply' = outcome /\ outcome' = NoOutcome
    /\ UNCHANGED store

\* A call refused before anything is done, like one with too much data.
Refuse ==
    /\ stage = "free"
    /\ reply' = NoOutcome
    /\ UNCHANGED <<store, stage, call, outcome>>

Next == Call \/ Apply \/ Return \/ Refuse

Spec == Init /\ [][Next]_storeVars
=============================================================================
