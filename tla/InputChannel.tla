---------------------------- MODULE InputChannel ----------------------------
(***************************************************************************)
(* What the input path of the kernel promises to a task that reads a       *)
(* device: a bounded first-in first-out channel per device.  The interrupt *)
(* side puts a byte in, or drops it when the channel is full; the task     *)
(* side takes the oldest byte out.  Nothing is lost once it is in, nothing *)
(* is read twice and nothing overtakes.                                    *)
(*                                                                         *)
(* A byte is represented by its arrival number on its device.              *)
(***************************************************************************)
EXTENDS Naturals, Sequences

CONSTANTS
    Streams,   \* the input devices
    Capacity   \* bytes a channel can hold

VARIABLES
    queue,     \* queue[s]: bytes waiting on s, oldest first
    arrived,   \* arrived[s]: bytes the device has delivered so far
    lastRead   \* lastRead[s]: the byte the task read last, 0 at first

chanVars == <<queue, arrived, lastRead>>

Init ==
    /\ queue = [s \in Streams |-> <<>>]
    /\ arrived = [s \in Streams |-> 0]
    /\ lastRead = [s \in Streams |-> 0]

\* The device delivers a byte: it is queued if there is room, dropped if not.
Arrive(s) ==
    /\ arrived' = [arrived EXCEPT ![s] = @ + 1]
    /\ queue' = [queue EXCEPT ![s] =
                    IF Len(@) < Capacity THEN Append(@, arrived[s] + 1) ELSE @]
    /\ UNCHANGED lastRead

\* The reading task takes the oldest byte.
Read(s) ==
    /\ queue[s] # <<>>
    /\ lastRead' = [lastRead EXCEPT ![s] = Head(queue[s])]
    /\ queue' = [queue EXCEPT ![s] = Tail(@)]
    /\ UNCHANGED arrived

Next == \E s \in Streams : Arrive(s) \/ Read(s)

Spec == Init /\ [][Next]_chanVars
=============================================================================
