----------------------------- MODULE VirtioGpu ------------------------------
(***************************************************************************)
(* The VirtIO GPU: the handshake (virtio_pci.rs), the control queue        *)
(* (virtqueue.rs), the commands (virtio_gpu.rs) and the copy of a frame    *)
(* (gpu_driver.rs), with the device that serves the queue.                 *)
(*                                                                         *)
(* The bring-up commands wait for their answers.  A frame does not: its    *)
(* two commands are queued and their descriptors taken back at once, while *)
(* the device may still have to read them.  A picture is two halves, each  *)
(* the number of the frame it was copied from.                             *)
(***************************************************************************)
EXTENDS Integers, Sequences, FiniteSets

CONSTANTS
    N,          \* descriptors, and slots of each ring (64)
    IdxMod,     \* the ring indices count modulo this (65536)
    CapLists,   \* what the capability list may be: pointer -> [kind, next]
    FirstCap,   \* the pointer in the header
    MaxHops,    \* capabilities find_capabilities looks at (48)
    MaxFrames   \* bound on the frames drawn

\* Three commands may fail and keep two descriptors each; a frame needs four.
ASSUME QueueAssumption == N \in Nat /\ N >= 10
ASSUME IdxAssumption == IdxMod \in Nat /\ IdxMod > N /\ IdxMod % N = 0
ASSUME BoundsAssumption == MaxHops \in Nat /\ MaxFrames \in Nat

VARIABLES
    stage,      \* what the driver does next
    caps,       \* the capability list of this device
    cap, hops,  \* the walker's pointer and its count
    found,      \* the structures it found
    live,       \* queue_enable and DRIVER_OK are written
    desc,       \* the descriptors: [slot, next], slot the mailbox place addr names
    mail,       \* the commands at the two places of the mailbox
    avail,      \* the available ring
    availIdx,   \* its index
    freeHead, numFree,
    reply,      \* the answer in the mailbox
    usedIdx,    \* the index of the used ring
    lastUsed,   \* vq.last_used_idx
    done, failed,   \* the bring-up commands reported to have worked, or not
    rung,       \* the doorbell has rung and the device is at work
    seen,       \* the index up to which the device has read the available ring
    made,       \* the bring-up commands the device has carried out
    broken,     \* the device has given the queue up
    canvas,     \* the picture in the device's resource
    screen,     \* the picture on the screen
    drawn,      \* number of the last frame drawn
    backing     \* the picture in the backing memory

bus == <<caps, cap, hops, found, live>>
rings == <<desc, mail, avail, availIdx, freeHead, numFree>>
answers == <<reply, usedIdx>>
reports == <<lastUsed, done, failed>>
device == <<seen, made, broken, canvas, screen>>
picture == <<drawn, backing>>
vars == <<stage, bus, rings, answers, reports, rung, device, picture>>

Index == 0..N - 1
Command == {"create", "attach", "scanout"}
\* Index arithmetic on a counter that wraps, for k up to IdxMod.
Plus(i, k) == IF i + k < IdxMod THEN i + k ELSE i + k - IdxMod
-----------------------------------------------------------------------------
(* The handshake.                                                          *)

Init ==
    /\ stage = "walk" /\ caps \in CapLists /\ cap = FirstCap /\ hops = 0 /\ found = {}
    /\ live = FALSE
    /\ desc = [k \in Index |-> [slot |-> 0, next |-> (k + 1) % N]]
    /\ mail = <<"none", "none">> /\ reply = "none"
    /\ avail = [k \in Index |-> 0] /\ availIdx = 0 /\ usedIdx = 0 /\ lastUsed = 0
    /\ freeHead = 0 /\ numFree = N
    /\ done = {} /\ failed = {}
    /\ rung = FALSE /\ seen = 0 /\ made = {} /\ broken = FALSE
    /\ drawn = 0 /\ backing = <<0, 0>> /\ canvas = <<0, 0>> /\ screen = <<0, 0>>

\* Mutation of MoreCaps: the walk goes on as long as the list does.
MoreCapsUnbounded == cap # 0

MoreCaps == cap # 0 /\ hops < MaxHops

\* find_capabilities, one capability.
WalkCap ==
    /\ stage = "walk" /\ MoreCaps
    /\ found' = found \cup {caps[cap].kind}
    /\ cap' = caps[cap].next /\ hops' = hops + 1
    /\ UNCHANGED <<stage, caps, live, rings, answers, reports, rung, device, picture>>

WalkEnd ==
    /\ stage = "walk" /\ ~MoreCaps
    /\ stage' = IF {"common", "notify"} \subseteq found THEN "common" ELSE "off"
    /\ UNCHANGED <<bus, rings, answers, reports, rung, device, picture>>

\* A step of init_virtio_device that may fail, which ends the bring-up.
Try(from, to) ==
    /\ stage = from /\ stage' \in {to, "off"}
    /\ UNCHANGED <<bus, rings, answers, reports, rung, device, picture>>

MapCommon == Try("common", "features")
\* Reset, ACKNOWLEDGE, DRIVER and FEATURES_OK; the device may refuse.
NegotiateFeatures == Try("features", "size")
ReadQueueSize == Try("size", "notify")
MapNotify == Try("notify", "setup")
\* The queue that setup_control_queue leaves is the one Init describes.
SetupControlQueue == Try("setup", "enable")

GoLive ==
    /\ stage = "enable" /\ stage' = "create" /\ live' = TRUE
    /\ UNCHANGED <<caps, cap, hops, found, rings, answers, reports, rung, device, picture>>

\* The frames for the back buffer; without them nothing is ever drawn.
AllocateBacking ==
    /\ stage = "backing" /\ stage' \in {"attach", "blind"}
    /\ UNCHANGED <<bus, rings, answers, reports, rung, device, picture>>
-----------------------------------------------------------------------------
(* The commands of the bring-up.                                           *)

\* A command up to the doorbell: it and an empty answer in the mailbox, two
\* descriptors.
Send(c) ==
    LET next == desc[freeHead].next
    IN  /\ stage = c /\ stage' = "wait"
        /\ mail' = [mail EXCEPT ![1] = c] /\ reply' = "none"
        /\ desc' = [desc EXCEPT ![freeHead].slot = 1, ![next].slot = 0]
        /\ avail' = [avail EXCEPT ![availIdx % N] = freeHead]
        /\ availIdx' = Plus(availIdx, 1)
        /\ freeHead' = desc[next].next /\ numFree' = numFree - 2
        /\ rung' = TRUE
        /\ UNCHANGED <<bus, usedIdx, reports, device, picture>>

Create2dCanvas == Send("create")
AttachBacking == Send("attach")
SetScanout == Send("scanout")

\* The first descriptor of the command that was sent last.
LastHead == avail[Plus(availIdx, IdxMod - 1) % N]

\* Mutation of Answered: last_used_idx is not brought up to date.
AnsweredOnce == lastUsed

Answered == usedIdx

After == [create |-> "backing", attach |-> "scanout", scanout |-> "up"]

\* The spin on the used ring ends.  A command that failed keeps its descriptors.
Receive ==
    /\ stage = "wait" /\ stage' = After[mail[1]]
    /\ usedIdx # lastUsed /\ lastUsed' = Answered
    /\ IF reply = "ok"
       THEN /\ desc' = [desc EXCEPT ![desc[LastHead].next].next = freeHead]
            /\ freeHead' = LastHead /\ numFree' = numFree + 2
            /\ done' = done \cup {mail[1]} /\ UNCHANGED failed
       ELSE failed' = failed \cup {mail[1]} /\ UNCHANGED <<desc, freeHead, numFree, done>>
    /\ UNCHANGED <<bus, mail, avail, availIdx, answers, rung, device, picture>>
-----------------------------------------------------------------------------
(* The frames.                                                             *)

\* swap_buffers: half of the frame is in the backing memory, then all of it.
CopyFirstHalf ==
    /\ stage = "up" /\ drawn < MaxFrames
    /\ stage' = "copy" /\ drawn' = drawn + 1 /\ backing' = [backing EXCEPT ![1] = drawn']
    /\ UNCHANGED <<bus, rings, answers, reports, rung, device>>

CopySecondHalf ==
    /\ stage = "copy" /\ stage' = "flush" /\ backing' = [backing EXCEPT ![2] = drawn]
    /\ UNCHANGED <<bus, rings, answers, reports, rung, device, drawn>>

\* The first four descriptors of the free list.
First == freeHead
Second == desc[First].next
Third == desc[Second].next
Fourth == desc[Third].next

\* flush_to_screen up to the available ring: both commands, four descriptors.
\* With fewer than four free it would return.
FlushPrepare ==
    /\ stage = "flush" /\ stage' = IF numFree < 4 THEN "up" ELSE "publish"
    /\ IF numFree < 4
       THEN UNCHANGED <<mail, desc>>
       ELSE /\ mail' = <<"transfer", "flush">>
            /\ desc' = [desc EXCEPT ![First].slot = 1, ![Second].slot = 0,
                                    ![Third].slot = 2, ![Fourth].slot = 0]
    /\ UNCHANGED <<bus, avail, availIdx, freeHead, numFree, answers, reports, rung, device, picture>>

\* Mutation of Commands: the flush is not counted.
CommandsOne == 1

Commands == 2

\* Mutation of Reclaimed: the second pair is put in front of the head of the list.
ReclaimedLost ==
    [desc EXCEPT ![Second].next = desc[Fourth].next, ![Fourth].next = desc[Fourth].next]

\* The second pair is put in front of the first, and the first in front of the rest.
Reclaimed ==
    [desc EXCEPT ![Second].next = desc[Fourth].next, ![Fourth].next = First]

\* Mutation of Doorbell: it stays as it is.
DoorbellSilent == rung

Doorbell == TRUE

\* The rest of flush_to_screen: the ring, its index, the doorbell, and the
\* descriptors taken back without an answer; num_free is what it was.
FlushPublish ==
    /\ stage = "publish" /\ stage' = "up"
    /\ avail' = [avail EXCEPT ![availIdx % N] = First, ![Plus(availIdx, 1) % N] = Third]
    /\ availIdx' = Plus(availIdx, Commands) /\ rung' = Doorbell
    /\ desc' = Reclaimed /\ freeHead' = Third
    /\ UNCHANGED <<bus, mail, numFree, answers, reports, device, picture>>
-----------------------------------------------------------------------------
(* The device, from how the driver uses it.                                *)

Lag == Plus(availIdx, IdxMod - seen)
AtWork == rung /\ live /\ ~broken /\ Lag # 0

\* What the descriptor names, or anything while the driver is writing it.
Named(d) == {desc[d].slot} \cup (IF stage = "publish" THEN {1, 2} ELSE {})

Possible(c) == \/ c = "create"
               \/ c \in {"attach", "scanout", "transfer"} /\ "create" \in made
               \/ c = "flush" /\ "scanout" \in made

\* A command of the bring-up may fail for the device's own reasons.
Execute(c) ==
    /\ \/ /\ Possible(c) /\ reply' = "ok"
          /\ made' = made \cup ({c} \cap Command)
          /\ canvas' = IF c = "transfer" /\ "attach" \in made THEN backing ELSE canvas
          /\ screen' = IF c = "flush" THEN canvas ELSE screen
       \/ /\ (c \in Command \/ ~Possible(c)) /\ reply' = "err"
          /\ UNCHANGED <<made, canvas, screen>>
    /\ usedIdx' = Plus(usedIdx, 1) /\ seen' = Plus(seen, 1)
    /\ UNCHANGED <<stage, bus, rings, reports, rung, broken, picture>>

DeviceExecutes ==
    /\ AtWork /\ Lag <= N
    /\ \E s \in Named(avail[seen % N]) : Execute(IF s = 0 THEN "none" ELSE mail[s])

\* More commands are announced than the ring holds.
DeviceBreaks ==
    /\ AtWork /\ Lag > N /\ broken' = TRUE
    /\ UNCHANGED <<stage, bus, rings, answers, reports, rung, seen, made, canvas, screen, picture>>

DeviceRests ==
    /\ rung /\ Lag = 0 /\ rung' = FALSE
    /\ UNCHANGED <<stage, bus, rings, answers, reports, device, picture>>
-----------------------------------------------------------------------------
Driver ==
    \/ WalkCap \/ WalkEnd \/ MapCommon \/ NegotiateFeatures \/ ReadQueueSize
    \/ MapNotify \/ SetupControlQueue \/ GoLive \/ AllocateBacking
    \/ Create2dCanvas \/ AttachBacking \/ SetScanout \/ Receive
    \/ CopyFirstHalf \/ CopySecondHalf \/ FlushPrepare \/ FlushPublish

Device == DeviceExecutes \/ DeviceBreaks \/ DeviceRests

Next == Driver \/ Device

\* The boot and the compositor run on, and the device serves its doorbell.
Spec == Init /\ [][Next]_vars /\ WF_vars(Driver) /\ WF_vars(Device)
-----------------------------------------------------------------------------
(* Properties.                                                             *)

\* Type invariant: descriptors, ring entries and indices stay in their ranges.
TypeOK ==
    /\ desc \in [Index -> [slot : 0..2, next : Index]] /\ avail \in [Index -> Index]
    /\ {availIdx, usedIdx, lastUsed, seen} \subseteq 0..IdxMod - 1
    /\ freeHead \in Index /\ numFree \in 0..N /\ hops \in 0..MaxHops
    /\ done \cup failed \cup made \subseteq Command
    /\ {rung, live, broken} \subseteq BOOLEAN
    /\ drawn \in 0..MaxFrames
    /\ {backing, canvas, screen} \subseteq (0..MaxFrames) \X (0..MaxFrames)

\* Descriptor k of the free list, counted from its head.
Chain[k \in 0..N] == IF k = 0 THEN freeHead ELSE desc[Chain[k - 1]].next

\* The free list keeps num_free distinct descriptors, after failed commands
\* and after any number of frames whose descriptors were taken back unseen:
\* no two commands of a later frame share a descriptor (virtio_gpu.rs:648).
FreeListSound == Cardinality({Chain[k] : k \in 0..numFree - 1}) = numFree

\* What the driver reports about a command of the bring-up is what the device
\* did with it: no answer is taken for another command's (virtio_gpu.rs:409).
Reported == done \subseteq made /\ failed \cap made = {}

\* When the driver has drawn and the device has caught up, the screen shows the
\* last frame whole, however late the device read the descriptors that were
\* meanwhile used again, and whichever command it found in them.
LastFrameShown ==
    stage = "up" /\ Lag = 0 /\ ~broken /\ made = Command => screen = <<drawn, drawn>>

\* The bring-up ends whatever capability list the card shows, and if the device
\* did all it was asked the last frame reaches the screen, or the device has
\* given up a queue that was announced past its size.
ReachesScreen ==
    <>[](\/ stage \in {"off", "blind"}
         \/ stage = "up" /\ (broken \/ made # Command \/ screen = <<MaxFrames, MaxFrames>>))
=============================================================================
