------------------------------ MODULE GpuProofs -----------------------------
(***************************************************************************)
(* Proofs about the GPU's queue, for every size of the queue and of its    *)
(* indices: the driver's reports about the commands of the bring-up are    *)
(* true, the free list stays whole, and the last frame reaches the screen. *)
(***************************************************************************)
EXTENDS VirtioGpu, SetInduction, FiniteSetTheorems, TLAPS

Counter == 0..IdxMod - 1
Frame == <<"transfer", "flush">>

\* The rings and the counters have their types.
RingsOK ==
    /\ desc \in [Index -> [slot : 0..2, next : Index]]
    /\ avail \in [Index -> Index] /\ freeHead \in Index
    /\ availIdx \in Counter /\ usedIdx \in Counter /\ lastUsed \in Counter /\ seen \in Counter
    /\ mail \in [1..2 -> Command \cup {"none", "transfer", "flush"}]

\* The stages before a command of the bring-up is sent.
Early == {"walk", "common", "features", "size", "notify", "setup", "enable", "create", "off"}
Middle == {"backing", "attach", "blind"}
Late == {"up", "copy", "flush", "publish"}

\* The commands that come after the stage s.
Ahead(s) == IF s \in Early THEN Command
            ELSE IF s \in Middle THEN {"attach", "scanout"}
            ELSE IF s = "scanout" THEN {"scanout"} ELSE {}

Now == IF stage = "wait" THEN After[mail[1]] ELSE stage

\* Nothing is known of the commands that are still to come.
AheadUntouched == (made \cup done \cup failed) \cap Ahead(Now) = {}

\* A command that is waited for is the only one: either the device has still to
\* read it, or it has and the answer in the mailbox is the answer to it.
WaitSound ==
    stage = "wait" =>
        /\ mail[1] \in Command /\ mail[1] \notin done \cup failed
        /\ desc[LastHead].slot = 1 /\ freeHead = desc[desc[LastHead].next].next
        /\ \/ /\ availIdx = Plus(seen, 1) /\ usedIdx = lastUsed /\ mail[1] \notin made
           \/ /\ availIdx = seen /\ usedIdx # lastUsed
              /\ reply = "ok" <=> mail[1] \in made

\* Outside of that wait there is nothing to read, or only frames.
QuietSound ==
    /\ stage \in Early \cup Middle \cup {"scanout"} => availIdx = seen /\ usedIdx = lastUsed
    /\ stage \in Late => availIdx = seen \/ mail = Frame
    /\ stage = "publish" => mail = Frame

\* Until frames are drawn the descriptors are linked as they were at first: a
\* command that worked puts its two back where they were.
LinksKept == stage \notin Late => \A k \in Index : desc[k].next = (k + 1) % N

GpuInv ==
    /\ stage \in Early \cup Middle \cup Late \cup {"scanout", "wait"}
    /\ RingsOK /\ AheadUntouched /\ WaitSound /\ QuietSound /\ Reported
    /\ LinksKept
-----------------------------------------------------------------------------
(* Index arithmetic.                                                       *)

LEMMA CounterSteps ==
    ASSUME NEW a \in Counter
    PROVE  /\ Plus(a, 1) \in Counter /\ Plus(a, 1) # a /\ Plus(a, 2) \in Counter
           /\ Plus(Plus(a, 1), IdxMod - 1) = a
           /\ Plus(a, IdxMod - 1) \in Counter
           /\ Plus(a, IdxMod - a) = 0
BY QueueAssumption, IdxAssumption DEF Plus, Counter

LEMMA SlotInRing ==
    ASSUME NEW a \in Counter
    PROVE  a % N \in Index
BY QueueAssumption, IdxAssumption DEF Counter, Index

LEMMA NextDiffers ==
    ASSUME NEW k \in Index
    PROVE  (k + 1) % N \in Index /\ (k + 1) % N # k
<1>1. CASE k + 1 < N
  BY <1>1, QueueAssumption DEF Index
<1>2. CASE k + 1 = N
  BY <1>2, QueueAssumption DEF Index
<1> QED
  BY <1>1, <1>2, QueueAssumption DEF Index

LEMMA InitGpuInv == Init => GpuInv
<1> SUFFICES ASSUME Init PROVE GpuInv
    OBVIOUS
<1>1. RingsOK
  <2>1. \A k \in Index : (k + 1) % N \in Index
    BY QueueAssumption DEF Index
  <2>2. desc \in [Index -> [slot : 0..2, next : Index]]
    BY <2>1 DEF Init
  <2> QED
    BY <2>2, QueueAssumption, IdxAssumption DEF Init, RingsOK, Index, Counter
<1> QED
  BY <1>1 DEF Init, GpuInv, Early, Middle, Late, AheadUntouched, Ahead, Now, WaitSound,
     QuietSound, Reported, Command, LinksKept
-----------------------------------------------------------------------------
(* The steps.                                                              *)

\* A step that only goes on, before anything is drawn, from one stage to
\* another with no more commands ahead.
LEMMA StageStep ==
    ASSUME GpuInv, UNCHANGED <<rings, answers, reports, device>>,
           stage \in Early \cup Middle \cup {"scanout"},
           stage' \in Early \cup Middle \cup {"scanout"},
           Ahead(stage') \subseteq Ahead(stage)
    PROVE  GpuInv'
<1>1. stage # "wait" /\ stage' # "wait" /\ stage \notin Late /\ stage' \notin Late
  BY DEF Early, Middle, Late
<1>2. RingsOK' /\ Reported'
  BY DEF GpuInv, RingsOK, Reported, rings, answers, reports, device
<1>3. AheadUntouched'
  BY <1>1 DEF GpuInv, AheadUntouched, Now, reports, device
<1>4. WaitSound' /\ QuietSound' /\ LinksKept'
  BY <1>1 DEF GpuInv, LinksKept, WaitSound, QuietSound, rings, answers, reports, device, Late
<1> QED
  BY <1>1, <1>2, <1>3, <1>4 DEF GpuInv

\* A step of the driver with a frame: the queue is as the device may find it.
LEMMA FrameStep ==
    ASSUME GpuInv, stage \in Late, stage' \in Late, RingsOK',
           UNCHANGED <<reports, made>>,
           mail' = Frame \/ (UNCHANGED <<mail, availIdx, seen>> /\ stage' # "publish")
    PROVE  GpuInv'
<1>1. stage' # "wait" /\ stage' \notin Early \cup Middle \cup {"scanout"}
  BY DEF Early, Middle, Late
<1>2. Reported' /\ AheadUntouched'
  BY <1>1 DEF GpuInv, Reported, reports, AheadUntouched, Ahead, Now
<1>3. QuietSound' /\ WaitSound' /\ LinksKept'
  BY <1>1 DEF GpuInv, QuietSound, WaitSound, LinksKept
<1> QED
  BY <1>2, <1>3 DEF GpuInv

LEMMA SendStep ==
    ASSUME GpuInv, NEW c \in Command, Send(c)
    PROVE  GpuInv'
<1> DEFINE next == desc[freeHead].next
<1>0. c \in {"create", "attach", "scanout"} /\ stage = c /\ stage' = "wait"
  BY DEF Send, Command
<1>1. RingsOK /\ availIdx = seen /\ usedIdx = lastUsed
  BY <1>0 DEF GpuInv, QuietSound, Early, Middle
<1>2. next \in Index /\ availIdx % N \in Index
  BY <1>1, SlotInRing DEF RingsOK
<1>3. mail' = [mail EXCEPT ![1] = c] /\ mail'[1] = c
  BY <1>1 DEF Send, RingsOK
<1>4. availIdx' = Plus(seen, 1) /\ availIdx' \in Counter /\ Plus(availIdx', IdxMod - 1) = availIdx
  BY <1>1, CounterSteps DEF Send, RingsOK
<1>5. avail' = [avail EXCEPT ![availIdx % N] = freeHead]
  BY DEF Send
<1>6. desc' = [desc EXCEPT ![freeHead].slot = 1, ![next].slot = 0]
  BY DEF Send
<1>7. next # freeHead /\ LinksKept /\ stage \notin Late
  BY <1>0, <1>1, NextDiffers DEF GpuInv, LinksKept, RingsOK, Late
<1>8. /\ desc' \in [Index -> [slot : 0..2, next : Index]]
      /\ desc'[freeHead].slot = 1
      /\ \A k \in Index : desc'[k].next = desc[k].next
  BY <1>1, <1>2, <1>6, <1>7 DEF RingsOK
<1>9. LastHead' = freeHead
  BY <1>1, <1>2, <1>4, <1>5 DEF LastHead, RingsOK
<1>10. freeHead' = desc[next].next /\ freeHead' \in Index
  BY <1>1, <1>2 DEF Send, RingsOK
<1>11. RingsOK'
  <2>1. avail' \in [Index -> Index]
    BY <1>1, <1>2, <1>5 DEF RingsOK
  <2>2. mail' \in [1..2 -> Command \cup {"none", "transfer", "flush"}]
    BY <1>1, <1>3 DEF RingsOK
  <2>3. UNCHANGED <<usedIdx, lastUsed, seen>>
    BY DEF Send, reports, device
  <2> QED
    BY <1>1, <1>4, <1>8, <1>10, <2>1, <2>2, <2>3 DEF RingsOK
<1>12. LinksKept'
  BY <1>0, <1>7, <1>8 DEF LinksKept
<1>13. UNCHANGED <<made, done, failed, usedIdx, lastUsed, seen>>
  BY DEF Send, device, reports
<1>14. c \in Ahead(stage) /\ Ahead(After[c]) \subseteq Ahead(stage) \ {c}
  BY <1>0 DEF Ahead, After, Early, Middle, Command
<1>15. Now = stage /\ Now' = After[c]
  BY <1>0, <1>3 DEF Now
<1>16. AheadUntouched' /\ c \notin made \cup done \cup failed
  BY <1>13, <1>14, <1>15 DEF GpuInv, AheadUntouched
<1>17. WaitSound'
  <2>1. desc'[LastHead'].slot = 1 /\ freeHead' = desc'[desc'[LastHead'].next].next
    BY <1>1, <1>2, <1>8, <1>9, <1>10 DEF RingsOK
  <2> QED
    BY <2>1, <1>1, <1>3, <1>4, <1>13, <1>16 DEF WaitSound
<1> QED
  BY <1>0, <1>11, <1>12, <1>13, <1>16, <1>17
     DEF GpuInv, QuietSound, Reported, Early, Middle, Late

LEMMA ReceiveStep ==
    ASSUME GpuInv, Receive
    PROVE  GpuInv'
<1> DEFINE c == mail[1]
<1>1. stage = "wait" /\ stage' = After[c] /\ c \in {"create", "attach", "scanout"}
  BY DEF Receive, GpuInv, WaitSound, Command
<1>2. RingsOK /\ LinksKept /\ availIdx = seen /\ (reply = "ok" <=> c \in made)
      /\ c \notin done \cup failed
  BY <1>1 DEF Receive, GpuInv, WaitSound
<1>3. lastUsed' = usedIdx /\ UNCHANGED <<mail, avail, availIdx, usedIdx, seen, made>>
  BY DEF Receive, Answered, answers, device
<1>4. LastHead \in Index /\ desc[LastHead].next \in Index
      /\ freeHead = desc[desc[LastHead].next].next
  BY <1>1, <1>2, CounterSteps, SlotInRing DEF GpuInv, WaitSound, LastHead, RingsOK
<1>5. desc' = desc /\ freeHead' \in Index
  <2>1. CASE reply = "ok"
    <3> DEFINE n == desc[LastHead].next
    <3>1. desc' = [desc EXCEPT ![n].next = freeHead] /\ freeHead' = LastHead
      BY <2>1 DEF Receive
    <3>2. n \in Index /\ desc[n] \in [slot : 0..2, next : Index] /\ desc[n].next = freeHead
      BY <1>2, <1>4 DEF RingsOK
    <3> HIDE DEF n
    <3>3. [desc[n] EXCEPT !.next = freeHead] = desc[n]
      BY <3>2
    <3>4. desc' = [desc EXCEPT ![n] = [desc[n] EXCEPT !.next = freeHead]]
      BY <3>1
    <3>5. desc' = desc
      BY <3>2, <3>3, <3>4, <1>2 DEF RingsOK
    <3> QED
      BY <3>1, <3>5, <1>4
  <2>2. CASE reply # "ok"
    BY <2>2, <1>2 DEF Receive, RingsOK
  <2> QED
    BY <2>1, <2>2
<1>6. RingsOK'
  BY <1>2, <1>3, <1>5 DEF RingsOK
<1>7. stage' # "wait" /\ stage' \in Middle \cup {"scanout", "up"}
  BY <1>1 DEF After, Middle
<1>8. \/ c \in made /\ done' = done \cup {c} /\ failed' = failed
      \/ c \notin made /\ failed' = failed \cup {c} /\ done' = done
  BY <1>2 DEF Receive
<1>9. Reported'
  BY <1>3, <1>8 DEF GpuInv, Reported
<1>10. c \notin Ahead(stage') /\ Now = stage' /\ Now' = stage'
  BY <1>1, <1>7 DEF Now, Ahead, After, Early, Middle
<1>11. AheadUntouched'
  BY <1>3, <1>8, <1>10 DEF GpuInv, AheadUntouched
<1>12. LinksKept'
  BY <1>1, <1>2, <1>5 DEF LinksKept, Late
<1>13. WaitSound' /\ QuietSound'
  BY <1>2, <1>3, <1>7 DEF WaitSound, QuietSound, Middle, Late
<1> QED
  BY <1>6, <1>7, <1>9, <1>11, <1>12, <1>13 DEF GpuInv, Late

LEMMA PrepareStep ==
    ASSUME GpuInv, FlushPrepare
    PROVE  GpuInv'
<1>1. RingsOK /\ stage \in Late /\ stage' \in Late
  BY DEF GpuInv, FlushPrepare, Late
<1>2. First \in Index /\ Second \in Index /\ Third \in Index /\ Fourth \in Index
  BY <1>1 DEF RingsOK, First, Second, Third, Fourth
<1>3. UNCHANGED <<reports, made, avail, availIdx, freeHead, usedIdx, lastUsed, seen>>
  BY DEF FlushPrepare, reports, device, answers
<1>4. CASE numFree < 4
  <2>1. UNCHANGED <<mail, desc>> /\ stage' # "publish"
    BY <1>4 DEF FlushPrepare
  <2> QED
    BY <1>1, <1>3, <2>1, FrameStep DEF RingsOK
<1>5. CASE ~(numFree < 4)
  <2>1. mail' = Frame
    BY <1>5 DEF FlushPrepare, Frame
  <2>2. desc' = [desc EXCEPT ![First].slot = 1, ![Second].slot = 0,
                             ![Third].slot = 2, ![Fourth].slot = 0]
    BY <1>5 DEF FlushPrepare
  <2>3. desc' \in [Index -> [slot : 0..2, next : Index]]
    <3> DEFINE D == [Index -> [slot : 0..2, next : Index]]
               one == [desc EXCEPT ![First].slot = 1]
               two == [one EXCEPT ![Second].slot = 0]
               three == [two EXCEPT ![Third].slot = 2]
    <3>1. one \in D
      BY <1>1, <1>2 DEF RingsOK
    <3>2. desc' = [three EXCEPT ![Fourth].slot = 0]
      BY <2>2
    <3> HIDE DEF D, one, two, three
    <3>3. two \in D
      BY <1>2, <3>1 DEF two, D
    <3>4. three \in D
      BY <1>2, <3>3 DEF three, D
    <3>5. desc' \in D
      BY <1>2, <3>4, <3>2 DEF D
    <3> QED
      BY <3>5 DEF D
  <2>4. RingsOK'
    BY <1>1, <1>3, <2>1, <2>3 DEF RingsOK, Frame
  <2> QED
    BY <1>1, <1>3, <2>1, <2>4, FrameStep
<1> QED
  BY <1>4, <1>5

LEMMA PublishStep ==
    ASSUME GpuInv, FlushPublish
    PROVE  GpuInv'
<1>1. RingsOK /\ stage \in Late /\ stage' \in Late /\ mail = Frame
  BY DEF GpuInv, QuietSound, FlushPublish, Late
<1>2. First \in Index /\ Second \in Index /\ Third \in Index /\ Fourth \in Index
      /\ desc[Fourth].next \in Index
  BY <1>1 DEF RingsOK, First, Second, Third, Fourth
<1>3. UNCHANGED <<reports, made, mail, usedIdx, lastUsed, seen>>
  BY DEF FlushPublish, reports, device, answers
<1>4. desc' \in [Index -> [slot : 0..2, next : Index]] /\ freeHead' \in Index
  BY <1>1, <1>2 DEF RingsOK, FlushPublish, Reclaimed
<1>5. availIdx % N \in Index /\ Plus(availIdx, 1) % N \in Index /\ availIdx' \in Counter
  BY <1>1, CounterSteps, SlotInRing DEF RingsOK, FlushPublish, Commands
<1>6. avail' \in [Index -> Index]
  BY <1>1, <1>2, <1>5 DEF RingsOK, FlushPublish
<1>7. RingsOK'
  BY <1>1, <1>3, <1>4, <1>5, <1>6 DEF RingsOK
<1> QED
  BY <1>1, <1>3, <1>7, FrameStep

LEMMA DeviceStep ==
    ASSUME GpuInv, DeviceExecutes
    PROVE  GpuInv'
<1> DEFINE d == avail[seen % N]
<1>1. RingsOK /\ d \in Index /\ desc[d].slot \in 0..2
  BY SlotInRing DEF GpuInv, RingsOK
<1>2. PICK s \in Named(d) : Execute(IF s = 0 THEN "none" ELSE mail[s])
  BY DEF DeviceExecutes
<1>3. s \in 0..2 /\ (stage # "publish" => s = desc[d].slot)
  BY <1>1 DEF Named
<1> DEFINE c == IF s = 0 THEN "none" ELSE mail[s]
<1>4. UNCHANGED <<stage, desc, mail, avail, availIdx, freeHead, lastUsed, done, failed>>
  BY <1>2 DEF Execute, rings, reports
<1>5. usedIdx' = Plus(usedIdx, 1) /\ seen' = Plus(seen, 1)
  BY <1>2 DEF Execute
<1>6. \/ reply' = "ok" /\ made' = made \cup ({c} \cap Command)
      \/ reply' = "err" /\ made' = made
  BY <1>2 DEF Execute
<1>7. RingsOK'
  BY <1>1, <1>4, <1>5, CounterSteps DEF RingsOK
<1>8. availIdx # seen
  BY <1>1, CounterSteps DEF DeviceExecutes, AtWork, Lag, RingsOK
<1>9. stage \in Late \cup {"wait"}
  BY <1>8 DEF GpuInv, QuietSound
<1>10. CASE stage \in Late
  <2>1. mail = Frame
    BY <1>8, <1>10 DEF GpuInv, QuietSound
  <2>2. c \notin Command
    BY <1>3, <2>1 DEF Frame, Command
  <2>3. made' = made
    BY <1>6, <2>2
  <2> QED
    BY <1>4, <1>7, <1>10, <2>1, <2>3, FrameStep DEF reports
<1>11. CASE stage = "wait"
  <2>1. /\ mail[1] \in Command /\ mail[1] \notin done \cup failed
        /\ desc[LastHead].slot = 1 /\ freeHead = desc[desc[LastHead].next].next
        /\ availIdx = Plus(seen, 1) /\ usedIdx = lastUsed /\ mail[1] \notin made
    BY <1>8, <1>11 DEF GpuInv, WaitSound
  <2>2. LastHead = d /\ LastHead' = LastHead
    BY <1>1, <1>4, <2>1, CounterSteps DEF LastHead, RingsOK
  <2>3. s = 1 /\ c = mail[1]
    BY <1>3, <1>11, <2>1, <2>2
  <2>4. availIdx' = seen' /\ usedIdx' # lastUsed'
    BY <1>1, <1>4, <1>5, <2>1, CounterSteps DEF RingsOK
  <2>5. reply' = "ok" <=> mail[1] \in made'
    BY <1>6, <2>1, <2>3
  <2>6. WaitSound'
    BY <1>4, <2>1, <2>2, <2>4, <2>5 DEF WaitSound
  <2>7. Reported'
    BY <1>4, <1>6, <2>1, <2>3 DEF GpuInv, Reported
  <2>8. mail[1] \notin Ahead(After[mail[1]])
    BY <2>1 DEF Command, Ahead, After, Early, Middle
  <2>9. AheadUntouched'
    BY <1>4, <1>6, <1>11, <2>3, <2>8 DEF GpuInv, AheadUntouched, Now
  <2> QED
    BY <1>4, <1>7, <1>11, <2>6, <2>7, <2>9
       DEF GpuInv, QuietSound, LinksKept, Early, Middle, Late
<1> QED
  BY <1>9, <1>10, <1>11

\* The invariant is kept by every step of the driver and of the device.
LEMMA NextGpuInv == GpuInv /\ [Next]_vars => GpuInv'
<1> SUFFICES ASSUME GpuInv, [Next]_vars PROVE GpuInv'
    OBVIOUS
<1>1. CASE WalkCap
  BY <1>1, StageStep DEF WalkCap, Early
<1>2. CASE WalkEnd
  BY <1>2, StageStep DEF WalkEnd, Early, Ahead
<1>3. ASSUME NEW from \in Early \ {"off"}, NEW to \in Early, Try(from, to) PROVE GpuInv'
  BY <1>3, StageStep DEF Try, Ahead, Early
<1>4. CASE MapCommon \/ NegotiateFeatures \/ ReadQueueSize \/ MapNotify \/ SetupControlQueue
  BY <1>3, <1>4 DEF MapCommon, NegotiateFeatures, ReadQueueSize, MapNotify, SetupControlQueue, Early
<1>5. CASE GoLive
  BY <1>5, StageStep DEF GoLive, Early, Ahead
<1>6. CASE AllocateBacking
  BY <1>6, StageStep DEF AllocateBacking, Early, Middle, Ahead
<1>7. CASE Create2dCanvas \/ AttachBacking \/ SetScanout
  BY <1>7, SendStep DEF Create2dCanvas, AttachBacking, SetScanout, Command
<1>8. CASE Receive
  BY <1>8, ReceiveStep
<1>9. CASE CopyFirstHalf \/ CopySecondHalf
  <2>1. stage \in Late /\ stage' \in Late \ {"publish"} /\ UNCHANGED <<rings, answers, reports, device>>
    BY <1>9 DEF CopyFirstHalf, CopySecondHalf, Late
  <2>2. RingsOK'
    BY <2>1 DEF GpuInv, RingsOK, rings, answers, reports, device
  <2> QED
    BY <2>1, <2>2, FrameStep DEF rings, device
<1>10. CASE FlushPrepare
  BY <1>10, PrepareStep
<1>11. CASE FlushPublish
  BY <1>11, PublishStep
<1>12. CASE DeviceExecutes
  BY <1>12, DeviceStep
<1>13. CASE DeviceBreaks \/ DeviceRests \/ UNCHANGED vars
  <2>1. UNCHANGED <<stage, rings, answers, reports, seen, made>>
    BY <1>13 DEF DeviceBreaks, DeviceRests, vars, device
  <2> QED
    BY <2>1 DEF GpuInv, RingsOK, AheadUntouched, Now, WaitSound, LastHead, QuietSound,
       LinksKept, Reported, rings, answers, reports
<1> QED
  BY <1>1, <1>2, <1>4, <1>5, <1>6, <1>7, <1>8, <1>9, <1>10, <1>11, <1>12, <1>13
     DEF Next, Driver, Device

\* What the driver reports about create_2d_canvas, attach_backing and
\* set_scanout is what the device did, for every queue and index size: no answer
\* is taken for another command's.
THEOREM GpuReports == Spec => []Reported
<1>1. Init => GpuInv
  BY InitGpuInv
<1>2. GpuInv /\ [Next]_vars => GpuInv'
  BY NextGpuInv
<1>3. GpuInv => Reported
  BY DEF GpuInv
<1> QED
  BY <1>1, <1>2, <1>3, PTL DEF Spec
-----------------------------------------------------------------------------
(* The free list.  Its order is known at every moment: the descriptors go  *)
(* round in their own order from the first that no failed command keeps,   *)
(* but for the first two pairs, which every frame swaps.                   *)

Wrap(x) == IF x < N THEN x ELSE x - N

\* The descriptors the failed commands keep, and those of the one waited for.
Keeps(c) == IF c \in failed THEN 2 ELSE 0
Base == Keeps("create") + Keeps("attach") + Keeps("scanout")
Start == IF stage = "wait" THEN Base + 2 ELSE Base

Swapped == freeHead # Start
Place(k) == IF Swapped /\ k < 2 THEN Start + k + 2
            ELSE IF Swapped /\ k < 4 THEN Start + k - 2 ELSE Wrap(Start + k)

ListSound ==
    /\ failed \subseteq Command /\ numFree = N - Start
    /\ freeHead = Start \/ (stage \in Late /\ freeHead = Start + 2)
    /\ stage = "wait" => LastHead = Base
    /\ \A k \in Index : desc[Place(k)].next = Place(k + 1)

LEMMA BaseRange ==
    ASSUME GpuInv
    PROVE  /\ Base \in 0..6 /\ (stage = "wait" => Base \in 0..4)
           /\ Start \in 0..6 /\ N \in Nat /\ N >= 10
<1>1. stage = "wait" => mail[1] \in {"create", "attach", "scanout"} /\ mail[1] \notin failed
  BY DEF GpuInv, WaitSound, Command
<1>2. Base \in 0..6
  BY DEF Base, Keeps
<1>3. stage = "wait" => Base \in 0..4
  BY <1>1 DEF Base, Keeps
<1> QED BY <1>2, <1>3, QueueAssumption DEF Start

\* The places are descriptors, the first N of them different ones.
LEMMA PlaceFacts ==
    ASSUME GpuInv
    PROVE  /\ \A k \in 0..N : Place(k) \in Index
           /\ \A j, k \in Index : Place(j) = Place(k) => j = k
<1>1. Start \in 0..6 /\ N \in Nat /\ N >= 10
  BY BaseRange
<1>2. ASSUME NEW k \in 0..N PROVE Place(k) \in Index
  BY <1>1 DEF Place, Wrap, Index
<1>3. ASSUME NEW j \in Index, NEW k \in Index, Place(j) = Place(k) PROVE j = k
  BY <1>1, <1>3 DEF Place, Wrap, Index
<1> QED BY <1>2, <1>3

\* Before the first frame the list is as the links of the table say.
LEMMA KeptList ==
    ASSUME GpuInv, \A k \in Index : desc[k].next = (k + 1) % N, freeHead = Start
    PROVE  \A k \in Index : desc[Place(k)].next = Place(k + 1)
<1>1. Start \in 0..6 /\ N \in Nat /\ N >= 10
  BY BaseRange
<1> TAKE k \in Index
<1> DEFINE p == Place(k)
<1>2. p \in Index /\ p = Wrap(Start + k) /\ Place(k + 1) = Wrap(Start + k + 1)
  BY <1>1 DEF Place, Wrap, Index, Swapped
<1>3. (p + 1) % N = IF p + 1 = N THEN 0 ELSE p + 1
  <2> HIDE DEF p
  <2>1. CASE p + 1 = N
    <3>1. N % N = 0
      BY <1>1
    <3> QED BY <2>1, <3>1
  <2>2. CASE p + 1 # N
    <3>1. p + 1 \in 0..N - 1
      BY <1>1, <1>2, <2>2 DEF Index
    <3> QED BY <1>1, <2>2, <3>1
  <2> QED BY <2>1, <2>2
<1>4. Wrap(Start + k + 1) = IF p + 1 = N THEN 0 ELSE p + 1
  BY <1>1, <1>2 DEF Wrap, Index
<1> QED BY <1>2, <1>3, <1>4

LEMMA KeptListNext ==
    ASSUME GpuInv', (\A k \in Index : desc[k].next = (k + 1) % N)', (freeHead = Start)'
    PROVE  (\A k \in Index : desc[Place(k)].next = Place(k + 1))'
<1>1. (GpuInv /\ (\A k \in Index : desc[k].next = (k + 1) % N) /\ freeHead = Start
         => \A k \in Index : desc[Place(k)].next = Place(k + 1))'
  BY KeptList, PTL
<1> QED BY <1>1

\* A step that leaves the list alone keeps it.
LEMMA SameList ==
    ASSUME ListSound, UNCHANGED <<freeHead, numFree, failed>>,
           stage \in Late => stage' \in Late, stage = "wait" <=> stage' = "wait",
           stage = "wait" => LastHead' = LastHead,
           \A k \in Index : desc'[Place(k)].next = desc[Place(k)].next
    PROVE  ListSound'
<1>1. Base' = Base /\ Start' = Start
  BY DEF Base, Keeps, Start
<1>2. \A k : Place(k)' = Place(k)
  BY <1>1 DEF Place, Swapped, Wrap
<1> QED BY <1>1, <1>2 DEF ListSound

LEMMA InitList == Init => ListSound
<1> SUFFICES ASSUME Init PROVE ListSound
  OBVIOUS
<1>1. GpuInv
  BY InitGpuInv
<1>2. failed = {} /\ numFree = N /\ freeHead = 0 /\ stage = "walk"
  BY DEF Init
<1>3. Start = 0
  BY <1>2 DEF Start, Base, Keeps
<1>4. \A k \in Index : desc[k].next = (k + 1) % N
  BY DEF Init
<1>5. \A k \in Index : desc[Place(k)].next = Place(k + 1)
  BY <1>1, <1>2, <1>3, <1>4, KeptList
<1> QED BY <1>2, <1>3, <1>5, QueueAssumption DEF ListSound

LEMMA SendList ==
    ASSUME GpuInv, ListSound, NEW c \in Command, Send(c)
    PROVE  ListSound'
<1>0. GpuInv'
  BY SendStep
<1>1. stage = c /\ stage' = "wait" /\ stage # "wait" /\ stage \notin Late
  BY DEF Send, Command, Late
<1>2. Start = Base /\ freeHead = Base /\ numFree = N - Base
  BY <1>1 DEF ListSound, Start
<1>3. UNCHANGED failed
  BY DEF Send, reports
<1>4. Base' = Base /\ Start' = Base + 2 /\ Base \in 0..4 /\ N \in Nat /\ N >= 10
  <2>1. Base' = Base
    BY <1>3 DEF Base, Keeps
  <2>2. (Base \in 0..4)'
    <3>1. (GpuInv /\ stage = "wait" => Base \in 0..4)'
      BY BaseRange, PTL
    <3> QED BY <1>0, <1>1, <3>1
  <2> QED BY <1>1, <2>1, <2>2, QueueAssumption DEF Start
<1>5. desc[Place(0)].next = Place(1) /\ desc[Place(1)].next = Place(2)
  <2>1. 0 \in Index /\ 1 \in Index
    BY <1>4 DEF Index
  <2> QED BY <2>1 DEF ListSound
<1>6. Place(0) = Base /\ Place(2) = Base + 2
  BY <1>2, <1>4 DEF Place, Swapped, Wrap
<1>7. freeHead' = Base + 2 /\ numFree' = N - (Base + 2)
  BY <1>2, <1>4, <1>5, <1>6 DEF Send
<1>8. LastHead' = Base
  <2>1. availIdx \in Counter /\ avail \in [Index -> Index]
    BY DEF GpuInv, RingsOK
  <2>2. availIdx % N \in Index
    BY <2>1, SlotInRing
  <2>3. avail' = [avail EXCEPT ![availIdx % N] = freeHead] /\ availIdx' = Plus(availIdx, 1)
    BY DEF Send
  <2>4. Plus(availIdx', IdxMod - 1) = availIdx
    BY <2>1, <2>3, CounterSteps
  <2> QED BY <1>2, <2>1, <2>2, <2>3, <2>4 DEF LastHead
<1>9. (\A k \in Index : desc[k].next = (k + 1) % N)'
  <2>1. stage' \notin Late
    BY <1>1 DEF Late
  <2> QED BY <1>0, <2>1 DEF GpuInv, LinksKept
<1>10. (\A k \in Index : desc[Place(k)].next = Place(k + 1))'
  <2>1. (freeHead = Start)'
    BY <1>4, <1>7
  <2> QED BY <1>0, <1>9, <2>1, KeptListNext
<1>11. (failed \subseteq Command)'
  BY <1>3 DEF ListSound
<1> QED BY <1>1, <1>4, <1>7, <1>8, <1>10, <1>11 DEF ListSound

LEMMA ReceiveList ==
    ASSUME GpuInv, ListSound, Receive
    PROVE  ListSound'
<1> DEFINE c == mail[1]
<1>0. GpuInv'
  BY ReceiveStep
<1>1. stage = "wait" /\ stage' = After[c] /\ c \in {"create", "attach", "scanout"} /\ c \notin failed
  BY DEF Receive, GpuInv, WaitSound, Command
<1>2. stage' # "wait" /\ stage \notin Late
  BY <1>1 DEF After, Late
<1>3. /\ Start = Base + 2 /\ numFree = N - (Base + 2) /\ freeHead = Base + 2 /\ LastHead = Base
      /\ Base \in 0..4 /\ N \in Nat /\ N >= 10
  BY <1>1, <1>2, BaseRange DEF ListSound, Start
<1>4. /\ LastHead \in Index /\ desc[LastHead].next \in Index
      /\ freeHead = desc[desc[LastHead].next].next /\ desc \in [Index -> [slot : 0..2, next : Index]]
  <2>1. LastHead \in Index
    BY <1>3 DEF Index
  <2>2. desc \in [Index -> [slot : 0..2, next : Index]]
    BY DEF GpuInv, RingsOK
  <2>3. freeHead = desc[desc[LastHead].next].next
    BY <1>1 DEF GpuInv, WaitSound
  <2> QED BY <2>1, <2>2, <2>3
<1>5. \A k \in Index : desc'[k].next = desc[k].next
  BY <1>4 DEF Receive
<1>6. (\A k \in Index : desc[k].next = (k + 1) % N)'
  BY <1>2, <1>5 DEF GpuInv, LinksKept
<1>7. /\ failed' \subseteq Command /\ (freeHead = Base)' /\ (numFree = N - Base)'
  <2>1. CASE reply = "ok"
    <3>1. freeHead' = Base /\ numFree' = N - (Base + 2) + 2 /\ failed' = failed
      BY <1>3, <2>1 DEF Receive
    <3>2. Base' = Base
      BY <3>1 DEF Base, Keeps
    <3> QED BY <1>3, <3>1, <3>2 DEF ListSound
  <2>2. CASE reply # "ok"
    <3>1. freeHead' = Base + 2 /\ numFree' = N - (Base + 2) /\ failed' = failed \cup {c}
      BY <1>3, <2>2 DEF Receive
    <3>2. Base' = Base + 2
      BY <1>1, <3>1 DEF Base, Keeps
    <3>3. failed' \subseteq Command
      BY <1>1, <3>1 DEF ListSound, Command
    <3> QED BY <1>3, <3>1, <3>2, <3>3
  <2> QED BY <2>1, <2>2
<1>8. Start' = Base'
  BY <1>2 DEF Start
<1>9. (\A k \in Index : desc[Place(k)].next = Place(k + 1))'
  <2>1. (freeHead = Start)'
    BY <1>7, <1>8
  <2> QED BY <1>0, <1>6, <2>1, KeptListNext
<1> QED BY <1>2, <1>7, <1>8, <1>9 DEF ListSound

\* The four descriptors of a frame are the first four places, and all different.
LEMMA FrameDescriptors ==
    ASSUME GpuInv, ListSound
    PROVE  /\ First = Place(0) /\ Second = Place(1) /\ Third = Place(2) /\ Fourth = Place(3)
           /\ desc[Fourth].next = Place(4)
           /\ {First, Second, Third, Fourth} \subseteq Index
           /\ First # Second /\ First # Third /\ First # Fourth
           /\ Second # Third /\ Second # Fourth /\ Third # Fourth
<1>1. 0 \in Index /\ 1 \in Index /\ 2 \in Index /\ 3 \in Index /\ Index \subseteq 0..N
  BY QueueAssumption DEF Index
<1>2. Start \in 0..6 /\ N \in Nat /\ N >= 10
  BY BaseRange
<1>3. First = Place(0)
  BY <1>2 DEF First, Place, Swapped, ListSound, Wrap
<1>4. Second = Place(1)
  BY <1>1, <1>3 DEF Second, ListSound
<1>5. Third = Place(2)
  BY <1>1, <1>4 DEF Third, ListSound
<1>6. Fourth = Place(3)
  BY <1>1, <1>5 DEF Fourth, ListSound
<1>7. desc[Fourth].next = Place(4)
  BY <1>1, <1>6 DEF ListSound
<1>8. Place(0) # Place(1) /\ Place(0) # Place(2) /\ Place(0) # Place(3)
      /\ Place(1) # Place(2) /\ Place(1) # Place(3) /\ Place(2) # Place(3)
  BY <1>1, PlaceFacts
<1>9. {Place(0), Place(1), Place(2), Place(3)} \subseteq Index
  BY <1>1, PlaceFacts
<1> QED BY <1>3, <1>4, <1>5, <1>6, <1>7, <1>8, <1>9

LEMMA PrepareList ==
    ASSUME GpuInv, ListSound, FlushPrepare
    PROVE  ListSound'
<1>1. stage = "flush" /\ stage' \in Late /\ stage' # "wait" /\ UNCHANGED <<freeHead, numFree, failed>>
  BY DEF FlushPrepare, Late, reports
<1>2. desc \in [Index -> [slot : 0..2, next : Index]]
  BY DEF GpuInv, RingsOK
<1>3. \A k \in Index : desc'[k].next = desc[k].next
  <2>1. CASE numFree < 4
    BY <2>1 DEF FlushPrepare
  <2>2. CASE ~(numFree < 4)
    <3>1. desc' = [desc EXCEPT ![First].slot = 1, ![Second].slot = 0,
                               ![Third].slot = 2, ![Fourth].slot = 0]
      BY <2>2 DEF FlushPrepare
    <3> QED BY <1>2, <3>1, FrameDescriptors
  <2> QED BY <2>1, <2>2
<1>4. \A k \in Index : Place(k) \in Index
  BY PlaceFacts, QueueAssumption DEF Index
<1> QED BY <1>1, <1>3, <1>4, SameList

\* The pairs change places, and the list is the same after them.
LEMMA PublishList ==
    ASSUME GpuInv, ListSound, FlushPublish
    PROVE  ListSound'
<1>1. stage = "publish" /\ stage' = "up" /\ UNCHANGED <<numFree, failed>>
      /\ freeHead' = Third /\ desc' = Reclaimed
  BY DEF FlushPublish, reports
<1>2. Start' = Start /\ Start \in 0..6 /\ N \in Nat /\ N >= 10
  BY <1>1, BaseRange DEF Start, Base, Keeps
<1>3. freeHead = Start \/ freeHead = Start + 2
  BY DEF ListSound
<1>4. freeHead' = IF Swapped THEN Start ELSE Start + 2
  BY <1>1, <1>2, <1>3, FrameDescriptors DEF Place, Swapped, Wrap
<1>5. Swapped' <=> ~Swapped
  BY <1>2, <1>3, <1>4 DEF Swapped
<1>6. /\ Place(0)' = Place(2) /\ Place(1)' = Place(3)
      /\ Place(2)' = Place(0) /\ Place(3)' = Place(1)
      /\ \A k \in 4..N : Place(k)' = Place(k)
  BY <1>2, <1>5 DEF Place, Wrap
<1>7. desc \in [Index -> [slot : 0..2, next : Index]]
  BY DEF GpuInv, RingsOK
<1>8. /\ desc'[Second].next = Place(4) /\ desc'[Fourth].next = First
      /\ \A d \in Index : d # Second /\ d # Fourth => desc'[d].next = desc[d].next
  BY <1>1, <1>7, FrameDescriptors DEF Reclaimed
<1>9. ASSUME NEW k \in Index PROVE desc'[Place(k)'].next = Place(k + 1)'
  <2>1. 0 \in Index /\ 1 \in Index /\ 2 \in Index /\ 3 \in Index /\ 4 \in 4..N
    BY <1>2 DEF Index
  <2>2. desc[Place(k)].next = Place(k + 1)
    BY DEF ListSound
  <2>3. CASE k = 0
    <3>1. desc'[Third].next = Fourth
      BY <1>8, FrameDescriptors DEF Fourth
    <3> QED BY <1>6, <2>3, <3>1, FrameDescriptors
  <2>4. CASE k = 1
    BY <1>6, <1>8, <2>1, <2>4, FrameDescriptors
  <2>5. CASE k = 2
    <3>1. desc'[First].next = Second
      BY <1>8, FrameDescriptors DEF Second
    <3> QED BY <1>6, <2>5, <3>1, FrameDescriptors
  <2>6. CASE k = 3
    BY <1>6, <1>8, <2>1, <2>6, FrameDescriptors
  <2>7. CASE k \in 4..N
    <3>1. k + 1 \in 4..N /\ k # 1 /\ k # 3
      BY <1>2, <2>7 DEF Index
    <3>2. Place(k) \in Index /\ Place(k) # Second /\ Place(k) # Fourth
      <4>1. k \in 0..N
        BY <1>2 DEF Index
      <4> QED BY <2>1, <3>1, <4>1, PlaceFacts, FrameDescriptors
    <3> QED BY <1>6, <1>8, <2>2, <2>7, <3>1, <3>2
  <2>8. k \in 0..3 \/ k \in 4..N
    BY <1>2 DEF Index
  <2> QED BY <2>3, <2>4, <2>5, <2>6, <2>7, <2>8
<1>10. (\A k \in Index : desc[Place(k)].next = Place(k + 1))'
  BY <1>9 DEF Index
<1> QED BY <1>1, <1>2, <1>3, <1>4, <1>10 DEF ListSound, Late

LEMMA NextList == GpuInv /\ ListSound /\ [Next]_vars => ListSound'
<1> SUFFICES ASSUME GpuInv, ListSound, [Next]_vars PROVE ListSound'
  OBVIOUS
<1>0. \A k \in Index : Place(k) \in Index
  BY PlaceFacts, QueueAssumption DEF Index
<1>1. CASE Create2dCanvas \/ AttachBacking \/ SetScanout
  BY <1>1, SendList DEF Create2dCanvas, AttachBacking, SetScanout, Command
<1>2. CASE Receive
  BY <1>2, ReceiveList
<1>3. CASE FlushPrepare
  BY <1>3, PrepareList
<1>4. CASE FlushPublish
  BY <1>4, PublishList
<1>5. CASE WalkCap \/ WalkEnd \/ GoLive \/ AllocateBacking
  BY <1>5, SameList DEF WalkCap, WalkEnd, GoLive, AllocateBacking, rings, reports, Late
<1>6. ASSUME NEW from, NEW to, from \notin Late \cup {"wait"}, to # "wait", Try(from, to)
      PROVE  ListSound'
  BY <1>6, SameList DEF Try, rings, reports, Late
<1>7. CASE MapCommon \/ NegotiateFeatures \/ ReadQueueSize \/ MapNotify \/ SetupControlQueue
  BY <1>6, <1>7 DEF MapCommon, NegotiateFeatures, ReadQueueSize, MapNotify, SetupControlQueue, Late
<1>8. CASE CopyFirstHalf \/ CopySecondHalf
  BY <1>8, SameList DEF CopyFirstHalf, CopySecondHalf, rings, reports, Late
<1>9. CASE DeviceExecutes
  <2>1. UNCHANGED <<stage, rings, reports>>
    BY <1>9 DEF DeviceExecutes, Execute
  <2> QED BY <2>1, SameList DEF rings, reports, LastHead
<1>10. CASE DeviceBreaks \/ DeviceRests \/ UNCHANGED vars
  <2>1. UNCHANGED <<stage, rings, reports>>
    BY <1>10 DEF DeviceBreaks, DeviceRests, vars
  <2> QED BY <2>1, SameList DEF rings, reports, LastHead
<1> QED
  BY <1>1, <1>2, <1>3, <1>4, <1>5, <1>7, <1>8, <1>9, <1>10 DEF Next, Driver, Device

\* The recursion along the links finds the places in their order.
LEMMA ChainPlaces ==
    ASSUME GpuInv, ListSound
    PROVE  \A k \in 0..N : Chain[k] = Place(k)
<1> DEFINE Along(f) == f = [k \in 0..N |-> IF k = 0 THEN freeHead ELSE desc[f[k - 1]].next]
           places == [k \in 0..N |-> Place(k)]
<1>1. N \in Nat /\ freeHead = Place(0)
  BY QueueAssumption, FrameDescriptors DEF First
<1>2. ASSUME NEW k \in 0..N, k # 0
      PROVE  k - 1 \in 0..N /\ Place(k) = desc[Place(k - 1)].next
  <2>1. k - 1 \in Index /\ (k - 1) + 1 = k /\ k - 1 \in 0..N
    BY <1>1, <1>2 DEF Index
  <2> QED BY <2>1 DEF ListSound
<1>3. Along(places)
  BY <1>1, <1>2
<1>4. Along(Chain)
  <2> HIDE DEF Along
  <2>1. Chain = CHOOSE f : Along(f)
    BY DEF Chain, Along
  <2> QED BY <1>3, <2>1
<1>5. /\ Chain[0] = Place(0)
      /\ \A k \in 0..N - 1 : Chain[k + 1] = desc[Chain[k]].next
  <2>1. \A k \in 0..N : Chain[k] = IF k = 0 THEN freeHead ELSE desc[Chain[k - 1]].next
    BY <1>4
  <2>2. ASSUME NEW k \in 0..N - 1 PROVE Chain[k + 1] = desc[Chain[k]].next
    <3>1. k + 1 \in 0..N /\ k + 1 # 0 /\ (k + 1) - 1 = k
      BY <1>1
    <3> HIDE DEF Along
    <3> QED BY <2>1, <3>1
  <2>3. 0 \in 0..N
    BY <1>1
  <2> QED BY <1>1, <2>1, <2>2, <2>3
<1> DEFINE S == {k \in 0..N : Chain[k] = Place(k)}
<1>6. \A k \in 0..N : k \in S <=> Chain[k] = Place(k)
  OBVIOUS
<1> HIDE DEF S, Along, places
<1>7. 0 \in S
  BY <1>1, <1>5, <1>6
<1>8. ASSUME NEW k \in 0..N - 1, k \in S PROVE k + 1 \in S
  <2>1. k \in Index /\ k \in 0..N /\ k + 1 \in 0..N
    BY <1>1 DEF Index
  <2> QED BY <1>5, <1>6, <1>8, <2>1 DEF ListSound
<1>9. 0..N \subseteq S
  BY <1>1, <1>7, <1>8, UpToBySteps
<1> QED BY <1>6, <1>9

\* What num_free counts are the descriptors that nobody keeps.
LEMMA FreeOnes ==
    ASSUME GpuInv, ListSound
    PROVE  FreeListSound
<1>1. Start \in 0..6 /\ N \in Nat /\ N >= 10 /\ numFree = N - Start
  BY BaseRange DEF ListSound
<1>2. ASSUME NEW k \in 0..numFree - 1 PROVE Chain[k] = Place(k) /\ Place(k) \in Start..N - 1
  <2>1. k \in 0..N
    BY <1>1
  <2> QED BY <1>1, <2>1, ChainPlaces DEF Place, Wrap
<1>3. ASSUME NEW d \in Start..N - 1 PROVE \E k \in 0..numFree - 1 : Place(k) = d
  <2>1. CASE ~Swapped \/ d > Start + 3
    <3>1. d - Start \in 0..numFree - 1 /\ Place(d - Start) = d
      BY <1>1, <2>1 DEF Place, Wrap
    <3> QED BY <3>1
  <2>2. CASE Swapped /\ d < Start + 2
    <3>1. d - Start + 2 \in 0..numFree - 1 /\ Place(d - Start + 2) = d
      BY <1>1, <2>2 DEF Place
    <3> QED BY <3>1
  <2>3. CASE Swapped /\ d \in Start + 2..Start + 3
    <3>1. d - Start - 2 \in 0..numFree - 1 /\ Place(d - Start - 2) = d
      BY <1>1, <2>3 DEF Place
    <3> QED BY <3>1
  <2> QED BY <1>1, <2>1, <2>2, <2>3
<1>4. {Chain[k] : k \in 0..numFree - 1} = Start..N - 1
  BY <1>2, <1>3
<1>5. Cardinality(Start..N - 1) = numFree
  <2>1. Start \in Int /\ N - 1 \in Int /\ Start <= N - 1
    BY <1>1
  <2>2. Cardinality(Start..N - 1) = (N - 1) - Start + 1
    BY <2>1, FS_Interval
  <2> QED BY <1>1, <2>2
<1> QED BY <1>4, <1>5 DEF FreeListSound

\* After failed commands and after any number of frames the free list holds
\* num_free different descriptors, for every queue: no frame's commands share a
\* descriptor, and none takes one that a failed command keeps.
THEOREM GpuFreeList == Spec => []FreeListSound
<1>1. Init => GpuInv /\ ListSound
  BY InitGpuInv, InitList
<1>2. GpuInv /\ ListSound /\ [Next]_vars => GpuInv' /\ ListSound'
  BY NextGpuInv, NextList
<1>3. GpuInv /\ ListSound => FreeListSound
  BY FreeOnes
<1> QED
  BY <1>1, <1>2, <1>3, PTL DEF Spec
-----------------------------------------------------------------------------
(* Types.                                                                  *)

Pictures == (0..MaxFrames) \X (0..MaxFrames)

\* What the other invariants do not say of the variables.
RestOK ==
    /\ hops \in 0..MaxHops /\ made \subseteq Command
    /\ rung \in BOOLEAN /\ live \in BOOLEAN /\ broken \in BOOLEAN
    /\ drawn \in 0..MaxFrames
    /\ backing \in Pictures /\ canvas \in Pictures /\ screen \in Pictures

LEMMA InitRest == Init => RestOK
<1> SUFFICES ASSUME Init PROVE RestOK
  OBVIOUS
<1>1. 0 \in 0..MaxHops /\ 0 \in 0..MaxFrames
  BY BoundsAssumption
<1>2. <<0, 0>> \in Pictures
  BY <1>1 DEF Pictures
<1>3. rung \in BOOLEAN /\ live \in BOOLEAN /\ broken \in BOOLEAN /\ made = {}
  BY DEF Init
<1> QED BY <1>1, <1>2, <1>3 DEF Init, RestOK

LEMMA CopyTypes ==
    ASSUME NEW p \in Pictures, NEW n \in 0..MaxFrames, NEW i \in 1..2
    PROVE  [p EXCEPT ![i] = n] \in Pictures
BY DEF Pictures

LEMMA NextRest == RestOK /\ [Next]_vars => RestOK'
<1> SUFFICES ASSUME RestOK, [Next]_vars PROVE RestOK'
  OBVIOUS
<1>1. CASE WalkCap
  <2>1. hops' \in 0..MaxHops
    BY <1>1, BoundsAssumption DEF WalkCap, MoreCaps, RestOK
  <2> QED BY <1>1, <2>1 DEF WalkCap, RestOK, device, picture
<1>2. CASE WalkEnd \/ AllocateBacking
  BY <1>2 DEF WalkEnd, AllocateBacking, RestOK, bus, device, picture
<1>3. ASSUME NEW from, NEW to, Try(from, to) PROVE RestOK'
  BY <1>3 DEF Try, RestOK, bus, device, picture
<1>4. CASE MapCommon \/ NegotiateFeatures \/ ReadQueueSize \/ MapNotify \/ SetupControlQueue
  BY <1>3, <1>4 DEF MapCommon, NegotiateFeatures, ReadQueueSize, MapNotify, SetupControlQueue
<1>5. CASE GoLive
  BY <1>5 DEF GoLive, RestOK, device, picture
<1>6. ASSUME NEW c, Send(c) PROVE RestOK'
  BY <1>6 DEF Send, RestOK, bus, device, picture
<1>7. CASE Create2dCanvas \/ AttachBacking \/ SetScanout
  BY <1>6, <1>7 DEF Create2dCanvas, AttachBacking, SetScanout
<1>8. CASE Receive
  BY <1>8 DEF Receive, RestOK, bus, device, picture
<1>9. CASE CopyFirstHalf
  <2>1. drawn' \in 0..MaxFrames
    BY <1>9, BoundsAssumption DEF CopyFirstHalf, RestOK
  <2>2. backing' \in Pictures
    <3>1. backing' = [backing EXCEPT ![1] = drawn'] /\ 1 \in 1..2
      BY <1>9 DEF CopyFirstHalf
    <3> QED BY <2>1, <3>1, CopyTypes DEF RestOK
  <2> QED BY <1>9, <2>1, <2>2 DEF CopyFirstHalf, RestOK, bus, device
<1>10. CASE CopySecondHalf
  <2>1. backing' \in Pictures
    <3>1. backing' = [backing EXCEPT ![2] = drawn] /\ 2 \in 1..2
      BY <1>10 DEF CopySecondHalf
    <3> QED BY <3>1, CopyTypes DEF RestOK
  <2> QED BY <1>10, <2>1 DEF CopySecondHalf, RestOK, bus, device
<1>11. CASE FlushPrepare
  BY <1>11 DEF FlushPrepare, RestOK, bus, device, picture
<1>12. CASE FlushPublish
  BY <1>12 DEF FlushPublish, Doorbell, RestOK, bus, device, picture
<1>13. ASSUME NEW c, Execute(c) PROVE RestOK'
  <2>1. UNCHANGED <<hops, rung, live, broken, drawn, backing>>
    BY <1>13 DEF Execute, bus, picture
  <2>2. made' \subseteq Command
    BY <1>13 DEF Execute, RestOK
  <2>3. canvas' \in Pictures /\ screen' \in Pictures
    BY <1>13 DEF Execute, RestOK
  <2> QED BY <2>1, <2>2, <2>3 DEF RestOK
<1>14. CASE DeviceExecutes
  BY <1>13, <1>14 DEF DeviceExecutes
<1>15. CASE DeviceBreaks \/ DeviceRests \/ UNCHANGED vars
  BY <1>15 DEF DeviceBreaks, DeviceRests, vars, RestOK, bus, device, picture
<1> QED
  BY <1>1, <1>2, <1>4, <1>5, <1>7, <1>8, <1>9, <1>10, <1>11, <1>12, <1>14, <1>15
     DEF Next, Driver, Device

\* The type invariant: no command names a descriptor or a slot outside of the
\* queue, num_free stays between none and all, and no index leaves its counter.
THEOREM GpuTypes == Spec => []TypeOK
<1>1. Init => GpuInv /\ ListSound /\ RestOK
  BY InitGpuInv, InitList, InitRest
<1>2. GpuInv /\ ListSound /\ RestOK /\ [Next]_vars => GpuInv' /\ ListSound' /\ RestOK'
  BY NextGpuInv, NextList, NextRest
<1>3. GpuInv /\ ListSound /\ RestOK => TypeOK
  <2> SUFFICES ASSUME GpuInv, ListSound, RestOK PROVE TypeOK
    OBVIOUS
  <2>1. numFree \in 0..N
    BY BaseRange DEF ListSound
  <2>2. done \cup failed \cup made \subseteq Command
    BY DEF GpuInv, Reported, ListSound, RestOK
  <2> QED BY <2>1, <2>2 DEF GpuInv, RingsOK, RestOK, TypeOK, Counter, Pictures
<1> QED
  BY <1>1, <1>2, <1>3, PTL DEF Spec
-----------------------------------------------------------------------------
(* The last frame.                                                         *)

\* The device never falls a whole turn of the index behind, so that no lag is
\* taken for none.  With 65536 indices that is a device which has not looked
\* while the driver drew 32767 frames.
NoTurnBehind == stage = "publish" => Lag + 2 < IdxMod

\* The available ring's entry k commands ago.
Ago(k) == avail[Plus(availIdx, IdxMod - k) % N]

\* The commands of the last frame, as the device will find them: the pairs have
\* been swapped since, so that the third descriptor now is the first of then.
LastFrameQueued ==
    /\ mail = Frame /\ Ago(2) = Third /\ Ago(1) = First
    /\ desc[Third].slot = 1 /\ desc[First].slot = 2

ShownSound ==
    /\ stage \notin Late =>
          drawn = 0 /\ backing = <<0, 0>> /\ canvas = <<0, 0>> /\ screen = <<0, 0>>
    /\ stage \in {"up", "flush", "publish"} => backing = <<drawn, drawn>>
    /\ stage = "copy" => backing[1] = drawn
    /\ stage = "publish" => desc[First].slot = 1 /\ desc[Third].slot = 2
    /\ stage = "up" /\ Lag # 0 => LastFrameQueued
    /\ stage = "up" /\ made = Command =>
          /\ Lag = 1 => canvas = <<drawn, drawn>>
          /\ Lag = 0 => screen = <<drawn, drawn>>

\* How the lag moves with the two indices.
LEMMA LagSteps ==
    ASSUME NEW a \in Counter, NEW s \in Counter
    PROVE  LET L(x, y) == Plus(x, IdxMod - y)
           IN  /\ L(a, s) \in Counter
               /\ L(a, s) + 2 < IdxMod => L(Plus(a, 2), s) = L(a, s) + 2
               /\ L(a, s) # 0 => L(a, Plus(s, 1)) = L(a, s) - 1
               /\ L(a, s) = 1 => s = Plus(a, IdxMod - 1)
               /\ L(a, s) = 2 => s = Plus(a, IdxMod - 2)
               /\ L(a, s) = 0 => a = s
               /\ L(a, a) = 0
               /\ Plus(Plus(a, 2), IdxMod - 2) = a
               /\ Plus(Plus(a, 2), IdxMod - 1) = Plus(a, 1)
BY QueueAssumption, IdxAssumption DEF Plus, Counter

LEMMA NextSlot ==
    ASSUME NEW a \in Counter
    PROVE  a % N # Plus(a, 1) % N
<1>1. N \in Nat /\ N >= 10 /\ IdxMod \in Nat /\ IdxMod % N = 0 /\ a \in Nat /\ a < IdxMod
  BY QueueAssumption, IdxAssumption DEF Counter
<1>2. CASE a + 1 < IdxMod
  <2>1. (a + 1) % N # a % N
    BY <1>1
  <2> QED BY <1>2, <2>1 DEF Plus
<1>3. CASE a + 1 = IdxMod
  <2>1. a % N # 0
    <3>1. (a + 1) % N # a % N
      BY <1>1
    <3> QED BY <1>1, <1>3, <3>1
  <2>2. Plus(a, 1) = 0 /\ 0 % N = 0
    BY <1>1, <1>3 DEF Plus
  <2> QED BY <2>1, <2>2
<1> QED BY <1>1, <1>2, <1>3

\* A step that touches neither the queue nor the pictures and stays where it is.
LEMMA SameShown ==
    ASSUME ShownSound, UNCHANGED <<rings, seen, made, canvas, screen, picture>>,
           \/ stage' = stage
           \/ stage \notin Late /\ stage' \notin Late
    PROVE  ShownSound'
<1>1. UNCHANGED <<First, Third, Lag, Ago(1), Ago(2)>>
  BY DEF First, Second, Third, Lag, Ago, rings
<1>2. LastFrameQueued' <=> LastFrameQueued
  BY <1>1 DEF LastFrameQueued, rings
<1> QED BY <1>1, <1>2 DEF ShownSound, rings, picture, Late

LEMMA InitShown == Init => ShownSound
BY DEF Init, ShownSound, Late

\* When the last command of the bring-up is answered nothing is queued.
LEMMA ReceiveShown ==
    ASSUME GpuInv, ShownSound, Receive
    PROVE  ShownSound'
<1>1. stage = "wait" /\ availIdx = seen /\ RingsOK /\ stage \notin Late
  BY DEF Receive, GpuInv, WaitSound, Late
<1>2. UNCHANGED <<availIdx, seen, made, canvas, screen, drawn, backing>>
  BY DEF Receive, device, picture
<1>3. Lag' = 0
  BY <1>1, <1>2, LagSteps DEF RingsOK, Lag
<1>4. stage' \notin {"copy", "flush", "publish"}
  BY <1>1 DEF GpuInv, WaitSound, Receive, After, Command
<1> QED BY <1>1, <1>2, <1>3, <1>4 DEF ShownSound

LEMMA CopyShown ==
    ASSUME ShownSound, RestOK, CopyFirstHalf \/ CopySecondHalf
    PROVE  ShownSound'
<1>1. \E i, j \in 0..MaxFrames : backing = <<i, j>>
  BY DEF RestOK, Pictures
<1>2. CASE CopyFirstHalf
  BY <1>1, <1>2 DEF CopyFirstHalf, ShownSound, Late
<1>3. CASE CopySecondHalf
  BY <1>1, <1>3 DEF CopySecondHalf, ShownSound, Late
<1> QED BY <1>2, <1>3

LEMMA PrepareShown ==
    ASSUME GpuInv, ListSound, ShownSound, FlushPrepare
    PROVE  ShownSound'
<1>1. ~(numFree < 4)
  BY BaseRange DEF ListSound
<1>2. /\ stage = "flush" /\ stage' = "publish" /\ UNCHANGED <<freeHead, drawn, backing>>
      /\ desc' = [desc EXCEPT ![First].slot = 1, ![Second].slot = 0,
                              ![Third].slot = 2, ![Fourth].slot = 0]
  BY <1>1 DEF FlushPrepare, picture
<1>3. desc \in [Index -> [slot : 0..2, next : Index]]
  BY DEF GpuInv, RingsOK
<1>4. /\ desc'[First].slot = 1 /\ desc'[Third].slot = 2
      /\ \A k \in Index : desc'[k].next = desc[k].next
  BY <1>2, <1>3, FrameDescriptors
<1>5. First' = First /\ Third' = Third
  BY <1>2, <1>4, FrameDescriptors DEF First, Second, Third
<1> QED BY <1>2, <1>4, <1>5 DEF ShownSound, Late

LEMMA PublishShown ==
    ASSUME GpuInv, ListSound, ShownSound, NoTurnBehind, FlushPublish
    PROVE  ShownSound'
<1>1. /\ stage = "publish" /\ stage' = "up" /\ UNCHANGED <<mail, drawn, backing, seen, made>>
      /\ desc' = Reclaimed /\ freeHead' = Third /\ availIdx' = Plus(availIdx, 2)
      /\ avail' = [avail EXCEPT ![availIdx % N] = First, ![Plus(availIdx, 1) % N] = Third]
  BY DEF FlushPublish, Commands, device, picture
<1>2. RingsOK /\ mail = Frame
  BY <1>1 DEF GpuInv, QuietSound
<1>3. availIdx \in Counter /\ seen \in Counter /\ avail \in [Index -> Index]
      /\ desc \in [Index -> [slot : 0..2, next : Index]]
  BY <1>2 DEF RingsOK
<1>4. Lag' = Lag + 2 /\ Lag \in Nat
  BY <1>1, <1>3, LagSteps DEF Lag, NoTurnBehind, Counter
<1>5. Plus(availIdx', IdxMod - 2) = availIdx /\ Plus(availIdx', IdxMod - 1) = Plus(availIdx, 1)
  BY <1>1, <1>3, LagSteps
<1>6. /\ availIdx % N \in Index /\ Plus(availIdx, 1) % N \in Index
      /\ availIdx % N # Plus(availIdx, 1) % N
  BY <1>3, SlotInRing, NextSlot, CounterSteps
<1>7. Ago(2)' = First /\ Ago(1)' = Third
  BY <1>1, <1>3, <1>5, <1>6 DEF Ago
<1>8. /\ desc'[Third].next = Fourth /\ desc'[Fourth].next = First
      /\ \A k \in Index : desc'[k].slot = desc[k].slot
  BY <1>1, <1>3, FrameDescriptors DEF Reclaimed, Fourth
<1>9. First' = Third /\ Third' = First
  BY <1>1, <1>8 DEF First, Second, Third
<1>10. desc[First].slot = 1 /\ desc[Third].slot = 2 /\ backing = <<drawn, drawn>>
  BY <1>1 DEF ShownSound
<1>11. desc'[First].slot = 1 /\ desc'[Third].slot = 2
  BY <1>8, <1>10, FrameDescriptors
<1>12. LastFrameQueued'
  BY <1>1, <1>2, <1>7, <1>9, <1>11 DEF LastFrameQueued
<1> QED BY <1>1, <1>4, <1>10, <1>12 DEF ShownSound, Late

\* The device finds the commands of the last frame as they were written, and
\* carries them out if it could do all it was asked before.
LEMMA DeviceShown ==
    ASSUME GpuInv, ShownSound, DeviceExecutes
    PROVE  ShownSound'
<1> DEFINE d == avail[seen % N]
<1>1. RingsOK /\ availIdx \in Counter /\ seen \in Counter /\ Lag # 0
  BY DEF GpuInv, RingsOK, DeviceExecutes, AtWork
<1>2. PICK s \in Named(d) : Execute(IF s = 0 THEN "none" ELSE mail[s])
  BY DEF DeviceExecutes
<1>3. UNCHANGED <<stage, rings, drawn, backing>> /\ seen' = Plus(seen, 1)
  BY <1>2 DEF Execute, picture
<1>4. Lag' = Lag - 1 /\ Lag \in Nat
  BY <1>1, <1>3, LagSteps DEF Lag, rings, Counter
<1>5. UNCHANGED <<First, Third, Ago(1), Ago(2)>>
  BY <1>3 DEF First, Second, Third, Ago, rings
<1>6. LastFrameQueued' <=> LastFrameQueued
  BY <1>3, <1>5 DEF LastFrameQueued, rings
<1>7. canvas' \in {canvas, backing} /\ screen' \in {screen, canvas}
  BY <1>2 DEF Execute
<1>8. CASE stage # "up"
  BY <1>3, <1>5, <1>7, <1>8 DEF ShownSound, rings, Late
<1>9. CASE stage = "up"
  <2>1. LastFrameQueued /\ mail = Frame /\ backing = <<drawn, drawn>>
    BY <1>1, <1>9 DEF ShownSound, LastFrameQueued
  <2>2. s = desc[d].slot
    BY <1>9 DEF Named
  <2>3. s \in 0..2
    BY <1>1, <2>2, SlotInRing DEF RingsOK
  <2>4. made' = made
    <3>1. (IF s = 0 THEN "none" ELSE mail[s]) \notin Command
      BY <2>1, <2>3 DEF Frame, Command
    <3> QED BY <1>2, <3>1 DEF Execute
  <2>5. ASSUME Lag = 2, made = Command PROVE canvas' = <<drawn, drawn>>
    <3>1. d = Third /\ s = 1
      BY <1>1, <2>1, <2>2, <2>5, LagSteps DEF Lag, LastFrameQueued, Ago
    <3>2. Execute("transfer")
      BY <1>2, <2>1, <3>1 DEF Frame
    <3>3. Possible("transfer") /\ "attach" \in made /\ "transfer" \notin Command
      BY <2>5 DEF Possible, Command
    <3> QED BY <2>1, <3>2, <3>3 DEF Execute
  <2>6. ASSUME Lag = 1, made = Command PROVE screen' = <<drawn, drawn>>
    <3>1. d = First /\ s = 2
      BY <1>1, <2>1, <2>2, <2>6, LagSteps DEF Lag, LastFrameQueued, Ago
    <3>2. Execute("flush")
      BY <1>2, <2>1, <3>1 DEF Frame
    <3>3. Possible("flush") /\ "flush" \notin Command
      BY <2>6 DEF Possible, Command
    <3>4. canvas = <<drawn, drawn>>
      BY <1>9, <2>6 DEF ShownSound
    <3> QED BY <3>2, <3>3, <3>4 DEF Execute
  <2>7. (Lag' = 1 => Lag = 2) /\ (Lag' = 0 => Lag = 1)
    BY <1>4
  <2> QED BY <1>3, <1>6, <1>9, <2>1, <2>4, <2>5, <2>6, <2>7 DEF ShownSound, Late
<1> QED BY <1>8, <1>9

LEMMA NextShown ==
    GpuInv /\ ListSound /\ RestOK /\ ShownSound /\ NoTurnBehind /\ [Next]_vars => ShownSound'
<1> SUFFICES ASSUME GpuInv, ListSound, RestOK, ShownSound, NoTurnBehind, [Next]_vars
             PROVE  ShownSound'
  OBVIOUS
<1>1. CASE WalkCap \/ WalkEnd \/ GoLive \/ AllocateBacking
  BY <1>1, SameShown DEF WalkCap, WalkEnd, GoLive, AllocateBacking, device, Late
<1>2. ASSUME NEW from, NEW to, {from, to} \cap Late = {}, Try(from, to) PROVE ShownSound'
  BY <1>2, SameShown DEF Try, device, Late
<1>3. CASE MapCommon \/ NegotiateFeatures \/ ReadQueueSize \/ MapNotify \/ SetupControlQueue
  BY <1>2, <1>3 DEF MapCommon, NegotiateFeatures, ReadQueueSize, MapNotify, SetupControlQueue, Late
<1>4. ASSUME NEW c \in Command, Send(c) PROVE ShownSound'
  BY <1>4 DEF Send, Command, ShownSound, Late, device, picture
<1>5. CASE Create2dCanvas \/ AttachBacking \/ SetScanout
  BY <1>4, <1>5 DEF Create2dCanvas, AttachBacking, SetScanout, Command
<1>6. CASE Receive
  BY <1>6, ReceiveShown
<1>7. CASE CopyFirstHalf \/ CopySecondHalf
  BY <1>7, CopyShown
<1>8. CASE FlushPrepare
  BY <1>8, PrepareShown
<1>9. CASE FlushPublish
  BY <1>9, PublishShown
<1>10. CASE DeviceExecutes
  BY <1>10, DeviceShown
<1>11. CASE DeviceBreaks \/ DeviceRests \/ UNCHANGED vars
  BY <1>11, SameShown DEF DeviceBreaks, DeviceRests, vars, device
<1> QED
  BY <1>1, <1>3, <1>5, <1>6, <1>7, <1>8, <1>9, <1>10, <1>11 DEF Next, Driver, Device

\* As long as the device does not fall a whole turn of the 16-bit index behind,
\* a driver at rest and a device that has caught up mean that the screen shows
\* the last frame whole: taking the descriptors back before the device has read
\* them never costs the last frame, whatever it cost the frames before.
THEOREM GpuLastFrame == Spec /\ []NoTurnBehind => []LastFrameShown
<1>1. Init => GpuInv /\ ListSound /\ RestOK /\ ShownSound
  BY InitGpuInv, InitList, InitRest, InitShown
<1>2. GpuInv /\ ListSound /\ RestOK /\ ShownSound /\ NoTurnBehind /\ [Next]_vars
         => GpuInv' /\ ListSound' /\ RestOK' /\ ShownSound'
  BY NextGpuInv, NextList, NextRest, NextShown
<1>3. ShownSound => LastFrameShown
  BY DEF ShownSound, LastFrameShown
<1> QED
  BY <1>1, <1>2, <1>3, PTL DEF Spec

\* The device lags by no more commands than the frames drawn have.
LagBound ==
    /\ stage = "up" => Lag <= 2 * drawn
    /\ stage \in {"copy", "flush", "publish"} => Lag + 2 <= 2 * drawn

LEMMA NextLagBound ==
    ASSUME 2 * MaxFrames < IdxMod, GpuInv, ListSound, RestOK, LagBound, [Next]_vars
    PROVE  LagBound'
<1>0. /\ availIdx \in Counter /\ seen \in Counter /\ Lag \in Nat /\ Lag < IdxMod
      /\ drawn \in Nat /\ drawn <= MaxFrames /\ MaxFrames \in Nat /\ IdxMod \in Nat
  <2>1. availIdx \in Counter /\ seen \in Counter
    BY DEF GpuInv, RingsOK
  <2>2. Lag \in Counter
    BY <2>1, LagSteps DEF Lag
  <2> QED BY <2>1, <2>2, BoundsAssumption, IdxAssumption DEF RestOK, Counter
<1>1. CASE WalkCap \/ WalkEnd \/ GoLive \/ AllocateBacking
  BY <1>1 DEF WalkCap, WalkEnd, GoLive, AllocateBacking, LagBound
<1>2. CASE MapCommon \/ NegotiateFeatures \/ ReadQueueSize \/ MapNotify \/ SetupControlQueue
  BY <1>2 DEF MapCommon, NegotiateFeatures, ReadQueueSize, MapNotify, SetupControlQueue, Try, LagBound
<1>3. CASE Create2dCanvas \/ AttachBacking \/ SetScanout
  BY <1>3 DEF Create2dCanvas, AttachBacking, SetScanout, Send, LagBound
<1>4. CASE Receive
  <2>1. availIdx = seen /\ UNCHANGED <<availIdx, seen, drawn>>
        /\ stage' \notin {"copy", "flush", "publish"}
    BY <1>4 DEF Receive, GpuInv, WaitSound, device, picture, After, Command
  <2>2. Lag' = 0
    BY <1>0, <2>1, LagSteps DEF Lag
  <2> QED BY <1>0, <2>1, <2>2 DEF LagBound
<1>5. CASE CopyFirstHalf
  <2>1. UNCHANGED <<availIdx, seen>> /\ stage = "up" /\ stage' = "copy" /\ drawn' = drawn + 1
    BY <1>5 DEF CopyFirstHalf, rings, device
  <2>2. Lag' = Lag
    BY <2>1 DEF Lag
  <2> QED BY <1>0, <2>1, <2>2 DEF LagBound
<1>6. CASE CopySecondHalf \/ FlushPrepare
  <2>0. ~(numFree < 4)
    BY BaseRange DEF ListSound
  <2>1. /\ UNCHANGED <<availIdx, seen, drawn>> /\ stage \in {"copy", "flush", "publish"}
        /\ stage' \in {"flush", "publish"}
    BY <1>6, <2>0 DEF CopySecondHalf, FlushPrepare, rings, device, picture
  <2>2. Lag' = Lag
    BY <2>1 DEF Lag
  <2> QED BY <2>1, <2>2 DEF LagBound
<1>7. CASE FlushPublish
  <2>1. /\ stage = "publish" /\ stage' = "up" /\ UNCHANGED <<seen, drawn>>
        /\ availIdx' = Plus(availIdx, 2)
    BY <1>7 DEF FlushPublish, Commands, device, picture
  <2>2. Lag + 2 <= 2 * drawn /\ Lag + 2 < IdxMod
    BY <1>0, <2>1 DEF LagBound
  <2>3. Lag' = Lag + 2
    BY <1>0, <2>1, <2>2, LagSteps DEF Lag
  <2> QED BY <2>1, <2>2, <2>3 DEF LagBound
<1>8. CASE DeviceExecutes
  <2>1. UNCHANGED <<stage, availIdx, drawn>> /\ seen' = Plus(seen, 1) /\ Lag # 0
    BY <1>8 DEF DeviceExecutes, Execute, AtWork, rings, picture
  <2>2. Lag' = Lag - 1
    BY <1>0, <2>1, LagSteps DEF Lag
  <2> QED BY <1>0, <2>1, <2>2 DEF LagBound
<1>9. CASE DeviceBreaks \/ DeviceRests \/ UNCHANGED vars
  <2>1. UNCHANGED <<stage, availIdx, seen, drawn>>
    BY <1>9 DEF DeviceBreaks, DeviceRests, vars, rings, device, picture
  <2>2. Lag' = Lag
    BY <2>1 DEF Lag
  <2> QED BY <2>1, <2>2 DEF LagBound
<1> QED
  BY <1>1, <1>2, <1>3, <1>4, <1>5, <1>6, <1>7, <1>8, <1>9 DEF Next, Driver, Device

\* Without a hypothesis about the device: for a number of frames whose commands
\* the index can count, the last frame reaches the screen, however the device
\* and the driver take turns.
THEOREM GpuFewFrames ==
    ASSUME 2 * MaxFrames < IdxMod
    PROVE  Spec => []LastFrameShown
<1>1. Init => GpuInv /\ ListSound /\ RestOK /\ LagBound
  <2>1. Init => LagBound
    BY DEF Init, LagBound
  <2> QED BY <2>1, InitGpuInv, InitList, InitRest
<1>2. GpuInv /\ ListSound /\ RestOK /\ LagBound /\ [Next]_vars
         => GpuInv' /\ ListSound' /\ RestOK' /\ LagBound'
  BY NextGpuInv, NextList, NextRest, NextLagBound
<1>3. RestOK /\ LagBound /\ GpuInv => NoTurnBehind
  <2> SUFFICES ASSUME RestOK, LagBound, GpuInv, stage = "publish" PROVE Lag + 2 < IdxMod
    BY DEF NoTurnBehind
  <2>1. availIdx \in Counter /\ seen \in Counter
    BY DEF GpuInv, RingsOK
  <2>2. Lag \in Counter
    BY <2>1, LagSteps DEF Lag
  <2> QED BY <2>2, BoundsAssumption, IdxAssumption DEF RestOK, LagBound, Counter
<1>4. Spec => []NoTurnBehind
  BY <1>1, <1>2, <1>3, PTL DEF Spec
<1> QED
  BY <1>4, GpuLastFrame, PTL
=============================================================================
