--------------------------- MODULE ExecutorProofs ---------------------------
(***************************************************************************)
(* Theorems about MictExecutor, for any set of streams and tasks, any ring *)
(* size, any ready-queue capacity and any number of interrupts.            *)
(***************************************************************************)
EXTENDS MictExecutor, SequenceTheorems, TLAPS

-----------------------------------------------------------------------------
(* The ready queue.                                                        *)

\* push().expect(): unless it panics the id is queued, and nobody's id is lost.
LEMMA PushFacts ==
    ASSUME ready \in Seq(Tasks), panicked \in BOOLEAN,
           NEW t \in Tasks, PushOrPanic(t)
    PROVE  /\ ready' \in Seq(Tasks)
           /\ panicked' \in BOOLEAN
           /\ ~panicked' => Queued(t)'
           /\ \A s : Queued(s) => Queued(s)'
<1>1. CASE Len(ready) >= QueueCap /\ panicked' = TRUE /\ UNCHANGED ready
  BY <1>1 DEF Queued
<1>2. CASE /\ Len(ready) < QueueCap
           /\ ready' = Append(ready, t)
           /\ UNCHANGED panicked
  <2>1. ready' \in Seq(Tasks) /\ Len(ready') = Len(ready) + 1
    BY <1>2
  <2>2. ready'[Len(ready')] = t /\ \A i \in 1 .. Len(ready) : ready'[i] = ready[i]
    BY <1>2
  <2>3. Len(ready) \in Nat
    OBVIOUS
  <2> QED BY <1>2, <2>1, <2>2, <2>3 DEF Queued
<1> QED BY <1>1, <1>2 DEF PushOrPanic

\* ready_queue.pop(): every other id stays queued.
LEMMA PopFacts ==
    ASSUME ready \in Seq(Tasks), ready # <<>>, ready' = Tail(ready)
    PROVE  /\ Head(ready) \in Tasks
           /\ ready' \in Seq(Tasks)
           /\ \A s : Queued(s) /\ s # Head(ready) => Queued(s)'
<1>1. Head(ready) \in Tasks /\ ready' \in Seq(Tasks)
  BY HeadTailProperties
<1>2. /\ Len(ready') = Len(ready) - 1
      /\ \A i \in 1 .. Len(ready') : ready'[i] = ready[i + 1]
      /\ Len(ready) \in Nat /\ Len(ready) > 0
      /\ Head(ready) = ready[1]
  BY HeadTailProperties, EmptySeq
<1>3. ASSUME NEW s, Queued(s), s # Head(ready)
      PROVE  Queued(s)'
  <2>1. PICK i \in 1 .. Len(ready) : ready[i] = s
    BY <1>3 DEF Queued
  <2>2. i # 1
    BY <2>1, <1>2, <1>3
  <2>3. i - 1 \in 1 .. Len(ready') /\ ready'[i - 1] = s
    BY <2>1, <2>2, <1>2
  <2> QED BY <2>3 DEF Queued
<1> QED BY <1>1, <1>3

-----------------------------------------------------------------------------
(* Ring arithmetic.                                                        *)

\* Reducing a sum of two indices modulo BUF_SIZE is at most one subtraction.
LEMMA WrapOnce ==
    \A x \in Int :
        /\ 0 <= x /\ x < BufSize => x % BufSize = x
        /\ BufSize <= x /\ x < 2 * BufSize => x % BufSize = x - BufSize
BY RingAssumption, Z3

LEMMA NextIdxFacts ==
    ASSUME NEW i \in Slots
    PROVE  /\ NextIdx(i) \in Slots
           /\ NextIdx(i) # i
           /\ NextIdx(i) = IF i = BufSize - 1 THEN 0 ELSE i + 1
<1>1. i + 1 \in Int /\ 0 <= i + 1 /\ i + 1 <= BufSize /\ BufSize < 2 * BufSize
  BY RingAssumption DEF Slots
<1>2. /\ i + 1 < BufSize => (i + 1) % BufSize = i + 1
      /\ i + 1 = BufSize => (i + 1) % BufSize = 0
  BY <1>1, WrapOnce, RingAssumption
<1> QED BY <1>1, <1>2, RingAssumption DEF Slots, NextIdx

-----------------------------------------------------------------------------
(* ExecInv is inductive: one lemma for each group of actions.              *)

LEMMA NoPushFacts ==
    ASSUME NoPush
    PROVE  /\ ready' = ready /\ panicked' = panicked
           /\ \A s : Queued(s)' <=> Queued(s)
BY DEF NoPush, Queued

LEMMA InitInv == Init => ExecInv
<1> SUFFICES ASSUME Init PROVE ExecInv
  OBVIOUS
<1>1. ready \in Seq(Tasks)
  BY DEF Init
<1>2. 0 \in Slots
  BY RingAssumption DEF Slots
<1>3. Types
  BY <1>1, <1>2 DEF Init, Types, Locations
<1>4. ControlInv /\ WakeInv /\ SleepInv /\ ReadInv
  BY TaskAssumption DEF Init, ControlInv, WakeInv, SleepInv, ReadInv, StreamPolling
<1> QED BY <1>3, <1>4 DEF ExecInv

LEMMA SpawnInv ==
    ASSUME ExecInv, NEW t \in Tasks, Spawn(t)
    PROVE  ExecInv'
<1> USE DEF ExecInv, Spawn, ringVars, wakerVars, historyVars
<1>1. /\ ready' \in Seq(Tasks) /\ panicked' \in BOOLEAN
      /\ ~panicked' => Queued(t)'
      /\ \A s : Queued(s) => Queued(s)'
  BY PushFacts DEF Types
<1>2. Types'
  BY <1>1 DEF Types
<1>3. ControlInv'
  BY DEF ControlInv, StreamPolling
<1>4. WakeInv'
  BY <1>1 DEF WakeInv, HasData, ControlInv, StreamPolling
<1>5. SleepInv' /\ ReadInv'
  BY DEF SleepInv, ReadInv, HasData
<1> QED BY <1>2, <1>3, <1>4, <1>5

LEMMA LoopInv ==
    ASSUME ExecInv, EnterRun \/ PopEmpty \/ DisableInterrupts \/ IdleCheck \/ SleepOrEnable
    PROVE  ExecInv'
<1> USE DEF ExecInv, cpuVars, ringVars, wakerVars, historyVars
<1>1. NoPush
  BY DEF EnterRun, PopEmpty, DisableInterrupts, IdleCheck, SleepOrEnable
<1>2. ready' = ready /\ panicked' = panicked /\ \A s : Queued(s)' <=> Queued(s)
  BY <1>1, NoPushFacts
<1>3. Types'
  BY <1>2 DEF Types, Locations, EnterRun, PopEmpty, DisableInterrupts, IdleCheck,
              SleepOrEnable
<1>4. ControlInv'
  BY DEF ControlInv, StreamPolling, EnterRun, PopEmpty, DisableInterrupts, IdleCheck,
         SleepOrEnable, Tasks
<1>5. WakeInv'
  BY <1>2 DEF WakeInv, HasData, EnterRun, PopEmpty, DisableInterrupts, IdleCheck,
              SleepOrEnable
<1>6. SleepInv' /\ ReadInv'
  BY <1>2 DEF SleepInv, ReadInv, EnterRun, PopEmpty, DisableInterrupts, IdleCheck,
              SleepOrEnable
<1> QED BY <1>3, <1>4, <1>5, <1>6

LEMMA PopInv ==
    ASSUME ExecInv, Pop
    PROVE  ExecInv'
<1> USE DEF ExecInv, Pop, ringVars, wakerVars, historyVars
<1>1. /\ Head(ready) \in Tasks
      /\ ready' \in Seq(Tasks)
      /\ \A s : Queued(s) /\ s # Head(ready) => Queued(s)'
  BY PopFacts DEF Types
<1>2. Types'
  BY <1>1 DEF Types, Locations
<1>3. ControlInv'
  BY <1>1, TaskAssumption DEF ControlInv, StreamPolling, Tasks
<1>4. cur \notin Streams
  BY TaskAssumption DEF ControlInv, StreamPolling
<1>5. WakeInv'
  BY <1>1, <1>4 DEF WakeInv, HasData
<1>6. SleepInv' /\ ReadInv'
  BY DEF SleepInv, ReadInv
<1> QED BY <1>2, <1>3, <1>5, <1>6

LEMMA TickInv ==
    ASSUME ExecInv, TickYield \/ TickFinish \/ TickWakeAndFinish
    PROVE  ExecInv'
<1> USE DEF ExecInv, ringVars, wakerVars, historyVars
<1>1. cur \in Tickers /\ cur \in Tasks /\ cur \notin Streams
  BY TaskAssumption DEF ControlInv, Tasks, TickYield, TickFinish, TickWakeAndFinish
<1>2. /\ ready' \in Seq(Tasks) /\ panicked' \in BOOLEAN
      /\ \A s : Queued(s) => Queued(s)'
      /\ ~panicked
  BY <1>1, PushFacts, NoPushFacts DEF Types, TickYield, TickFinish, TickWakeAndFinish
<1>3. Types'
  BY <1>2 DEF Types, Locations, TickYield, TickFinish, TickWakeAndFinish, Finish
<1>4. ControlInv'
  BY <1>1 DEF ControlInv, StreamPolling, TickYield, TickFinish, TickWakeAndFinish, Finish
<1>5. WakeInv'
  BY <1>1, <1>2 DEF WakeInv, HasData, TickYield, TickFinish, TickWakeAndFinish, Finish
<1>6. SleepInv' /\ ReadInv'
  BY DEF SleepInv, ReadInv, TickYield, TickFinish, TickWakeAndFinish, Finish
<1> QED BY <1>3, <1>4, <1>5, <1>6

LEMMA PollInv ==
    ASSUME ExecInv, Check \/ RegisterBegin \/ Recheck \/ Unregister \/ Take \/ Advance
    PROVE  ExecInv'
<1> USE DEF ExecInv, cpuVars, ringVars, wakerVars, historyVars
<1>1. NoPush /\ ~panicked
  BY DEF Check, RegisterBegin, Recheck, Unregister, Take, Advance
<1>2. ready' = ready /\ panicked' = panicked /\ \A s : Queued(s)' <=> Queued(s)
  BY <1>1, NoPushFacts
<1>3. cur \in Streams /\ cur # NoTask
  BY TaskAssumption DEF ControlInv, StreamPolling, Check, RegisterBegin, Recheck,
                        Unregister, Take, Advance
<1>4. Types'
  <2>1. CASE Check \/ RegisterBegin \/ Recheck \/ Unregister
    BY <1>2, <2>1 DEF Types, Locations, Check, RegisterBegin, Recheck, Unregister
  <2>2. CASE Take
    BY <1>2, <1>3, <2>2 DEF Types, Locations, Take
  <2>3. CASE Advance
    <3>1. NextIdx(tail[cur]) \in Slots
      BY <1>3, NextIdxFacts DEF Types
    <3> QED BY <1>2, <1>3, <2>3, <3>1 DEF Types, Locations, Advance
  <2> QED BY <2>1, <2>2, <2>3
<1>5. ControlInv'
  BY <1>3 DEF ControlInv, Types, StreamPolling, Check, RegisterBegin, Recheck,
              Unregister, Take, Advance
<1>6. WakeInv'
  <2>1. CASE Recheck
    BY <1>1, <1>2, <1>3, <2>1 DEF WakeInv, HasData, Recheck
  <2>2. CASE Check \/ RegisterBegin \/ Take
    BY <1>1, <1>2, <1>3, <2>2 DEF WakeInv, HasData, Check, RegisterBegin, Take
  <2>3. CASE Unregister \/ Advance
    BY <1>1, <1>2, <1>3, <2>3 DEF WakeInv, HasData, Types, Unregister, Advance
  <2> QED BY <2>1, <2>2, <2>3
<1>7. SleepInv'
  BY <1>2 DEF SleepInv, Check, RegisterBegin, Recheck, Unregister, Take, Advance
<1>8. ReadInv'
  BY DEF ReadInv, HasData, Check, RegisterBegin, Recheck, Unregister, Take, Advance
<1> QED BY <1>4, <1>5, <1>6, <1>7, <1>8

LEMMA RegisterEndInv ==
    ASSUME ExecInv, RegisterEnd
    PROVE  ExecInv'
<1> USE DEF ExecInv, RegisterEnd, cpuVars, ringVars, historyVars
<1>1. cur \in Streams /\ cur \in Tasks /\ cur # NoTask
  BY TaskAssumption DEF ControlInv, StreamPolling, Tasks
<1>2. /\ ready' \in Seq(Tasks) /\ panicked' \in BOOLEAN
      /\ \A s : Queued(s) => Queued(s)'
      /\ ~panicked' => Queued(cur)' \/ slot'[cur]
  BY <1>1, PushFacts, NoPushFacts DEF Types
<1>3. \A s \in Streams : s # cur => slot'[s] = slot[s]
  BY <1>1 DEF Types
<1>4. Types'
  BY <1>1, <1>2 DEF Types, Locations
<1>5. ControlInv'
  BY <1>1 DEF ControlInv, Types, StreamPolling
<1>6. WakeInv'
  BY <1>1, <1>2, <1>3 DEF WakeInv, HasData
<1>7. SleepInv' /\ ReadInv'
  BY DEF SleepInv, ReadInv
<1> QED BY <1>4, <1>5, <1>6, <1>7

\* AtomicWaker::wake: a published waker is consumed and its task queued; a
\* registration under way is told; no other stream is touched.
LEMMA WakeFacts ==
    ASSUME Types, NEW s \in Streams, Wake(s)
    PROVE  /\ ready' \in Seq(Tasks) /\ panicked' \in BOOLEAN
           /\ \A t : Queued(t) => Queued(t)'
           /\ slot' \in [Streams -> BOOLEAN]
           /\ wstate' \in [Streams -> {"waiting", "registering", "waking"}]
           /\ \A r \in Streams : r # s => slot'[r] = slot[r]
           /\ \A r \in Streams : wstate'[r] = "waiting" <=> wstate[r] = "waiting"
           /\ (wstate[s] = "waiting" /\ slot[s] /\ ~panicked') => Queued(s)'
<1>1. s \in Tasks
  BY DEF Tasks
<1>2. CASE wstate[s] = "waiting" /\ slot[s]
  <2>1. slot' = [slot EXCEPT ![s] = FALSE] /\ PushOrPanic(s) /\ wstate' = wstate
    BY <1>2 DEF Wake
  <2> QED BY <1>1, <2>1, PushFacts DEF Types
<1>3. CASE wstate[s] = "waiting" /\ ~slot[s]
  <2>1. NoPush /\ slot' = slot /\ wstate' = wstate
    BY <1>3 DEF Wake, wakerVars
  <2> QED BY <1>3, <2>1, NoPushFacts DEF Types
<1>4. CASE wstate[s] # "waiting"
  <2>1. NoPush /\ slot' = slot /\ wstate' = [wstate EXCEPT ![s] = "waking"]
    BY <1>4 DEF Wake
  <2> QED BY <1>4, <2>1, NoPushFacts DEF Types
<1> QED BY <1>2, <1>3, <1>4 DEF Types

LEMMA InputInterruptInv ==
    ASSUME ExecInv, NEW s \in Streams, InputInterrupt(s)
    PROVE  ExecInv'
<1> USE DEF ExecInv, InputInterrupt, cpuVars
<1>0. /\ head[s] \in Slots /\ tail[s] \in Slots
      /\ NextIdx(head[s]) \in Slots
      /\ arrived' \in [Streams -> Nat]
      /\ pc' \in Locations /\ intf /\ ~panicked
      /\ pc \notin {"idle", "sleep", "enable"}
      /\ pc' # "halted" /\ pc' # "sleep"
      /\ pc' \in StreamPolling <=> pc \in StreamPolling
      /\ pc # "halted" => pc' = pc
      /\ pc = "halted" => pc' = "pop" /\ cur = NoTask
  BY NextIdxFacts DEF Types, Resume, Locations, StreamPolling, ControlInv
<1>1. CASE NextIdx(head[s]) = tail[s]
  <2>1. /\ ready' = ready /\ panicked' = panicked /\ \A r : Queued(r)' <=> Queued(r)
        /\ UNCHANGED <<buffer, head, slot, wstate>>
    BY <1>1, NoPushFacts DEF AddByte, wakerVars
  <2>2. Types'
    BY <1>0, <2>1 DEF Types
  <2>3. ControlInv'
    BY <1>0, <2>1 DEF ControlInv, StreamPolling
  <2>4. WakeInv'
    BY <1>0, <2>1 DEF WakeInv, HasData
  <2>5. SleepInv' /\ ReadInv'
    BY <1>0, <2>1 DEF SleepInv, ReadInv, HasData
  <2> QED BY <2>2, <2>3, <2>4, <2>5
<1>2. CASE NextIdx(head[s]) # tail[s]
  <2>1. /\ buffer' = [buffer EXCEPT ![s][head[s]] = arrived[s] + 1]
        /\ head' = [head EXCEPT ![s] = NextIdx(@)]
        /\ tail' = tail
        /\ Wake(s)
    BY <1>2 DEF AddByte
  <2>2. /\ ready' \in Seq(Tasks) /\ panicked' \in BOOLEAN
        /\ \A t : Queued(t) => Queued(t)'
        /\ slot' \in [Streams -> BOOLEAN]
        /\ wstate' \in [Streams -> {"waiting", "registering", "waking"}]
        /\ \A r \in Streams : r # s => slot'[r] = slot[r]
        /\ \A r \in Streams : wstate'[r] = "waiting" <=> wstate[r] = "waiting"
        /\ (wstate[s] = "waiting" /\ slot[s] /\ ~panicked') => Queued(s)'
    BY <2>1, WakeFacts
  <2>3. Types'
    BY <1>0, <2>1, <2>2 DEF Types
  <2>4. ControlInv'
    BY <1>0, <2>2 DEF ControlInv, StreamPolling
  <2>5. WakeInv'
    <3>1. SUFFICES ASSUME ~panicked', NEW r \in Streams \cap registry
                   PROVE  /\ cur # r => Queued(r)' \/ (slot'[r] /\ ~HasData(r)')
                          /\ (cur = r /\ pc' = "recheck") => Queued(r)' \/ slot'[r]
      BY DEF WakeInv
    <3>2. CASE r = s
      BY <1>0, <2>2, <3>1, <3>2 DEF WakeInv, ControlInv
    <3>3. CASE r # s
      BY <1>0, <2>1, <2>2, <3>1, <3>3 DEF WakeInv, HasData, Types
    <3> QED BY <3>2, <3>3
  <2>6. SleepInv'
    BY <1>0 DEF SleepInv
  <2>7. ReadInv'
    <3>1. SUFFICES ASSUME pc \in {"unregister", "take", "advance"}
                   PROVE  /\ HasData(cur)'
                          /\ pc = "advance" => byte' = buffer'[cur][tail[cur]]
      BY <1>0, <2>1 DEF ReadInv
    <3>2. cur \in Streams /\ HasData(cur) /\ cur' = cur
      BY <3>1 DEF ReadInv, ControlInv, StreamPolling
    <3>3. CASE cur = s
      BY <1>0, <1>2, <2>1, <3>1, <3>2, <3>3 DEF HasData, ReadInv, Types
    <3>4. CASE cur # s
      BY <2>1, <3>1, <3>2, <3>4 DEF HasData, ReadInv, Types
    <3> QED BY <3>3, <3>4
  <2> QED BY <2>3, <2>4, <2>5, <2>6, <2>7
<1> QED BY <1>1, <1>2

LEMMA TimerInv ==
    ASSUME ExecInv, TimerInterrupt
    PROVE  ExecInv'
<1> USE DEF ExecInv, TimerInterrupt, Resume, cpuVars, ringVars, wakerVars, historyVars
<1>1. ready' = ready /\ panicked' = panicked /\ \A s : Queued(s)' <=> Queued(s)
  BY NoPushFacts
<1>2. Types'
  BY <1>1 DEF Types, Locations
<1>3. ControlInv' /\ SleepInv' /\ ReadInv'
  BY <1>1 DEF ControlInv, SleepInv, ReadInv, StreamPolling
<1>4. WakeInv'
  BY <1>1 DEF WakeInv, HasData
<1> QED BY <1>2, <1>3, <1>4

LEMMA StutterInv ==
    ASSUME ExecInv, UNCHANGED vars
    PROVE  ExecInv'
BY DEF ExecInv, vars, Types, ControlInv, WakeInv, SleepInv, ReadInv, Queued, HasData

\* The inductive invariant holds in every reachable state.
THEOREM ExecInvariant == Spec => []ExecInv
<1>1. Init => ExecInv
  BY InitInv
<1>2. ExecInv /\ [Next]_vars => ExecInv'
  <2> SUFFICES ASSUME ExecInv, [Next]_vars PROVE ExecInv'
    OBVIOUS
  <2>1. CASE \E t \in Tasks : Spawn(t)
    BY <2>1, SpawnInv
  <2>2. CASE EnterRun \/ PopEmpty \/ DisableInterrupts \/ IdleCheck \/ SleepOrEnable
    BY <2>2, LoopInv
  <2>3. CASE Pop
    BY <2>3, PopInv
  <2>4. CASE TickYield \/ TickFinish \/ TickWakeAndFinish
    BY <2>4, TickInv
  <2>5. CASE Check \/ RegisterBegin \/ Recheck \/ Unregister \/ Take \/ Advance
    BY <2>5, PollInv
  <2>6. CASE RegisterEnd
    BY <2>6, RegisterEndInv
  <2>7. CASE \E s \in Streams : InputInterrupt(s)
    BY <2>7, InputInterruptInv
  <2>8. CASE TimerInterrupt
    BY <2>8, TimerInv
  <2>9. CASE UNCHANGED vars
    BY <2>9, StutterInv
  <2> QED BY <2>1, <2>2, <2>3, <2>4, <2>5, <2>6, <2>7, <2>8, <2>9 DEF Next, Cpu
<1> QED BY <1>1, <1>2, PTL DEF Spec

\* No byte waits in a ring while its task is neither running nor queued
\* (poll_next's double check and the wake-up of add_scancode / add_byte).
THEOREM NoWakeupIsLost == Spec => []NoLostWakeup
<1>1. ExecInv => NoLostWakeup
  BY DEF ExecInv, WakeInv, NoLostWakeup
<1> QED BY <1>1, ExecInvariant, PTL

\* The CPU executes hlt only with an empty ready queue and empty rings
\* (sleep_if_idle).
THEOREM SleepIsSafe == Spec => []NeverSleepsOnWork
<1>1. ExecInv => NeverSleepsOnWork
  <2> SUFFICES ASSUME ExecInv, pc = "halted"
               PROVE  ready = <<>> /\ \A s \in Streams : ~HasData(s)
    BY DEF NeverSleepsOnWork
  <2>1. ready = <<>> /\ ~panicked
    BY DEF ExecInv, SleepInv
  <2>2. ASSUME NEW s \in Streams PROVE ~HasData(s)
    <3>1. s \in registry /\ cur # s
      BY TaskAssumption DEF ExecInv, ControlInv, StreamPolling
    <3>2. ~Queued(s)
      BY <2>1 DEF Queued
    <3> QED BY <2>1, <3>1, <3>2 DEF ExecInv, WakeInv
  <2> QED BY <2>1, <2>2
<1> QED BY <1>1, ExecInvariant, PTL

-----------------------------------------------------------------------------
(* Refinement: the executor implements InputChannel.                       *)

\* How many bytes a ring holds, without a modulus.
LEMMA UsedFacts ==
    ASSUME NEW h \in Slots, NEW t \in Slots
    PROVE  /\ h >= t => Used(h, t) = h - t
           /\ h < t => Used(h, t) = h - t + BufSize
           /\ Used(h, t) \in 0 .. BufSize - 1
<1>1. h \in 0 .. BufSize - 1 /\ t \in 0 .. BufSize - 1 /\ BufSize \in Nat
  BY RingAssumption DEF Slots
<1> DEFINE x == h - t + BufSize
<1>2. x \in Int /\ 0 <= x /\ x < 2 * BufSize
  BY <1>1
<1>3. (h >= t <=> BufSize <= x) /\ (h < t <=> x < BufSize)
  BY <1>1
<1>4. Used(h, t) = x % BufSize
  BY DEF Used
<1>5. x - BufSize = h - t
  BY <1>1
<1> HIDE DEF x
<1>6. /\ x < BufSize => x % BufSize = x
      /\ BufSize <= x => x % BufSize = x - BufSize
  BY <1>2, WrapOnce
<1>7. h >= t => Used(h, t) = h - t
  BY <1>3, <1>4, <1>5, <1>6
<1>8. h < t => Used(h, t) = h - t + BufSize
  BY <1>3, <1>4, <1>6 DEF x
<1> QED BY <1>1, <1>7, <1>8

\* Where they are: the i-th oldest byte, without a modulus.
LEMMA ContentsFacts ==
    ASSUME NEW b \in [Slots -> Nat], NEW h \in Slots, NEW t \in Slots
    PROVE  /\ Contents(b, h, t) \in Seq(Nat)
           /\ Len(Contents(b, h, t)) = Used(h, t)
           /\ \A i \in 1 .. Used(h, t) :
                /\ t + i - 1 < BufSize => Contents(b, h, t)[i] = b[t + i - 1]
                /\ t + i - 1 >= BufSize => Contents(b, h, t)[i] = b[t + i - 1 - BufSize]
<1>1. h \in 0 .. BufSize - 1 /\ t \in 0 .. BufSize - 1 /\ BufSize \in Nat
  BY RingAssumption DEF Slots
<1>2. Used(h, t) \in 0 .. BufSize - 1
  BY UsedFacts
<1>3. ASSUME NEW i \in 1 .. Used(h, t)
      PROVE  /\ t + i - 1 < BufSize => b[(t + i - 1) % BufSize] = b[t + i - 1]
             /\ t + i - 1 >= BufSize => b[(t + i - 1) % BufSize] = b[t + i - 1 - BufSize]
             /\ b[(t + i - 1) % BufSize] \in Nat
  <2> DEFINE x == t + i - 1
  <2>1. x \in Int /\ 0 <= x /\ x < 2 * BufSize
    BY <1>1, <1>2
  <2> HIDE DEF x
  <2>2. CASE x < BufSize
    <3>1. x % BufSize = x
      BY <2>1, <2>2, WrapOnce
    <3>2. x \in Slots
      BY <1>1, <2>1, <2>2 DEF Slots
    <3> QED BY <1>1, <2>1, <2>2, <3>1, <3>2 DEF x
  <2>3. CASE BufSize <= x
    <3>1. x % BufSize = x - BufSize
      BY <2>1, <2>3, WrapOnce
    <3>2. x - BufSize \in Slots
      BY <1>1, <2>1, <2>3 DEF Slots
    <3> QED BY <1>1, <2>1, <2>3, <3>1, <3>2 DEF x
  <2> QED BY <1>1, <2>1, <2>2, <2>3
<1>4. Contents(b, h, t) \in Seq(Nat) /\ Len(Contents(b, h, t)) = Used(h, t)
  BY <1>2, <1>3 DEF Contents
<1>5. \A i \in 1 .. Used(h, t) : Contents(b, h, t)[i] = b[(t + i - 1) % BufSize]
  BY DEF Contents
<1> QED BY <1>3, <1>4, <1>5

\* Moving TAIL removes exactly the oldest byte.
LEMMA ContentsRead ==
    ASSUME NEW b \in [Slots -> Nat], NEW h \in Slots, NEW t \in Slots, h # t
    PROVE  /\ Contents(b, h, t) # <<>>
           /\ Head(Contents(b, h, t)) = b[t]
           /\ Contents(b, h, NextIdx(t)) = Tail(Contents(b, h, t))
<1> DEFINE u == NextIdx(t)
           old == Contents(b, h, t)
           new == Contents(b, h, u)
<1>1. /\ h \in 0 .. BufSize - 1 /\ t \in 0 .. BufSize - 1 /\ BufSize \in Nat /\ BufSize > 1
      /\ u \in Slots /\ u \in 0 .. BufSize - 1
      /\ t = BufSize - 1 => u = 0
      /\ t # BufSize - 1 => u = t + 1
  BY RingAssumption, NextIdxFacts DEF Slots
<1>2. /\ h >= t => Used(h, t) = h - t
      /\ h < t => Used(h, t) = h - t + BufSize
      /\ h >= u => Used(h, u) = h - u
      /\ h < u => Used(h, u) = h - u + BufSize
      /\ Used(h, t) \in 0 .. BufSize - 1
  BY <1>1, UsedFacts
<1>3. /\ old \in Seq(Nat) /\ Len(old) = Used(h, t)
      /\ \A i \in 1 .. Used(h, t) :
           /\ t + i - 1 < BufSize => old[i] = b[t + i - 1]
           /\ t + i - 1 >= BufSize => old[i] = b[t + i - 1 - BufSize]
  BY ContentsFacts
<1>4. /\ new \in Seq(Nat) /\ Len(new) = Used(h, u)
      /\ \A i \in 1 .. Used(h, u) :
           /\ u + i - 1 < BufSize => new[i] = b[u + i - 1]
           /\ u + i - 1 >= BufSize => new[i] = b[u + i - 1 - BufSize]
  BY <1>1, ContentsFacts
<1> HIDE DEF u, old, new
<1>5. Used(h, t) > 0 /\ Used(h, u) = Used(h, t) - 1
  BY <1>1, <1>2
<1>6. old # <<>> /\ Head(old) = old[1] /\ old[1] = b[t]
  <2>1. old # <<>> /\ Head(old) = old[1]
    BY <1>2, <1>3, <1>5
  <2>2. 1 \in 1 .. Used(h, t) /\ t + 1 - 1 = t /\ t < BufSize
    BY <1>1, <1>2, <1>5
  <2> QED BY <1>3, <2>1, <2>2
<1>7. /\ Tail(old) \in Seq(Nat) /\ Len(Tail(old)) = Len(old) - 1
      /\ \A i \in 1 .. Len(Tail(old)) : Tail(old)[i] = old[i + 1]
  BY <1>3, <1>6, HeadTailProperties
<1>8. ASSUME NEW i \in 1 .. Len(new) PROVE new[i] = Tail(old)[i]
  <2>1. i \in Nat /\ i \in 1 .. Used(h, u) /\ i + 1 \in 1 .. Used(h, t) /\ i < BufSize
    BY <1>1, <1>2, <1>4, <1>5
  <2>2. Tail(old)[i] = old[i + 1]
    BY <1>3, <1>4, <1>5, <1>7
  <2>3. /\ t + i \in Int
        /\ t + (i + 1) - 1 = t + i
        /\ t + i < BufSize \/ t + i >= BufSize
        /\ t = BufSize - 1 => /\ u + i - 1 = i - 1 /\ i - 1 < BufSize
                              /\ t + i >= BufSize /\ t + i - BufSize = i - 1
        /\ t # BufSize - 1 => /\ u + i - 1 = t + i
                              /\ u + i - 1 - BufSize = t + i - BufSize
                              /\ t + i < BufSize => u + i - 1 < BufSize
                              /\ t + i >= BufSize => u + i - 1 >= BufSize
    BY <1>1, <2>1
  <2>4. /\ t + i < BufSize => old[i + 1] = b[t + i]
        /\ t + i >= BufSize => old[i + 1] = b[t + i - BufSize]
    BY <1>3, <2>1, <2>3
  <2>5. /\ u + i - 1 < BufSize => new[i] = b[u + i - 1]
        /\ u + i - 1 >= BufSize => new[i] = b[u + i - 1 - BufSize]
    BY <1>4, <2>1
  <2>6. CASE t = BufSize - 1
    BY <2>2, <2>3, <2>4, <2>5, <2>6
  <2>7. CASE t # BufSize - 1
    <3>1. CASE t + i < BufSize
      BY <2>2, <2>3, <2>4, <2>5, <2>7, <3>1
    <3>2. CASE t + i >= BufSize
      BY <2>2, <2>3, <2>4, <2>5, <2>7, <3>2
    <3> QED BY <2>3, <3>1, <3>2
  <2> QED BY <2>6, <2>7
<1>9. new = Tail(old)
  <2>1. Len(Tail(old)) = Len(new)
    BY <1>3, <1>4, <1>5, <1>7
  <2> QED BY <1>4, <1>7, <1>8, <2>1, SeqEqual
<1> QED BY <1>6, <1>9 DEF u, old, new

\* Writing at HEAD and moving HEAD appends exactly the new byte, if the ring
\* is not full; a full ring holds BufSize - 1 bytes.
LEMMA ContentsAdd ==
    ASSUME NEW b \in [Slots -> Nat], NEW h \in Slots, NEW t \in Slots, NEW x \in Nat
    PROVE  /\ NextIdx(h) = t => Len(Contents(b, h, t)) = BufSize - 1
           /\ NextIdx(h) # t =>
                /\ Len(Contents(b, h, t)) < BufSize - 1
                /\ Contents([b EXCEPT ![h] = x], NextIdx(h), t)
                     = Append(Contents(b, h, t), x)
<1> DEFINE k == NextIdx(h)
           c == [b EXCEPT ![h] = x]
           old == Contents(b, h, t)
           new == Contents(c, k, t)
<1>1. /\ h \in 0 .. BufSize - 1 /\ t \in 0 .. BufSize - 1 /\ BufSize \in Nat /\ BufSize > 1
      /\ k \in Slots /\ k \in 0 .. BufSize - 1
      /\ h = BufSize - 1 => k = 0
      /\ h # BufSize - 1 => k = h + 1
  BY RingAssumption, NextIdxFacts DEF Slots
<1>2. /\ c \in [Slots -> Nat] /\ c[h] = x
      /\ \A j \in Slots : j # h => c[j] = b[j]
  OBVIOUS
<1>3. /\ h >= t => Used(h, t) = h - t
      /\ h < t => Used(h, t) = h - t + BufSize
      /\ k >= t => Used(k, t) = k - t
      /\ k < t => Used(k, t) = k - t + BufSize
      /\ Used(h, t) \in 0 .. BufSize - 1
  BY <1>1, UsedFacts
<1>4. /\ old \in Seq(Nat) /\ Len(old) = Used(h, t)
      /\ \A i \in 1 .. Used(h, t) :
           /\ t + i - 1 < BufSize => old[i] = b[t + i - 1]
           /\ t + i - 1 >= BufSize => old[i] = b[t + i - 1 - BufSize]
  BY ContentsFacts
<1> HIDE DEF k, c
<1>5. /\ new \in Seq(Nat) /\ Len(new) = Used(k, t)
      /\ \A i \in 1 .. Used(k, t) :
           /\ t + i - 1 < BufSize => new[i] = c[t + i - 1]
           /\ t + i - 1 >= BufSize => new[i] = c[t + i - 1 - BufSize]
  BY <1>1, <1>2, ContentsFacts
<1> HIDE DEF old, new
<1>6. k = t => Used(h, t) = BufSize - 1
  <2>1. CASE h = BufSize - 1
    BY <1>1, <1>3, <2>1
  <2>2. CASE h # BufSize - 1
    BY <1>1, <1>3, <2>2
  <2> QED BY <2>1, <2>2
<1>7. ASSUME k # t
      PROVE  Used(h, t) < BufSize - 1 /\ new = Append(old, x)
  <2>1. Used(h, t) < BufSize - 1 /\ Used(k, t) = Used(h, t) + 1
    BY <1>1, <1>3, <1>7
  <2>2. /\ Append(old, x) \in Seq(Nat) /\ Len(Append(old, x)) = Len(old) + 1
        /\ Append(old, x)[Len(old) + 1] = x
        /\ \A i \in 1 .. Len(old) : Append(old, x)[i] = old[i]
    BY <1>4
  <2>3. ASSUME NEW i \in 1 .. Len(new) PROVE new[i] = Append(old, x)[i]
    <3>1. i \in 1 .. Used(k, t) /\ i \in Nat
      BY <1>3, <1>5, <2>1
    <3>2. /\ t + i - 1 < BufSize => new[i] = c[t + i - 1]
          /\ t + i - 1 >= BufSize => new[i] = c[t + i - 1 - BufSize]
      BY <1>5, <3>1
    <3>3. CASE i = Used(h, t) + 1
      <4>1. /\ t + i - 1 < BufSize => t + i - 1 = h
            /\ t + i - 1 >= BufSize => t + i - 1 - BufSize = h
            /\ t + i - 1 < BufSize \/ t + i - 1 >= BufSize
        <5>1. CASE h >= t
          BY <1>1, <1>3, <3>1, <3>3, <5>1
        <5>2. CASE h < t
          BY <1>1, <1>3, <3>1, <3>3, <5>2
        <5> QED BY <1>1, <5>1, <5>2
      <4>2. new[i] = x
        BY <1>2, <3>2, <4>1
      <4> QED BY <1>4, <2>2, <3>3, <4>2
    <3>4. CASE i # Used(h, t) + 1
      <4>1. i \in 1 .. Used(h, t)
        BY <1>3, <2>1, <3>1, <3>4
      <4>2. /\ t + i - 1 < BufSize => t + i - 1 \in Slots /\ t + i - 1 # h
            /\ t + i - 1 >= BufSize =>
                 t + i - 1 - BufSize \in Slots /\ t + i - 1 - BufSize # h
            /\ t + i - 1 < BufSize \/ t + i - 1 >= BufSize
        BY <1>1, <1>3, <3>1, <4>1 DEF Slots
      <4>3. /\ t + i - 1 < BufSize => old[i] = b[t + i - 1]
            /\ t + i - 1 >= BufSize => old[i] = b[t + i - 1 - BufSize]
        BY <1>4, <4>1
      <4>4. Append(old, x)[i] = old[i]
        BY <1>4, <2>2, <4>1
      <4>5. CASE t + i - 1 < BufSize
        BY <1>2, <3>2, <4>2, <4>3, <4>4, <4>5
      <4>6. CASE t + i - 1 >= BufSize
        BY <1>2, <3>2, <4>2, <4>3, <4>4, <4>6
      <4> QED BY <4>2, <4>5, <4>6
    <3> QED BY <3>3, <3>4
  <2>4. Len(new) = Len(Append(old, x))
    BY <1>4, <1>5, <2>1, <2>2
  <2> QED BY <1>5, <2>1, <2>2, <2>3, <2>4, SeqEqual
<1> QED BY <1>4, <1>6, <1>7 DEF k, c, old, new

\* A step that touches neither the rings nor the history is a stutter of the
\* channel.
LEMMA ChannelStutter ==
    ASSUME UNCHANGED <<buffer, head, tail, arrived, lastRead>>
    PROVE  UNCHANGED Channel!chanVars
BY DEF Channel!chanVars, Waiting

\* Moving TAIL is the channel's Read.
LEMMA ChannelRead ==
    ASSUME ExecInv, NEW s \in Streams, s = cur, Advance
    PROVE  Channel!Read(s)
<1>1. /\ head[s] # tail[s] /\ byte = buffer[s][tail[s]]
      /\ buffer[s] \in [Slots -> Nat] /\ head[s] \in Slots /\ tail[s] \in Slots
  BY DEF ExecInv, ControlInv, ReadInv, HasData, Types, Advance, StreamPolling
<1>2. /\ tail'[s] = NextIdx(tail[s]) /\ buffer' = buffer /\ head' = head
      /\ arrived' = arrived /\ lastRead' = [lastRead EXCEPT ![s] = byte]
      /\ \A r \in Streams : r # s => tail'[r] = tail[r]
  BY <1>1 DEF Advance, ExecInv, Types
<1>3. /\ Waiting(s) # <<>> /\ Head(Waiting(s)) = byte
      /\ Contents(buffer[s], head[s], NextIdx(tail[s])) = Tail(Waiting(s))
  BY <1>1, ContentsRead DEF Waiting
<1>4. Waiting(s)' = Tail(Waiting(s))
  BY <1>2, <1>3 DEF Waiting
<1>5. \A r \in Streams : r # s => Waiting(r)' = Waiting(r)
  BY <1>2 DEF Waiting
<1> QED BY <1>2, <1>3, <1>4, <1>5 DEF Channel!Read

\* An input interrupt is the channel's Arrive, stored or dropped.
LEMMA ChannelArrive ==
    ASSUME ExecInv, NEW s \in Streams, InputInterrupt(s)
    PROVE  Channel!Arrive(s)
<1>1. /\ buffer[s] \in [Slots -> Nat] /\ head[s] \in Slots /\ tail[s] \in Slots
      /\ arrived[s] + 1 \in Nat /\ BufSize - 1 \in Int
  BY RingAssumption DEF ExecInv, Types
<1>2. arrived' = [arrived EXCEPT ![s] = @ + 1] /\ lastRead' = lastRead /\ tail' = tail
  BY DEF InputInterrupt
<1>3. CASE NextIdx(head[s]) = tail[s]
  <2>1. buffer' = buffer /\ head' = head
    BY <1>3 DEF InputInterrupt, AddByte
  <2>2. \A r \in Streams : Waiting(r)' = Waiting(r)
    BY <1>2, <2>1 DEF Waiting
  <2>3. Len(Waiting(s)) = BufSize - 1
    BY <1>1, <1>3, ContentsAdd DEF Waiting
  <2>4. ~(Len(Waiting(s)) < BufSize - 1)
    BY <1>1, <2>3
  <2> QED BY <1>2, <2>2, <2>4 DEF Channel!Arrive
<1>4. CASE NextIdx(head[s]) # tail[s]
  <2>1. /\ buffer'[s] = [buffer[s] EXCEPT ![head[s]] = arrived[s] + 1]
        /\ head'[s] = NextIdx(head[s])
        /\ \A r \in Streams : r # s => buffer'[r] = buffer[r] /\ head'[r] = head[r]
    BY <1>4 DEF InputInterrupt, AddByte, ExecInv, Types
  <2>2. \A r \in Streams : r # s => Waiting(r)' = Waiting(r)
    BY <1>2, <2>1 DEF Waiting
  <2>3. /\ Len(Waiting(s)) < BufSize - 1
        /\ Waiting(s)' = Append(Waiting(s), arrived[s] + 1)
    <3>1. /\ Len(Contents(buffer[s], head[s], tail[s])) < BufSize - 1
          /\ Contents([buffer[s] EXCEPT ![head[s]] = arrived[s] + 1],
                      NextIdx(head[s]), tail[s])
               = Append(Contents(buffer[s], head[s], tail[s]), arrived[s] + 1)
      BY <1>1, <1>4, ContentsAdd
    <3> QED BY <1>2, <2>1, <3>1 DEF Waiting
  <2> QED BY <1>2, <2>2, <2>3 DEF Channel!Arrive
<1> QED BY <1>3, <1>4

\* Rings, handlers, wakers and executor implement one bounded FIFO channel per
\* device (keyboard.rs, mouse_stream.rs, serial_stream.rs).
THEOREM ChannelRefinement == Spec => ImplementsChannel
<1>1. Init => Channel!Init
  <2> SUFFICES ASSUME Init PROVE Channel!Init
    OBVIOUS
  <2>1. ASSUME NEW s \in Streams PROVE Waiting(s) = <<>>
    <3>1. buffer[s] \in [Slots -> Nat] /\ head[s] \in Slots /\ tail[s] \in Slots
          /\ head[s] = 0 /\ tail[s] = 0
      BY RingAssumption DEF Init, Slots
    <3>2. Used(head[s], tail[s]) = 0
      BY <3>1, UsedFacts
    <3>3. Waiting(s) \in Seq(Nat) /\ Len(Waiting(s)) = 0
      BY <3>1, <3>2, ContentsFacts DEF Waiting
    <3> QED BY <3>3, EmptySeq
  <2> QED BY <2>1 DEF Init, Channel!Init
<1>2. ExecInv /\ [Next]_vars => [Channel!Next]_(Channel!chanVars)
  <2> SUFFICES ASSUME ExecInv, [Next]_vars
               PROVE  Channel!Next \/ UNCHANGED Channel!chanVars
    OBVIOUS
  <2>1. CASE Advance
    <3>1. cur \in Streams
      BY <2>1 DEF ExecInv, ControlInv, Advance, StreamPolling
    <3> QED BY <2>1, <3>1, ChannelRead DEF Channel!Next
  <2>2. CASE \E s \in Streams : InputInterrupt(s)
    BY <2>2, ChannelArrive DEF Channel!Next
  <2>3. CASE \/ \E t \in Tasks : Spawn(t)
             \/ EnterRun \/ Pop \/ PopEmpty \/ TickYield \/ TickFinish \/ TickWakeAndFinish
             \/ Check \/ RegisterBegin \/ RegisterEnd \/ Recheck \/ Unregister \/ Take
             \/ DisableInterrupts \/ IdleCheck \/ SleepOrEnable
             \/ TimerInterrupt \/ UNCHANGED vars
    <3>1. UNCHANGED <<buffer, head, tail, arrived, lastRead>>
      BY <2>3 DEF Spawn, EnterRun, Pop, PopEmpty, TickYield, TickFinish,
                  TickWakeAndFinish, Finish, Check, RegisterBegin, RegisterEnd, Recheck,
                  Unregister, Take, DisableInterrupts, IdleCheck, SleepOrEnable,
                  TimerInterrupt, vars, ringVars, historyVars
    <3> QED BY <3>1, ChannelStutter
  <2> QED BY <2>1, <2>2, <2>3 DEF Next, Cpu
<1> QED BY <1>1, <1>2, ExecInvariant, PTL DEF Spec, ImplementsChannel, Channel!Spec

\* Every task, ring index, waker slot and program point keeps its type, however
\* interrupts and polls interleave, and a waker is between states only inside
\* its own task's registration.
THEOREM ExecTypes == Spec => []TypeOK
<1>1. ExecInv => TypeOK
  BY DEF ExecInv, TypeOK, ControlInv
<1> QED BY <1>1, ExecInvariant, PTL
=============================================================================
