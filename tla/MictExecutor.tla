---------------------------- MODULE MictExecutor ----------------------------
(***************************************************************************)
(* The cooperative scheduler of the kernel (task/executor.rs) together     *)
(* with everything that can wake a task: the interrupt handlers of         *)
(* interrupts.rs and the three input streams of task/keyboard.rs,          *)
(* task/mouse_stream.rs and task/serial_stream.rs, which have one shape: a *)
(* ring buffer, an AtomicWaker and the double check of poll_next.          *)
(*                                                                         *)
(* There is one CPU.  It runs boot, the executor loop and the polled       *)
(* futures as the sequence of steps named by pc; an interrupt may arrive   *)
(* between any two of them while the interrupt flag is set, and runs to    *)
(* its end before the CPU goes on (interrupt gates clear the flag).        *)
(*                                                                         *)
(* A byte is its arrival number.  What a task does with a byte, and what   *)
(* the physics task draws, is not modelled here.                           *)
(***************************************************************************)
EXTENDS Integers, Sequences

CONSTANTS
    Streams,    \* tasks that read an input device; also names the device
    Tickers,    \* tasks that wake themselves with yield_now on every poll
    Mortal,     \* tickers whose future may complete
    BufSize,    \* BUF_SIZE of the ring buffers (one slot always stays free)
    QueueCap,   \* capacity of ready_queue
    MaxBytes,   \* bound: bytes each device delivers in a behaviour
    NoTask      \* no task: the executor is not inside a poll

ASSUME RingAssumption == BufSize \in Nat /\ BufSize > 1
ASSUME QueueAssumption == QueueCap \in Nat
ASSUME BytesAssumption == MaxBytes \in Nat
ASSUME TaskAssumption ==
    /\ Streams \cap Tickers = {}
    /\ Mortal \subseteq Tickers
    /\ NoTask \notin Streams \cup Tickers

Tasks == Streams \cup Tickers
Slots == 0 .. BufSize - 1

VARIABLES
    registry,   \* process_registry: ids of the live tasks
    cached,     \* waker_cache: ids that have a cached waker
    ready,      \* ready_queue, oldest first; an id may be in it twice
    cur,        \* the task being polled, NoTask outside a poll
    pc,         \* where the CPU is
    intf,       \* the CPU's interrupt flag
    panicked,   \* the panic handler has taken over; nothing runs any more
    buffer, head, tail,   \* BUFFER, HEAD, TAIL of each stream
    slot,       \* slot[s]: the AtomicWaker of s holds the waker of task s
    wstate,     \* state word of the AtomicWaker of s
    byte,       \* the byte poll_next has read but not yet consumed
    arrived,    \* history: bytes delivered by each device
    lastRead    \* history: the byte each stream task was handed last

cpuVars == <<registry, cached, cur, intf>>
ringVars == <<buffer, head, tail>>
wakerVars == <<slot, wstate>>
historyVars == <<arrived, lastRead>>
vars == <<registry, cached, ready, cur, pc, intf, panicked, buffer, head, tail,
          slot, wstate, byte, arrived, lastRead>>

Locations == {"boot", "pop", "check", "register", "registering", "recheck",
              "unregister", "take", "advance", "tick", "disable", "idle",
              "sleep", "enable", "halted"}

\* Where the CPU is inside poll_next, before the future returns.
StreamPolling == {"check", "register", "registering", "recheck", "unregister",
                  "take", "advance"}

HasData(s) == head[s] # tail[s]
\* Mutation of NextIdx: the index does not wrap.
NextIdxUnwrapped(i) == i + 1
NextIdx(i) == (i + 1) % BufSize
Queued(t) == \E i \in 1 .. Len(ready) : ready[i] = t

Init ==
    /\ registry = {} /\ cached = {} /\ ready = <<>>
    /\ cur = NoTask /\ pc = "boot" /\ intf = TRUE /\ panicked = FALSE
    /\ buffer = [s \in Streams |-> [i \in Slots |-> 0]]
    /\ head = [s \in Streams |-> 0]
    /\ tail = [s \in Streams |-> 0]
    /\ slot = [s \in Streams |-> FALSE]
    /\ wstate = [s \in Streams |-> "waiting"]
    /\ byte = 0
    /\ arrived = [s \in Streams |-> 0]
    /\ lastRead = [s \in Streams |-> 0]

-----------------------------------------------------------------------------
(* The ready queue.                                                        *)

\* ready_queue.push(t).expect(..): a full queue is a panic.
PushOrPanic(t) ==
    \/ /\ Len(ready) < QueueCap
       /\ ready' = Append(ready, t)
       /\ UNCHANGED panicked
    \/ /\ Len(ready) >= QueueCap
       /\ panicked' = TRUE
       /\ UNCHANGED ready

NoPush == UNCHANGED <<ready, panicked>>

-----------------------------------------------------------------------------
(* Boot: kernel_main spawns its tasks and calls run().                     *)

\* spawn: a fresh id enters the registry and the ready queue.
Spawn(t) ==
    /\ pc = "boot" /\ ~panicked /\ t \notin registry
    /\ registry' = registry \cup {t}
    /\ PushOrPanic(t)
    /\ UNCHANGED <<cached, cur, pc, intf, byte, ringVars, wakerVars, historyVars>>

\* kernel_main ends in executor.run().
EnterRun ==
    /\ pc = "boot" /\ ~panicked /\ registry = Tasks
    /\ pc' = "pop"
    /\ UNCHANGED <<cpuVars, ringVars, wakerVars, byte, historyVars>> /\ NoPush

-----------------------------------------------------------------------------
(* run_ready_tasks.                                                        *)

\* Take the next id.  A task that is gone is skipped; otherwise its waker is
\* cached and its future polled.
Pop ==
    /\ pc = "pop" /\ ~panicked /\ ready # <<>>
    /\ ready' = Tail(ready)
    /\ LET t == Head(ready) IN
         \/ /\ t \notin registry
            /\ UNCHANGED <<cur, cached, pc>>
         \/ /\ t \in registry
            /\ cur' = t
            /\ cached' = cached \cup {t}
            /\ pc' = IF t \in Streams THEN "check" ELSE "tick"
    /\ UNCHANGED <<registry, intf, panicked, ringVars, wakerVars, byte, historyVars>>

\* The while loop ends; run() goes on to sleep_if_idle.
PopEmpty ==
    /\ pc = "pop" /\ ~panicked /\ ready = <<>>
    /\ pc' = "disable"
    /\ UNCHANGED <<cpuVars, ringVars, wakerVars, byte, historyVars>> /\ NoPush

\* A ticker's poll: it wakes itself through YieldNow and returns Pending.
TickYield ==
    /\ pc = "tick" /\ ~panicked
    /\ PushOrPanic(cur)
    /\ cur' = NoTask /\ pc' = "pop"
    /\ UNCHANGED <<registry, cached, intf, ringVars, wakerVars, byte, historyVars>>

\* A future completes: both maps forget the task.
Finish ==
    /\ registry' = registry \ {cur}
    /\ cached' = cached \ {cur}
    /\ cur' = NoTask /\ pc' = "pop"
    /\ UNCHANGED <<intf, ringVars, wakerVars, byte, historyVars>>

\* A ticker's poll returns Ready ...
TickFinish == pc = "tick" /\ ~panicked /\ cur \in Mortal /\ Finish /\ NoPush

\* ... possibly after it woke itself in the same poll, which leaves its id in
\* the queue when it is gone.
TickWakeAndFinish ==
    pc = "tick" /\ ~panicked /\ cur \in Mortal /\ Finish /\ PushOrPanic(cur)

-----------------------------------------------------------------------------
(* poll_next of a stream, called in a loop by `while let Some(b) = next()`.*)

Check ==
    /\ pc = "check" /\ ~panicked
    /\ pc' = IF HasData(cur) THEN "take" ELSE "register"
    /\ UNCHANGED <<cpuVars, ringVars, wakerVars, byte, historyVars>> /\ NoPush

\* AtomicWaker::register, first half: claim the slot (WAITING -> REGISTERING).
RegisterBegin ==
    /\ pc = "register" /\ ~panicked
    /\ wstate' = [wstate EXCEPT ![cur] = "registering"]
    /\ pc' = "registering"
    /\ UNCHANGED <<cpuVars, ringVars, slot, byte, historyVars>> /\ NoPush

\* Second half: publish the waker, or, if a wake() came in between, drop it
\* again and wake the task from here.
RegisterEnd ==
    /\ pc = "registering" /\ ~panicked
    /\ \/ /\ wstate[cur] = "registering"
          /\ slot' = [slot EXCEPT ![cur] = TRUE]
          /\ NoPush
       \/ /\ wstate[cur] = "waking"
          /\ slot' = [slot EXCEPT ![cur] = FALSE]
          /\ PushOrPanic(cur)
    /\ wstate' = [wstate EXCEPT ![cur] = "waiting"]
    /\ pc' = "recheck"
    /\ UNCHANGED <<cpuVars, ringVars, byte, historyVars>>

\* Mutation of Recheck: return Pending without looking at the ring again.
NoRecheck ==
    /\ pc = "recheck" /\ ~panicked
    /\ pc' = "pop" /\ cur' = NoTask
    /\ UNCHANGED <<registry, cached, intf, ringVars, wakerVars, byte, historyVars>>
    /\ NoPush

\* The second look at the ring; if it is still empty the poll is Pending.
Recheck ==
    /\ pc = "recheck" /\ ~panicked
    /\ \/ HasData(cur) /\ pc' = "unregister" /\ UNCHANGED cur
       \/ ~HasData(cur) /\ pc' = "pop" /\ cur' = NoTask
    /\ UNCHANGED <<registry, cached, intf, ringVars, wakerVars, byte, historyVars>>
    /\ NoPush

\* WAKER.take().
Unregister ==
    /\ pc = "unregister" /\ ~panicked
    /\ slot' = [slot EXCEPT ![cur] = FALSE]
    /\ pc' = "take"
    /\ UNCHANGED <<cpuVars, ringVars, wstate, byte, historyVars>> /\ NoPush

Take ==
    /\ pc = "take" /\ ~panicked
    /\ byte' = buffer[cur][tail[cur]]
    /\ pc' = "advance"
    /\ UNCHANGED <<cpuVars, ringVars, wakerVars, historyVars>> /\ NoPush

\* TAIL moves on, the task handles the byte and asks for the next one.
Advance ==
    /\ pc = "advance" /\ ~panicked
    /\ tail' = [tail EXCEPT ![cur] = NextIdx(@)]
    /\ lastRead' = [lastRead EXCEPT ![cur] = byte]
    /\ pc' = "check"
    /\ UNCHANGED <<cpuVars, buffer, head, wakerVars, byte, arrived>> /\ NoPush

-----------------------------------------------------------------------------
(* sleep_if_idle.                                                          *)

\* Mutation of DisableInterrupts: the queue is inspected with interrupts still enabled.
SkipDisable ==
    /\ pc = "disable" /\ ~panicked
    /\ pc' = "idle"
    /\ UNCHANGED <<cpuVars, ringVars, wakerVars, byte, historyVars>> /\ NoPush

DisableInterrupts ==
    /\ pc = "disable" /\ ~panicked
    /\ intf' = FALSE /\ pc' = "idle"
    /\ UNCHANGED <<registry, cached, cur, ringVars, wakerVars, byte, historyVars>>
    /\ NoPush

\* if self.ready_queue.is_empty()
IdleCheck ==
    /\ pc = "idle" /\ ~panicked
    /\ pc' = IF ready = <<>> THEN "sleep" ELSE "enable"
    /\ UNCHANGED <<cpuVars, ringVars, wakerVars, byte, historyVars>> /\ NoPush

\* enable_and_hlt: sti; hlt is one step, for sti takes effect only after the
\* instruction that follows it.  The other branch just sets the flag.
SleepOrEnable ==
    /\ pc \in {"sleep", "enable"} /\ ~panicked
    /\ intf' = TRUE
    /\ pc' = IF pc = "sleep" THEN "halted" ELSE "pop"
    /\ UNCHANGED <<registry, cached, cur, ringVars, wakerVars, byte, historyVars>>
    /\ NoPush

-----------------------------------------------------------------------------
(* Interrupts.                                                             *)

\* An interrupt ends the hlt; run() then starts its next round.
Resume == pc' = IF pc = "halted" THEN "pop" ELSE pc

\* AtomicWaker::wake on stream s, from the interrupt handler.
Wake(s) ==
    \/ /\ wstate[s] = "waiting" /\ slot[s]
       /\ slot' = [slot EXCEPT ![s] = FALSE]
       /\ PushOrPanic(s)
       /\ UNCHANGED wstate
    \/ /\ wstate[s] = "waiting" /\ ~slot[s]
       /\ UNCHANGED wakerVars /\ NoPush
    \/ /\ wstate[s] # "waiting"
       /\ wstate' = [wstate EXCEPT ![s] = "waking"]
       /\ UNCHANGED slot /\ NoPush

\* Mutation of AddByte: the full test is gone, the oldest bytes are overwritten.
OverwriteWhenFull(s) ==
    /\ buffer' = [buffer EXCEPT ![s][head[s]] = arrived[s] + 1]
    /\ head' = [head EXCEPT ![s] = NextIdx(@)]
    /\ Wake(s)

\* Mutation of AddByte: the byte is stored but nobody is woken.
AddWithoutWake(s) ==
    \/ /\ NextIdx(head[s]) # tail[s]
       /\ buffer' = [buffer EXCEPT ![s][head[s]] = arrived[s] + 1]
       /\ head' = [head EXCEPT ![s] = NextIdx(@)]
       /\ UNCHANGED wakerVars /\ NoPush
    \/ /\ NextIdx(head[s]) = tail[s]
       /\ UNCHANGED <<buffer, head, wakerVars>> /\ NoPush

\* add_scancode / add_byte: store and wake, or drop when the ring is full.
AddByte(s) ==
    \/ /\ NextIdx(head[s]) # tail[s]
       /\ buffer' = [buffer EXCEPT ![s][head[s]] = arrived[s] + 1]
       /\ head' = [head EXCEPT ![s] = NextIdx(@)]
       /\ Wake(s)
    \/ /\ NextIdx(head[s]) = tail[s]
       /\ UNCHANGED <<buffer, head, wakerVars>> /\ NoPush

\* The keyboard, mouse and serial handlers.  The serial handler drains its
\* FIFO in one interrupt: nothing runs between its bytes, so that is a run of
\* consecutive InputInterrupt steps.
InputInterrupt(s) ==
    /\ intf /\ ~panicked /\ arrived[s] < MaxBytes
    /\ AddByte(s)
    /\ arrived' = [arrived EXCEPT ![s] = @ + 1]
    /\ Resume
    /\ UNCHANGED <<cpuVars, tail, byte, lastRead>>

\* The timer handler only acknowledges; what it changes is that hlt returns.
TimerInterrupt ==
    /\ intf /\ ~panicked /\ pc = "halted"
    /\ Resume
    /\ UNCHANGED <<cpuVars, ringVars, wakerVars, byte, historyVars>> /\ NoPush

-----------------------------------------------------------------------------
Cpu ==
    \/ \E t \in Tasks : Spawn(t)
    \/ EnterRun
    \/ Pop \/ PopEmpty
    \/ TickYield \/ TickFinish \/ TickWakeAndFinish
    \/ Check \/ RegisterBegin \/ RegisterEnd \/ Recheck \/ Unregister
    \/ Take \/ Advance
    \/ DisableInterrupts \/ IdleCheck \/ SleepOrEnable

Next ==
    \/ Cpu
    \/ \E s \in Streams : InputInterrupt(s)
    \/ TimerInterrupt

Spec == Init /\ [][Next]_vars

\* The CPU goes on executing instructions: interrupts are finitely many here
\* (MaxBytes), so they cannot keep it away from the code for ever.
FairSpec == Spec /\ WF_vars(Cpu)

-----------------------------------------------------------------------------
(* Properties.                                                             *)

\* What values the variables take.
Types ==
    /\ registry \subseteq Tasks /\ cached \subseteq registry
    /\ ready \in Seq(Tasks)
    /\ cur \in Tasks \cup {NoTask} /\ pc \in Locations
    /\ intf \in BOOLEAN /\ panicked \in BOOLEAN
    /\ buffer \in [Streams -> [Slots -> Nat]]
    /\ head \in [Streams -> Slots] /\ tail \in [Streams -> Slots]
    /\ slot \in [Streams -> BOOLEAN]
    /\ wstate \in [Streams -> {"waiting", "registering", "waking"}]
    /\ byte \in Nat
    /\ arrived \in [Streams -> Nat] /\ lastRead \in [Streams -> Nat]

\* Every variable has its type; the AtomicWaker is mid-registration only while
\* its own task is inside WAKER.register: no interrupt and no later poll finds a
\* registration left half done.
TypeOK ==
    /\ Types
    /\ \A s \in Streams : wstate[s] # "waiting" => cur = s /\ pc = "registering"

\* No lost wake-up: a stream task that is not being polled, whose ring holds a
\* byte, has its id in the ready queue.  poll_next registers its waker and
\* only then looks at the ring again; this is what that order is for.
NoLostWakeup ==
    \A s \in Streams :
        (~panicked /\ s \in registry /\ cur # s /\ HasData(s)) => Queued(s)

\* The CPU sleeps in hlt only when there is nothing to do: no task is ready
\* and no ring holds a byte (sleep_if_idle clears the interrupt flag for this).
NeverSleepsOnWork ==
    pc = "halted" => ready = <<>> /\ \A s \in Streams : ~HasData(s)

\* The bytes in a ring b with indices h (HEAD) and t (TAIL), oldest first.
Used(h, t) == (h - t + BufSize) % BufSize
Contents(b, h, t) == [i \in 1 .. Used(h, t) |-> b[(t + i - 1) % BufSize]]
Waiting(s) == Contents(buffer[s], head[s], tail[s])

Channel == INSTANCE InputChannel WITH
    Capacity <- BufSize - 1,
    queue <- [s \in Streams |-> Waiting(s)]

\* Rings, interrupts and tasks together implement one bounded FIFO channel per
\* device: a byte is dropped only when BufSize - 1 are waiting, and the others
\* are read once, in order.
ImplementsChannel == Channel!Spec

\* Every byte that got into a ring is eventually read by its task: the waker,
\* the queue and the executor loop between them leave no byte behind.
EveryByteRead ==
    \A s \in Streams : \A n \in 1 .. MaxBytes :
        (\E i \in 1 .. Len(Waiting(s)) : Waiting(s)[i] = n) ~> lastRead[s] = n

\* wake_task is safe inside an interrupt: no push into the ready queue panics.
WakeNeverPanics == ~panicked

\* Once the devices are quiet the kernel comes to rest in hlt.
QuietKernelHalts ==
    (\A s \in Streams : arrived[s] = MaxBytes) ~> pc = "halted"

-----------------------------------------------------------------------------
(* The inductive invariant behind NoLostWakeup, NeverSleepsOnWork and      *)
(* ImplementsChannel; ExecutorProofs shows that every step keeps it.       *)

\* Who is being polled follows from where the CPU is; interrupts are off in
\* sleep_if_idle; a registration is under way only inside WAKER.register.
ControlInv ==
    /\ pc \in StreamPolling => cur \in Streams
    /\ pc = "tick" => cur \in Tickers
    /\ pc \notin StreamPolling \cup {"tick"} => cur = NoTask
    /\ pc \in {"idle", "sleep", "enable"} => ~intf
    /\ pc # "boot" => Streams \subseteq registry
    /\ \A s \in Streams : wstate[s] = "waiting" <=> ~(cur = s /\ pc = "registering")

\* A stream task outside a poll is queued, or armed with an empty ring; at the
\* second look it is queued or armed whatever the ring holds.
WakeInv ==
    ~panicked =>
        \A s \in Streams \cap registry :
            /\ cur # s => Queued(s) \/ (slot[s] /\ ~HasData(s))
            /\ (cur = s /\ pc = "recheck") => Queued(s) \/ slot[s]

\* Going to sleep the queue is empty, and a panic ends the sleep.
SleepInv ==
    /\ pc \in {"sleep", "halted"} => ready = <<>>
    /\ pc = "halted" => ~panicked

\* poll_next takes a byte only from a ring that has one, and between reading
\* it and moving TAIL no interrupt overwrites it.
ReadInv ==
    /\ pc \in {"unregister", "take", "advance"} => HasData(cur)
    /\ pc = "advance" => byte = buffer[cur][tail[cur]]

ExecInv == Types /\ ControlInv /\ WakeInv /\ SleepInv /\ ReadInv
=============================================================================
