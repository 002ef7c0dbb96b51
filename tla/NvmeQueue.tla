----------------------------- MODULE NvmeQueue ------------------------------
(***************************************************************************)
(* The NVMe driver (nvme.rs) and the controller it talks to: bring-up, the *)
(* admin queue, the I/O queue pair with its wrap and phase tag, and the    *)
(* one DMA buffer that write_block and read_block share.                   *)
(*                                                                         *)
(* The driver is called under the NVME_DRIVE lock and spins for each       *)
(* completion, so one command is in flight.  It recognises the completion  *)
(* by the phase bit of the entry at its head alone, never by a command id. *)
(* The controller is hardware: it is modelled from what the driver relies  *)
(* on (doorbells, the phase it inverts at each wrap, DMA of one logical    *)
(* block), takes any time, and may answer any command with an error.       *)
(***************************************************************************)
EXTENDS Integers, Sequences

CONSTANTS
    AdminSize,  \* ADMIN_QUEUE_SIZE
    IoSize,     \* IO_QUEUE_SIZE
    Lbas,       \* logical blocks of the namespace, 0 among them
    Chunks,     \* contents of one sector-sized piece of a buffer
    Zero,       \* the piece write_bytes(.., 0, ..) leaves
    BufChunks,  \* pieces in IO_BUF (4096 bytes)
    LbaChunks   \* pieces in one logical block, what NLB = 0 transfers

ASSUME QueueAssumption ==
    /\ AdminSize \in Nat /\ AdminSize > 3
    /\ IoSize \in Nat /\ IoSize > 1
ASSUME DataAssumption ==
    /\ 0 \in Lbas /\ Zero \in Chunks
    /\ BufChunks \in Nat /\ LbaChunks \in 1..BufChunks

Queues == {"admin", "io"}
QSize(q) == IF q = "admin" THEN AdminSize ELSE IoSize
Buffers == [1..BufChunks -> Chunks]
Blocks == [1..LbaChunks -> Chunks]
NoBlock == <<>>

AdminCmds == <<"identify", "createCQ", "createSQ">>
Cmds == [op : {"none", "identify", "createCQ", "createSQ", "write", "read"},
         lba : Lbas]
Comps == [phase : {0, 1}, ok : BOOLEAN]
NoDone == [q |-> "none", ok |-> FALSE]

VARIABLES
    pc,         \* where the driver is
    booted,     \* admin commands completed during bring-up
    cur,        \* [q, op, lba] of the command the driver waits for
    tail,       \* admin_sq_tail, io_sq_tail
    head,       \* admin_cq_head, io_cq_head
    phase,      \* io_phase; the admin queue's is the constant 1
    sq, cq,     \* ADMIN_SQ, IO_SQ and ADMIN_CQ, IO_CQ: shared memory
    buf,        \* IO_BUF: shared memory
    reply,      \* what the last write_block or read_block returned
    enabled,    \* CC.EN
    ready,      \* CSTS.RDY
    sqBell,     \* submission doorbells
    cqBell,     \* completion doorbells
    made,       \* what the controller has: "admin", "cq" (QID 1), "io"
    dHead, dTail, dPhase,   \* the controller's own queue positions
    done,       \* a command executed but not yet posted as completed
    disk

bootVars == <<booted, enabled, ready>>
devVars == <<made, dHead, dTail, dPhase, done, disk>>
ringVars == <<tail, head, phase, sq, cq, sqBell, cqBell>>
vars == <<pc, cur, buf, reply, bootVars, ringVars, devVars>>

NoCmd == [op |-> "none", lba |-> 0]
NoReply == [ok |-> FALSE, data |-> NoBlock]

Init ==
    /\ pc = "disable" /\ booted = 0
    /\ cur = [q |-> "none", op |-> "none", lba |-> 0]
    /\ tail = [q \in Queues |-> 0] /\ head = [q \in Queues |-> 0]
    /\ phase = [q \in Queues |-> 1]
    /\ sq = [q \in Queues |-> [k \in 0..QSize(q) - 1 |-> NoCmd]]
    /\ cq = [q \in Queues |-> [k \in 0..QSize(q) - 1 |->
                                  [phase |-> 0, ok |-> TRUE]]]
    /\ buf = [k \in 1..BufChunks |-> Zero]
    /\ reply = NoReply
    /\ enabled \in BOOLEAN /\ ready = enabled  \* as the firmware left it
    /\ sqBell = [q \in Queues |-> 0] /\ cqBell = [q \in Queues |-> 0]
    /\ made = {} /\ dHead = [q \in Queues |-> 0]
    /\ dTail = [q \in Queues |-> 0] /\ dPhase = [q \in Queues |-> 1]
    /\ done = NoDone
    /\ disk \in [Lbas -> Blocks]
-----------------------------------------------------------------------------
(* Bring-up: disable, configure_and_enable, and the three admin commands.  *)

Disable ==
    /\ pc = "disable"
    /\ enabled' = FALSE /\ pc' = "offline"
    /\ UNCHANGED <<cur, buf, reply, booted, ready, ringVars, devVars>>

\* CSTS.RDY has dropped: program the admin queues and enable the controller.
ConfigureAndEnable ==
    /\ pc = "offline" /\ ~ready
    /\ enabled' = TRUE /\ pc' = "online"
    /\ UNCHANGED <<cur, buf, reply, booted, ready, ringVars, devVars>>

Online ==
    /\ pc = "online" /\ ready
    /\ pc' = "boot"
    /\ UNCHANGED <<cur, buf, reply, bootVars, ringVars, devVars>>

\* Mutation of AfterTail: the tail of the I/O queue never wraps.
AfterTailUnwrapped(q, t) == t + 1
\* The tail after a submission; the admin tail is never wrapped.
AfterTail(q, t) == IF q = "io" /\ t + 1 = IoSize THEN 0 ELSE t + 1

\* Write the entry at the tail, advance the tail, ring the doorbell, spin.
Submit(q, cmd) ==
    /\ sq' = [sq EXCEPT ![q][tail[q]] = cmd]
    /\ tail' = [tail EXCEPT ![q] = AfterTail(q, tail[q])]
    /\ sqBell' = [sqBell EXCEPT ![q] = AfterTail(q, tail[q])]
    /\ cur' = [q |-> q, op |-> cmd.op, lba |-> cmd.lba]
    /\ pc' = "wait"
    /\ UNCHANGED <<head, phase, cq, cqBell, devVars>>

\* submit_admin_cmd, called by identify_controller and setup_io_queues.
SubmitAdmin ==
    /\ pc = "boot"
    /\ Submit("admin", [op |-> AdminCmds[booted + 1], lba |-> 0])
    /\ UNCHANGED <<buf, reply, bootVars>>

\* The bytes of data, then zeros: what write_block makes of IO_BUF.
Padded(data) ==
    [k \in 1..BufChunks |-> IF k <= Len(data) THEN data[k] ELSE Zero]

\* write_block
WriteBlock(lba, data) ==
    /\ pc = "idle" /\ Len(data) <= BufChunks
    /\ buf' = Padded(data)
    /\ Submit("io", [op |-> "write", lba |-> lba])
    /\ UNCHANGED <<reply, bootVars>>

\* write_block of more than IO_BUF holds: Err(0xFFFF) before anything else.
WriteTooLong(data) ==
    /\ pc = "idle" /\ Len(data) > BufChunks
    /\ reply' = NoReply
    /\ UNCHANGED <<pc, cur, buf, bootVars, ringVars, devVars>>

\* read_block, as far as its wait.
ReadBlock(lba) ==
    /\ pc = "idle"
    /\ buf' = [k \in 1..BufChunks |-> Zero]
    /\ Submit("io", [op |-> "read", lba |-> lba])
    /\ UNCHANGED <<reply, bootVars>>
-----------------------------------------------------------------------------
(* The spin loop finds a completion.                                       *)

\* The entry at the head carries the expected phase.
Posted(q) == cq[q][head[q]].phase = phase[q]

AfterHead(q) == IF q = "io" /\ head[q] + 1 = IoSize THEN 0 ELSE head[q] + 1

\* Mutation of AfterPhase: the expected phase is not inverted at the wrap.
AfterPhaseKept(q) == phase[q]
\* io_phase after the head has advanced.
AfterPhase(q) ==
    IF q = "io" /\ head[q] + 1 = IoSize THEN 1 - phase[q] ELSE phase[q]

\* Mutation of Consume: the completion doorbell is not rung.
ConsumeSilently(q) ==
    /\ pc = "wait" /\ cur.q = q /\ Posted(q)
    /\ head' = [head EXCEPT ![q] = AfterHead(q)]
    /\ phase' = [phase EXCEPT ![q] = AfterPhase(q)]
    /\ UNCHANGED <<tail, sq, cq, sqBell, cqBell, devVars>>
\* Take the entry: advance the head, keep the phase in step, ring.
Consume(q) ==
    /\ pc = "wait" /\ cur.q = q /\ Posted(q)
    /\ head' = [head EXCEPT ![q] = AfterHead(q)]
    /\ phase' = [phase EXCEPT ![q] = AfterPhase(q)]
    /\ cqBell' = [cqBell EXCEPT ![q] = AfterHead(q)]
    /\ UNCHANGED <<tail, sq, cq, sqBell, devVars>>

\* Mutation of MustSucceed: setup_io_queues ignores the status.
IgnoreStatus(op) == FALSE
\* setup_io_queues expects its two commands to succeed; a failed identify is
\* only logged.
MustSucceed(op) == op # "identify"

\* submit_admin_cmd returns to the bring-up sequence.
FinishAdmin ==
    /\ Consume("admin")
    /\ IF ~cq["admin"][head["admin"]].ok /\ MustSucceed(cur.op)
       THEN pc' = "panic" /\ UNCHANGED booted
       ELSE /\ booted' = booted + 1
            /\ pc' = IF booted' = Len(AdminCmds) THEN "idle" ELSE "boot"
    /\ UNCHANGED <<cur, buf, reply, enabled, ready>>

\* Mutation of FinishIo: the status of the completion is not looked at.
FinishIoUnchecked ==
    /\ Consume("io")
    /\ pc' = "idle"
    /\ reply' = [ok |-> TRUE, data |-> IF cur.op = "read" THEN buf ELSE NoBlock]
    /\ UNCHANGED <<cur, buf, bootVars>>
\* submit_io_cmd returns; a successful read copies IO_BUF out.
FinishIo ==
    /\ Consume("io")
    /\ pc' = "idle"
    /\ reply' = [ok |-> cq["io"][head["io"]].ok,
                 data |-> IF cq["io"][head["io"]].ok /\ cur.op = "read"
                          THEN buf ELSE NoBlock]
    /\ UNCHANGED <<cur, buf, bootVars>>
-----------------------------------------------------------------------------
(* The controller.                                                         *)

\* It follows CC.EN and resets itself on the way down.
DevFollow ==
    /\ ready # enabled
    /\ ready' = enabled
    /\ made' = IF enabled THEN {"admin"} ELSE {}
    /\ dHead' = [q \in Queues |-> 0] /\ dTail' = [q \in Queues |-> 0]
    /\ dPhase' = [q \in Queues |-> 1] /\ done' = NoDone
    /\ UNCHANGED <<pc, cur, buf, reply, booted, enabled, ringVars, disk>>

\* Execute the next command between its head and the doorbell.  On an error
\* the data may or may not have been transferred.
DevExecute(q) ==
    LET cmd == sq[q][dHead[q]] IN
    /\ ready /\ q \in made /\ done = NoDone
    /\ dHead[q] # sqBell[q]
    /\ dHead' = [dHead EXCEPT ![q] = (@ + 1) % QSize(q)]
    /\ \E ok, moved \in BOOLEAN :
         /\ ok => moved
         /\ done' = [q |-> q,
                     ok |-> ok /\ (cmd.op = "createSQ" => "cq" \in made)]
         /\ made' = CASE ok /\ cmd.op = "createCQ" -> made \cup {"cq"}
                      [] ok /\ cmd.op = "createSQ" /\ "cq" \in made
                                                  -> made \cup {"io"}
                      [] OTHER                    -> made
         /\ disk' = IF moved /\ cmd.op = "write"
                    THEN [disk EXCEPT ![cmd.lba] = [k \in 1..LbaChunks |-> buf[k]]]
                    ELSE disk
         /\ buf' = IF moved /\ cmd.op = "read"
                   THEN [k \in 1..BufChunks |->
                           IF k <= LbaChunks THEN disk[cmd.lba][k] ELSE buf[k]]
                   ELSE buf
    /\ UNCHANGED <<pc, cur, reply, bootVars, ringVars, dTail, dPhase>>

\* Post its completion, unless that would fill the completion queue.
DevPost(q) ==
    LET next == (dTail[q] + 1) % QSize(q) IN
    /\ ready /\ done.q = q
    /\ next # cqBell[q]
    /\ cq' = [cq EXCEPT ![q][dTail[q]] = [phase |-> dPhase[q], ok |-> done.ok]]
    /\ dTail' = [dTail EXCEPT ![q] = next]
    /\ dPhase' = [dPhase EXCEPT ![q] = IF next = 0 THEN 1 - @ ELSE @]
    /\ done' = NoDone
    /\ UNCHANGED <<pc, cur, buf, reply, bootVars, tail, head, phase, sq,
                   sqBell, cqBell, made, dHead, disk>>
-----------------------------------------------------------------------------
\* Payloads write_block may be called with, one length too long among them.
Payloads == UNION {[1..n -> Chunks] : n \in 0..BufChunks + 1}

Driver ==
    \/ Disable \/ ConfigureAndEnable \/ Online
    \/ SubmitAdmin \/ FinishAdmin \/ FinishIo

Callers ==
    \/ \E lba \in Lbas, data \in Payloads : WriteBlock(lba, data)
    \/ \E data \in Payloads : WriteTooLong(data)
    \/ \E lba \in Lbas : ReadBlock(lba)

Device == DevFollow \/ \E q \in Queues : DevExecute(q) \/ DevPost(q)

Next == Driver \/ Callers \/ Device

Spec == Init /\ [][Next]_vars

\* The driver spins without giving the processor up, and the controller
\* answers every command in the end; nobody has to call the driver.
FairSpec == Spec /\ WF_vars(Driver) /\ WF_vars(Device)
-----------------------------------------------------------------------------
TypeOK ==
    /\ pc \in {"disable", "offline", "online", "boot", "idle", "wait", "panic"}
    /\ booted \in 0..3
    /\ cur \in [q : Queues \cup {"none"}, lba : Lbas,
                op : {"none", "identify", "createCQ", "createSQ", "write", "read"}]
    /\ \A f \in {tail, head, sqBell, cqBell, dHead, dTail} :
         /\ f \in [Queues -> Nat]
         /\ \A q \in Queues : f[q] < QSize(q)
    /\ DOMAIN sq = Queues /\ DOMAIN cq = Queues
    /\ \A q \in Queues : /\ sq[q] \in [0..QSize(q) - 1 -> Cmds]
                          /\ cq[q] \in [0..QSize(q) - 1 -> Comps]
    /\ phase \in [Queues -> {0, 1}] /\ dPhase \in [Queues -> {0, 1}]
    /\ buf \in Buffers
    /\ reply \in [ok : BOOLEAN, data : Buffers \cup {NoBlock}]
    /\ enabled \in BOOLEAN /\ ready \in BOOLEAN
    /\ made \subseteq {"admin", "cq", "io"}
    /\ done \in [q : Queues, ok : BOOLEAN] \cup {NoDone}
    /\ disk \in [Lbas -> Blocks]

\* The completion the spin loops of submit_admin_cmd and submit_io_cmd accept
\* is the one of the command just submitted: whenever the entry at the head
\* has the expected phase, the controller has executed everything up to the
\* doorbell and holds nothing back, so no entry of an earlier lap passes for a
\* new one.
OwnCompletion ==
    pc = "wait" /\ Posted(cur.q) =>
        dHead[cur.q] = sqBell[cur.q] /\ done = NoDone

\* Every command the driver waits for was rung on a queue the controller has:
\* setup_io_queues leaves no way to the I/O path when a queue was refused.
DoorbellHeard == pc = "wait" => cur.q \in made

\* The spin loops end: a submitted command's completion is found, across every
\* wrap of the two queues.
CallReturns == pc = "wait" ~> pc # "wait"

\* Has the controller executed the I/O command the driver waits for?
Applied == dHead["io"] = sqBell["io"]
Waiting == pc = "wait" /\ cur.q = "io"
\* The status of the command on q that the driver waits for, held by the
\* controller or already posted at the head.
StatusOkOf(q) == IF done # NoDone THEN done.ok ELSE cq[q][head[q]].ok
StatusOk == StatusOkOf("io")

Prefix(b) == [k \in 1..LbaChunks |-> b[k]]

Storage == INSTANCE BlockStore WITH
    store <- disk,
    stage <- IF Waiting THEN IF Applied THEN "applied" ELSE "called" ELSE "free",
    call <- IF ~Waiting THEN [op |-> "none"]
            ELSE [op |-> cur.op, lba |-> cur.lba,
                  block |-> IF cur.op = "write" THEN Prefix(buf) ELSE NoBlock],
    outcome <- IF Waiting /\ Applied /\ StatusOk
               THEN [ok |-> TRUE, block |-> IF cur.op = "read" THEN Prefix(buf)
                                            ELSE NoBlock]
               ELSE [ok |-> FALSE, block |-> NoBlock],
    reply <- [ok |-> reply.ok,
              block |-> IF reply.data = NoBlock THEN NoBlock ELSE Prefix(reply.data)]

\* write_block and read_block implement the block store: each call is applied
\* to the disk once, and answered with the outcome of that application; a read
\* returns, in the first logical block's worth of its buffer, what the disk
\* holds there.
ImplementsStore == Storage!Spec
-----------------------------------------------------------------------------
(* What makes the invariants inductive.                                    *)

Succ(q, k) == IF k + 1 = QSize(q) THEN 0 ELSE k + 1

\* The entries of this lap carry the controller's phase, the others do not.
LapInv(q) ==
    \A k \in 0..QSize(q) - 1 :
        cq[q][k].phase = IF k < dTail[q] THEN dPhase[q] ELSE 1 - dPhase[q]

\* No command is in flight on q: driver and controller agree on everything.
Quiet(q) ==
    /\ tail[q] = head[q] /\ dHead[q] = tail[q]
    /\ dTail[q] = head[q] /\ dPhase[q] = phase[q]

\* One command is in flight on q: not yet executed, executed, or posted.
InFlight(q) ==
    /\ tail[q] = Succ(q, head[q])
    /\ sq[q][head[q]] = [op |-> cur.op, lba |-> cur.lba]
    /\ \/ /\ dHead[q] = head[q] /\ done = NoDone
          /\ dTail[q] = head[q] /\ dPhase[q] = phase[q]
       \/ /\ dHead[q] = tail[q] /\ done.q = q
          /\ dTail[q] = head[q] /\ dPhase[q] = phase[q]
       \/ /\ dHead[q] = tail[q] /\ done = NoDone
          /\ dTail[q] = tail[q]
          /\ dPhase[q] = IF tail[q] = 0 THEN 1 - phase[q] ELSE phase[q]

RingInv(q) ==
    /\ sqBell[q] = tail[q] /\ cqBell[q] = head[q]
    /\ LapInv(q)
    /\ IF pc = "wait" /\ cur.q = q THEN InFlight(q) ELSE Quiet(q)

Probing == pc \in {"disable", "offline", "online"}

BootInv ==
    /\ Probing => \A q \in Queues : tail[q] = 0 /\ phase[q] = 1 /\ cur.q = "none"
    /\ Probing => booted = 0
    /\ pc \in {"boot", "idle"} => booted = head["admin"]
    /\ pc = "boot" => booted < 3
    /\ pc = "idle" => booted = 3
    /\ pc = "online" => enabled /\ (ready => "admin" \in made)
    /\ ~Probing => ready /\ enabled /\ "admin" \in made
    /\ pc # "wait" => done = NoDone
    /\ phase["admin"] = 1 /\ head["admin"] <= 3

\* A command the controller said it had carried out has been carried out.
Done(op) ==
    /\ op = "createCQ" => "cq" \in made
    /\ op = "createSQ" => "io" \in made

WaitInv ==
    pc = "wait" =>
        /\ cur.q \in Queues /\ booted = head["admin"]
        /\ cur.q = "admin" => booted < 3 /\ cur.op = AdminCmds[booted + 1]
        /\ cur.q = "io" => booted = 3 /\ cur.op \in {"write", "read"}
        /\ dHead[cur.q] = tail[cur.q] /\ StatusOkOf(cur.q) => Done(cur.op)

MadeInv == booted = 3 => "io" \in made

NvInv ==
    /\ TypeOK /\ BootInv /\ WaitInv /\ MadeInv
    /\ \A q \in Queues : RingInv(q)
=============================================================================
