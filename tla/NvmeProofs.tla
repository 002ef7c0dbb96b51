----------------------------- MODULE NvmeProofs -----------------------------
(***************************************************************************)
(* For queues of every size, every namespace and every logical block size: *)
(* the NVMe driver and its controller stay in step (NvInv), so a           *)
(* completion is never taken for another command's, and the driver         *)
(* implements the block store.                                             *)
(***************************************************************************)
EXTENDS NvmeQueue, TLAPS

\* Indices wrap once: what the controller's modulo does to an index.
LEMMA WrapOnce ==
    ASSUME NEW n \in Nat, n > 0, NEW k \in 0..n - 1
    PROVE  (k + 1) % n = IF k + 1 = n THEN 0 ELSE k + 1
<1>1. CASE k + 1 = n
  BY <1>1
<1>2. CASE k + 1 < n
  BY <1>2
<1> QED
  BY <1>1, <1>2

\* Both queues have at least two entries, and an index has a successor in it.
LEMMA QueueSizes ==
    /\ \A q \in Queues : QSize(q) \in Nat /\ QSize(q) > 1
    /\ QSize("admin") > 3 /\ QSize("io") = IoSize
BY QueueAssumption DEF QSize, Queues

LEMMA SuccFacts ==
    ASSUME NEW q \in Queues, NEW k \in Nat, k < QSize(q)
    PROVE  /\ Succ(q, k) \in Nat /\ Succ(q, k) < QSize(q) /\ Succ(q, k) # k
           /\ (k + 1) % QSize(q) = Succ(q, k)
           /\ Succ(q, Succ(q, k)) # Succ(q, k)
           /\ q = "admin" /\ k < 3 => Succ(q, k) = k + 1
           /\ Succ(q, k) = 0 <=> k + 1 = QSize(q)
           /\ k < Succ(q, k) \/ Succ(q, k) = 0
<1>1. QSize(q) \in Nat /\ QSize(q) > 1 /\ (q = "admin" => QSize(q) > 3)
  BY QueueSizes
<1>2. (k + 1) % QSize(q) = IF k + 1 = QSize(q) THEN 0 ELSE k + 1
  BY <1>1, WrapOnce
<1> QED
  BY <1>1, <1>2 DEF Succ

\* The driver's own wrap is the controller's.
LEMMA AfterIsSucc ==
    ASSUME NEW q \in Queues, NEW k \in Nat, k < QSize(q), q = "admin" => k < 3
    PROVE  AfterTail(q, k) = Succ(q, k)
BY QueueSizes DEF AfterTail, Succ, Queues, QSize

LEMMA InitInv == Init => NvInv
<1> SUFFICES ASSUME Init PROVE NvInv
  OBVIOUS
<1>1. TypeOK
  <2>1. \A q \in Queues : 0 < QSize(q)
    BY QueueSizes
  <2> QED
    BY <2>1, DataAssumption, QueueAssumption
    DEF Init, TypeOK, Buffers, Cmds, Comps, NoCmd, NoReply, NoDone, NoBlock
<1>2. BootInv /\ WaitInv /\ MadeInv
  BY DEF Init, BootInv, WaitInv, MadeInv, Probing, Queues
<1>3. \A q \in Queues : RingInv(q)
  BY QueueSizes DEF Init, RingInv, LapInv, Quiet
<1> QED
  BY <1>1, <1>2, <1>3 DEF NvInv

-----------------------------------------------------------------------------
\* Submitting on a queue keeps both rings in step.
LEMMA SubmitStep ==
    ASSUME TypeOK, NEW q \in Queues, NEW cmd \in Cmds, Submit(q, cmd),
           \A r \in Queues : RingInv(r), pc # "wait", done = NoDone,
           q = "admin" => head[q] < 3
    PROVE  /\ \A f \in {tail', sqBell'} :
                 f \in [Queues -> Nat] /\ \A r \in Queues : f[r] < QSize(r)
           /\ DOMAIN sq' = Queues
           /\ \A r \in Queues : sq'[r] \in [0..QSize(r) - 1 -> Cmds]
           /\ \A r \in Queues : RingInv(r)'
<1> DEFINE s == Succ(q, tail[q])
<1>1. /\ tail[q] = head[q] /\ tail[q] \in Nat /\ tail[q] < QSize(q)
      /\ tail \in [Queues -> Nat] /\ sqBell \in [Queues -> Nat]
      /\ \A r \in Queues : tail[r] < QSize(r) /\ sqBell[r] < QSize(r)
      /\ Quiet(q)
  BY DEF RingInv, Quiet, TypeOK
<1>2. AfterTail(q, tail[q]) = s /\ s \in Nat /\ s < QSize(q)
  BY <1>1, AfterIsSucc, SuccFacts
<1>3. /\ tail' = [tail EXCEPT ![q] = s] /\ sqBell' = [sqBell EXCEPT ![q] = s]
      /\ sq' = [sq EXCEPT ![q][tail[q]] = cmd]
      /\ cur' = [q |-> q, op |-> cmd.op, lba |-> cmd.lba] /\ pc' = "wait"
      /\ UNCHANGED <<head, phase, cq, cqBell, dHead, dTail, dPhase, done>>
  BY <1>2 DEF Submit, devVars
<1>4. \A f \in {tail', sqBell'} :
         f \in [Queues -> Nat] /\ \A r \in Queues : f[r] < QSize(r)
  <2> HIDE DEF s
  <2> QED BY <1>1, <1>2, <1>3
<1>5. DOMAIN sq' = Queues /\ \A r \in Queues : sq'[r] \in [0..QSize(r) - 1 -> Cmds]
  BY <1>3 DEF TypeOK
<1>6. ASSUME NEW r \in Queues PROVE RingInv(r)'
  <2>1. LapInv(r)'
    BY <1>3 DEF LapInv, RingInv
  <2>2. sqBell'[r] = tail'[r] /\ cqBell'[r] = head'[r]
    <3> HIDE DEF s
    <3> QED BY <1>1, <1>3 DEF RingInv
  <2>3. CASE r = q
    <3>1. tail'[q] = Succ(q, head'[q])
      BY <1>1, <1>3
    <3>2. sq'[q][head'[q]] = cmd
      <4>1. tail[q] \in 0..QSize(q) - 1
        BY <1>1, QueueSizes
      <4>2. sq[q] \in [0..QSize(q) - 1 -> Cmds] /\ DOMAIN sq = Queues
        BY DEF TypeOK
      <4> QED BY <1>1, <1>3, <4>1, <4>2
    <3>3. cmd = [op |-> cmd.op, lba |-> cmd.lba]
      BY DEF Cmds
    <3>4. InFlight(q)'
      BY <1>1, <1>3, <3>1, <3>2, <3>3 DEF InFlight, Quiet
    <3> QED BY <2>1, <2>2, <2>3, <3>4, <1>3 DEF RingInv
  <2>4. CASE r # q
    <3>1. Quiet(r)'
      <4> HIDE DEF s
      <4> QED BY <1>1, <1>3, <2>4 DEF RingInv, Quiet
    <3> QED BY <2>1, <2>2, <2>4, <3>1, <1>3 DEF RingInv
  <2> QED BY <2>3, <2>4
<1> QED BY <1>4, <1>5, <1>6

\* Taking the completion of the command in flight brings the ring to rest, and
\* the entry taken is the one the controller posted for that command.
LEMMA ConsumeStep ==
    ASSUME TypeOK, NEW q \in Queues, Consume(q), pc' # "wait",
           \A r \in Queues : RingInv(r), q = "admin" => head[q] < 3,
           phase["admin"] = 1
    PROVE  /\ \A f \in {head', cqBell'} :
                 f \in [Queues -> Nat] /\ \A r \in Queues : f[r] < QSize(r)
           /\ phase' \in [Queues -> {0, 1}] /\ phase'["admin"] = 1
           /\ head'[q] = Succ(q, head[q])
           /\ dHead[q] = tail[q] /\ done = NoDone
           /\ \A r \in Queues : RingInv(r)'
<1>1. /\ head \in [Queues -> Nat] /\ cqBell \in [Queues -> Nat]
      /\ \A r \in Queues : head[r] < QSize(r) /\ cqBell[r] < QSize(r)
      /\ phase \in [Queues -> {0, 1}] /\ dPhase \in [Queues -> {0, 1}]
      /\ dTail \in [Queues -> Nat] /\ "admin" \in Queues
  BY DEF TypeOK, Queues
<1> DEFINE s == Succ(q, head[q])
           p == IF s = 0 THEN 1 - phase[q] ELSE phase[q]
<1>2. /\ s \in Nat /\ s < QSize(q) /\ s # head[q]
      /\ s = 0 <=> head[q] + 1 = QSize(q)
      /\ q = "admin" => s # 0
  BY <1>1, SuccFacts
<1>3. AfterHead(q) = s /\ AfterPhase(q) = p /\ p \in {0, 1}
  BY <1>1, <1>2, QueueSizes DEF AfterHead, AfterPhase, Succ, QSize, Queues
<1>4. InFlight(q) /\ LapInv(q) /\ Posted(q) /\ cqBell[q] = head[q] /\ sqBell[q] = tail[q]
  BY DEF Consume, RingInv
<1>5. head[q] \in 0..QSize(q) - 1
  BY <1>1, QueueSizes
<1>6. ~(dTail[q] = head[q] /\ dPhase[q] = phase[q])
  BY <1>1, <1>4, <1>5 DEF LapInv, Posted
<1>7. /\ dHead[q] = tail[q] /\ done = NoDone /\ dTail[q] = tail[q]
      /\ dPhase[q] = p /\ tail[q] = s
  BY <1>4, <1>6 DEF InFlight
<1>8. /\ head' = [head EXCEPT ![q] = s] /\ cqBell' = [cqBell EXCEPT ![q] = s]
      /\ phase' = [phase EXCEPT ![q] = p]
      /\ UNCHANGED <<tail, sq, cq, sqBell, dHead, dTail, dPhase, done>>
  BY <1>3 DEF Consume, devVars
<1> HIDE DEF s, p
<1>9. /\ \A f \in {head', cqBell'} :
            f \in [Queues -> Nat] /\ \A r \in Queues : f[r] < QSize(r)
      /\ phase' \in [Queues -> {0, 1}]
  BY <1>1, <1>2, <1>3, <1>8
<1>10. phase'["admin"] = 1
  BY <1>1, <1>2, <1>8 DEF p
<1>11. ASSUME NEW r \in Queues PROVE RingInv(r)'
  <2>1. LapInv(r)'
    BY <1>8 DEF LapInv, RingInv
  <2>2. sqBell'[r] = tail'[r] /\ cqBell'[r] = head'[r]
    BY <1>1, <1>8 DEF RingInv
  <2>3. Quiet(r)'
    <3>1. CASE r = q
      BY <1>1, <1>7, <1>8, <3>1 DEF Quiet
    <3>2. CASE r # q
      <4>1. Quiet(r)
        BY <3>2 DEF RingInv, Consume
      <4> QED BY <1>1, <1>8, <3>2, <4>1 DEF Quiet
    <3> QED BY <3>1, <3>2
  <2> QED BY <2>1, <2>2, <2>3 DEF RingInv
<1>12. head'[q] = Succ(q, head[q])
  BY <1>1, <1>8 DEF s
<1> QED BY <1>7, <1>9, <1>10, <1>11, <1>12

\* The controller executes only the command the driver waits for.
LEMMA ExecuteWho ==
    ASSUME TypeOK, NEW q \in Queues, DevExecute(q), RingInv(q)
    PROVE  /\ pc = "wait" /\ cur.q = q /\ dHead[q] = head[q]
           /\ InFlight(q) /\ done = NoDone /\ dTail[q] = head[q]
           /\ dPhase[q] = phase[q] /\ tail[q] = Succ(q, head[q])
           /\ sq[q][dHead[q]] = [op |-> cur.op, lba |-> cur.lba]
           /\ dHead' = [dHead EXCEPT ![q] = tail[q]]
           /\ head[q] \in Nat /\ head[q] < QSize(q) /\ tail[q] # head[q]
<1>1. dHead[q] # tail[q] /\ done = NoDone
  BY DEF DevExecute, RingInv
<1>2. pc = "wait" /\ cur.q = q /\ InFlight(q)
  BY <1>1 DEF RingInv, Quiet
<1>3. done.q = "none"
  BY <1>1 DEF NoDone
<1>4. /\ dHead[q] = head[q] /\ dTail[q] = head[q] /\ dPhase[q] = phase[q]
      /\ tail[q] = Succ(q, head[q])
      /\ sq[q][dHead[q]] = [op |-> cur.op, lba |-> cur.lba]
  BY <1>1, <1>2 DEF InFlight
<1>5. head[q] \in Nat /\ head[q] < QSize(q)
  BY DEF TypeOK
<1>6. (head[q] + 1) % QSize(q) = tail[q] /\ tail[q] # head[q]
  BY <1>4, <1>5, SuccFacts
<1>7. dHead' = [dHead EXCEPT ![q] = tail[q]]
  BY <1>4, <1>6 DEF DevExecute
<1> QED BY <1>1, <1>2, <1>4, <1>5, <1>6, <1>7

\* Executing a command keeps the invariant: what it reports as carried out, it
\* has carried out.
LEMMA ExecuteStep ==
    ASSUME NvInv, NEW q \in Queues, DevExecute(q)
    PROVE  NvInv'
<1>0. TypeOK /\ BootInv /\ WaitInv /\ MadeInv /\ \A r \in Queues : RingInv(r)
  BY DEF NvInv
<1>1. /\ pc = "wait" /\ cur.q = q /\ dHead[q] = head[q]
      /\ InFlight(q) /\ done = NoDone /\ dTail[q] = head[q]
      /\ dPhase[q] = phase[q] /\ tail[q] = Succ(q, head[q])
      /\ sq[q][dHead[q]] = [op |-> cur.op, lba |-> cur.lba]
      /\ dHead' = [dHead EXCEPT ![q] = tail[q]]
      /\ tail[q] # head[q]
  BY <1>0, ExecuteWho
<1>2. PICK ok \in BOOLEAN, moved \in BOOLEAN :
        /\ done' = [q |-> q, ok |-> ok /\ (cur.op = "createSQ" => "cq" \in made)]
        /\ made' = CASE ok /\ cur.op = "createCQ" -> made \cup {"cq"}
                     [] ok /\ cur.op = "createSQ" /\ "cq" \in made
                                                  -> made \cup {"io"}
                     [] OTHER                     -> made
        /\ disk' = IF moved /\ cur.op = "write"
                   THEN [disk EXCEPT ![cur.lba] = [k \in 1..LbaChunks |-> buf[k]]]
                   ELSE disk
        /\ buf' = IF moved /\ cur.op = "read"
                  THEN [k \in 1..BufChunks |->
                          IF k <= LbaChunks THEN disk[cur.lba][k] ELSE buf[k]]
                  ELSE buf
  BY <1>1 DEF DevExecute
<1>3. UNCHANGED <<pc, cur, reply, booted, enabled, ready, tail, head, phase,
                  sq, cq, sqBell, cqBell, dTail, dPhase>>
  BY DEF DevExecute, bootVars, ringVars
<1>4. TypeOK'
  <2>1. /\ buf \in [1..BufChunks -> Chunks]
        /\ disk \in [Lbas -> [1..LbaChunks -> Chunks]] /\ cur.lba \in Lbas
    BY <1>0 DEF TypeOK, Buffers, Blocks
  <2>2. /\ BufChunks \in Nat /\ LbaChunks \in Nat /\ LbaChunks <= BufChunks
    BY DataAssumption
  <2>3. [k \in 1..LbaChunks |-> buf[k]] \in [1..LbaChunks -> Chunks]
    BY <2>1, <2>2
  <2>4. disk' \in [Lbas -> Blocks]
    BY <1>2, <2>1, <2>3 DEF Blocks
  <2>5. [k \in 1..BufChunks |-> IF k <= LbaChunks THEN disk[cur.lba][k] ELSE buf[k]]
          \in [1..BufChunks -> Chunks]
    BY <2>1, <2>2
  <2>6. buf' \in Buffers
    BY <1>2, <2>1, <2>5 DEF Buffers
  <2>7. made' \subseteq {"admin", "cq", "io"}
    BY <1>0, <1>2 DEF TypeOK
  <2>8. done' \in [q : Queues, ok : BOOLEAN]
    BY <1>2
  <2>9. dHead' \in [Queues -> Nat] /\ \A r \in Queues : dHead'[r] < QSize(r)
    <3>1. dHead \in [Queues -> Nat] /\ tail \in [Queues -> Nat]
          /\ \A r \in Queues : dHead[r] < QSize(r) /\ tail[r] < QSize(r)
      BY <1>0 DEF TypeOK
    <3> QED BY <1>1, <3>1
  <2>10. \A f \in {tail', head', sqBell', cqBell', dHead', dTail'} :
           f \in [Queues -> Nat] /\ \A r \in Queues : f[r] < QSize(r)
    BY <1>0, <1>3, <2>9 DEF TypeOK
  <2> QED BY <1>0, <1>3, <2>4, <2>6, <2>7, <2>8, <2>10 DEF TypeOK
<1>5. made \subseteq made' /\ done'.q = q /\ q # "none" /\ done' # NoDone
  BY <1>2 DEF Queues, NoDone
<1>6. BootInv' /\ MadeInv'
  BY <1>0, <1>1, <1>3, <1>5 DEF BootInv, MadeInv, Probing
<1>7. WaitInv'
  <2>1. done'.ok => Done(cur.op)'
    BY <1>2, <1>3 DEF Done
  <2> QED BY <1>0, <1>1, <1>3, <1>5, <2>1 DEF WaitInv, StatusOkOf
<1>8. ASSUME NEW r \in Queues PROVE RingInv(r)'
  <2>1. LapInv(r)' /\ sqBell'[r] = tail'[r] /\ cqBell'[r] = head'[r]
    BY <1>0, <1>3 DEF LapInv, RingInv
  <2>2. dHead \in [Queues -> Nat]
    BY <1>0 DEF TypeOK
  <2>3. CASE r = q
    <3>1. dHead'[q] = tail[q]
      BY <1>1, <2>2
    <3>2. InFlight(q)'
      BY <1>1, <1>3, <1>5, <3>1 DEF InFlight
    <3> QED BY <1>1, <1>3, <2>1, <2>3, <3>2 DEF RingInv
  <2>4. CASE r # q
    <3>1. Quiet(r)'
      BY <1>0, <1>1, <1>3, <2>2, <2>4 DEF RingInv, Quiet
    <3> QED BY <1>1, <1>3, <2>1, <2>4, <3>1 DEF RingInv
  <2> QED BY <2>3, <2>4
<1> QED BY <1>4, <1>6, <1>7, <1>8 DEF NvInv

\* The controller posts only the command the driver waits for, at the driver's
\* head.
LEMMA PostWho ==
    ASSUME TypeOK, BootInv, WaitInv, NEW q \in Queues, DevPost(q),
           \A r \in Queues : RingInv(r)
    PROVE  /\ pc = "wait" /\ cur.q = q /\ InFlight(q)
           /\ dHead[q] = tail[q] /\ dTail[q] = head[q] /\ dPhase[q] = phase[q]
           /\ tail[q] = Succ(q, head[q])
           /\ dTail' = [dTail EXCEPT ![q] = tail[q]]
           /\ dPhase' = [dPhase EXCEPT ![q] =
                           IF tail[q] = 0 THEN 1 - phase[q] ELSE phase[q]]
           /\ cq' = [cq EXCEPT ![q][head[q]] = [phase |-> phase[q], ok |-> done.ok]]
           /\ done' = NoDone
           /\ UNCHANGED <<pc, cur, buf, reply, booted, enabled, ready, tail, head,
                          phase, sq, sqBell, cqBell, made, dHead, disk>>
<1>1. done.q = q /\ q # "none"
  BY DEF DevPost, Queues
<1>2. done # NoDone
  BY <1>1 DEF NoDone
<1>3. pc = "wait" /\ cur.q \in Queues
  BY <1>2 DEF BootInv, WaitInv
<1>4. InFlight(cur.q)
  BY <1>3 DEF RingInv
<1>5. done.q = cur.q
  BY <1>2, <1>4 DEF InFlight
<1>6. /\ cur.q = q /\ InFlight(q) /\ dHead[q] = tail[q] /\ dTail[q] = head[q]
      /\ dPhase[q] = phase[q] /\ tail[q] = Succ(q, head[q])
  BY <1>1, <1>2, <1>4, <1>5 DEF InFlight
<1>7. head[q] \in Nat /\ head[q] < QSize(q)
  BY DEF TypeOK
<1>8. (dTail[q] + 1) % QSize(q) = tail[q]
  BY <1>6, <1>7, SuccFacts
<1>9. /\ dTail' = [dTail EXCEPT ![q] = tail[q]]
      /\ dPhase' = [dPhase EXCEPT ![q] =
                      IF tail[q] = 0 THEN 1 - phase[q] ELSE phase[q]]
      /\ cq' = [cq EXCEPT ![q][head[q]] = [phase |-> phase[q], ok |-> done.ok]]
      /\ done' = NoDone
  BY <1>6, <1>8 DEF DevPost
<1>10. UNCHANGED <<pc, cur, buf, reply, booted, enabled, ready, tail, head,
                   phase, sq, sqBell, cqBell, made, dHead, disk>>
  BY DEF DevPost, bootVars
<1> QED BY <1>3, <1>6, <1>9, <1>10

\* Posting a completion keeps the invariant: the entry gets this lap's phase.
LEMMA PostStep ==
    ASSUME NvInv, NEW q \in Queues, DevPost(q)
    PROVE  NvInv'
<1>0. TypeOK /\ BootInv /\ WaitInv /\ MadeInv /\ \A r \in Queues : RingInv(r)
  BY DEF NvInv
<1> DEFINE p == IF tail[q] = 0 THEN 1 - phase[q] ELSE phase[q]
           e == [phase |-> phase[q], ok |-> done.ok]
<1>1. /\ pc = "wait" /\ cur.q = q /\ InFlight(q)
      /\ dHead[q] = tail[q] /\ dTail[q] = head[q] /\ dPhase[q] = phase[q]
      /\ tail[q] = Succ(q, head[q])
      /\ dTail' = [dTail EXCEPT ![q] = tail[q]]
      /\ dPhase' = [dPhase EXCEPT ![q] = p]
      /\ cq' = [cq EXCEPT ![q][head[q]] = e]
      /\ done' = NoDone
      /\ UNCHANGED <<pc, cur, buf, reply, booted, enabled, ready, tail, head,
                     phase, sq, sqBell, cqBell, made, dHead, disk>>
  BY <1>0, PostWho
<1>2. /\ tail \in [Queues -> Nat] /\ head \in [Queues -> Nat]
      /\ dTail \in [Queues -> Nat] /\ dPhase \in [Queues -> {0, 1}]
      /\ phase \in [Queues -> {0, 1}] /\ DOMAIN cq = Queues
      /\ \A r \in Queues : /\ tail[r] < QSize(r) /\ dTail[r] < QSize(r)
                           /\ head[r] < QSize(r)
                           /\ cq[r] \in [0..QSize(r) - 1 -> Comps]
  BY <1>0 DEF TypeOK
<1>3. head[q] \in 0..QSize(q) - 1 /\ QSize(q) \in Nat
  BY <1>2, QueueSizes
<1>4. done # NoDone /\ done \in [q : Queues, ok : BOOLEAN] /\ e \in Comps
  <2>1. done.q = q /\ q # "none"
    BY DEF DevPost, Queues
  <2>2. done # NoDone
    BY <2>1 DEF NoDone
  <2>3. done \in [q : Queues, ok : BOOLEAN]
    BY <1>0, <2>2 DEF TypeOK
  <2> QED BY <1>2, <2>2, <2>3 DEF Comps
<1>5. p \in {0, 1}
  BY <1>2
<1> HIDE DEF p, e
<1>6. cq'[q][head[q]] = e /\ DOMAIN cq' = Queues
      /\ \A r \in Queues : cq'[r] \in [0..QSize(r) - 1 -> Comps]
  BY <1>1, <1>2, <1>3, <1>4
<1>7. TypeOK'
  <2>1. dTail' \in [Queues -> Nat] /\ \A r \in Queues : dTail'[r] < QSize(r)
    BY <1>1, <1>2
  <2>2. dPhase' \in [Queues -> {0, 1}]
    BY <1>1, <1>2, <1>5
  <2>3. \A f \in {tail', head', sqBell', cqBell', dHead', dTail'} :
           f \in [Queues -> Nat] /\ \A r \in Queues : f[r] < QSize(r)
    <3>1. \A f \in {tail, head, sqBell, cqBell, dHead, dTail} :
             f \in [Queues -> Nat] /\ \A r \in Queues : f[r] < QSize(r)
      BY <1>0 DEF TypeOK
    <3> QED BY <1>1, <2>1, <3>1
  <2> QED BY <1>0, <1>1, <1>6, <2>2, <2>3 DEF TypeOK
<1>8. BootInv' /\ MadeInv'
  BY <1>0, <1>1 DEF BootInv, MadeInv, Probing
<1>9. WaitInv'
  <2>1. StatusOkOf(q)' = StatusOkOf(q)
    BY <1>1, <1>4, <1>6 DEF StatusOkOf, e
  <2> QED BY <1>0, <1>1, <2>1 DEF WaitInv, Done
<1>10. ASSUME NEW r \in Queues PROVE RingInv(r)'
  <2>1. sqBell'[r] = tail'[r] /\ cqBell'[r] = head'[r]
    BY <1>0, <1>1 DEF RingInv
  <2>2. CASE r = q
    <3>1. dTail'[q] = tail[q] /\ dPhase'[q] = p
      BY <1>1, <1>2
    <3>2. LapInv(q)'
      <4> SUFFICES ASSUME NEW k \in 0..QSize(q) - 1
                   PROVE  cq'[q][k].phase = IF k < tail[q] THEN p ELSE 1 - p
        BY <3>1 DEF LapInv
      <4>0. /\ phase[q] \in {0, 1} /\ head[q] \in Nat /\ tail[q] \in Nat
            /\ k \in Nat /\ k < QSize(q)
        BY <1>2, <1>3
      <4>1. CASE k = head[q]
        <5>1. cq'[q][k].phase = phase[q]
          BY <1>6, <4>1 DEF e
        <5>2. head[q] < tail[q] \/ tail[q] = 0
          BY <1>1, <1>2, SuccFacts
        <5> QED BY <4>0, <4>1, <5>1, <5>2 DEF p
      <4>2. CASE k # head[q]
        <5>1. cq'[q][k] = cq[q][k]
          BY <1>1, <1>2, <1>3, <4>2
        <5>2. cq[q][k].phase = IF k < head[q] THEN phase[q] ELSE 1 - phase[q]
          BY <1>0, <1>1 DEF RingInv, LapInv
        <5>3. tail[q] = IF head[q] + 1 = QSize(q) THEN 0 ELSE head[q] + 1
          BY <1>1 DEF Succ
        <5> QED BY <1>3, <4>0, <4>2, <5>1, <5>2, <5>3 DEF p
      <4> QED BY <4>1, <4>2
    <3>3. InFlight(q)'
      BY <1>1, <3>1 DEF InFlight, p
    <3> QED BY <1>1, <2>1, <2>2, <3>2, <3>3 DEF RingInv
  <2>3. CASE r # q
    <3>1. dTail'[r] = dTail[r] /\ dPhase'[r] = dPhase[r] /\ cq'[r] = cq[r]
      BY <1>1, <1>2, <2>3
    <3>2. LapInv(r) /\ Quiet(r)
      BY <1>0, <1>1, <2>3 DEF RingInv
    <3>3. LapInv(r)' /\ Quiet(r)'
      BY <1>1, <3>1, <3>2 DEF LapInv, Quiet
    <3> QED BY <1>1, <2>1, <2>3, <3>3 DEF RingInv
  <2> QED BY <2>2, <2>3
<1> QED BY <1>7, <1>8, <1>9, <1>10 DEF NvInv

\* The controller resets itself only while the driver probes it, when the
\* rings hold nothing yet.
LEMMA FollowStep == NvInv /\ DevFollow => NvInv'
<1> SUFFICES ASSUME NvInv, DevFollow PROVE NvInv'
  OBVIOUS
<1>0. TypeOK /\ BootInv /\ WaitInv /\ MadeInv /\ \A r \in Queues : RingInv(r)
  BY DEF NvInv
<1>1. /\ Probing /\ booted = 0 /\ pc # "wait"
      /\ \A q \in Queues : tail[q] = 0 /\ phase[q] = 1 /\ Quiet(q)
      /\ done = NoDone
  <2>1. ready # enabled /\ ready \in BOOLEAN /\ enabled \in BOOLEAN
    BY <1>0 DEF DevFollow, TypeOK
  <2>2. ~(ready /\ enabled)
    BY <2>1
  <2>3. Probing
    BY <1>0, <2>2 DEF BootInv
  <2> QED BY <1>0, <2>3 DEF BootInv, Probing, RingInv
<1>2. /\ dHead' = [q \in Queues |-> 0] /\ dTail' = [q \in Queues |-> 0]
      /\ dPhase' = [q \in Queues |-> 1] /\ done' = NoDone
      /\ made' \subseteq {"admin"} /\ ready' \in BOOLEAN
      /\ UNCHANGED <<pc, cur, buf, reply, booted, enabled, tail, head, phase, sq,
                     cq, sqBell, cqBell, disk>>
  BY <1>0 DEF DevFollow, ringVars, TypeOK
<1>3. TypeOK'
  <2>1. \A q \in Queues : 0 < QSize(q)
    BY QueueSizes
  <2>2. \A f \in {tail', head', sqBell', cqBell', dHead', dTail'} :
           f \in [Queues -> Nat] /\ \A r \in Queues : f[r] < QSize(r)
    <3>1. \A f \in {tail, head, sqBell, cqBell, dHead, dTail} :
             f \in [Queues -> Nat] /\ \A r \in Queues : f[r] < QSize(r)
      BY <1>0 DEF TypeOK
    <3>2. dHead' \in [Queues -> Nat] /\ dTail' \in [Queues -> Nat]
          /\ \A r \in Queues : dHead'[r] < QSize(r) /\ dTail'[r] < QSize(r)
      BY <1>2, <2>1
    <3> QED BY <1>2, <3>1, <3>2
  <2> QED BY <1>0, <1>2, <2>2 DEF TypeOK
<1>4. BootInv' /\ WaitInv' /\ MadeInv'
  <2>1. pc = "online" => enabled /\ "admin" \in made'
    BY <1>0 DEF BootInv, DevFollow
  <2> QED BY <1>0, <1>1, <1>2, <2>1 DEF BootInv, WaitInv, MadeInv, Probing
<1>5. ASSUME NEW r \in Queues PROVE RingInv(r)'
  <2>1. dTail[r] = 0 /\ dPhase[r] = 1 /\ dHead[r] = 0
    BY <1>1 DEF Quiet
  <2>2. dTail'[r] = 0 /\ dPhase'[r] = 1 /\ dHead'[r] = 0
    BY <1>2
  <2> QED BY <1>0, <1>1, <1>2, <2>1, <2>2 DEF RingInv, LapInv, Quiet
<1> QED BY <1>3, <1>4, <1>5 DEF NvInv

\* Steps that leave the rings and the controller's positions alone.
LEMMA RingsKept ==
    ASSUME \A q \in Queues : RingInv(q), pc # "wait", pc' # "wait",
           UNCHANGED <<ringVars, dHead, dTail, dPhase, done>>
    PROVE  \A q \in Queues : RingInv(q)'
BY DEF RingInv, LapInv, Quiet, ringVars

\* Bring-up before the admin queue, and a refused write.
LEMMA SimpleSteps ==
    NvInv /\ (Disable \/ ConfigureAndEnable \/ Online
              \/ \E data \in Payloads : WriteTooLong(data)) => NvInv'
<1> SUFFICES ASSUME NvInv, \/ Disable \/ ConfigureAndEnable \/ Online
                           \/ \E data \in Payloads : WriteTooLong(data)
             PROVE  NvInv'
  OBVIOUS
<1>0. TypeOK /\ BootInv /\ WaitInv /\ MadeInv /\ \A q \in Queues : RingInv(q)
  BY DEF NvInv
<1>1. CASE Disable
  <2>1. /\ pc = "disable" /\ pc' = "offline" /\ enabled' = FALSE
        /\ UNCHANGED <<cur, buf, reply, booted, ready, ringVars, devVars>>
    BY <1>1 DEF Disable
  <2>2. \A q \in Queues : RingInv(q)'
    BY <1>0, <2>1, RingsKept DEF devVars
  <2>3. TypeOK'
    BY <1>0, <2>1 DEF TypeOK, ringVars, devVars
  <2>4. BootInv' /\ WaitInv' /\ MadeInv'
    BY <1>0, <2>1 DEF BootInv, WaitInv, MadeInv, Probing, ringVars, devVars
  <2> QED BY <2>2, <2>3, <2>4 DEF NvInv
<1>2. CASE ConfigureAndEnable
  <2>1. /\ pc = "offline" /\ pc' = "online" /\ ~ready /\ enabled' = TRUE
        /\ UNCHANGED <<cur, buf, reply, booted, ready, ringVars, devVars>>
    BY <1>2 DEF ConfigureAndEnable
  <2>2. \A q \in Queues : RingInv(q)'
    BY <1>0, <2>1, RingsKept DEF devVars
  <2>3. TypeOK'
    BY <1>0, <2>1 DEF TypeOK, ringVars, devVars
  <2>4. BootInv' /\ WaitInv' /\ MadeInv'
    BY <1>0, <2>1 DEF BootInv, WaitInv, MadeInv, Probing, ringVars, devVars
  <2> QED BY <2>2, <2>3, <2>4 DEF NvInv
<1>3. CASE Online
  <2>1. /\ pc = "online" /\ pc' = "boot" /\ ready
        /\ UNCHANGED <<cur, buf, reply, booted, enabled, ready, ringVars, devVars>>
    BY <1>3 DEF Online, bootVars
  <2>2. \A q \in Queues : RingInv(q)'
    BY <1>0, <2>1, RingsKept DEF devVars
  <2>3. TypeOK'
    BY <1>0, <2>1 DEF TypeOK, ringVars, devVars
  <2>4. enabled /\ "admin" \in made /\ head["admin"] = 0
    BY <1>0, <2>1 DEF BootInv, Probing, RingInv, Quiet, Queues
  <2>5. BootInv' /\ WaitInv' /\ MadeInv'
    BY <1>0, <2>1, <2>4 DEF BootInv, WaitInv, MadeInv, Probing, ringVars, devVars
  <2> QED BY <2>2, <2>3, <2>5 DEF NvInv
<1>4. CASE \E data \in Payloads : WriteTooLong(data)
  <2>1. /\ pc = "idle" /\ reply' = NoReply
        /\ UNCHANGED <<pc, cur, buf, booted, enabled, ready, ringVars, devVars>>
    BY <1>4 DEF WriteTooLong, bootVars
  <2>2. \A q \in Queues : RingInv(q)'
    BY <1>0, <2>1, RingsKept DEF devVars
  <2>3. TypeOK'
    BY <1>0, <2>1 DEF TypeOK, ringVars, devVars, NoReply
  <2>4. BootInv' /\ WaitInv' /\ MadeInv'
    BY <1>0, <2>1 DEF BootInv, WaitInv, MadeInv, Probing, ringVars, devVars
  <2> QED BY <2>2, <2>3, <2>4 DEF NvInv
<1> QED BY <1>1, <1>2, <1>3, <1>4

\* The three submissions, one lemma: they differ in queue, command and buffer.
LEMMA SubmitInv ==
    ASSUME NvInv, NEW q \in Queues, NEW cmd \in Cmds, Submit(q, cmd),
           pc \in {"boot", "idle"}, buf' \in Buffers,
           UNCHANGED <<reply, booted, enabled, ready>>,
           \/ q = "admin" /\ booted < 3 /\ cmd.op = AdminCmds[booted + 1]
           \/ q = "io" /\ booted = 3 /\ cmd.op \in {"write", "read"}
    PROVE  NvInv'
<1>0. TypeOK /\ BootInv /\ WaitInv /\ MadeInv /\ \A r \in Queues : RingInv(r)
  BY DEF NvInv
<1>1. pc # "wait" /\ done = NoDone /\ booted = head["admin"] /\ ~Probing
  BY <1>0 DEF BootInv, Probing
<1>2. q = "admin" => head[q] < 3
  BY <1>1
<1>3. /\ \A f \in {tail', sqBell'} :
            f \in [Queues -> Nat] /\ \A r \in Queues : f[r] < QSize(r)
      /\ DOMAIN sq' = Queues
      /\ \A r \in Queues : sq'[r] \in [0..QSize(r) - 1 -> Cmds]
      /\ \A r \in Queues : RingInv(r)'
  BY <1>0, <1>1, <1>2, SubmitStep
<1>4. /\ cur' = [q |-> q, op |-> cmd.op, lba |-> cmd.lba] /\ pc' = "wait"
      /\ UNCHANGED <<head, phase, cq, cqBell, made, dHead, dTail, dPhase, done, disk>>
  BY DEF Submit, devVars
<1>5. TypeOK'
  <2>1. cur' \in [q : Queues \cup {"none"}, lba : Lbas,
                  op : {"none", "identify", "createCQ", "createSQ", "write", "read"}]
    BY <1>4 DEF Cmds
  <2>2. \A f \in {tail', head', sqBell', cqBell', dHead', dTail'} :
           f \in [Queues -> Nat] /\ \A r \in Queues : f[r] < QSize(r)
    <3>1. \A f \in {tail, head, sqBell, cqBell, dHead, dTail} :
             f \in [Queues -> Nat] /\ \A r \in Queues : f[r] < QSize(r)
      BY <1>0 DEF TypeOK
    <3> QED BY <1>3, <1>4, <3>1
  <2> QED BY <1>0, <1>3, <1>4, <2>1, <2>2 DEF TypeOK
<1>6. BootInv' /\ MadeInv'
  BY <1>0, <1>1, <1>4 DEF BootInv, MadeInv, Probing
<1>7. WaitInv'
  <2>1. dHead'[q] # tail'[q]
    <3>1. Quiet(q) /\ tail[q] \in Nat /\ tail[q] < QSize(q) /\ tail \in [Queues -> Nat]
      BY <1>0, <1>1 DEF RingInv, TypeOK
    <3>2. tail' = [tail EXCEPT ![q] = Succ(q, tail[q])]
      BY <1>2, <3>1, AfterIsSucc DEF Submit, Quiet
    <3>3. Succ(q, tail[q]) # tail[q]
      BY <3>1, SuccFacts
    <3> QED BY <1>4, <3>1, <3>2, <3>3 DEF Quiet
  <2> QED BY <1>0, <1>1, <1>4, <2>1 DEF WaitInv
<1> QED BY <1>3, <1>5, <1>6, <1>7 DEF NvInv

\* The two ends of the spin loop.
LEMMA FinishInv == NvInv /\ (FinishAdmin \/ FinishIo) => NvInv'
<1> SUFFICES ASSUME NvInv, FinishAdmin \/ FinishIo PROVE NvInv'
  OBVIOUS
<1>0. TypeOK /\ BootInv /\ WaitInv /\ MadeInv /\ \A r \in Queues : RingInv(r)
  BY DEF NvInv
<1> DEFINE q == cur.q
<1>1. /\ q \in Queues /\ Consume(q) /\ pc = "wait" /\ pc' # "wait"
      /\ UNCHANGED <<cur, buf, enabled, ready>>
      /\ q = "admin" <=> FinishAdmin
  BY <1>0 DEF FinishAdmin, FinishIo, Consume, Queues, bootVars
<1>2. /\ phase["admin"] = 1 /\ booted = head["admin"] /\ head["admin"] <= 3
      /\ ready /\ enabled /\ "admin" \in made /\ booted \in 0..3
      /\ q = "admin" => head[q] < 3 /\ cur.op = AdminCmds[booted + 1]
      /\ q = "io" => booted = 3
      /\ dHead[q] = tail[q] /\ StatusOkOf(q) => Done(cur.op)
  BY <1>0, <1>1 DEF BootInv, WaitInv, Probing, TypeOK
<1> HIDE DEF q
<1>3. /\ \A f \in {head', cqBell'} :
            f \in [Queues -> Nat] /\ \A r \in Queues : f[r] < QSize(r)
      /\ phase' \in [Queues -> {0, 1}] /\ phase'["admin"] = 1
      /\ head'[q] = Succ(q, head[q])
      /\ dHead[q] = tail[q] /\ done = NoDone
      /\ \A r \in Queues : RingInv(r)'
  BY <1>0, <1>1, <1>2, ConsumeStep
<1>4. /\ UNCHANGED <<tail, sq, cq, sqBell, made, dHead, dTail, dPhase, done, disk>>
      /\ head' = [head EXCEPT ![q] = AfterHead(q)]
  BY <1>1 DEF Consume, devVars
<1>5. head'["admin"] = IF q = "admin" THEN booted + 1 ELSE booted
  <2>1. head \in [Queues -> Nat] /\ head["admin"] \in Nat
        /\ head["admin"] < QSize("admin") /\ "admin" \in Queues
    BY <1>0 DEF TypeOK, Queues
  <2>2. CASE q = "admin"
    BY <1>2, <1>3, <2>1, <2>2, SuccFacts
  <2>3. CASE q # "admin"
    BY <1>2, <1>4, <2>1, <2>3
  <2> QED BY <2>2, <2>3
<1>6. StatusOkOf(q) = cq[q][head[q]].ok
  BY <1>3 DEF StatusOkOf
<1>7. \A f \in {tail', head', sqBell', cqBell', dHead', dTail'} :
         f \in [Queues -> Nat] /\ \A r \in Queues : f[r] < QSize(r)
  <2>1. \A f \in {tail, head, sqBell, cqBell, dHead, dTail} :
           f \in [Queues -> Nat] /\ \A r \in Queues : f[r] < QSize(r)
    BY <1>0 DEF TypeOK
  <2> QED BY <1>3, <1>4, <2>1
<1>8. CASE FinishAdmin
  <2>1. /\ q = "admin" /\ reply' = reply
        /\ IF ~cq["admin"][head["admin"]].ok /\ MustSucceed(cur.op)
           THEN pc' = "panic" /\ UNCHANGED booted
           ELSE /\ booted' = booted + 1
                /\ pc' = IF booted' = 3 THEN "idle" ELSE "boot"
    BY <1>1, <1>8 DEF FinishAdmin, AdminCmds
  <2>2. TypeOK'
    <3>1. booted' \in 0..3 /\ pc' \in {"panic", "idle", "boot"}
      BY <1>2, <2>1
    <3> QED BY <1>0, <1>1, <1>3, <1>4, <1>7, <2>1, <3>1 DEF TypeOK
  <2>3. MadeInv'
    <3>1. booted = 3 => MadeInv'
      BY <1>2, <2>1
    <3>2. booted' = 3 /\ booted # 3 => "io" \in made
      <4> SUFFICES ASSUME booted' = 3, booted # 3 PROVE "io" \in made
        OBVIOUS
      <4>1. booted = 2 /\ cur.op = "createSQ"
        BY <1>2, <2>1 DEF AdminCmds
      <4>2. cq["admin"][head["admin"]].ok
        BY <2>1, <4>1 DEF MustSucceed
      <4> QED BY <1>2, <1>3, <1>6, <2>1, <4>1, <4>2 DEF Done
    <3> QED BY <1>4, <3>1, <3>2 DEF MadeInv
  <2>4. BootInv' /\ WaitInv'
    BY <1>1, <1>2, <1>3, <1>4, <1>5, <2>1 DEF BootInv, WaitInv, Probing
  <2> QED BY <1>3, <2>2, <2>3, <2>4 DEF NvInv
<1>9. CASE FinishIo
  <2>1. q = "io" /\ pc' = "idle" /\ booted' = booted
        /\ reply' = [ok |-> cq["io"][head["io"]].ok,
                     data |-> IF cq["io"][head["io"]].ok /\ cur.op = "read"
                              THEN buf ELSE NoBlock]
    BY <1>1, <1>9 DEF FinishIo, bootVars, Consume, q
  <2>2. TypeOK'
    <3>1. cq["io"][head["io"]].ok \in BOOLEAN
      <4>1. head["io"] \in Nat /\ head["io"] < QSize("io") /\ "io" \in Queues
        BY <1>0 DEF TypeOK, Queues
      <4>2. head["io"] \in 0..QSize("io") - 1
        BY <4>1, QueueSizes
      <4>3. cq["io"] \in [0..QSize("io") - 1 -> Comps]
        BY <1>0, <4>1 DEF TypeOK
      <4> QED BY <4>2, <4>3 DEF Comps
    <3>2. reply' \in [ok : BOOLEAN, data : Buffers \cup {NoBlock}]
      BY <1>0, <2>1, <3>1 DEF TypeOK
    <3> QED BY <1>0, <1>1, <1>3, <1>4, <1>7, <2>1, <3>2 DEF TypeOK
  <2>3. BootInv' /\ WaitInv' /\ MadeInv'
    BY <1>0, <1>1, <1>2, <1>3, <1>4, <1>5, <2>1 DEF BootInv, WaitInv, MadeInv, Probing
  <2> QED BY <1>3, <2>2, <2>3 DEF NvInv
<1> QED BY <1>8, <1>9

-----------------------------------------------------------------------------
\* Every step keeps the invariant.
LEMMA StepInv == NvInv /\ [Next]_vars => NvInv'
<1> SUFFICES ASSUME NvInv, [Next]_vars PROVE NvInv'
  OBVIOUS
<1>0. TypeOK /\ BootInv
  BY DEF NvInv
<1>1. ASSUME SubmitAdmin PROVE NvInv'
  <2>1. booted \in 0..2
    BY <1>0, <1>1 DEF SubmitAdmin, BootInv, TypeOK
  <2>2. [op |-> AdminCmds[booted + 1], lba |-> 0] \in Cmds
    BY <2>1, DataAssumption DEF AdminCmds, Cmds
  <2>3. buf' \in Buffers /\ UNCHANGED <<reply, booted, enabled, ready>> /\ pc = "boot"
    BY <1>0, <1>1 DEF SubmitAdmin, bootVars, TypeOK
  <2> QED BY <1>1, <2>1, <2>2, <2>3, SubmitInv DEF SubmitAdmin, Queues
<1>2. ASSUME NEW lba \in Lbas, NEW data \in Payloads, WriteBlock(lba, data)
      PROVE  NvInv'
  <2>1. Padded(data) \in Buffers
    <3>1. PICK n \in 0..BufChunks + 1 : data \in [1..n -> Chunks]
      BY DEF Payloads
    <3>2. Len(data) = n /\ n \in Nat
      BY <3>1, DataAssumption
    <3>3. ASSUME NEW k \in 1..BufChunks
          PROVE  (IF k <= Len(data) THEN data[k] ELSE Zero) \in Chunks
      BY <3>1, <3>2, DataAssumption
    <3> QED BY <3>3 DEF Padded, Buffers
  <2>2. [op |-> "write", lba |-> lba] \in Cmds
    BY DEF Cmds
  <2>3. /\ buf' \in Buffers /\ UNCHANGED <<reply, booted, enabled, ready>>
        /\ pc = "idle" /\ booted = 3
    BY <1>0, <1>2, <2>1 DEF WriteBlock, bootVars, BootInv
  <2> QED BY <1>2, <2>2, <2>3, SubmitInv DEF WriteBlock, Queues
<1>3. ASSUME NEW lba \in Lbas, ReadBlock(lba) PROVE NvInv'
  <2>1. [op |-> "read", lba |-> lba] \in Cmds
    BY DEF Cmds
  <2>2. /\ buf' \in Buffers /\ UNCHANGED <<reply, booted, enabled, ready>>
        /\ pc = "idle" /\ booted = 3
    BY <1>0, <1>3, DataAssumption DEF ReadBlock, bootVars, BootInv, Buffers
  <2> QED BY <1>3, <2>1, <2>2, SubmitInv DEF ReadBlock, Queues
<1>4. CASE UNCHANGED vars
  <2>1. UNCHANGED <<pc, booted, cur, tail, head, phase, sq, cq, buf, reply, enabled,
                    ready, sqBell, cqBell, made, dHead, dTail, dPhase, done, disk>>
    BY <1>4 DEF vars, bootVars, ringVars, devVars
  <2>2. TypeOK' /\ BootInv' /\ WaitInv' /\ MadeInv'
    BY <2>1 DEF NvInv, TypeOK, BootInv, WaitInv, MadeInv, Probing, Done, StatusOkOf
  <2>3. \A q \in Queues : RingInv(q)'
    BY <2>1 DEF NvInv, RingInv, LapInv, Quiet, InFlight
  <2> QED BY <2>2, <2>3 DEF NvInv
<1> QED
  BY <1>1, <1>2, <1>3, <1>4, SimpleSteps, FinishInv, FollowStep, ExecuteStep, PostStep
  DEF Next, Driver, Callers, Device

\* The driver and the controller stay in step over every wrap of either queue.
THEOREM NvmeInvariant == Spec => []NvInv
<1> QED BY InitInv, StepInv, PTL DEF Spec

LEMMA OwnFromInv == NvInv => OwnCompletion
<1> SUFFICES ASSUME NvInv, pc = "wait", Posted(cur.q)
             PROVE  dHead[cur.q] = sqBell[cur.q] /\ done = NoDone
  BY DEF OwnCompletion
<1> DEFINE q == cur.q
<1>1. q \in Queues /\ InFlight(q) /\ LapInv(q) /\ sqBell[q] = tail[q]
  BY DEF NvInv, WaitInv, RingInv
<1>2. /\ head[q] \in 0..QSize(q) - 1 /\ phase[q] \in {0, 1}
      /\ dPhase[q] \in {0, 1}
  BY <1>1, QueueSizes DEF NvInv, TypeOK
<1>3. ~(dTail[q] = head[q] /\ dPhase[q] = phase[q])
  BY <1>1, <1>2 DEF LapInv, Posted
<1> QED BY <1>1, <1>3 DEF InFlight

\* The completion the driver's spin loop accepts is always the one of the
\* command it has just submitted, whatever the queue's size and however often
\* it has wrapped.
THEOREM CompletionIsOwn == Spec => []OwnCompletion
<1> QED BY NvmeInvariant, OwnFromInv, PTL

\* The driver only waits on a queue the controller has created.
THEOREM DoorbellIsHeard == Spec => []DoorbellHeard
<1>1. NvInv => DoorbellHeard
  BY DEF NvInv, WaitInv, MadeInv, BootInv, Probing, DoorbellHeard, Queues
<1> QED BY <1>1, NvmeInvariant, PTL

-----------------------------------------------------------------------------
(* The block store.                                                        *)

\* A buffer is not the empty reply, and its prefix is a block.
LEMMA Buffered ==
    ASSUME NEW b \in Buffers
    PROVE  b # NoBlock /\ Prefix(b) \in Blocks
<1>1. 1 \in 1..BufChunks /\ 1..LbaChunks \subseteq 1..BufChunks
  BY DataAssumption
<1>2. 1 \in DOMAIN b
  BY <1>1 DEF Buffers
<1>3. DOMAIN <<>> = {}
  OBVIOUS
<1>4. b # NoBlock
  BY <1>2, <1>3 DEF NoBlock
<1>5. Prefix(b) \in Blocks
  BY <1>1 DEF Prefix, Blocks, Buffers
<1> QED BY <1>4, <1>5

\* A step outside I/O that leaves the disk and the reply alone.
LEMMA OutsideIo ==
    ASSUME ~Waiting, ~Waiting', UNCHANGED <<disk, reply>>
    PROVE  UNCHANGED Storage!storeVars
BY DEF Storage!storeVars

\* Submitting an I/O command is the abstract call.
LEMMA CallStep ==
    ASSUME NvInv, NvInv', pc = "idle", NEW lba \in Lbas, NEW op \in {"write", "read"},
           Submit("io", [op |-> op, lba |-> lba]), reply' = reply
    PROVE  Storage!Call
<1>1. ~Waiting /\ Waiting' /\ disk' = disk
  BY DEF Waiting, Submit, devVars
<1>2. cur'.op = op /\ cur'.lba = lba
  BY DEF Submit
<1>3. ~Applied'
  <2>1. "io" \in Queues /\ Quiet("io") /\ sqBell["io"] = tail["io"]
        /\ tail["io"] \in Nat /\ tail["io"] < QSize("io") /\ sqBell \in [Queues -> Nat]
    BY DEF NvInv, RingInv, TypeOK, Queues
  <2>2. sqBell'["io"] = Succ("io", tail["io"]) /\ dHead' = dHead
    BY <2>1, AfterIsSucc DEF Submit, devVars
  <2>3. Succ("io", tail["io"]) # tail["io"]
    BY <2>1, SuccFacts
  <2> QED BY <2>1, <2>2, <2>3 DEF Applied, Quiet
<1>4. Prefix(buf') \in Blocks
  BY Buffered DEF NvInv, TypeOK
<1>5. [op |-> op, lba |-> lba, block |-> IF op = "write" THEN Prefix(buf') ELSE NoBlock]
        \in Storage!Calls
  BY <1>4 DEF Storage!Calls
<1> QED BY <1>1, <1>2, <1>3, <1>5 DEF Storage!Call, Storage!NoOutcome, Prefix

\* The controller's execution of an I/O command is the abstract application.
LEMMA ApplyStep ==
    ASSUME NvInv, NvInv', DevExecute("io")
    PROVE  Storage!Apply
<1>0. "io" \in Queues /\ TypeOK /\ RingInv("io") /\ WaitInv
  BY DEF NvInv, Queues
<1>1. /\ pc = "wait" /\ cur.q = "io" /\ tail["io"] # head["io"]
      /\ dHead["io"] = head["io"] /\ sqBell["io"] = tail["io"]
      /\ sq["io"][dHead["io"]] = [op |-> cur.op, lba |-> cur.lba]
      /\ dHead' = [dHead EXCEPT !["io"] = tail["io"]]
  BY <1>0, ExecuteWho DEF RingInv
<1>2. UNCHANGED <<pc, cur, reply, sqBell>>
  BY DEF DevExecute, ringVars
<1>3. Waiting /\ Waiting' /\ ~Applied /\ Applied'
  <2>1. dHead \in [Queues -> Nat]
    BY <1>0 DEF TypeOK
  <2> QED BY <1>0, <1>1, <1>2, <2>1 DEF Waiting, Applied
<1>4. cur.op \in {"write", "read"} /\ cur.lba \in Lbas
  BY <1>0, <1>1 DEF WaitInv, TypeOK
<1>5. PICK ok \in BOOLEAN, moved \in BOOLEAN :
        /\ ok => moved
        /\ done' = [q |-> "io", ok |-> ok]
        /\ disk' = IF moved /\ cur.op = "write"
                   THEN [disk EXCEPT ![cur.lba] = Prefix(buf)] ELSE disk
        /\ buf' = IF moved /\ cur.op = "read"
                  THEN [k \in 1..BufChunks |->
                          IF k <= LbaChunks THEN disk[cur.lba][k] ELSE buf[k]]
                  ELSE buf
  BY <1>1, <1>4 DEF DevExecute, Prefix
<1>6. StatusOk' = ok
  BY <1>5 DEF StatusOk, StatusOkOf, NoDone
<1>7. cur.op = "write" => buf' = buf
  BY <1>5
<1>8. cur.op = "read" /\ ok => Prefix(buf') = disk[cur.lba]
  <2> SUFFICES ASSUME cur.op = "read", ok PROVE Prefix(buf') = disk[cur.lba]
    OBVIOUS
  <2>1. disk[cur.lba] \in [1..LbaChunks -> Chunks]
    BY <1>0, <1>4 DEF TypeOK, Blocks
  <2>2. \A k \in 1..LbaChunks : k \in 1..BufChunks /\ k <= LbaChunks
    BY DataAssumption
  <2>3. \A k \in 1..LbaChunks : buf'[k] = disk[cur.lba][k]
    BY <1>5, <2>2
  <2> QED BY <2>1, <2>3 DEF Prefix
<1> DEFINE c == [op |-> cur.op, lba |-> cur.lba,
                 block |-> IF cur.op = "write" THEN Prefix(buf) ELSE NoBlock]
<1>9. CASE ok
  <2>1. disk' = IF c.op = "write" THEN [disk EXCEPT ![c.lba] = c.block] ELSE disk
    BY <1>5, <1>9
  <2>2. (IF cur'.op = "read" THEN Prefix(buf') ELSE NoBlock)
          = IF c.op = "read" THEN disk[c.lba] ELSE NoBlock
    BY <1>2, <1>8, <1>9
  <2> QED
    BY <1>2, <1>3, <1>6, <1>7, <1>9, <2>1, <2>2 DEF Storage!Apply, Prefix
<1>10. CASE ~ok
  <2>1. disk' = disk \/ (c.op = "write" /\ disk' = [disk EXCEPT ![c.lba] = c.block])
    BY <1>5
  <2> QED
    BY <1>2, <1>3, <1>6, <1>7, <1>10, <2>1 DEF Storage!Apply, Storage!NoOutcome, Prefix
<1> QED BY <1>9, <1>10

\* Taking the completion is the abstract return.
LEMMA ReturnStep ==
    ASSUME NvInv, FinishIo
    PROVE  Storage!Return
<1>1. Waiting /\ ~Waiting' /\ disk' = disk /\ pc = "wait" /\ cur.q = "io"
  BY DEF FinishIo, Consume, Waiting, devVars
<1>2. Applied /\ done = NoDone
  BY <1>1, OwnFromInv DEF OwnCompletion, Applied, FinishIo, Consume
<1>3. StatusOk = cq["io"][head["io"]].ok
  BY <1>2 DEF StatusOk, StatusOkOf
<1>4. reply' = [ok |-> StatusOk,
                data |-> IF StatusOk /\ cur.op = "read" THEN buf ELSE NoBlock]
  BY <1>3 DEF FinishIo
<1>5. buf # NoBlock
  BY Buffered DEF NvInv, TypeOK
<1>6. StatusOk \in BOOLEAN
  <2>1. head["io"] \in 0..QSize("io") - 1 /\ cq["io"] \in [0..QSize("io") - 1 -> Comps]
    BY QueueSizes DEF NvInv, TypeOK, Queues
  <2> QED BY <1>3, <2>1 DEF Comps
<1>7. [ok |-> reply'.ok,
       block |-> IF reply'.data = NoBlock THEN NoBlock ELSE Prefix(reply'.data)]
        = IF StatusOk
          THEN [ok |-> TRUE, block |-> IF cur.op = "read" THEN Prefix(buf) ELSE NoBlock]
          ELSE [ok |-> FALSE, block |-> NoBlock]
  BY <1>4, <1>5, <1>6
<1> QED BY <1>1, <1>2, <1>7
  DEF Storage!Return, Storage!NoCall, Storage!NoOutcome, Prefix

\* Posting a completion is invisible: the status moves from the controller to
\* the entry at the driver's head.
LEMMA PostStutters ==
    ASSUME NvInv, DevPost("io")
    PROVE  UNCHANGED Storage!storeVars
<1>1. "io" \in Queues /\ TypeOK /\ BootInv /\ WaitInv /\ \A r \in Queues : RingInv(r)
  BY DEF NvInv, Queues
<1>2. /\ cq' = [cq EXCEPT !["io"][head["io"]] = [phase |-> phase["io"], ok |-> done.ok]]
      /\ done' = NoDone
      /\ UNCHANGED <<pc, cur, buf, reply, head, sqBell, dHead, disk>>
  BY <1>1, PostWho
<1>3. done # NoDone
  BY DEF DevPost, NoDone
<1>4. cq'["io"][head["io"]].ok = done.ok
  <2>1. head["io"] \in 0..QSize("io") - 1
    BY <1>1, QueueSizes DEF TypeOK
  <2>2. cq["io"] \in [0..QSize("io") - 1 -> Comps] /\ DOMAIN cq = Queues
    BY <1>1 DEF TypeOK
  <2> QED BY <1>1, <1>2, <2>1, <2>2
<1>5. StatusOk' = StatusOk
  BY <1>2, <1>3, <1>4 DEF StatusOk, StatusOkOf
<1> QED BY <1>2, <1>5 DEF Storage!storeVars, Waiting, Applied, Prefix

LEMMA StoreStep ==
    ASSUME NvInv, NvInv', [Next]_vars
    PROVE  [Storage!Next]_(Storage!storeVars)
<1>1. CASE \/ Disable \/ ConfigureAndEnable \/ Online \/ SubmitAdmin \/ FinishAdmin
           \/ DevFollow
  <2>1. ~Waiting /\ ~Waiting' /\ UNCHANGED <<disk, reply>>
    <3>1. CASE Disable \/ ConfigureAndEnable \/ Online
      BY <3>1 DEF Disable, ConfigureAndEnable, Online, Waiting, devVars
    <3>2. CASE SubmitAdmin
      BY <3>2 DEF SubmitAdmin, Submit, Waiting, devVars
    <3>3. CASE FinishAdmin
      BY <3>3 DEF FinishAdmin, Consume, Waiting, devVars
    <3>4. CASE DevFollow
      <4>1. ready # enabled /\ ready \in BOOLEAN /\ enabled \in BOOLEAN
        BY <3>4 DEF NvInv, DevFollow, TypeOK
      <4>2. ~(ready /\ enabled)
        BY <4>1
      <4>3. Probing
        BY <4>2 DEF NvInv, BootInv
      <4> QED BY <3>4, <4>3 DEF Probing, DevFollow, Waiting
    <3> QED BY <1>1, <3>1, <3>2, <3>3, <3>4
  <2> QED BY <2>1, OutsideIo
<1>2. ASSUME NEW data \in Payloads, WriteTooLong(data) PROVE Storage!Refuse
  <2>1. ~Waiting /\ ~Waiting' /\ UNCHANGED disk /\ reply' = NoReply
    BY <1>2 DEF WriteTooLong, Waiting, devVars
  <2> QED BY <2>1 DEF Storage!Refuse, NoReply, Storage!NoOutcome
<1>3. ASSUME NEW lba \in Lbas, NEW data \in Payloads, WriteBlock(lba, data)
      PROVE  Storage!Call
  BY <1>3, CallStep DEF WriteBlock
<1>4. ASSUME NEW lba \in Lbas, ReadBlock(lba) PROVE Storage!Call
  BY <1>4, CallStep DEF ReadBlock
<1>5. CASE FinishIo
  BY <1>5, ReturnStep DEF Storage!Next
<1>6. ASSUME NEW q \in Queues, DevExecute(q)
      PROVE  Storage!Apply \/ UNCHANGED Storage!storeVars
  <2>1. CASE q = "io"
    BY <1>6, <2>1, ApplyStep
  <2>2. CASE q # "io"
    <3>1. q = "admin" /\ TypeOK /\ RingInv(q) /\ WaitInv
      BY <2>2 DEF Queues, NvInv
    <3>2. pc = "wait" /\ cur.q = "admin"
          /\ sq[q][dHead[q]] = [op |-> cur.op, lba |-> cur.lba]
      BY <1>6, <3>1, ExecuteWho
    <3>3. cur.op \in {"identify", "createCQ", "createSQ"}
      <4>1. booted \in 0..2 /\ cur.op = AdminCmds[booted + 1]
        BY <3>1, <3>2 DEF WaitInv, TypeOK
      <4> QED BY <4>1 DEF AdminCmds
    <3>4. ~Waiting /\ ~Waiting' /\ UNCHANGED <<disk, reply>>
      BY <1>6, <3>2, <3>3 DEF DevExecute, Waiting
    <3> QED BY <3>4, OutsideIo
  <2> QED BY <2>1, <2>2
<1>7. ASSUME NEW q \in Queues, DevPost(q) PROVE UNCHANGED Storage!storeVars
  <2>1. CASE q = "io"
    BY <1>7, <2>1, PostStutters
  <2>2. CASE q # "io"
    <3>1. TypeOK /\ BootInv /\ WaitInv /\ \A r \in Queues : RingInv(r)
      BY DEF NvInv
    <3>2. cur.q = q
      BY <1>7, <3>1, PostWho
    <3>3. ~Waiting /\ ~Waiting' /\ UNCHANGED <<disk, reply>>
      BY <1>7, <2>2, <3>2 DEF DevPost, Waiting
    <3> QED BY <3>3, OutsideIo
  <2> QED BY <2>1, <2>2
<1>8. CASE UNCHANGED vars
  <2>1. UNCHANGED <<pc, cur, buf, reply, head, cq, sqBell, dHead, done, disk>>
    BY <1>8 DEF vars, ringVars, devVars
  <2> QED BY <2>1 DEF Storage!storeVars, Waiting, Applied, StatusOk, StatusOkOf, Prefix
<1> QED
  BY <1>1, <1>2, <1>3, <1>4, <1>5, <1>6, <1>7, <1>8
  DEF Next, Driver, Callers, Device, Storage!Next

\* write_block and read_block implement the block store for queues of every
\* size: each call takes effect once and is answered with its own outcome.
THEOREM StoreRefinement == Spec => ImplementsStore
<1>1. Init => Storage!Init
  BY DEF Init, Storage!Init, Waiting, Storage!NoCall, Storage!NoOutcome, NoReply
<1>2. NvInv /\ NvInv' /\ [Next]_vars => [Storage!Next]_(Storage!storeVars)
  BY StoreStep
<1> QED BY <1>1, <1>2, NvmeInvariant, PTL DEF Spec, ImplementsStore, Storage!Spec

\* Ring indices, phases, doorbells and the controller's registers keep their
\* types for queues of every size.
THEOREM NvmeTypes == Spec => []TypeOK
<1>1. NvInv => TypeOK
  BY DEF NvInv
<1> QED BY <1>1, NvmeInvariant, PTL
=============================================================================
