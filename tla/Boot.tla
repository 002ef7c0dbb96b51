-------------------------------- MODULE Boot --------------------------------
(***************************************************************************)
(* kernel_main up to the event loop (main.rs), with the parts it calls:    *)
(* the heap, the scan of the PCI bus and the drivers it starts (pci.rs),   *)
(* the frames they take (FrameAllocator), the check of the vault file by   *)
(* the virtual machine (MdoVm), and, when the kernel is up, the network    *)
(* card (E1000).  What a driver says to its device is in NvmeQueue and     *)
(* VirtioGpu.                                                              *)
(***************************************************************************)
EXTENDS FrameAllocator, MdoVm, E1000

CONSTANTS
    Boards,         \* what may be on the bus: slot -> [multi, fn], fn: function -> device
    Heap,           \* the heap's pages
    Pages,          \* those and the pages of the devices
    QueuePages,     \* DMA frames of the GPU's control queue (3)
    BackingPages,   \* DMA frames of the GPU's back buffer (2025)
    OldCodes        \* bytecode that a file vault.mdo of an earlier boot may have

\* A device: [kind, region (its pages), mem (BAR 0 is memory)] or NoDevice.
NoDevice == [kind |-> "none", region |-> {}, mem |-> FALSE]
NoDrive == <<-1, -1>>

ASSUME BootAssumption ==
    /\ QueuePages \in Nat \ {0} /\ BackingPages \in Nat \ {0}
    /\ IsFiniteSet(Heap)
    /\ OldCodes \subseteq Seq(Byte)

\* The slots of a bus are numbered from 0, and devices keep to their pages.
ASSUME BoardsAssumption ==
    /\ Heap \subseteq Pages
    /\ \A b \in Boards :
        /\ \E last \in DOMAIN b : last \in Nat /\ DOMAIN b = 0..last
        /\ \A s \in DOMAIN b : \A f \in DOMAIN b[s].fn : b[s].fn[f].region \subseteq Pages

VARIABLES
    boot,       \* what kernel_main does next
    board,      \* the bus
    at,         \* slot and function to look at next
    nvme,       \* the function NVME_DRIVE drives, or NoDrive
    net,        \* the function E1000_NET drives, or NoDrive
    vault       \* the vault file: its bytecode, and whether its text is UTF-8

bootVars == <<boot, board, at, nvme, net, vault>>
vars == <<bootVars, memVars, vmVars, netVars>>

PciSlots == DOMAIN board
LastSlot == CHOOSE s \in PciSlots : \A t \in PciSlots : t <= s
Device(s, f) == IF f \in DOMAIN board[s].fn THEN board[s].fn[f] ELSE NoDevice
Here == Device(at[1], at[2])
LastFunc == 7
Zeros == BoolHash(FALSE)
All(b) == [k \in 1..HashLen |-> b]

\* The contexts kernel_main presents, and the bytecode it writes.
BootContext(requestor) ==
    [x \in Vars |->
        IF x = VarRequestor THEN All(requestor) ELSE Zeros]
BadContext == BootContext(187)      \* 0xBB
GoodContext == BootContext(170)     \* 0xAA
ForgedCode == <<OpPushVar, VarRequestor, OpPushVar, VarOwner, OpEq, OpAssert, 66, OpHaltOk>>

\* The file in the vault: the one kernel_main forges, or one that was there.
Vaults ==
    {[code |-> ForgedCode, utf8 |-> TRUE]} \cup [code : OldCodes, utf8 : BOOLEAN]
NoVault == [code |-> <<>>, utf8 |-> TRUE]
-----------------------------------------------------------------------------
Init ==
    /\ MemInit /\ VmInit /\ NetInit
    /\ board \in Boards /\ boot = "heap" /\ at = <<0, 0>>
    /\ nvme = NoDrive /\ net = NoDrive /\ vault = NoVault

KeepVm == UNCHANGED vmVars
KeepNet == UNCHANGED netVars
KeepMem == UNCHANGED memVars

\* allocator::init_heap; kernel_main panics on an error.
StartHeap ==
    /\ boot = "heap"
    /\ \E tables \in 0..MaxTables : InitHeap(Heap, tables)
    /\ boot' = IF granted' = "ok" THEN "scan" ELSE "panic"
    /\ UNCHANGED <<board, at, nvme, net, vault>> /\ KeepVm /\ KeepNet

\* Mutation of Following: functions beyond the first are not looked at.
FollowingSlotOnly == <<at[1] + 1, 0>>

\* Mutation of Following: the last function of a slot leads back to the first.
FollowingRound ==
    IF Device(at[1], 0) = NoDevice \/ ~board[at[1]].multi
    THEN <<at[1] + 1, 0>> ELSE <<at[1], (at[2] + 1) % (LastFunc + 1)>>

\* Where enumerate_buses looks after slot and function at: at the other
\* functions only if the slot has a first one and its header says multi.
Following ==
    IF at[2] = LastFunc \/ Device(at[1], 0) = NoDevice \/ ~board[at[1]].multi
    THEN <<at[1] + 1, 0>> ELSE <<at[1], at[2] + 1>>

\* check_device by kind of device.
Probe ==
    /\ boot = "scan" /\ at[1] <= LastSlot
    /\ IF (Here.kind = "virtio") \/ (Here.kind \in {"nvme", "e1000"} /\ Here.mem)
       THEN boot' = Here.kind /\ UNCHANGED at
       ELSE at' = Following /\ UNCHANGED boot
    /\ UNCHANGED <<board, nvme, net, vault>> /\ KeepMem /\ KeepVm /\ KeepNet

\* NVMe: no memory for its mapping is a panic.
StartNvme ==
    /\ boot = "nvme"
    /\ \E tables \in 0..MaxTables : MapMmio(Here.region, tables)
    /\ IF granted' = "ok" THEN boot' = "scan" /\ at' = Following /\ nvme' = at
       ELSE boot' = "panic" /\ UNCHANGED <<at, nvme>>
    /\ UNCHANGED <<board, net, vault>> /\ KeepVm /\ KeepNet

\* E1000: no mapping, no driver.
MapE1000 ==
    /\ boot = "e1000"
    /\ \E tables \in 0..MaxTables : MapMmio(Here.region, tables)
    /\ IF granted' = "ok" THEN boot' = "e1000 new" /\ UNCHANGED at
       ELSE boot' = "scan" /\ at' = Following
    /\ UNCHANGED <<board, nvme, net, vault>> /\ KeepVm /\ KeepNet

\* E1000Driver::new: two rings, a transmit buffer, and the receive buffers,
\* each a DMA frame of its own; a panic if one cannot be had.
NewE1000 ==
    /\ boot = "e1000 new"
    /\ AllocateSingles(3 + NumRx) /\ UNCHANGED mapped
    /\ IF granted' = "ok" THEN boot' = "scan" /\ at' = Following /\ net' = at
       ELSE boot' = "panic" /\ UNCHANGED <<at, net>>
    /\ UNCHANGED <<board, nvme, vault>> /\ KeepVm /\ KeepNet

\* VirtIO: the scan goes on without a GPU if the capabilities are missing or,
\* with the common structure mapped, the device refuses.
RefuseVirtio ==
    /\ boot \in {"virtio", "virtio notify"}
    /\ boot' = "scan" /\ at' = Following
    /\ UNCHANGED <<board, nvme, net, vault>> /\ KeepMem /\ KeepVm /\ KeepNet

\* ... or if the memory for a step cannot be had.
GoOnOrGiveUp(stage) ==
    IF granted' = "ok" THEN boot' = stage /\ UNCHANGED at
    ELSE boot' = "scan" /\ at' = Following

\* The common and the notify structure are mapped, a page each.
MapVirtio ==
    /\ boot \in {"virtio", "virtio notify"}
    /\ \E p \in Here.region, tables \in 0..MaxTables : MapMmio({p}, tables)
    /\ \/ boot = "virtio" /\ GoOnOrGiveUp("virtio notify")
       \/ boot = "virtio notify" /\ GoOnOrGiveUp("virtio queue")
    /\ UNCHANGED <<board, nvme, net, vault>> /\ KeepVm /\ KeepNet

\* The control queue, its mailbox, and the back buffer.
AllocateVirtio ==
    /\ \/ boot = "virtio queue" /\ AllocateDmaFrames(QueuePages) /\ GoOnOrGiveUp("virtio mailbox")
       \/ boot = "virtio mailbox" /\ AllocateDmaFrames(1) /\ GoOnOrGiveUp("virtio backing")
       \/ /\ boot = "virtio backing" /\ AllocateDmaFrames(BackingPages)
          /\ boot' = "scan" /\ at' = Following
    /\ UNCHANGED <<board, nvme, net, vault>> /\ KeepVm /\ KeepNet

\* The vault: save_file keeps the file of an earlier boot.  The file is then
\* read in the name of another, and of the owner.  Without a drive neither
\* call gets to the virtual machine, nor does one whose file is missing, has no
\* header or cannot be read; its error is dropped.
ReadVault ==
    /\ boot = "scan" /\ at[1] > LastSlot
    /\ IF nvme = NoDrive THEN boot' = "up" /\ UNCHANGED vault /\ KeepVm
       ELSE /\ boot' = "bad" /\ vault' \in Vaults
            /\ Call(vault'.code, BadContext) \/ KeepVm
    /\ UNCHANGED <<board, at, nvme, net>> /\ KeepMem /\ KeepNet

VmRuns ==
    /\ boot \in {"bad", "good"}
    /\ VmStep
    /\ UNCHANGED bootVars /\ KeepMem /\ KeepNet

ReadVaultAsOwner ==
    /\ boot = "bad" /\ verdict # Running
    /\ boot' = "good" /\ (Call(vault.code, GoodContext) \/ Forget)
    /\ UNCHANGED <<board, at, nvme, net, vault>> /\ KeepMem /\ KeepNet

\* What the owner reads is printed as UTF-8, by an unwrap.
PrintVault ==
    /\ boot = "good" /\ verdict # Running
    /\ boot' = IF verdict = Granted /\ ~vault.utf8 THEN "panic" ELSE "up"
    /\ vault' = NoVault
    /\ Forget
    /\ UNCHANGED <<board, at, nvme, net>> /\ KeepMem /\ KeepNet

\* The kernel is up: commands send packets, the card works.
Traffic ==
    /\ boot = "up" /\ net # NoDrive
    /\ NetStep
    /\ UNCHANGED bootVars /\ KeepMem /\ KeepVm

Next ==
    \/ StartHeap \/ Probe \/ StartNvme \/ MapE1000 \/ NewE1000
    \/ RefuseVirtio \/ MapVirtio \/ AllocateVirtio
    \/ ReadVault \/ VmRuns \/ ReadVaultAsOwner \/ PrintVault
    \/ Traffic

\* The kernel runs until it is up; nothing interrupts it for good.
Spec == Init /\ [][Next]_vars /\ WF_vars(Next)
-----------------------------------------------------------------------------
TypeOK ==
    /\ MemTypeOK /\ VmTypeOK /\ NetTypeOK
    /\ board \in Boards /\ at \in Nat \X (0..LastFunc)
    /\ boot \in {"heap", "scan", "nvme", "e1000", "e1000 new", "virtio", "virtio notify",
                 "virtio queue", "virtio mailbox", "virtio backing",
                 "bad", "good", "up", "panic"}
    /\ {nvme, net} \subseteq {NoDrive} \cup (PciSlots \X (0..LastFunc))
    /\ vault \in Vaults \cup {NoVault} /\ mapped \subseteq Pages

\* A function answers on the bus if its slot has a function 0 and, for any
\* other, that one is marked as one of several.
Answers(s, f) ==
    /\ Device(s, f) # NoDevice /\ Device(s, 0) # NoDevice
    /\ f = 0 \/ board[s].multi
Drivable(kind) ==
    {d \in PciSlots \X (0..LastFunc) :
        /\ Answers(d[1], d[2])
        /\ Device(d[1], d[2]).kind = kind /\ Device(d[1], d[2]).mem}

\* When the scan is over, NVME_DRIVE drives a controller that answers on the
\* bus, unless there is none: the file system never finds the drive missing
\* because its function came behind another one, an odd one or a failed one
\* (pci.rs, lines 34 to 50 and 74 to 108).  A drive that cannot be started
\* ends in a panic, never in a kernel without files.
DriveFound ==
    boot \in {"bad", "good", "up"} =>
        IF Drivable("nvme") = {} THEN nvme = NoDrive ELSE nvme \in Drivable("nvme")

\* Boot comes to an end: the scan, whatever is on the bus, and the virtual
\* machine, whatever the file says.
BootEnds == <>(boot \in {"up", "panic"})
=============================================================================
