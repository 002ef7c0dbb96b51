# TLA+ verification of PolymorphOS

PolymorphOS (`kernel/`) is a bare-metal x86-64 kernel in Rust: a cooperative
async executor fed by interrupts, its own heap allocator, an NVMe driver with a
small file system on top, drivers for a VirtIO GPU and an E1000 card, and a
desktop drawn by kernel tasks. This directory holds the TLA+ modules that model
it, the TLC configurations that check them on small instances, and the proofs
that TLAPS checks for every instance. Paths below are relative to `kernel/src/`.

## The system: inventory

There is one CPU and no preemption between tasks. Concurrency comes from two
places: interrupt handlers, which may run between any two instructions of a task
while interrupts are enabled, and devices, which work on shared memory while the
driver spins.

| Component | State | Operations | What makes it correct |
|---|---|---|---|
| Executor (`task/executor.rs`, `task/mod.rs`) | registry, ready queue (100), waker cache | spawn, run_ready_tasks, sleep_if_idle, wake_task | no wakeup is lost; the CPU never halts on work; the queue never overflows |
| Input streams (`task/keyboard.rs`, `mouse_stream.rs`, `serial_stream.rs`) | ring, HEAD, TAIL, an AtomicWaker each | add_scancode / add_byte (interrupt), poll_next (task) | bounded FIFO: in order, once, dropped only when full |
| Interrupts (`interrupts.rs`) | none | timer, keyboard, mouse, serial | end an `hlt`, feed the rings |
| Heap allocator (`allocator/mict_global_allocator.rs`, `allocator.rs`) | bitmap of 64-byte blocks | init, alloc, dealloc | allocations disjoint, aligned; the bitmap exact; null only when full |
| NVMe driver (`nvme.rs`) | two queue pairs, heads, tails, phase, one DMA buffer | bring-up, submit_admin_cmd, submit_io_cmd, write_block, read_block | a completion is never mistaken; a block store |
| File system (`mfs.rs`) | the MFT in LBA 0, extents | save, find, read, delete, rename | committed files stay intact over failures; reads return the named file |
| Access VM (`mdo_vm.rs`) | 32-entry stack, pc | execute_mict_check | terminates, stays in bounds, refuses by default |
| Frames (`memory.rs`) | next frame index | allocate_frame, map_mmio, allocate_dma_frames | no frame twice; DMA runs contiguous |
| VirtIO GPU (`virtio_gpu.rs`, `virtqueue.rs`, `virtio_pci.rs`) | descriptor free list, rings, mailbox | handshake, create, attach, scanout, flush_to_screen | the free list stays whole; an answer belongs to its command; the last frame is shown |
| E1000 (`e1000.rs`) | transmit and receive rings, one staging buffer | send_ping, send_arp_request, poll_receive | packets whole, once and in order |
| Windows, desktop (`splat.rs`, `gpu_driver.rs`, tasks of `main.rs`) | windows, z-order, animation, cursor, button | spawn, close, maximize, restore, focus, render, mouse packets | the last change is drawn; one window in front; animations end |
| PCI (`pci.rs`) and boot (`main.rs`) | none | enumerate_buses, check_device, kernel_main | every reachable drive is started; boot ends |

They interact as follows. Interrupt handlers put bytes into the rings and wake
the reading task through its AtomicWaker, which pushes the task's id on the
ready queue. The tasks run the desktop and the terminal, whose commands call the
file system; the file system calls the NVMe driver under the `NVME_DRIVE` lock.
Every allocation of every part goes to the heap allocator, which disables
interrupts for its duration. `PROJECT.json` lists every component, also those
left out, and the hazards of the code line by line.

The hard behaviours: an interrupt between a check and what depends on it
(empty ring / register; empty queue / hlt); an id queued twice; queue wraps and
phase bits; commands that fail half way; a device slower than the driver
expects; a crash between two block writes; buffers, queues and tables at their
limits.

## Modules

| Module | Models |
|---|---|
| `InputChannel` | abstract: one bounded FIFO of bytes per device |
| `MictExecutor` | the executor, the streams and the interrupts together |
| `ExecutorProofs` | its invariant and the refinement of `InputChannel` |
| `MictAllocator` | the heap allocator, a step for each round of its scan |
| `AllocatorProofs` | its invariant, with the loop invariant of the scan |
| `BlockStore` | abstract: one call at a time, applied once, answered with its outcome |
| `NvmeQueue` | the NVMe driver and, as environment, the controller |
| `NvmeProofs` | their invariant and the refinement of `BlockStore` |
| `MictFileSystem` | the file system on a disk that may fail and a CPU that may stop |
| `FileSystemProofs` | its invariant, and what is left of a table's text that was cut |
| `FrameAllocator` | physical frames, DMA runs, MMIO mappings |
| `MdoVm` | the access virtual machine, a step for each instruction |
| `E1000` | the network driver and, as environment, the card |
| `Boot` | kernel_main and the scan of the bus, composing the three above |
| `BootProofs` | the invariants of the three parts and of the scan, and that they hold of the booting kernel |
| `VirtioGpu` | handshake, control queue and frames, with the device |
| `GpuProofs` | its invariant, the free list and the last frame |
| `Desktop` | mouse packets, compositor, windows and physics |
| `DesktopProofs` | its invariant: windows, packets and what is on its way |
| `SetInduction` | induction and recursion over the numbers, stated with sets |
| `MCExecutor`, `MCAllocator`, `MCNvme`, `MCNvmeSector`, `MCFileSystem`, `MCBoot`, `MCGpu`, `MCDesktop` | instances for TLC |

A comment that begins "Mutation of X" marks an operator that changes X the way a
bug in that code would. No specification uses it; each property is shown to fail
when X is replaced by it.

### MictExecutor

`pc` says where the CPU is in `run`, in the `poll_next` of the stream whose task
is `cur`, or in a self-waking task. Every read or write of something an
interrupt also touches is a step of its own: the check of HEAD and TAIL, the two
halves of `AtomicWaker::register`, the second check, `take`, the read of the slot,
the move of TAIL, `cli`, the look at the queue, and `sti; hlt`, which is one step
because `sti` takes effect after the next instruction. `InputInterrupt` and
`TimerInterrupt` may run between any two steps while `intf` holds. The AtomicWaker
is a library type, modelled by its three states. A byte is modelled by the number
of its arrival, so that order, loss and repetition show. Tasks are of two kinds:
`Streams`, which read one device for ever, and `Tickers`, which wake themselves in
every poll like `physics_tick_task`; those in `Mortal` may complete.

### MictAllocator

`hot` is the set of blocks whose bit is set; `live` is what callers hold. `Alloc`
starts a scan, and `SkipBlock`, `HotBlock`, `ExtendRun`, `Grant`, `OutOfMap` and
`ReturnNull` are the ways a round of the loop can go. alloc runs with interrupts
disabled and the lock held, so no other operation interleaves with it.

### NvmeQueue

`Disable`, `ConfigureAndEnable` and `Online` are the bring-up, followed by the three
admin commands; then callers write and read blocks. `Submit` is the part of both
`submit_*_cmd` functions before their spin loop and `Consume` the part after it.
The controller follows CC.EN, executes commands between its head and the
doorbell, and posts completions with its phase bit unless the completion queue
is full by the driver's doorbell. It takes any time for each step, may answer
any command with an error, and on an error may or may not have moved the data.
Buffers are made of pieces; a logical block is the first `LbaChunks` of them.
There is one controller.

### MictFileSystem

`mft` is what `read_mft` makes of LBA 0, `disk` the data blocks, `entries` the copy of
the table an operation works on. `SaveFile`, `WriteData` (one block), `PushEntry` and
`WriteMft` are the parts of `save_file`; `DeleteFile` and `RenameFile` run up to the same
`WriteMft`; `ReadFile` only reads and is one step. `save_file` writes any bytes, so
every block, not only the first of a file, may begin with what `verify_mdo_access`
takes for a header: `WriteData` chooses it block by block. Each block command may fail, with
its data written or not, as `BlockStore` allows, and `Crash` may come between any two.
The table's text is modelled by its lengths: `Stored` is the list that is left of a
text cut at `MftBytes`, with the last count read from the digits that remain. A
header's bytecode is the set of contexts it accepts. Names have no colon and no
line break and are ASCII; the hazards list what other names do. `tag` in an entry
and in a block says which `save_file` wrote it and exists only in the model. The
kernel's tasks do not yield inside an operation, so two never interleave.

### Boot, FrameAllocator, MdoVm, E1000

`Boot` extends the three modules and says when each of them moves. `boot` is the
place in `kernel_main` or, during the scan, the driver that `check_device` is
starting at `at` (slot and function); the bus is a function from slots to
functions, chosen in `Init`. Every request for memory may fail, and each caller
does what its code does then: the heap, the NVMe mapping and the E1000 rings
panic, the E1000 mapping and the GPU are given up. The vault is read only if there
is a drive, and a read may still end before it gets to the virtual machine (a block
that fails, a file that is not there or has no header). What a driver says to its
device is left to `NvmeQueue` and `VirtioGpu`.

`FrameAllocator` counts the frames asked for (`next`) and records the runs handed
out (`claims`) as the drivers use them: `pages` frames from the first, whatever the
allocator dealt after it. `MaxTables` page tables at most come with a mapping. A
mapping that meets a page in use stops there: the pages before it stay mapped.

`MdoVm` keeps the bytecode, the context, the counter and the stack. Bytes are
numbers and a hash is `HashLen` of them; an instruction is a step, with every early
return. At boot the file may be the one `forge_dummy_mdo_payload` writes, or one
an earlier boot left (`save_file` keeps it). `Compile` and `Meaning` are not code of
the repository: they say what a policy is and which bytecode states it, so that
`PolicyHonoured` can compare the machine with it.

`E1000` splits `transmit_packet_secure` where the card can come between: while the
packet is being copied into the staging buffer (`Stage`), and when the tail is
moved (`RingTail`). A ping's two checksums are computed on the bytes. No task of
the kernel calls `poll_receive`; it is modelled as its signature allows, the slice
it returns being borrowed until the next call.

### VirtioGpu

The driver's part is one thread of control, `stage`: the capability walk, the
steps of the handshake, three commands that spin on the used ring (`Send`,
`Receive`), then frames: the copy into the backing memory in two halves,
`FlushPrepare` (mailbox and descriptors) and `FlushPublish` (ring, doorbell, and the
blind reclaim). The device executes a command any time after the doorbell, from
whatever descriptor and mailbox it finds by then, so a late device meets the
commands of a later frame; while the driver is between the two halves of a flush
the device may see either. More entries than the ring holds make it give the
queue up (`DeviceBreaks`). Addresses, lengths and flags are left out; a descriptor
names a place in the mailbox.

### Desktop

A task's step is atomic, because tasks give the CPU up only at an `await`; only
mouse interrupts come between. `Compositor` is one byte of the mouse loop, with the
packet, the cursor, the skipped draw and `render_desktop`. `RenderDesktop` is also
what `PhysicsTick` and `Type` (a key, or a line of the log) do. Where the windows are
is left open: a click may hit any window in any place it could be hit, or the
launcher, or nothing. `ahead` is the number of frames a window has still to change
in (`max - progress`), and its depth follows `update_physics` with Rust's division.
Bytes are dropped when the queue is full. The mouse also reports changes of its other
buttons, which the compositor has no use for; `news` says whether the last report had
one, a movement or a change of the left button.

## Runs

| Run | Result | Instance |
|---|---|---|
| `executor` | holds | two streams, one task that yields and may end, rings of 3 slots, three bytes per stream |
| `executor_overflow` | `WakeNeverPanics` violated | one stream, one yielding task, a ready queue of four slots |
| `executor_hlt` | `QuietKernelHalts` violated | one stream, one task that yields for ever, fair scheduling |
| `allocator` | holds | heaps of 4 and 6 blocks, a map of 5; sizes 1, 64, 65, 150; alignments 8, 128, 256 |
| `nvme` | holds | I/O queue of 3, admin queue of 4, two LBAs, buffers of two pieces, blocks of one |
| `nvme_sector` | `WholeBufferReadsBack` violated | the same drive |
| `mfs` | holds | four names in two pairs that differ in case, four data blocks, files of 0 to 2 blocks, a table of two or three entries, three saves |
| `mfs_table` | `SavedIsListed` violated | the same disk |
| `boot` | holds | seven buses of two slots, 14 frames with two gaps, a heap of two pages; hashes of two bytes and a stack of two; policies of up to two conditions, cut at every byte; rings of two and three descriptors |
| `gpu` | holds | ten descriptors, counters modulo 20, three capability lists of which one is a circle, nine frames |
| `desktop` | holds | two mouse reports from eight, a queue of three bytes, two windows, depth 5, animations of two frames |
| `desktop_throttle` | `ThrottleOnlyDelays` violated | the same |

What the passing runs check:

* `TypeOK` of the executor: types, and an AtomicWaker is in the middle of a
  registration only while its own task is. `NoLostWakeup`: a stream with unread
  bytes has its task queued, being polled, or a waker that is about to be used. `NeverSleepsOnWork`: the CPU does not halt when
  a task is ready or a ring has data. `ImplementsChannel`: each ring refines
  `InputChannel`. `EveryByteRead`: a ring with data is drained in the end.
* `NoOverlap`, `HeatmapExact`, `GrantsAligned`; `NullMeansFull`: alloc returns null only
  if no aligned run of cold blocks would do.
* `OwnCompletion`: an entry the spin loop accepts belongs to the command just
  submitted. `DoorbellHeard`: the driver never waits on a queue the controller
  does not have. `ImplementsStore`: refinement of `BlockStore`. `CallReturns`: the
  spin loops end.
* `ExtentsDisjoint`: the extents in the table are in order, apart and on the disk.
  `CommittedIntact`: the blocks of every file in the table are the ones its save
  wrote; of a count that was cut with the table's text, those left. `UniqueNames`.
  `ReadIsGated`: what a read returns begins with a header that accepts the reader,
  and unless the file has no blocks it is just what that file's save wrote, in order.
  A file of no bytes has no block of its own: what its name reads, and what decides
  on its deletion, is the block at the start of the next file, or one that an earlier
  file left there, under whatever header that block has. `EntryLeavesByRight`:
  unless the table overflows, an entry goes only by a delete or rename of its own name that the block at its start
  accepts.
* `RunsDisjoint`: no frame is used by two drivers, or by a driver and the heap or
  the page tables. `DriveFound`: after the scan a drive that answers on the bus is
  driven. `VmInBounds`, `VmProgress`: the machine stays in its code and stack and
  gets on with every instruction. `PolicyHonoured`: bytecode that states a policy
  is judged by it, and the same bytecode cut anywhere never grants access.
  `SliceShowsNextPacket`: a slice shows the packet next in order of arrival, as long
  as it is borrowed. `SentOneByOne`: packets go out whole, once and in order, if
  each is sent after the card has finished with the last. `ChecksumsVerify`: a
  receiver's sum over header and message is minus zero. `BootEnds`.
* `FreeListSound`: the free list has `num_free` distinct descriptors. `Reported`: what
  the driver says of a bring-up command is what the device did. `LastFrameShown`:
  once the device has caught up, the screen has the last frame, whole.
  `ReachesScreen`: bring-up ends on every list, and the last frame gets there.
* `OnlyTopInFront`: when nothing moves every window but the last has sunk.
  `CursorShown`: when the mouse's bytes are used and none was lost, the button is the
  mouse's left one, and if the last report moved the mouse or changed that button,
  what was drawn last has the cursor and button as they are. After a last report of
  another button this fails (`desktop_throttle`). `AnimationEnds`: once the button
  stays up, everything comes to rest.

Why the bounds are enough. The rings and queues are longer than the greatest
number of steps they can be apart (a ring of three slots is full with two
bytes; the I/O queue wraps every third command, so entries of two laps meet), and
more bytes or commands are taken than they hold, so that every index and phase
wraps. `MaxBytes` caps the number of arrivals, `MaxSaves` the saves
(three fill the table of the instance and overflow it; `Base` 2 makes counts of
two digits small), `MapBlocks` and `HeapSizes` the blocks. In `boot` memory runs out
at every request, depending on the bus and on the tables a mapping needs;
`MaxSends` and `MaxArrivals` lap the rings. In `gpu` three commands and
the eighteen of nine frames go through a ring of ten and an index modulo 20, so a
device can fall behind by more than the ring, and the index wraps; ten is the least
number of descriptors that leaves four for a frame when all three commands have failed. In `desktop` a depth of five is one at
which the quarter steps stop short of the end (`Near` must finish); a second report
is needed for a skipped draw, a third exceeds TLC's time.
The theorems below remove the bounds for every safety property of every module;
the bounds are left to the liveness properties. The `allocator`
run has a heap larger than its map on purpose: the panic that follows is a stop,
and everything before it is checked; for the same reason, and because a refused
queue creation panics, deadlock is not checked in `allocator` and `nvme`; nor in
`boot`, `gpu` and `desktop`, where the kernel may panic or idle and the bounds end.

The runs that end in a violation state what the repository says of itself:

* `executor.rs:18` sizes the ready queue by the number of tasks, but a stream woken
  while it is polled is queued again; `wake_task` then panics in the interrupt when
  the queue is full.
* `README.md:37` promises an `hlt` when idle; `physics_tick_task` yields in both
  branches of its loop, so the queue is never empty.
* `IO_BUF` is "the physical 4KB landing pad", but each command moves one logical
  block, 512 bytes on the drive `run.sh` attaches.
* `save_file` "updates the MFT", but returns Ok also when the entry is cut off at
  the end of the table's block.
* The "render throttle" is to put draws off, but a draw skipped for a report of
  another button is never made.

`PROJECT.json` lists further disagreements that have no run of their own, among
them a heatmap of 500,000 bits for 1,048,576 blocks (`OutOfMap`, a step the
`allocator` run takes), a file of no bytes that reads a block of another file, DMA runs over a gap in the memory map, frames that may tear, a queue that is
announced past its size, packets overwritten in the staging buffer, and a window
that stays sunk after the one before it was closed. The properties above are
stated so that they are true in spite of them.

### Fairness

`executor`: weak fairness of the CPU's own steps, for the CPU runs whenever it is
not halted; nothing is assumed of devices, so liveness does not rest on
interrupts that need not come. `nvme`: weak fairness of the driver, which spins
without giving up the CPU, and of the controller, which answers every command in
the end; the code has no timeout, so without the second the call does hang.
Callers are not fair. `boot`: weak fairness of `Next`, for boot is one thread that nothing
stops. `gpu`: weak fairness of the driver, which spins or is called by tasks that
are polled again and again, and of the device, which serves its doorbell; with
frames bounded, drawing stops. `desktop`: weak fairness of the two tasks, which the
executor polls again and again (`executor` shows it for streams); mouse and user
may do nothing.

## Proofs

All constants are arbitrary, subject to the named assumptions: rings of at least
two slots and a ready queue of any size (`RingAssumption`, `QueueAssumption`), heap
and layout sizes that are numbers (`HeapAssumption`, `LayoutAssumption`), alignments
that divide the block size or are multiples of it, as powers of two do
(`AlignAssumption`), a disk and a table of any size and a radix of at least two
(`DiskAssumption`, `TextAssumption`), rings of the card of at least two
descriptors (`RingAssumption` of `E1000`), I/O queues
of at least two entries and an admin queue of at least four, and logical blocks
no larger than the buffer (`QueueAssumption`, `DataAssumption` of `NvmeQueue`),
slots numbered from 0 and devices and heap within the pages there are
(`BoardsAssumption`), policies that are lists of comparisons and a stack that holds
the two values of one (`PoliciesAssumption`; the code's has 32), addresses of four
bytes and a packet whose length fits its 16-bit field (`BytesAssumption` of `E1000`),
and a mouse that marks the first byte of a report, as the compositor expects
(`HeadersMarked`). TLC evaluates each of them on the instance of a run.

* **Executor.** `ExecInv` is `Types`, `ControlInv` (what is known at each location, and
  that a registration under way is the current task's, the second half of `TypeOK`),
  `WakeInv` (for a stream with data whose task is neither queued nor current,
  a waker is in the slot and the wake has not been sent), `SleepInv` (between `cli`
  and `hlt` nothing becomes ready), `ReadInv` (the byte in hand is the one at TAIL).
  `NoLostWakeup` alone is not inductive: that the second look at the ring comes
  after the registration is what carries it. From it follow `NoWakeupIsLost`,
  `SleepIsSafe` and, with the rings read as sequences, `ChannelRefinement`.
* **Allocator.** `AllocInv` is `HeapInv` (allocations disjoint, exactly the hot blocks)
  and `ScanInv`: the current run is cold, aligned and ends at `i`, and no aligned
  cold run long enough starts before it. The last part makes `NullIsHonest` a
  consequence at the end of the loop. `AlignInv` adds that a run starts at an aligned
  block; with `AlignedBytes` that gives `PointersAligned`.
* **NVMe.** `NvInv` says for each queue that at rest driver and controller agree on
  every position and phase (`Quiet`), that in flight the command is in one of three
  stages (`InFlight`: submitted, executed, posted), and that the entries before the
  controller's tail carry its phase and the others the opposite one (`LapInv`).
  `LapInv` is what makes `CompletionIsOwn` hold over every wrap. `StoreRefinement` maps
  the controller's execution to the abstract application and the driver's
  `Consume` to the return.

* **File system.** `FsInv` says of the table on the disk that its extents are in order,
  hold what was saved and have different names, and the same of the copy that is
  about to be written (`TableInv`), which also still has every entry the operation
  has no right to change. `DataInv`: `save_file` has written `i` blocks behind the last
  extent. Nothing is assumed of what the blocks look like. None of the properties is inductive
  without `TableInv`, and `WriteMft` keeps it because of `StoredFacts`: what is left of a
  text cut short are its first lines, no count larger than it was. That rests on the
  widths of numbers and the ends of lines, which are recursions. The prover cannot
  use induction over a formula, so these go through `SetInduction`: a set of numbers
  that has 0 and is closed under successor has all of them (`NatBySteps`), and what
  a recursion over the numbers defines exists (`Recursion`). `EntriesLeaveByRight`
  uses `StoredWhole`: a text that fits is read back as it was.
* **Frames.** `MemInv` adds to `RunsDisjoint` that every run ends at or below the last
  frame dealt (`AllBehind`), which holds because the map ascends by at least one
  from frame to frame (`UsableAssumption`): a run that crosses a gap ends below the
  last frame that was dealt for it. `RunsDisjoint` alone is not inductive.
* **Virtual machine.** `VmInv` is types and bounds; the counter stays within the code
  because every operand is checked before it is read. `PolicyHonoured` speaks of the
  end of a run only; `PolicyInv` says of every step of it that the machine is on
  course (`OnCourse`): the first `k` conditions of the policy held, the counter is at
  one of the four instructions of the next, and the stack has just the values that
  instruction needs. `Layout` says which byte of `Compile` is where, for a policy of any
  length, and `CutFacts` that a cut leaves the bytes before it, so a cut run stays on
  course until it runs out, which is no grant.
* **Boot.** `MemPart` and `VmPart` show that a step of `Boot` is a step of each part or
  leaves it alone (the machine runs only while the vault is read, `Idle`), so the
  parts' invariants carry over: `BootRunsDisjoint`, `BootVmBounds`, `BootVmAdvances`.
  `NetPart` does the same for the card. `RxInv`: the packets not yet taken lie in order
  from `rxIndex` on, just they are marked done, and the tail and the slice are the
  descriptor behind it (`BootSliceShown`). `TxInv`: until a packet is staged too early,
  at most one is under way (`BootSentOneByOne`). `BootPolicyHonoured` carries the
  machine's result over: code enters it only from the vault (`VaultSound`).
* **Scan.** `DriveFound` speaks of the end of the scan. `ScanInv` says in between that no
  controller that could be driven lies before `at` while none is driven
  (`NonePassed`); that the scan is at a function it may look at, beyond function 0
  only where the first one says there are several (`AtSound`); and which driver is
  being started there (`StageSound`).
* **Checksums.** What is stored is the complement of a sum folded twice. `SumBound` and
  `FoldTwice` show that two folds leave 16 bits because a packet is shorter than
  65536 bytes; `PatchSum`, that writing the complement over the zero field adds just
  it; `VerifiesSum`, that the receiver's sum then folds to minus zero.
* **GPU.** `GpuInv` is `RingsOK` (ranges), `AheadUntouched` (nothing is known yet of
  commands still to come), `WaitSound` (a command that is waited for is the only
  one: the device has still to read it, or the answer in the mailbox is its own),
  `QuietSound` (between commands driver and device agree on the counters; later only
  frames are under way) and `LinksKept` (until frames are drawn the descriptors are
  linked as at first). Without `LinksKept` the two descriptors of a command could be
  one, and the device would not find the command it is asked to execute: `Reported`
  is not inductive by itself. `GpuReports` holds for every ring size of at least ten
  that divides the counter's range. `FreeListSound` is about the length of a chain;
  `ListSound` says instead what the chain is: the descriptors from the first one that
  no failed command kept, in their order, with the first two pairs exchanged after
  every other frame. `ShownSound` says what the device will find: a frame not yet read
  is in the last two entries, whose descriptors the reclaim has exchanged but not
  changed. This needs the device to be less than a turn of the index behind
  (`NoTurnBehind`), for a lag of 65536 commands looks like none: a driver that draws
  32768 frames while the device does not look would find it caught up. `GpuLastFrame`
  states that hypothesis; `GpuFewFrames` does without, for as many frames as the index
  can count (`LagBound`).
* **Desktop.** `WindowsSound`: windows have different numbers, and every one but the last
  has the far depth as its target, which `Focus`, `Retain` and a spawn keep
  although they change which is last. `OnlyTopInFront` needs it, because a window at
  rest is at its target. `ParserSound`: the packet has `byte_idx` bytes. `StreamSound`: unless
  a byte was lost, the bytes in packet, queue and report together are whole reports,
  each with its mark; the last one is new against the button before it if the mouse
  has news (`Fresh`), and once there are none and it had, the last drawing is up to
  date. `CursorShown` by itself says nothing while bytes are under way, and a skipped
  draw happens just then: what makes up for it is that the last report will be drawn.

The type invariants of all modules are part of these invariants or follow from
them, and are theorems too.

Only model-checked: liveness (`EveryByteRead`, `CallReturns`, `BootEnds`,
`ReachesScreen`, `AnimationEnds`), because fairness and ENABLED are outside the proof
system, and the violations, which are counterexamples.

## Not modelled, and the plan

Left out for good:

* text output (`serial.rs`, `vga_buffer.rs`), descriptor tables (`gdt.rs`), and exception
  handlers that log and stop: straight-line code without a protocol;
* pixels, geometry, fonts and splats: arithmetic no property here depends on;
* the text of `execute_command` and the link task's message framing: strings; what
  a command does to the file system, the card and the desktop is an action of
  their modules;
* files that are not compiled or never called (`splat_1.rs`, `virtio_net.rs`, the other
  executors and allocators), and `send_command` and `get_display_info`, which nothing
  calls;
* a second NVMe controller on the bus, which would be brought up on queues that
  still hold the first one's completions: a hazard only.

Every safety property that a run checks has a theorem. What could be added: an
abstract specification of the file system (a map from names to contents) and of
the GPU's command queue, with their refinements, and a second controller on the
bus in `NvmeQueue`.
