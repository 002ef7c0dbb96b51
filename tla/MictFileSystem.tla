--------------------------- MODULE MictFileSystem ---------------------------
(***************************************************************************)
(* The MICT file system (mfs.rs): a table of files, the MFT, kept as text  *)
(* in LBA 0, and contiguous extents after it.  Each operation reads the    *)
(* table, works on its copy and writes the table back.  Any block command  *)
(* may fail, and power may be lost between any two of them.                *)
(*                                                                         *)
(* The operations are called by kernel tasks that do not yield inside      *)
(* them, so two never interleave.  One that only reads is a single step.   *)
(***************************************************************************)
EXTENDS Integers, Sequences, FiniteSets

CONSTANTS
    Bases,      \* names but for their case
    LongBases,  \* those of Bases whose text is longer by one
    Contexts,   \* the contexts callers present to the gate
    NoPolicy,   \* of a block without an MDO header
    Policies,   \* sets of contexts a header's bytecode accepts, or NoPolicy
    LastLba,    \* last block of the namespace
    MaxBlocks,  \* bound on the blocks of one file
    MaxSaves,   \* bound on the number of save_file calls
    MftBytes,   \* size of LBA 0 (4096)
    Base        \* radix in which the table's numbers are written (10)

ASSUME DiskAssumption == LastLba \in Nat /\ MaxBlocks \in Nat /\ MaxSaves \in Nat
ASSUME TextAssumption == MftBytes \in Nat /\ Base \in Nat /\ Base > 1

Names == [base : Bases, upper : BOOLEAN]
Lbas == 1..LastLba
Tags == 0..MaxSaves
\* A table entry.  tag is not in the text: it says which save_file made it.
Entries == [name : Names, lba : Nat, count : Nat, tag : Tags]
\* A data block: the idx-th one written by save_file number tag.
BlockData == [tag : Tags, idx : Nat, policy : Policies \cup {NoPolicy}]
Unwritten == [tag |-> 0, idx |-> 0, policy |-> NoPolicy]

VARIABLES
    mft,        \* what read_mft makes of LBA 0
    disk,       \* the data blocks
    pc,         \* "idle", "data" or "table": what the operation does next
    op,         \* the operation: [kind, name, to, count, ctx]
    entries,    \* its copy of the table
    i,          \* data blocks it has written
    saves,      \* save_file calls so far
    result      \* what the last operation returned: [kind, ok, name, ctx, entry, data]

vars == <<mft, disk, pc, op, entries, i, saves, result>>
-----------------------------------------------------------------------------
(* The text of the table, and what is left of it in one block.             *)

Header == 7     \* "MFS_V1" and a newline
NameLen(n) == IF n.base \in LongBases THEN 2 ELSE 1
Power[n \in Nat] == IF n = 0 THEN 1 ELSE Base * Power[n - 1]
Digits(n) == CHOOSE d \in 1..n + 1 : Power[d] > n /\ (d = 1 \/ Power[d - 1] <= n)

\* "name:lba:", and "name:lba:count\n"
PrefixLen(e) == NameLen(e.name) + 1 + Digits(e.lba) + 1
EntryLen(e) == PrefixLen(e) + Digits(e.count) + 1

\* Where the k-th line of the text of s ends.
LineEnd(s, k) ==
    LET end[j \in 0..Len(s)] ==
            IF j = 0 THEN Header ELSE end[j - 1] + EntryLen(s[j])
    IN  end[k]

Fits(s) == LineEnd(s, Len(s)) <= MftBytes

\* Bytes left for the k-th line.
Room(s, k) == MftBytes - LineEnd(s, k - 1)

\* A line of which r bytes are left still parses if a digit of its count is
\* there; the number read is what the digits left say.
Cut(e, r) ==
    IF r >= EntryLen(e) - 1 THEN e
    ELSE [e EXCEPT !.count = @ \div Power[PrefixLen(e) + Digits(e.count) - r]]

\* What a read finds after write_mft wrote min(len, 4096) bytes of the text.
Stored(s) ==
    LET kept == {k \in 1..Len(s) : Room(s, k) > PrefixLen(s[k])}
    IN  [k \in 1..Cardinality(kept) |-> Cut(s[k], Room(s, k))]
-----------------------------------------------------------------------------
Matches(s, n) == {k \in 1..Len(s) : s[k].name = n}
\* find_file compares without case.
Folded(s, n) == {k \in 1..Len(s) : s[k].name.base = n.base}
FirstOf(S) == CHOOSE k \in S : \A j \in S : k <= j
\* Mutation of Without: the entry after the one found is removed.
WithoutNext(s, k) == SubSeq(s, 1, k) \o SubSeq(s, k + 2, Len(s))
\* entries.remove(pos)
Without(s, k) == SubSeq(s, 1, k - 1) \o SubSeq(s, k + 1, Len(s))

\* Mutation of NextLba: the last block of the last file is used again.
NextLbaOneLess(s) ==
    IF s = <<>> THEN 1 ELSE s[Len(s)].lba + s[Len(s)].count - 1
\* The block after the last entry's extent.
NextLba(s) == IF s = <<>> THEN 1 ELSE s[Len(s)].lba + s[Len(s)].count

NoOp == [kind |-> "none"]
NoResult == [kind |-> "none", ok |-> FALSE]

Init ==
    /\ mft = <<>> /\ disk = [l \in Lbas |-> Unwritten]
    /\ pc = "idle" /\ op = NoOp /\ entries = <<>> /\ i = 0 /\ saves = 0
    /\ result = NoResult

\* The operation returns; its copy of the table is dropped.
Return(r) ==
    /\ result' = r /\ pc' = "idle" /\ op' = NoOp /\ entries' = <<>> /\ i' = 0

\* Mutation of VerifyMdoAccess: a block without a header is let through.
VerifyOnlyMdo(lba, ctx) ==
    /\ lba <= LastLba
    /\ ctx \in IF disk[lba].policy = NoPolicy THEN Contexts ELSE disk[lba].policy
\* verify_mdo_access: the block can be read, has a header, and its bytecode
\* accepts the context.
VerifyMdoAccess(lba, ctx) ==
    lba <= LastLba /\ disk[lba].policy # NoPolicy /\ ctx \in disk[lba].policy

Failure(kind) == [kind |-> kind, ok |-> FALSE]

\* save_file: read the table and refuse a name it has.  A table that cannot
\* be read, or a drive that is offline, is an error too.
SaveFile(n, count) ==
    /\ pc = "idle" /\ saves < MaxSaves
    /\ \/ Return(Failure("save")) /\ UNCHANGED saves
       \/ /\ Matches(mft, n) = {}
          /\ op' = [kind |-> "save", name |-> n, count |-> count]
          /\ entries' = mft /\ i' = 0 /\ pc' = "data"
          /\ saves' = saves + 1 /\ UNCHANGED result
    /\ UNCHANGED <<mft, disk>>

\* Mutation of Chunk: the offset of the round before.
ChunkBefore(policy) == [tag |-> saves, idx |-> i - 1, policy |-> policy]
\* The block write_block is given in round i.  The file's bytes are the
\* caller's: any block of it may begin like an MDO header.
Chunk(policy) == [tag |-> saves, idx |-> i, policy |-> policy]
ChunkLba == NextLba(entries) + i

\* One round of the loop over the blocks: written, or failed with the block
\* written or not.  A block past the end of the namespace fails.
WriteData(policy) ==
    /\ pc = "data" /\ i < op.count
    /\ \/ /\ ChunkLba <= LastLba
          /\ disk' = [disk EXCEPT ![ChunkLba] = Chunk(policy)]
          /\ i' = i + 1
          /\ UNCHANGED <<pc, op, entries, result>>
       \/ /\ Return(Failure("save"))
          /\ \/ disk' = disk
             \/ ChunkLba <= LastLba /\ disk' = [disk EXCEPT ![ChunkLba] = Chunk(policy)]
    /\ UNCHANGED <<mft, saves>>

\* Mutation of PushEntry: the entry goes out before the data.
PushEntryEarly ==
    /\ pc = "data"
    /\ entries' = Append(entries, [name |-> op.name, lba |-> NextLba(entries),
                                   count |-> op.count, tag |-> saves])
    /\ pc' = "table"
    /\ UNCHANGED <<mft, disk, op, i, saves, result>>
\* All data is written: the new entry ends the copy of the table.
PushEntry ==
    /\ pc = "data" /\ i = op.count
    /\ entries' = Append(entries, [name |-> op.name, lba |-> NextLba(entries),
                                   count |-> op.count, tag |-> saves])
    /\ pc' = "table"
    /\ UNCHANGED <<mft, disk, op, i, saves, result>>

\* write_mft, the last step of every operation that changes the table.
WriteMft ==
    /\ pc = "table"
    /\ \/ /\ mft' = Stored(entries)
          /\ Return([kind |-> op.kind, ok |-> TRUE, name |-> op.name])
       \/ /\ mft' \in {mft, Stored(entries)}
          /\ Return(Failure(op.kind))
    /\ UNCHANGED <<disk, saves>>

\* delete_file, up to its write_mft.
DeleteFile(n, ctx) ==
    /\ pc = "idle"
    /\ \/ Return(Failure("delete"))
       \/ \E k \in Matches(mft, n) :
            /\ k = FirstOf(Matches(mft, n))
            /\ VerifyMdoAccess(mft[k].lba, ctx)
            /\ entries' = Without(mft, k)
            /\ op' = [kind |-> "delete", name |-> n, ctx |-> ctx]
            /\ pc' = "table" /\ UNCHANGED <<i, result>>
    /\ UNCHANGED <<mft, disk, saves>>

\* Mutation of TargetFree: rename_file does not look at the new name.
TargetIgnored(n) == TRUE
\* No entry has the new name yet.
TargetFree(n) == Matches(mft, n) = {}

\* rename_file, up to its write_mft.
RenameFile(n, to, ctx) ==
    /\ pc = "idle"
    /\ \/ Return(Failure("rename"))
       \/ \E k \in Matches(mft, n) :
            /\ TargetFree(to)
            /\ k = FirstOf(Matches(mft, n))
            /\ VerifyMdoAccess(mft[k].lba, ctx)
            /\ entries' = [mft EXCEPT ![k].name = to]
            /\ op' = [kind |-> "rename", name |-> n, ctx |-> ctx]
            /\ pc' = "table" /\ UNCHANGED <<i, result>>
    /\ UNCHANGED <<mft, disk, saves>>

\* The blocks read_file returns for an entry: the first one always.
Fetched(e) ==
    [k \in 1..(IF e.count = 0 THEN 1 ELSE e.count) |-> disk[e.lba + k - 1]]

\* read_file: the first entry of that name but for case, its gate, its blocks;
\* any of the reads may fail.
ReadFile(n, ctx) ==
    /\ pc = "idle"
    /\ \/ Return(Failure("read"))
       \/ \E k \in Folded(mft, n) :
            /\ k = FirstOf(Folded(mft, n))
            /\ VerifyMdoAccess(mft[k].lba, ctx)
            /\ Return([kind |-> "read", ok |-> TRUE, ctx |-> ctx,
                       entry |-> mft[k], data |-> Fetched(mft[k])])
    /\ UNCHANGED <<mft, disk, saves>>

\* Power is lost, or the kernel panics, inside an operation.
Crash ==
    /\ pc # "idle"
    /\ Return(NoResult)
    /\ UNCHANGED <<mft, disk, saves>>

Next ==
    \/ \E n \in Names, count \in 0..MaxBlocks : SaveFile(n, count)
    \/ \E policy \in Policies \cup {NoPolicy} : WriteData(policy)
    \/ PushEntry \/ WriteMft \/ Crash
    \/ \E n \in Names, ctx \in Contexts : DeleteFile(n, ctx) \/ ReadFile(n, ctx)
    \/ \E n, to \in Names, ctx \in Contexts : RenameFile(n, to, ctx)

Spec == Init /\ [][Next]_vars
-----------------------------------------------------------------------------
TypeOK ==
    /\ mft \in Seq(Entries) /\ entries \in Seq(Entries)
    /\ disk \in [Lbas -> BlockData]
    /\ pc \in {"idle", "data", "table"}
    /\ i \in Nat /\ saves \in 0..MaxSaves
    /\ pc = "data" =>
         /\ op.kind = "save" /\ op.name \in Names
         /\ op.count \in 0..MaxBlocks

\* Extents that follow each other on the disk, clear of LBA 0.
Ordered(s) ==
    \A j \in 1..Len(s) :
        /\ s[j].lba > 0 /\ s[j].lba + s[j].count - 1 <= LastLba
        /\ \A k \in j + 1..Len(s) : s[j].lba + s[j].count <= s[k].lba

\* Extents that hold what the save_file of their entry wrote.
Intact(s) ==
    \A j \in 1..Len(s) : \A k \in 0..s[j].count - 1 :
        disk[s[j].lba + k].tag = s[j].tag /\ disk[s[j].lba + k].idx = k

Distinct(s) == \A j, k \in 1..Len(s) : s[j].name = s[k].name => j = k

\* Extents are in table order, on the disk, clear of the table's own block and
\* of each other: save_file's choice of the next block stays right after every
\* delete, rename, failure, crash and cut of the table.
ExtentsDisjoint == Ordered(mft)

\* The blocks of every file in the table are the ones its save_file wrote, in
\* order: data goes out before the entry, and no later operation, finished,
\* failed or cut short by a crash, writes over a block the table counts to a
\* file.  Of an entry whose count was cut these are the blocks left to it.
CommittedIntact == Intact(mft)

\* No two entries have the same name, so delete_file and rename_file, which
\* take the first, take the only one.
UniqueNames == Distinct(mft)

Has(s, e) == \E j \in 1..Len(s) : s[j] = e

\* The operation is about entry e, and its context passes the gate of e.
MayChange(e) ==
    /\ op.kind \in {"delete", "rename"} /\ op.name = e.name
    /\ disk[e.lba].policy # NoPolicy /\ op.ctx \in disk[e.lba].policy

\* As long as the table's text fits its block, an entry goes or changes only by
\* a delete_file or rename_file of its own name, with a context that the block
\* at its start accepts: neither save_file nor a failure or a crash costs
\* another file its entry.
EntryLeavesByRight ==
    [][Fits(entries) =>
          \A j \in 1..Len(mft) : Has(mft', mft[j]) \/ MayChange(mft[j])]_vars

\* What read_file returns begins with a block whose header accepts the reader's
\* context; and unless the file has no blocks, it is what the save_file of the
\* entry wrote, from the first block on and in order: never blocks of two saves
\* or of another file, whatever crashes, failed saves, deletions and renames
\* came before, and although any block may look like a header.
ReadIsGated ==
    result.kind = "read" /\ result.ok =>
        /\ result.data[1].policy # NoPolicy /\ result.ctx \in result.data[1].policy
        /\ result.entry.count > 0 =>
              \A k \in DOMAIN result.data :
                 result.data[k].tag = result.entry.tag /\ result.data[k].idx = k - 1

\* A file whose save_file returned Ok is in the table ("updates the MFT").
SavedIsListed ==
    result.kind = "save" /\ result.ok => Matches(mft, result.name) # {}
-----------------------------------------------------------------------------
(* The inductive invariant behind the properties.                          *)

\* save_file writes behind every extent of the table, block by block.
DataInv ==
    pc = "data" =>
        /\ entries = mft /\ Matches(mft, op.name) = {}
        /\ i <= op.count /\ NextLba(mft) + i - 1 <= LastLba
        /\ \A k \in 0..i - 1 :
              disk[NextLba(mft) + k].tag = saves /\ disk[NextLba(mft) + k].idx = k

\* The copy about to be written is as good a table as the one it replaces.
TableInv ==
    pc = "table" =>
        /\ op.kind \in {"save", "delete", "rename"}
        /\ Ordered(entries) /\ Intact(entries) /\ Distinct(entries)
        /\ \A j \in 1..Len(mft) : Has(entries, mft[j]) \/ MayChange(mft[j])

FsInv ==
    /\ TypeOK /\ ExtentsDisjoint /\ CommittedIntact /\ UniqueNames
    /\ DataInv /\ TableInv /\ ReadIsGated
=============================================================================
