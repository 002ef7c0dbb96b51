------------------------------- MODULE E1000 -------------------------------
(***************************************************************************)
(* The E1000 network driver (e1000.rs) and the card it drives.  They share *)
(* two rings of descriptors.  The kernel fills the transmit ring and moves *)
(* its tail; the card sends what lies between head and tail.  The card     *)
(* fills the receive ring as far as its tail and marks each descriptor     *)
(* done; the kernel takes the packet and moves the tail.  All transmit     *)
(* descriptors point to one staging buffer.                                *)
(***************************************************************************)
EXTENDS Integers, Sequences

CONSTANTS
    NumTx,      \* NUM_TX_DESCRIPTORS (32)
    NumRx,      \* NUM_RX_DESCRIPTORS (32)
    Ips,        \* addresses packets are sent to: four bytes each
    SourceIp,   \* the address they are sent from
    Payload,    \* the bytes of the ping's payload
    MaxSends,   \* bound on the packets sent
    MaxArrivals \* bound on the packets that arrive

ASSUME RingAssumption == NumTx \in Nat \ {0, 1} /\ NumRx \in Nat \ {0, 1}
ASSUME ArrivalsAssumption == MaxArrivals \in Nat

VARIABLES
    txBuf,      \* the staging buffer: a packet, or Torn while one is copied
    sending,    \* the packet transmit_packet_secure is copying, or NoPacket
    txIndex,    \* self.tx_index
    tdh, tdt,   \* the card's transmit head and tail
    sent,       \* packets given to transmit_packet_secure
    wire,       \* packets the card has sent
    overrun,    \* a packet was staged before the card had sent the last one
    rxBuf,      \* the receive buffers: the number of the packet in each
    done,       \* RD_DD of every receive descriptor
    rxIndex,    \* self.rx_index
    rdh, rdt,   \* the card's receive head and tail
    arrived,    \* packets the card has put in a buffer
    taken,      \* packets poll_receive has returned
    slice       \* the buffer the slice it last returned shows, or NoSlice

txVars == <<txBuf, sending, txIndex, tdh, tdt, sent, wire, overrun>>
rxVars == <<rxBuf, done, rxIndex, rdh, rdt, arrived, taken, slice>>
netVars == <<txVars, rxVars>>

Slots == 0..NumRx - 1
Packets == [kind : {"arp", "ping"}, to : Ips]
Torn == [kind |-> "torn"]
NoPacket == [kind |-> "none"]
NoSlice == -1
-----------------------------------------------------------------------------
(* The two checksums of a ping.                                            *)

W == 65536
\* Addresses have four bytes, and the length of a packet fits its field.
ASSUME BytesAssumption ==
    /\ SourceIp \in [1..4 -> 0..255] /\ Ips \subseteq [1..4 -> 0..255]
    /\ Payload \in Seq(0..255) /\ 28 + Len(Payload) < W

\* The sum of the 16-bit words, the last one padded with a zero byte.
WordSum(d) ==
    LET S[k \in 0..Len(d)] ==
            IF k = 0 THEN 0 ELSE S[k - 1] + (IF k % 2 = 1 THEN 256 * d[k] ELSE d[k])
    IN  S[Len(d)]
FoldOnce(sum) == (sum % W) + (sum \div W)

\* Mutation of calculate_checksum: one fold of the carry.
ChecksumOneFold(d) == W - 1 - (FoldOnce(WordSum(d)) % W)

\* The carries are folded in until none is left, after two folds at the latest.
calculate_checksum(d) == W - 1 - FoldOnce(FoldOnce(WordSum(d)))

Stamp(d, at) ==
    [d EXCEPT ![at] = calculate_checksum(d) \div 256, ![at + 1] = calculate_checksum(d) % 256]

\* The headers send_ping writes, their checksum fields zero, then stamped.
IpHeader(p) ==
    LET size == 28 + Len(Payload)
    IN  Stamp(<<69, 0, size \div 256, size % 256, 18, 52, 64, 0, 64, 1, 0, 0>>
                  \o SourceIp \o p.to, 11)
IcmpPacket(p) == Stamp(<<8, 0, 0, 0, 0, 1, 0, 1>> \o Payload, 3)
-----------------------------------------------------------------------------
(* The kernel.  Slices are borrowed from the driver: every call that       *)
(* changes it ends the life of the last one.                               *)

\* E1000Driver::new, the part that wires the rings: every descriptor has an
\* empty buffer, of which the card may fill all but one.
NetInit ==
    /\ txBuf = NoPacket /\ sending = NoPacket /\ txIndex = 0 /\ tdh = 0 /\ tdt = 0
    /\ sent = <<>> /\ wire = <<>> /\ overrun = FALSE
    /\ rxBuf = [k \in Slots |-> 0] /\ done = [k \in Slots |-> FALSE]
    /\ rxIndex = 0 /\ rdh = 0 /\ rdt = NumRx - 1
    /\ arrived = 0 /\ taken = 0 /\ slice = NoSlice

\* transmit_packet_secure starts to copy a packet to the staging buffer,
\* whether or not the card has sent the one that is there.  A packet longer
\* than 1518 bytes is refused first.
Stage(p) ==
    /\ sending = NoPacket /\ Len(sent) < MaxSends
    /\ sending' = p /\ txBuf' = Torn
    /\ sent' = Append(sent, p)
    /\ overrun' = (overrun \/ tdh # tdt)
    /\ slice' = NoSlice
    /\ UNCHANGED <<txIndex, tdh, tdt, wire, rxBuf, done, rxIndex, rdh, rdt, arrived, taken>>

SendPing == \E ip \in Ips : Stage([kind |-> "ping", to |-> ip])
SendArpRequest == \E ip \in Ips : Stage([kind |-> "arp", to |-> ip])

\* Mutation of TxNext: the index does not wrap.
TxNextUnwrapped == txIndex + 1

TxNext == (txIndex + 1) % NumTx

\* Mutation of TxTail: the tail names the descriptor just filled.
TxTailOld == txIndex

TxTail == TxNext

\* The copy is complete, the descriptor filled in, and the tail moved past it.
RingTail ==
    /\ sending # NoPacket
    /\ txBuf' = sending /\ sending' = NoPacket
    /\ txIndex' = TxNext /\ tdt' = TxTail
    /\ UNCHANGED <<tdh, sent, wire, overrun, rxVars>>

\* Mutation of RxTail: the card is given the buffer the slice shows.
RxTailNew == (rxIndex + 1) % NumRx

\* The tail is the buffer of the packet just taken.  The card fills no buffer
\* at the tail: what it gets is the one before.
RxTail == rxIndex

\* poll_receive: a packet if the next descriptor is done.
PollReceive ==
    /\ sending = NoPacket
    /\ slice' = IF done[rxIndex] THEN rxIndex ELSE NoSlice
    /\ IF done[rxIndex]
       THEN /\ done' = [done EXCEPT ![rxIndex] = FALSE]
            /\ rxIndex' = (rxIndex + 1) % NumRx /\ rdt' = RxTail
            /\ taken' = taken + 1
       ELSE UNCHANGED <<done, rxIndex, rdt, taken>>
    /\ UNCHANGED <<txVars, rxBuf, rdh, arrived>>
-----------------------------------------------------------------------------
(* The card, from how the driver uses it.                                  *)

CardSend ==
    /\ tdh # tdt
    /\ wire' = Append(wire, txBuf) /\ tdh' = (tdh + 1) % NumTx
    /\ UNCHANGED <<txBuf, sending, txIndex, tdt, sent, overrun, rxVars>>

\* A packet arrives.  One for which no buffer is free is lost, and leaves no trace.
CardReceive ==
    /\ rdh # rdt /\ arrived < MaxArrivals
    /\ rxBuf' = [rxBuf EXCEPT ![rdh] = arrived + 1]
    /\ done' = [done EXCEPT ![rdh] = TRUE]
    /\ rdh' = (rdh + 1) % NumRx /\ arrived' = arrived + 1
    /\ UNCHANGED <<txVars, rxIndex, rdt, taken, slice>>

NetStep ==
    \/ SendPing \/ SendArpRequest \/ RingTail \/ PollReceive
    \/ CardSend \/ CardReceive
-----------------------------------------------------------------------------
NetTypeOK ==
    /\ {txBuf, sending} \subseteq Packets \cup {Torn, NoPacket}
    /\ {txIndex, tdh, tdt} \subseteq 0..NumTx - 1
    /\ sent \in Seq(Packets) /\ wire \in Seq(Packets \cup {Torn, NoPacket})
    /\ overrun \in BOOLEAN
    /\ rxBuf \in [Slots -> 0..MaxArrivals] /\ done \in [Slots -> BOOLEAN]
    /\ {rxIndex, rdh, rdt} \subseteq Slots
    /\ arrived \in 0..MaxArrivals /\ taken \in 0..arrived
    /\ slice \in Slots \cup {NoSlice}

\* While a caller looks at the slice poll_receive returned, it shows the packet
\* that was next in the order of arrival, and goes on showing it: no packet is
\* lost, repeated or passed over, and the card does not write into a buffer
\* the caller still reads (e1000.rs, lines 341 to 361).
SliceShowsNextPacket == slice # NoSlice => rxBuf[slice] = taken

\* As long as the kernel sends a packet only when the card has finished with
\* the one before, everything sent goes out whole, once and in order.  The
\* driver does not wait for that itself: all descriptors share one buffer.
SentOneByOne ==
    ~overrun /\ tdh = tdt /\ sending = NoPacket => wire = sent

\* A receiver that adds up the 16-bit words of the IP header, or of the ICMP
\* message, checksum included, gets minus zero in ones' complement: zero modulo
\* 65535 (e1000.rs, lines 77 to 92 and 235 to 253).
Verifies(d) ==
    LET Total[k \in 0..(Len(d) + 1) \div 2] ==
            IF k = 0 THEN 0
            ELSE Total[k - 1] + 256 * d[2 * k - 1] + (IF 2 * k <= Len(d) THEN d[2 * k] ELSE 0)
    IN  Total[(Len(d) + 1) \div 2] % (W - 1) = 0
ChecksumsVerify ==
    txBuf.kind = "ping" => Verifies(IpHeader(txBuf)) /\ Verifies(IcmpPacket(txBuf))
-----------------------------------------------------------------------------
(* The inductive invariant behind SentOneByOne and SliceShowsNextPacket.   *)

\* Until a packet is staged too early, at most one is under way: being copied,
\* or in the buffer for the card.
TxInv ==
    /\ {txIndex, tdh} \subseteq 0..NumTx - 1 /\ tdt = txIndex /\ overrun \in BOOLEAN
    /\ \/ overrun
       \/ tdh = tdt /\ sending = NoPacket /\ wire = sent
       \/ tdh = tdt /\ sending # NoPacket /\ sent = Append(wire, sending)
       \/ tdt = (tdh + 1) % NumTx /\ sending = NoPacket /\ sent = Append(wire, txBuf)

\* Descriptors from the next one to poll up to descriptor k.
Ahead(k) == IF k >= rxIndex THEN k - rxIndex ELSE k - rxIndex + NumRx

\* The packets not yet taken lie in order from rxIndex on, and just they are
\* marked done; the tail is the descriptor behind rxIndex, and so is the slice.
RxInv ==
    /\ {rxIndex, rdh, rdt} \subseteq Slots /\ slice \in Slots \cup {NoSlice}
    /\ rxBuf \in [Slots -> Nat] /\ done \in [Slots -> BOOLEAN]
    /\ arrived \in Nat /\ taken \in Nat
    /\ Ahead(rdh) = arrived - taken /\ Ahead(rdt) = NumRx - 1
    /\ \A k \in Slots :
          /\ done[k] <=> Ahead(k) < arrived - taken
          /\ done[k] => rxBuf[k] = taken + Ahead(k) + 1
    /\ slice # NoSlice => slice = rdt /\ rxBuf[slice] = taken
=============================================================================
