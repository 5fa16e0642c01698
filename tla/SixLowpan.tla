------------------------------ MODULE SixLowpan ------------------------------
(***************************************************************************)
(* Fragmentation and reassembly of IP packets, core/net/ipv6/sicslowpan.c, *)
(* over the duplicate filter of core/net/mac (nullrdc.c, mac-sequence.c).  *)
(* Several senders transmit to one receiver.  The radio repeats a frame    *)
(* that was not acknowledged, so the receiver may see a frame several      *)
(* times, and between its copies frames of others; it may also lose one    *)
(* that it acknowledged.  A packet consists of pieces, one to a frame.     *)
(***************************************************************************)
EXTENDS Naturals, Sequences, FiniteSets, Functions

CONSTANTS
    Senders,
    Nobody,               \* the null link-layer address
    PacketSizes,          \* pieces of a packet; one piece is not fragmented
    UIP_BUFSIZE,          \* pieces that the buffers of the receiver hold
    MAX_SEQNOS,           \* senders that mac-sequence.c remembers
    DSN_MOD,              \* 2^8: the sequence numbers of frames
    TAG_MOD,              \* 2^16: the tags of fragmented packets
    REASS_MAXAGE,         \* ticks until a reassembly is given up
    Tries,                \* transmissions of one frame by the radio
    MaxPackets            \* bound: packets of all senders together

ASSUME SixLowpanAssumption ==
    /\ PacketSizes \subseteq Nat \ {0}
    /\ {UIP_BUFSIZE, MAX_SEQNOS, TAG_MOD, Tries} \subseteq Nat \ {0}
    /\ {REASS_MAXAGE, MaxPackets} \subseteq Nat
    /\ DSN_MOD \in Nat /\ DSN_MOD > 2
    /\ IsFiniteSet(Senders) /\ Nobody \notin Senders

VARIABLES
    tx,                   \* what each sender is sending
    received_seqnos,      \* the last sequence number of each sender, latest first
    sicslowpan_buf,       \* the pieces in the reassembly buffer
    sicslowpan_len,       \* the size of the packet being reassembled
    processed_ip_in_len,  \* pieces counted so far
    reass_tag,
    frag_sender,
    reass_timer,          \* ticks left; zero when expired
    arrived,              \* history: number of the last packet from each sender
    mixed                 \* history: something was delivered that nobody sent so

link == <<tx, received_seqnos>>
reassembly == <<sicslowpan_buf, sicslowpan_len, processed_ip_in_len, reass_tag,
                frag_sender, reass_timer>>
history == <<arrived, mixed>>
vars == <<link, reassembly, history>>

Offsets == 0 .. UIP_BUFSIZE - 1

(* A piece names the packet it comes from and its place there. *)
NoPiece == [from |-> Nobody, packet |-> 0, at |-> 0]
Piece(f) == [from |-> f.from, packet |-> f.packet, at |-> f.offset]

(* Without a frame on the air, the sender has nothing to send. *)
Quiet == [packet |-> 0, size |-> 0, offset |-> 0, tag |-> 0, seq |-> 1, tries |-> 0]

TypeOK ==
    /\ tx \in [Senders -> [packet : 0 .. MaxPackets, size : PacketSizes \cup {0},
                           offset : Nat, tag : 0 .. TAG_MOD - 1,
                           seq : 1 .. DSN_MOD - 1, tries : 0 .. Tries]]
    /\ received_seqnos \in Seq([sender : Senders, seqno : 1 .. DSN_MOD - 1])
    /\ Len(received_seqnos) <= MAX_SEQNOS
    /\ IsInjective([i \in DOMAIN received_seqnos |-> received_seqnos[i].sender])
    /\ sicslowpan_buf \in [Offsets -> [from : Senders \cup {Nobody},
                                       packet : 0 .. MaxPackets, at : Nat]]
    /\ sicslowpan_len \in 0 .. UIP_BUFSIZE
    /\ processed_ip_in_len \in Nat
    /\ reass_tag \in 0 .. TAG_MOD - 1
    /\ frag_sender \in Senders \cup {Nobody}
    /\ reass_timer \in 0 .. REASS_MAXAGE
    /\ arrived \in [Senders -> 0 .. MaxPackets]
    /\ mixed \in BOOLEAN

Init ==
    /\ tx = [s \in Senders |-> Quiet]
    /\ received_seqnos = <<>>
    /\ sicslowpan_buf = [i \in Offsets |-> NoPiece]
    /\ sicslowpan_len = 0
    /\ processed_ip_in_len = 0
    /\ reass_tag = 0
    /\ frag_sender = Nobody
    /\ reass_timer = 0
    /\ arrived = [s \in Senders |-> 0]
    /\ mixed = FALSE

-----------------------------------------------------------------------------
(* The sender *)

Fragmented(t) == t.size > 1
Frame(s) == [from |-> s, packet |-> tx[s].packet, offset |-> tx[s].offset,
             size |-> IF Fragmented(tx[s]) THEN tx[s].size ELSE 0,
             tag |-> tx[s].tag, seq |-> tx[s].seq]

(* mac_dsn++, which skips zero *)
NextSeq(q) == IF q + 1 = DSN_MOD THEN 1 ELSE q + 1

(* Bound: the packets that were begun so far, by sender and number. *)
Begun == {p \in Senders \X (1 .. MaxPackets) : p[2] <= tx[p[1]].packet}

(* The driver's output function takes a packet; only a fragmented one uses  *)
(* up a tag.                                                                *)
output(s, size) ==
    /\ tx[s].tries = 0
    /\ Cardinality(Begun) < MaxPackets
    /\ tx' = [tx EXCEPT ![s] = [packet |-> @.packet + 1, size |-> size, offset |-> 0,
                                tag |-> IF size > 1 THEN (@.tag + 1) % TAG_MOD ELSE @.tag,
                                seq |-> NextSeq(@.seq), tries |-> Tries]]
    /\ UNCHANGED <<received_seqnos, reassembly, history>>

(* The frame is done, acknowledged or not: the next fragment follows it in  *)
(* either case, and gets a sequence number of its own.                      *)
Advanced(t) ==
    IF t.offset + 1 < t.size
    THEN [t EXCEPT !.offset = @ + 1, !.seq = NextSeq(@), !.tries = Tries]
    ELSE [t EXCEPT !.tries = 0]

(* Mutant of Transmitted: each copy of a frame has a sequence number of its own. *)
Transmitted_renumbered(t, acked) ==
    IF acked \/ t.tries = 1 THEN Advanced(t)
    ELSE [t EXCEPT !.tries = @ - 1, !.seq = NextSeq(@)]

Transmitted(t, acked) ==
    IF acked \/ t.tries = 1 THEN Advanced(t) ELSE [t EXCEPT !.tries = @ - 1]

(* The channel stays busy, or no buffer is left: the rest is not sent. *)
output_fails(s) ==
    /\ tx[s].tries > 0
    /\ tx' = [tx EXCEPT ![s].tries = 0]
    /\ UNCHANGED <<received_seqnos, reassembly, history>>

-----------------------------------------------------------------------------
(* The duplicate filter of the receiver *)

mac_sequence_is_duplicate(f) ==
    \E i \in DOMAIN received_seqnos :
        received_seqnos[i] = [sender |-> f.from, seqno |-> f.seq]

(* Mutant of mac_sequence_register_seqno: the sender is not looked up first. *)
mac_sequence_register_seqno_again(f) ==
    <<[sender |-> f.from, seqno |-> f.seq]>>
        \o SubSeq(received_seqnos, 1, IF Len(received_seqnos) < MAX_SEQNOS
                                      THEN Len(received_seqnos) ELSE MAX_SEQNOS - 1)

(* The entries before the sender's own move down by one over it, and it     *)
(* comes to the front; for a new sender the last entry is forgotten.        *)
mac_sequence_register_seqno(f) ==
    LET own == {i \in DOMAIN received_seqnos : received_seqnos[i].sender = f.from}
        last == IF own = {} /\ Len(received_seqnos) < MAX_SEQNOS
                THEN Len(received_seqnos) + 1 ELSE Len(received_seqnos)
    IN  [j \in 1 .. last |->
            IF j = 1 THEN [sender |-> f.from, seqno |-> f.seq]
            ELSE IF \E i \in own : i < j THEN received_seqnos[j]
            ELSE received_seqnos[j - 1]]

-----------------------------------------------------------------------------
(* sicslowpan input *)

First(f) == f.size > 0 /\ f.offset = 0

(* What input finds going on: a reassembly that timed out is cancelled, and *)
(* a whole packet or the first fragment of another sender cancels one, too. *)
Ongoing(f) ==
    /\ reass_timer > 0
    /\ processed_ip_in_len > 0
    /\ f.size > 0
    /\ ~(First(f) /\ f.from # frag_sender)

(* Mutant of Belongs: the tag is not compared. *)
Belongs_any_tag(f) ==
    f.size = sicslowpan_len /\ f.from = frag_sender

Belongs(f) ==
    f.size = sicslowpan_len /\ f.tag = reass_tag /\ f.from = frag_sender

(* The pieces buf, from the start up to length, go to tcpip_input. *)
Deliver(buf, length) ==
    LET p == buf[0]
        whole == \A i \in 0 .. length - 1 :
                    buf[i] = [from |-> p.from, packet |-> p.packet, at |-> i]
    IN  IF whole /\ p.from \in Senders /\ p.packet > arrived[p.from]
        THEN /\ arrived' = [arrived EXCEPT ![p.from] = p.packet]
             /\ UNCHANGED mixed
        ELSE /\ mixed' = TRUE
             /\ UNCHANGED arrived

(* The frame is dropped; what timed out or was cancelled is gone. *)
Dropped(f) ==
    /\ sicslowpan_len' = IF Ongoing(f) THEN sicslowpan_len ELSE 0
    /\ processed_ip_in_len' = IF Ongoing(f) THEN processed_ip_in_len ELSE 0
    /\ UNCHANGED <<sicslowpan_buf, reass_tag, frag_sender, reass_timer, history>>

input_whole(f) ==
    LET buf == [sicslowpan_buf EXCEPT ![0] = Piece(f)] IN
    /\ f.size = 0
    /\ sicslowpan_buf' = buf
    /\ sicslowpan_len' = 0
    /\ processed_ip_in_len' = 0
    /\ Deliver(buf, 1)
    /\ UNCHANGED <<reass_tag, frag_sender, reass_timer>>

(* A fragment of another packet, or one that could start nothing, or one    *)
(* that lies beyond the buffer.                                             *)
input_dropped(f) ==
    /\ f.size > 0
    /\ \/ Ongoing(f) /\ ~Belongs(f)
       \/ ~Ongoing(f) /\ ~First(f) /\ f.size <= UIP_BUFSIZE
       \/ ~Ongoing(f) /\ f.offset >= UIP_BUFSIZE
    /\ Dropped(f)

(* A fragment is copied and counted.  Reassembly starts with a first one,   *)
(* unless the packet is too big: then its pieces are counted all the same.  *)
input_fragment(f) ==
    LET starts == ~Ongoing(f) /\ f.size <= UIP_BUFSIZE
        length == IF Ongoing(f) THEN sicslowpan_len
                  ELSE IF starts THEN f.size ELSE 0
        before == IF Ongoing(f) THEN processed_ip_in_len ELSE 0
        last == ~First(f) /\ before + 1 >= f.size
        processed == IF last THEN f.size ELSE before + 1
        buf == [sicslowpan_buf EXCEPT ![f.offset] = Piece(f)]
        complete == processed = length
    IN
    /\ f.size > 0
    /\ f.offset < UIP_BUFSIZE
    /\ IF Ongoing(f) THEN Belongs(f) ELSE First(f) \/ f.size > UIP_BUFSIZE
    /\ sicslowpan_buf' = buf
    /\ sicslowpan_len' = IF complete THEN 0 ELSE length
    /\ processed_ip_in_len' = IF complete THEN 0 ELSE processed
    /\ IF starts
       THEN reass_tag' = f.tag /\ frag_sender' = f.from /\ reass_timer' = REASS_MAXAGE
       ELSE UNCHANGED <<reass_tag, frag_sender, reass_timer>>
    /\ IF complete THEN Deliver(buf, length) ELSE UNCHANGED history

(* packet_input of nullrdc and all that it calls *)
packet_input(f) ==
    IF mac_sequence_is_duplicate(f) THEN UNCHANGED <<received_seqnos, reassembly, history>>
    ELSE /\ received_seqnos' = mac_sequence_register_seqno(f)
         /\ input_whole(f) \/ input_dropped(f) \/ input_fragment(f)

-----------------------------------------------------------------------------
(* One transmission of a frame: heard or not, acknowledged or not. *)
transmit(s, acked) ==
    /\ tx[s].tries > 0
    /\ tx' = [tx EXCEPT ![s] = Transmitted(@, acked)]
    /\ packet_input(Frame(s))

transmit_lost(s, acked) ==
    /\ tx[s].tries > 0
    /\ tx' = [tx EXCEPT ![s] = Transmitted(@, acked)]
    /\ UNCHANGED <<received_seqnos, reassembly, history>>

clock_tick ==
    /\ reass_timer > 0
    /\ reass_timer' = reass_timer - 1
    /\ UNCHANGED <<link, sicslowpan_buf, sicslowpan_len, processed_ip_in_len, reass_tag,
                   frag_sender, history>>

Next ==
    \/ \E s \in Senders :
          \/ \E size \in PacketSizes : output(s, size)
          \/ output_fails(s)
          \/ \E acked \in BOOLEAN : transmit(s, acked) \/ transmit_lost(s, acked)
    \/ clock_tick

Spec == Init /\ [][Next]_vars

-----------------------------------------------------------------------------
Packets == INSTANCE DatagramService WITH
    sent <- [s \in Senders |-> tx[s].packet],
    arrived <- IF mixed THEN [s \in Senders |-> MaxPackets + 1] ELSE arrived

(* What is handed to tcpip_input (sicslowpan.c:1852) is a packet as it was  *)
(* sent, once and in order, although fragments are lost and repeated, those *)
(* of two senders interleave and one buffer serves all.                     *)
IsDatagramService == Packets!Spec

(* The count of what was processed stands for pieces that are really there: *)
(* input adds up lengths without a look at the offsets (sicslowpan.c:1803), *)
(* so a piece that is counted twice would complete a packet with a hole,    *)
(* filled with what an earlier packet left in the buffer.                   *)
CountedIsThere ==
    processed_ip_in_len > 0 /\ sicslowpan_len > 0 =>
        \E k \in 1 .. MaxPackets :
            Cardinality({i \in 0 .. sicslowpan_len - 1 :
                sicslowpan_buf[i] = [from |-> frag_sender, packet |-> k, at |-> i]})
              = processed_ip_in_len
=============================================================================
