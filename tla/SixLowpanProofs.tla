-------------------------- MODULE SixLowpanProofs --------------------------
(***************************************************************************)
(* Proofs about fragmentation and reassembly for any number of senders,    *)
(* packets, pieces and transmissions: types are kept, the count of pieces  *)
(* is true, and what is handed to IP is what DatagramService promises.     *)
(***************************************************************************)
EXTENDS SixLowpan, FiniteSetTheorems, TLAPS

Transmission == [packet : 0 .. MaxPackets, size : PacketSizes \cup {0}, offset : Nat,
                 tag : 0 .. TAG_MOD - 1, seq : 1 .. DSN_MOD - 1, tries : 0 .. Tries]

Entry == [sender : Senders, seqno : 1 .. DSN_MOD - 1]

PieceType == [from : Senders \cup {Nobody}, packet : 0 .. MaxPackets, at : Nat]

FrameType == [from : Senders, packet : 0 .. MaxPackets, offset : Nat, size : PacketSizes \cup {0},
              tag : 0 .. TAG_MOD - 1, seq : 1 .. DSN_MOD - 1]

-----------------------------------------------------------------------------
(* The constants, in the form that arithmetic needs them in *)
LEMMA Constants ==
    /\ UIP_BUFSIZE \in Nat /\ UIP_BUFSIZE > 0
    /\ MAX_SEQNOS \in Nat /\ MAX_SEQNOS > 0
    /\ TAG_MOD \in Nat /\ TAG_MOD > 0
    /\ Tries \in Nat /\ Tries > 0
    /\ DSN_MOD \in Nat /\ DSN_MOD > 2
    /\ REASS_MAXAGE \in Nat /\ MaxPackets \in Nat
    /\ \A n \in PacketSizes : n \in Nat /\ n > 0
    /\ Nobody \notin Senders
  BY SixLowpanAssumption

LEMMA NextSeqType == \A q \in 1 .. DSN_MOD - 1 : NextSeq(q) \in 1 .. DSN_MOD - 1
  BY Constants DEF NextSeq

(* What a transmission leaves of the state of its sender: the frame stays,  *)
(* with a try less, or the next one takes its place, or nothing is sent.    *)
SentFrom(t, u) ==
    /\ u \in Transmission
    /\ u.packet = t.packet /\ u.size = t.size /\ u.tag = t.tag
    /\ \/ u.offset = t.offset /\ u.seq = t.seq
       \/ u.offset = t.offset + 1 /\ u.offset < u.size
    /\ u.tries > 0 => t.tries > 0

LEMMA TransmittedFrame ==
    ASSUME NEW t \in Transmission, NEW acked \in BOOLEAN, t.tries > 0
    PROVE  SentFrom(t, Transmitted(t, acked)) /\ SentFrom(t, [t EXCEPT !.tries = 0])
  <1>1. t.tries \in 1 .. Tries /\ t.tries - 1 \in 0 .. Tries /\ Tries \in 0 .. Tries /\ 0 \in 0 .. Tries
    BY Constants DEF Transmission
  <1>2. NextSeq(t.seq) \in 1 .. DSN_MOD - 1 /\ t.offset \in Nat /\ t.offset + 1 \in Nat
    BY NextSeqType DEF Transmission
  <1>3. SentFrom(t, [t EXCEPT !.tries = 0])
    BY <1>1 DEF SentFrom, Transmission
  <1>4. SentFrom(t, [t EXCEPT !.tries = @ - 1])
    BY <1>1 DEF SentFrom, Transmission
  <1>5. t.offset + 1 < t.size =>
            SentFrom(t, [t EXCEPT !.offset = @ + 1, !.seq = NextSeq(@), !.tries = Tries])
    BY <1>1, <1>2 DEF SentFrom, Transmission
  <1> QED BY <1>3, <1>4, <1>5 DEF Transmitted, Advanced

LEMMA FrameFacts ==
    ASSUME NEW s \in Senders, tx \in [Senders -> Transmission]
    PROVE  /\ Frame(s) \in FrameType
           /\ Frame(s).from = s /\ Frame(s).packet = tx[s].packet
           /\ Frame(s).offset = tx[s].offset /\ Frame(s).tag = tx[s].tag
           /\ Frame(s).seq = tx[s].seq
           /\ Frame(s).size = IF tx[s].size > 1 THEN tx[s].size ELSE 0
  BY DEF Frame, FrameType, Transmission, Fragmented

-----------------------------------------------------------------------------
(* The duplicate filter *)

(* No sender stands in the filter twice. *)
OneEntryEach(f) == \A i, j \in DOMAIN f : f[i].sender = f[j].sender => i = j

FilterType(f) == f \in Seq(Entry) /\ Len(f) <= MAX_SEQNOS /\ OneEntryEach(f)

Registered(f, s, q) == \E i \in DOMAIN f : f[i] = [sender |-> s, seqno |-> q]

(* What registering a frame does: the filter keeps its form and learns the  *)
(* frame; as long as it has room for all senders, it forgets no other one.  *)
LEMMA FilterLearns ==
    ASSUME NEW f \in FrameType, FilterType(received_seqnos),
           NEW g, g = mac_sequence_register_seqno(f)
    PROVE  /\ FilterType(g)
           /\ Registered(g, f.from, f.seq)
           /\ Cardinality(Senders) <= MAX_SEQNOS =>
                \A r \in Senders : \A q : r # f.from /\ Registered(received_seqnos, r, q)
                                        => Registered(g, r, q)
  <1> DEFINE s == f.from
             e == [sender |-> f.from, seqno |-> f.seq]
             n == Len(received_seqnos)
             own == {i \in DOMAIN received_seqnos : received_seqnos[i].sender = s}
             last == IF own = {} /\ n < MAX_SEQNOS THEN n + 1 ELSE n
             At(j) == IF j = 1 THEN e ELSE IF \E i \in own : i < j THEN received_seqnos[j]
                      ELSE received_seqnos[j - 1]
  <1>1. /\ n \in Nat /\ n <= MAX_SEQNOS /\ MAX_SEQNOS \in Nat /\ MAX_SEQNOS > 0
        /\ DOMAIN received_seqnos = 1 .. n
        /\ \A i \in 1 .. n : received_seqnos[i] \in Entry
        /\ \A i, j \in 1 .. n : received_seqnos[i].sender = received_seqnos[j].sender => i = j
    BY Constants DEF FilterType, OneEntryEach
  <1>2. e \in Entry /\ s \in Senders /\ e.sender = s
    BY DEF FrameType, Entry
  <1>3. g = [j \in 1 .. last |-> At(j)]
    BY DEF mac_sequence_register_seqno
  <1>4. last \in Nat /\ 1 <= last /\ last <= MAX_SEQNOS /\ n <= last /\ last <= n + 1
    BY <1>1
  <1>5. \A j \in 2 .. last : \/ /\ \E i \in own : i < j
                                /\ j \in 1 .. n
                                /\ At(j) = received_seqnos[j]
                             \/ /\ ~\E i \in own : i < j
                                /\ j - 1 \in 1 .. n
                                /\ At(j) = received_seqnos[j - 1]
    BY <1>1, <1>4
  <1>6. At(1) = e
    OBVIOUS
  <1> HIDE DEF At, last, n, e, s
  <1>7. \A j \in 1 .. last : At(j) \in Entry
    BY <1>1, <1>2, <1>4, <1>5, <1>6
  <1>8. g \in Seq(Entry) /\ Len(g) = last /\ DOMAIN g = 1 .. last
    BY <1>3, <1>4, <1>7
  <1>9. \A j \in 2 .. last : At(j).sender # s
    BY <1>1, <1>5
  <1>10. OneEntryEach(g)
    BY <1>1, <1>2, <1>3, <1>4, <1>5, <1>6, <1>8, <1>9 DEF OneEntryEach
  <1>11. Registered(g, s, f.seq)
    BY <1>3, <1>4, <1>6, <1>8 DEF Registered, e, s
  <1>12. ASSUME Cardinality(Senders) <= MAX_SEQNOS,
                NEW r \in Senders, NEW q, r # s, Registered(received_seqnos, r, q)
         PROVE  Registered(g, r, q)
    <2>1. PICK k \in 1 .. n : received_seqnos[k] = [sender |-> r, seqno |-> q]
      BY <1>1, <1>12 DEF Registered
    <2>2. k \notin own
      BY <2>1, <1>12
    <2>3. CASE \E i \in own : i < k
      <3>1. k \in 2 .. last /\ At(k) = received_seqnos[k]
        BY <1>1, <1>4, <2>3 DEF At
      <3> QED BY <1>3, <1>8, <2>1, <3>1 DEF Registered
    <2>4. CASE (~\E i \in own : i < k) /\ k + 1 \in 1 .. last
      <3>1. ~\E i \in own : i < k + 1
        BY <1>1, <2>2, <2>4
      <3>2. At(k + 1) = received_seqnos[k]
        BY <1>1, <2>4, <3>1 DEF At
      <3> QED BY <1>3, <1>8, <2>1, <2>4, <3>2 DEF Registered
    <2>5. CASE (~\E i \in own : i < k) /\ k + 1 \notin 1 .. last
      <3>1. k = n /\ last = n
        BY <1>1, <1>4, <2>5
      <3>2. own = {}
        BY <1>1, <2>2, <2>5, <3>1
      <3>3. n = MAX_SEQNOS
        BY <1>1, <3>1, <3>2 DEF last
      <3> DEFINE h == [i \in 1 .. n |-> received_seqnos[i].sender]
      <3>4. h \in Injection(1 .. n, Senders \ {s})
        BY <1>1, <3>2 DEF Injection, IsInjective, Entry
      <3>5. /\ IsFiniteSet(Senders \ {s})
            /\ Cardinality(Senders \ {s}) = Cardinality(Senders) - 1
            /\ Cardinality(Senders) \in Nat
        BY <1>2, FS_RemoveElement, FS_CardinalityType, SixLowpanAssumption
      <3>6. Cardinality(1 .. n) = n
        BY <1>1, <1>4, FS_Interval
      <3>7. Cardinality(1 .. n) <= Cardinality(Senders \ {s})
        BY <3>4, <3>5, FS_Injection
      <3> QED BY <1>1, <1>12, <3>3, <3>5, <3>6, <3>7
    <2> QED BY <2>3, <2>4, <2>5
  <1> QED BY <1>4, <1>8, <1>10, <1>11, <1>12 DEF FilterType, s

-----------------------------------------------------------------------------
(* Type correctness *)

LEMMA TypeForm ==
    TypeOK <=>
        /\ tx \in [Senders -> Transmission]
        /\ FilterType(received_seqnos)
        /\ sicslowpan_buf \in [Offsets -> PieceType]
        /\ sicslowpan_len \in 0 .. UIP_BUFSIZE
        /\ processed_ip_in_len \in Nat
        /\ reass_tag \in 0 .. TAG_MOD - 1
        /\ frag_sender \in Senders \cup {Nobody}
        /\ reass_timer \in 0 .. REASS_MAXAGE
        /\ arrived \in [Senders -> 0 .. MaxPackets]
        /\ mixed \in BOOLEAN
  BY DEF TypeOK, Transmission, FilterType, Entry, PieceType, OneEntryEach, IsInjective

(* The guard of output bounds the number of the sender's packets. *)
LEMMA RoomForPacket ==
    ASSUME NEW s \in Senders, tx \in [Senders -> Transmission], Cardinality(Begun) < MaxPackets
    PROVE  tx[s].packet + 1 \in 0 .. MaxPackets
  <1> DEFINE n == tx[s].packet
  <1>1. n \in 0 .. MaxPackets /\ MaxPackets \in Nat
    BY Constants DEF Transmission
  <1> SUFFICES ASSUME n = MaxPackets PROVE FALSE
    BY <1>1
  <1>2. IsFiniteSet(1 .. MaxPackets) /\ Cardinality(1 .. MaxPackets) = MaxPackets
    BY <1>1, FS_Interval
  <1>3. IsFiniteSet(Senders \X (1 .. MaxPackets))
    BY <1>2, FS_Product, SixLowpanAssumption
  <1>4. IsFiniteSet(Begun)
    BY <1>3, FS_Subset DEF Begun
  <1>5. IsFiniteSet({s}) /\ Cardinality({s}) = 1
    BY FS_Singleton
  <1>6. Cardinality({s} \X (1 .. MaxPackets)) = 1 * MaxPackets
    <2> DEFINE S == {s}
               T == 1 .. MaxPackets
    <2>1. IsFiniteSet(S) /\ IsFiniteSet(T)
      BY <1>2, <1>5
    <2> HIDE DEF S, T
    <2>2. Cardinality(S \X T) = Cardinality(S) * Cardinality(T)
      BY <2>1, FS_Product
    <2>3. Cardinality(S) = 1 /\ Cardinality(T) = MaxPackets
      BY <1>2, <1>5 DEF S, T
    <2> QED BY <2>2, <2>3 DEF S, T
  <1>7. {s} \X (1 .. MaxPackets) \subseteq Begun
    <2> SUFFICES ASSUME NEW k \in 1 .. MaxPackets PROVE <<s, k>> \in Begun
      OBVIOUS
    <2> QED BY <1>1 DEF Begun
  <1>8. MaxPackets <= Cardinality(Begun)
    BY <1>1, <1>4, <1>6, <1>7, FS_Subset
  <1>9. Cardinality(Begun) \in Nat
    BY <1>4, FS_CardinalityType
  <1> QED BY <1>1, <1>8, <1>9

LEMMA OutputType ==
    ASSUME TypeOK, NEW s \in Senders, NEW size \in PacketSizes, output(s, size)
    PROVE  TypeOK'
  <1>1. tx \in [Senders -> Transmission] /\ tx[s] \in Transmission
    BY TypeForm
  <1>2. tx[s].packet + 1 \in 0 .. MaxPackets
    BY <1>1, RoomForPacket DEF output
  <1>3. NextSeq(tx[s].seq) \in 1 .. DSN_MOD - 1
    BY <1>1, NextSeqType DEF Transmission
  <1>4. tx[s].tag \in 0 .. TAG_MOD - 1 /\ (tx[s].tag + 1) % TAG_MOD \in 0 .. TAG_MOD - 1
    BY <1>1, Constants DEF Transmission
  <1>5. Tries \in 0 .. Tries
    BY Constants
  <1>6. tx'[s] \in Transmission
    BY <1>1, <1>2, <1>3, <1>4, <1>5 DEF output, Transmission
  <1>7. tx' \in [Senders -> Transmission]
    BY <1>1, <1>6 DEF output
  <1> QED BY <1>7, TypeForm DEF output, TypeOK, Transmission, reassembly, history

(* The sender's part of a transmission *)
Transmits(s) == \E u : SentFrom(tx[s], u) /\ tx' = [tx EXCEPT ![s] = u]

LEMMA TransmissionSends ==
    ASSUME tx \in [Senders -> Transmission], NEW s \in Senders, NEW acked \in BOOLEAN
    PROVE  /\ transmit(s, acked) => Transmits(s)
           /\ transmit_lost(s, acked) => Transmits(s)
           /\ output_fails(s) => Transmits(s)
  <1>1. tx[s] \in Transmission
    OBVIOUS
  <1>2. tx[s].tries > 0 => /\ SentFrom(tx[s], Transmitted(tx[s], acked))
                           /\ SentFrom(tx[s], [tx[s] EXCEPT !.tries = 0])
    BY <1>1, TransmittedFrame
  <1>3. transmit(s, acked) => Transmits(s)
    BY <1>2 DEF transmit, Transmits
  <1>4. transmit_lost(s, acked) => Transmits(s)
    BY <1>2 DEF transmit_lost, Transmits
  <1>5. ASSUME output_fails(s) PROVE Transmits(s)
    <2>1. tx' = [tx EXCEPT ![s] = [tx[s] EXCEPT !.tries = 0]] /\ tx[s].tries > 0
      BY <1>5 DEF output_fails
    <2> QED BY <1>2, <2>1 DEF Transmits
  <1> QED BY <1>3, <1>4, <1>5

LEMMA TransmitsType ==
    ASSUME tx \in [Senders -> Transmission], NEW s \in Senders, Transmits(s)
    PROVE  tx' \in [Senders -> Transmission]
  BY DEF Transmits, SentFrom

LEMMA DeliverType ==
    ASSUME arrived \in [Senders -> 0 .. MaxPackets], mixed \in BOOLEAN,
           NEW buf \in [Offsets -> PieceType], NEW length, Deliver(buf, length)
    PROVE  arrived' \in [Senders -> 0 .. MaxPackets] /\ mixed' \in BOOLEAN
  <1>1. 0 \in Offsets
    BY Constants DEF Offsets
  <1>2. buf[0].packet \in 0 .. MaxPackets
    BY <1>1 DEF PieceType
  <1> QED BY <1>2 DEF Deliver

LEMMA InputType ==
    ASSUME TypeOK, NEW f \in FrameType, packet_input(f)
    PROVE  /\ FilterType(received_seqnos')
           /\ sicslowpan_buf' \in [Offsets -> PieceType]
           /\ sicslowpan_len' \in 0 .. UIP_BUFSIZE
           /\ processed_ip_in_len' \in Nat
           /\ reass_tag' \in 0 .. TAG_MOD - 1
           /\ frag_sender' \in Senders \cup {Nobody}
           /\ reass_timer' \in 0 .. REASS_MAXAGE
           /\ arrived' \in [Senders -> 0 .. MaxPackets]
           /\ mixed' \in BOOLEAN
  <1> USE TypeForm
  <1>1. /\ f.from \in Senders /\ f.packet \in 0 .. MaxPackets /\ f.offset \in Nat
        /\ f.size \in PacketSizes \cup {0} /\ f.size \in Nat
        /\ f.tag \in 0 .. TAG_MOD - 1
    BY Constants DEF FrameType
  <1>2. Piece(f) \in PieceType
    BY <1>1 DEF Piece, PieceType
  <1>3. 0 \in Offsets /\ (f.offset < UIP_BUFSIZE => f.offset \in Offsets)
    BY <1>1, Constants DEF Offsets
  <1>4. \A o \in Offsets : [sicslowpan_buf EXCEPT ![o] = Piece(f)] \in [Offsets -> PieceType]
    BY <1>2
  <1>5. 0 \in 0 .. UIP_BUFSIZE /\ REASS_MAXAGE \in 0 .. REASS_MAXAGE
        /\ (f.size <= UIP_BUFSIZE => f.size \in 0 .. UIP_BUFSIZE)
    BY <1>1, Constants
  <1>6. CASE mac_sequence_is_duplicate(f)
    BY <1>6 DEF packet_input, reassembly, history
  <1>7. CASE ~mac_sequence_is_duplicate(f)
    <2>1. FilterType(received_seqnos')
      BY <1>7, FilterLearns DEF packet_input
    <2>2. CASE input_whole(f)
      <3>1. arrived' \in [Senders -> 0 .. MaxPackets] /\ mixed' \in BOOLEAN
        BY <1>3, <1>4, <2>2, DeliverType DEF input_whole
      <3> QED BY <1>3, <1>4, <1>5, <2>1, <2>2, <3>1 DEF input_whole
    <2>3. CASE input_dropped(f)
      BY <1>5, <2>1, <2>3 DEF input_dropped, Dropped, history
    <2>4. CASE input_fragment(f)
      <3> DEFINE buf == [sicslowpan_buf EXCEPT ![f.offset] = Piece(f)]
                 before == IF Ongoing(f) THEN processed_ip_in_len ELSE 0
                 length == IF Ongoing(f) THEN sicslowpan_len
                           ELSE IF f.size <= UIP_BUFSIZE THEN f.size ELSE 0
      <3>1. buf \in [Offsets -> PieceType]
        BY <1>3, <1>4, <2>4 DEF input_fragment
      <3>2. length \in 0 .. UIP_BUFSIZE /\ before + 1 \in Nat /\ 0 \in Nat
        BY <1>5
      <3>3. sicslowpan_buf' = buf
            /\ sicslowpan_len' \in {0, length}
            /\ processed_ip_in_len' \in {0, f.size, before + 1}
        BY <2>4 DEF input_fragment
      <3>4. Deliver(buf, length) \/ UNCHANGED history
        BY <2>4 DEF input_fragment
      <3>5. arrived' \in [Senders -> 0 .. MaxPackets] /\ mixed' \in BOOLEAN
        BY <3>1, <3>4, DeliverType DEF history
      <3>6. /\ reass_tag' \in {f.tag, reass_tag}
            /\ frag_sender' \in {f.from, frag_sender}
            /\ reass_timer' \in {REASS_MAXAGE, reass_timer}
        BY <2>4 DEF input_fragment
      <3> HIDE DEF buf, before, length
      <3> QED BY <1>1, <1>5, <2>1, <3>1, <3>2, <3>3, <3>5, <3>6
    <2> QED BY <1>7, <2>2, <2>3, <2>4 DEF packet_input
  <1> QED BY <1>6, <1>7

(* The types of the sender, the filter and the reassembly are kept: packet  *)
(* and sequence numbers stay in range, no sender stands in the filter       *)
(* twice, and no piece is put beyond the buffer (sicslowpan.c:1780).        *)
THEOREM SixTypeCorrect == Spec => []TypeOK
  <1>1. Init => TypeOK
    <2> SUFFICES ASSUME Init PROVE TypeOK
      OBVIOUS
    <2>1. Quiet \in Transmission /\ NoPiece \in PieceType
      BY Constants DEF Quiet, NoPiece, Transmission, PieceType
    <2>2. FilterType(received_seqnos)
      BY Constants DEF Init, FilterType, OneEntryEach
    <2>3. 0 \in 0 .. UIP_BUFSIZE /\ 0 \in Nat /\ 0 \in 0 .. TAG_MOD - 1 /\ 0 \in 0 .. REASS_MAXAGE
          /\ 0 \in 0 .. MaxPackets
      BY Constants
    <2> HIDE DEF Quiet, NoPiece
    <2> QED BY <2>1, <2>2, <2>3, TypeForm DEF Init
  <1>2. TypeOK /\ [Next]_vars => TypeOK'
    <2> SUFFICES ASSUME TypeOK, [Next]_vars PROVE TypeOK'
      OBVIOUS
    <2>1. tx \in [Senders -> Transmission]
      BY TypeForm
    <2>2. ASSUME NEW s \in Senders, NEW size \in PacketSizes, output(s, size) PROVE TypeOK'
      BY <2>2, OutputType
    <2>3. ASSUME NEW s \in Senders, output_fails(s) PROVE TypeOK'
      <3>1. tx' \in [Senders -> Transmission]
        BY <2>1, <2>3, TransmissionSends, TransmitsType
      <3> QED BY <2>3, <3>1, TypeForm DEF output_fails, TypeOK, Transmission, reassembly, history
    <2>4. ASSUME NEW s \in Senders, NEW acked \in BOOLEAN, transmit(s, acked) PROVE TypeOK'
      <3>1. tx' \in [Senders -> Transmission]
        BY <2>1, <2>4, TransmissionSends, TransmitsType
      <3>2. packet_input(Frame(s)) /\ Frame(s) \in FrameType
        BY <2>1, <2>4, FrameFacts DEF transmit
      <3> HIDE DEF FilterType
      <3> QED BY <3>1, <3>2, InputType DEF TypeOK, Transmission, FilterType, Entry, PieceType, OneEntryEach, IsInjective
    <2>5. ASSUME NEW s \in Senders, NEW acked \in BOOLEAN, transmit_lost(s, acked) PROVE TypeOK'
      <3>1. tx' \in [Senders -> Transmission]
        BY <2>1, <2>5, TransmissionSends, TransmitsType
      <3> QED BY <2>5, <3>1, TypeForm DEF transmit_lost, TypeOK, Transmission, reassembly, history
    <2>6. CASE clock_tick
      <3>1. reass_timer' \in 0 .. REASS_MAXAGE
        BY <2>6, Constants, TypeForm DEF clock_tick
      <3> QED BY <2>6, <3>1 DEF clock_tick, TypeOK, link, history
    <2>7. CASE UNCHANGED vars
      BY <2>7 DEF TypeOK, vars, link, reassembly, history
    <2> QED BY <2>2, <2>3, <2>4, <2>5, <2>6, <2>7 DEF Next
  <1> QED BY <1>1, <1>2, PTL DEF Spec

-----------------------------------------------------------------------------
(* The argument for reassembly *)

(* The filter remembers every sender, and tags are not used a second time.  *)
(* The build remembers 16 senders and counts tags in 16 bits.               *)
Enough == Cardinality(Senders) <= MAX_SEQNOS /\ MaxPackets < TAG_MOD

(* The frame that s is sending has not been taken by the receiver. *)
Fresh(s) == tx[s].tries > 0 /\ ~Registered(received_seqnos, s, tx[s].seq)

SendersSound ==
    \A s \in Senders :
        /\ tx[s].tag <= tx[s].packet
        /\ tx[s].tries > 0 => /\ tx[s].packet > 0
                              /\ tx[s].size \in PacketSizes
                              /\ tx[s].offset < tx[s].size

(* What stands in the buffer was sent before, and the frame on the air is   *)
(* not there unless the filter knows it.                                    *)
BufferIsPast ==
    \A i \in Offsets : \A s \in Senders : sicslowpan_buf[i].from = s =>
        /\ sicslowpan_buf[i].packet <= tx[s].packet
        /\ sicslowpan_buf[i].packet = tx[s].packet => sicslowpan_buf[i].at <= tx[s].offset
        /\ Fresh(s) => sicslowpan_buf[i] # [from |-> s, packet |-> tx[s].packet, at |-> tx[s].offset]

(* A packet that arrived while it is still being sent is at its last frame. *)
ArrivedIsPast ==
    \A s \in Senders :
        /\ arrived[s] <= tx[s].packet
        /\ tx[s].tries > 0 /\ arrived[s] = tx[s].packet =>
                ~Fresh(s) /\ tx[s].offset + 1 >= tx[s].size

(* The places in the packet being reassembled that hold the right piece *)
There(s, k) ==
    {i \in 0 .. sicslowpan_len - 1 : sicslowpan_buf[i] = [from |-> s, packet |-> k, at |-> i]}

(* Packet k of s is being reassembled, and its tag is known from others'. *)
Gathers(s, k) ==
    /\ 0 \in There(s, k)
    /\ Cardinality(There(s, k)) = processed_ip_in_len
    /\ processed_ip_in_len < sicslowpan_len
    /\ arrived[s] < k
    /\ reass_tag <= tx[s].tag
    /\ k = tx[s].packet => tx[s].tag = reass_tag /\ tx[s].size = sicslowpan_len
    /\ k # tx[s].packet /\ Fragmented(tx[s]) => reass_tag < tx[s].tag

GatheringSound ==
    sicslowpan_len > 0 =>
        /\ frag_sender \in Senders
        /\ \E k \in 1 .. tx[frag_sender].packet : Gathers(frag_sender, k)

IInv == TypeOK /\ SendersSound /\ BufferIsPast /\ ArrivedIsPast /\ GatheringSound /\ ~mixed

(* The packets of all senders stay the same, only their frames change. *)
SamePackets ==
    \A s \in Senders : /\ tx'[s].packet = tx[s].packet
                       /\ tx'[s].size = tx[s].size
                       /\ tx'[s].tag = tx[s].tag

(* The packet of s arrives with its last frame. *)
Arrives(s) ==
    /\ arrived[s] < tx[s].packet
    /\ tx[s].offset + 1 >= tx[s].size
    /\ arrived' = [arrived EXCEPT ![s] = tx[s].packet]
    /\ mixed' = mixed

LEMMA PieceIsPast ==
    ASSUME BufferIsPast, NEW s \in Senders, NEW i \in Offsets, NEW n,
           sicslowpan_buf[i] = [from |-> s, packet |-> tx[s].packet, at |-> n]
    PROVE  n <= tx[s].offset /\ (Fresh(s) => n # tx[s].offset)
  <1>1. sicslowpan_buf[i].from = s /\ sicslowpan_buf[i].packet = tx[s].packet /\ sicslowpan_buf[i].at = n
    OBVIOUS
  <1> QED BY <1>1 DEF BufferIsPast

LEMMA FreshFrame ==
    ASSUME IInv, NEW s \in Senders, tx[s].tries > 0, ~mac_sequence_is_duplicate(Frame(s))
    PROVE  /\ Fresh(s)
           /\ arrived[s] < tx[s].packet
           /\ arrived[s] \in Nat /\ tx[s].packet \in Nat /\ tx[s].packet > 0
           /\ tx[s].offset \in Nat /\ tx[s].size \in Nat /\ tx[s].size > 0
           /\ tx[s].offset < tx[s].size
           /\ tx[s].tag \in Nat
           /\ Piece(Frame(s)) = [from |-> s, packet |-> tx[s].packet, at |-> tx[s].offset]
           /\ Frame(s).from = s /\ Frame(s).offset = tx[s].offset /\ Frame(s).tag = tx[s].tag
           /\ Frame(s).size = IF tx[s].size > 1 THEN tx[s].size ELSE 0
  <1>1. tx \in [Senders -> Transmission] /\ arrived \in [Senders -> 0 .. MaxPackets]
    BY TypeForm DEF IInv
  <1>2. Fresh(s)
    BY DEF Fresh, mac_sequence_is_duplicate, Registered, Frame
  <1>3. /\ arrived[s] \in Nat /\ tx[s].packet \in Nat /\ tx[s].offset \in Nat
        /\ tx[s].tag \in Nat
    BY <1>1, Constants DEF Transmission
  <1>4. tx[s].packet > 0 /\ tx[s].size \in PacketSizes /\ tx[s].offset < tx[s].size
    BY DEF IInv, SendersSound
  <1>5. arrived[s] < tx[s].packet
    BY <1>2, <1>3 DEF IInv, ArrivedIsPast
  <1>6. Piece(Frame(s)) = [from |-> s, packet |-> tx[s].packet, at |-> tx[s].offset]
    BY DEF Piece, Frame
  <1> QED BY <1>1, <1>2, <1>3, <1>4, <1>5, <1>6, Constants, FrameFacts

LEMMA KeepsGathering ==
    ASSUME IInv, SamePackets, UNCHANGED <<reassembly, arrived>>
    PROVE  GatheringSound'
  <1> SUFFICES ASSUME sicslowpan_len > 0 PROVE GatheringSound'
    BY DEF GatheringSound, reassembly
  <1>1. PICK k \in 1 .. tx[frag_sender].packet : Gathers(frag_sender, k)
    BY DEF IInv, GatheringSound
  <1>2. frag_sender \in Senders
    BY DEF IInv, GatheringSound
  <1>3. There(frag_sender, k)' = There(frag_sender, k)
    BY DEF There, reassembly
  <1>4. Gathers(frag_sender, k)'
    BY <1>1, <1>2, <1>3 DEF Gathers, SamePackets, Fragmented, reassembly
  <1> QED BY <1>1, <1>2, <1>4 DEF GatheringSound, SamePackets, reassembly

(* A packet that is not fragmented *)
LEMMA WholeArrives ==
    ASSUME IInv, SamePackets, NEW s \in Senders, tx[s].tries > 0,
           ~mac_sequence_is_duplicate(Frame(s)), input_whole(Frame(s))
    PROVE  GatheringSound' /\ Arrives(s)
  <1> DEFINE f == Frame(s)
             buf == [sicslowpan_buf EXCEPT ![0] = Piece(f)]
  <1>1. f.size = 0 /\ Deliver(buf, 1) /\ sicslowpan_len' = 0
    BY DEF input_whole
  <1>2. tx[s].size = 1 /\ tx[s].offset = 0
    BY <1>1, FreshFrame
  <1>3. 0 \in Offsets /\ sicslowpan_buf \in [Offsets -> PieceType]
    BY Constants, TypeForm DEF IInv, Offsets
  <1>4. buf[0] = [from |-> s, packet |-> tx[s].packet, at |-> 0]
    BY <1>2, <1>3, FreshFrame
  <1>5. arrived' = [arrived EXCEPT ![s] = tx[s].packet] /\ mixed' = mixed
    <2> HIDE DEF buf
    <2> QED BY <1>1, <1>4, FreshFrame DEF Deliver
  <1> QED BY <1>1, <1>2, <1>5, FreshFrame DEF Arrives, GatheringSound

(* A fragment of the packet that is being reassembled *)
LEMMA NextFragment ==
    ASSUME IInv, SamePackets, NEW s \in Senders, tx[s].tries > 0,
           ~mac_sequence_is_duplicate(Frame(s)), input_fragment(Frame(s)), Ongoing(Frame(s))
    PROVE  GatheringSound' /\ (UNCHANGED history \/ Arrives(s))
  <1>k. PICK k : k = tx[s].packet
    OBVIOUS
  <1> DEFINE f == Frame(s)
             o == tx[s].offset
             len == sicslowpan_len
             buf == [sicslowpan_buf EXCEPT ![o] = Piece(f)]
             Held == There(s, k)
  <1>0. /\ tx[s].size > 1 /\ f.size = tx[s].size /\ f.offset = o /\ f.tag = tx[s].tag /\ f.from = s
        /\ tx[s].size \in Nat /\ o \in Nat /\ o < tx[s].size
    BY FreshFrame DEF input_fragment
  <1>1. len = tx[s].size /\ reass_tag = tx[s].tag /\ frag_sender = s
    BY <1>0 DEF input_fragment, Belongs
  <1>2. len \in Nat /\ len <= UIP_BUFSIZE /\ reass_tag \in Nat /\ 0 .. len - 1 \subseteq Offsets
        /\ sicslowpan_buf \in [Offsets -> PieceType] /\ processed_ip_in_len \in Nat
    BY <1>1, Constants, TypeForm DEF IInv, Offsets
  <1>3. Gathers(s, k)
    <2>1. PICK l \in 1 .. k : Gathers(s, l)
      BY <1>k, <1>0, <1>1 DEF IInv, GatheringSound
    <2>2. l = k
      BY <1>k, <1>0, <1>1, <1>2, <2>1 DEF Gathers, Fragmented
    <2> QED BY <2>1, <2>2
  <1>4. o \notin Held
    BY <1>k, <1>0, <1>1, <1>2, FreshFrame, PieceIsPast DEF There, IInv
  <1>5. o \in 0 .. len - 1 /\ o \in Offsets /\ o # 0
    BY <1>0, <1>1, <1>2, <1>3, <1>4 DEF Gathers
  <1>6. \A i \in 0 .. len - 1 :
            buf[i] = [from |-> s, packet |-> k, at |-> i] <=> i \in Held \cup {o}
    BY <1>k, <1>2, <1>5, FreshFrame DEF There
  <1>7. Held \subseteq 0 .. len - 1 /\ IsFiniteSet(0 .. len - 1) /\ Cardinality(0 .. len - 1) = len
    <2>1. 0 \in Int /\ len - 1 \in Int /\ ~(0 > len - 1) /\ (len - 1) - 0 + 1 = len
      BY <1>0, <1>1, <1>2
    <2> HIDE DEF len
    <2>2. IsFiniteSet(0 .. len - 1) /\ Cardinality(0 .. len - 1) = len
      BY <2>1, FS_Interval
    <2> QED BY <2>2 DEF There, len
  <1>8. IsFiniteSet(Held \cup {o}) /\ Cardinality(Held \cup {o}) = processed_ip_in_len + 1
    <2>1. IsFiniteSet(Held)
      BY <1>7, FS_Subset
    <2> HIDE DEF Held, o
    <2>2. Cardinality(Held \cup {o}) = Cardinality(Held) + 1 /\ IsFiniteSet(Held \cup {o})
      BY <1>4, <2>1, FS_AddElement
    <2> QED BY <1>3, <2>2 DEF Gathers, Held
  <1>9. /\ sicslowpan_buf' = buf
        /\ UNCHANGED <<reass_tag, frag_sender, reass_timer>>
        /\ IF processed_ip_in_len + 1 = len
           THEN sicslowpan_len' = 0 /\ Deliver(buf, len)
           ELSE sicslowpan_len' = len /\ processed_ip_in_len' = processed_ip_in_len + 1
                /\ UNCHANGED history
    <2>1. ~First(f) /\ processed_ip_in_len < len
      BY <1>0, <1>3, <1>5 DEF First, Gathers
    <2>2. (IF ~First(f) /\ processed_ip_in_len + 1 >= f.size THEN f.size ELSE processed_ip_in_len + 1)
             = processed_ip_in_len + 1
      BY <1>0, <1>1, <1>2, <2>1
    <2> HIDE DEF f
    <2>3. f.offset = o /\ Ongoing(f) /\ input_fragment(f)
      BY <1>0 DEF f
    <2> HIDE DEF o
    <2> QED BY <2>2, <2>3 DEF input_fragment
  <1> HIDE DEF Held, o, len, f
  <1>10. CASE processed_ip_in_len + 1 = len
    <2>1. Held \cup {o} = 0 .. len - 1
      BY <1>2, <1>5, <1>7, <1>8, <1>10, FS_Subset
    <2>2. \A i \in 0 .. len - 1 : buf[i] = [from |-> s, packet |-> k, at |-> i]
      BY <1>6, <2>1
    <2>3. 0 \in 0 .. len - 1 /\ len - 1 \in 0 .. len - 1
      BY <1>2, <1>5
    <2>4. buf[0] = [from |-> s, packet |-> k, at |-> 0]
      BY <2>2, <2>3
    <2>5. arrived[s] < k /\ arrived[s] \in Nat /\ k \in Nat
      BY <1>k, FreshFrame
    <2>6. arrived' = [arrived EXCEPT ![s] = k] /\ mixed' = mixed
      <3>1. Deliver(buf, len)
        BY <1>9, <1>10
      <3> HIDE DEF buf
      <3> QED BY <2>2, <2>4, <2>5, <3>1 DEF Deliver
    <2>7. o + 1 >= tx[s].size
      <3>1. CASE len - 1 = o
        BY <1>0, <1>1, <3>1 DEF o, len
      <3>2. CASE len - 1 # o
        <4>1. sicslowpan_buf[len - 1] = [from |-> s, packet |-> k, at |-> len - 1] /\ len - 1 \in Offsets
          BY <1>2, <2>2, <2>3, <3>2
        <4>2. len - 1 <= o
          BY <1>k, <4>1, PieceIsPast DEF IInv, o
        <4> QED BY <1>0, <1>1, <1>2, <4>2 DEF o, len
      <3> QED BY <3>1, <3>2
    <2> QED BY <1>k, <1>9, <1>10, <2>5, <2>6, <2>7 DEF Arrives, GatheringSound, o
  <1>11. CASE processed_ip_in_len + 1 # len
    <2>1. sicslowpan_len' = len /\ processed_ip_in_len' = processed_ip_in_len + 1 /\ UNCHANGED history
      BY <1>9, <1>11
    <2>2. There(s, k)' = Held \cup {o}
      <3>1. There(s, k)' = {i \in 0 .. len - 1 : buf[i] = [from |-> s, packet |-> k, at |-> i]}
        BY <1>9, <2>1 DEF There
      <3> QED BY <1>5, <1>6, <1>7, <3>1
    <2>3. processed_ip_in_len + 1 < len
      BY <1>2, <1>3, <1>11 DEF Gathers, len
    <2>4. 0 \in There(s, k)'
      BY <1>3, <2>2 DEF Gathers, Held
    <2>5. Cardinality(There(s, k)') = processed_ip_in_len'
      BY <1>8, <2>1, <2>2
    <2>6. Gathers(s, k)'
      BY <1>3, <1>9, <2>1, <2>3, <2>4, <2>5 DEF Gathers, SamePackets, Fragmented, history, len
    <2>7. k \in 1 .. tx'[s].packet
      BY <1>k, FreshFrame DEF SamePackets
    <2> QED BY <1>1, <1>9, <2>1, <2>6, <2>7 DEF GatheringSound
  <1> QED BY <1>10, <1>11

(* A fragment that starts a reassembly, or one of a packet that is too big *)
LEMMA FirstFragment ==
    ASSUME IInv, SamePackets, NEW s \in Senders, tx[s].tries > 0,
           ~mac_sequence_is_duplicate(Frame(s)), input_fragment(Frame(s)), ~Ongoing(Frame(s))
    PROVE  GatheringSound' /\ UNCHANGED history
  <1>k. PICK k : k = tx[s].packet
    OBVIOUS
  <1> DEFINE f == Frame(s)
             buf == [sicslowpan_buf EXCEPT ![f.offset] = Piece(f)]
  <1>0. /\ tx[s].size > 1 /\ f.size = tx[s].size /\ f.offset = tx[s].offset
        /\ f.tag = tx[s].tag /\ f.from = s /\ tx[s].size \in Nat
    BY FreshFrame DEF input_fragment
  <1>1. f.size \in Nat /\ f.size > 1
    BY <1>0
  <1>3. /\ sicslowpan_buf' = buf
        /\ UNCHANGED history
        /\ processed_ip_in_len' = 1
        /\ sicslowpan_len' = IF f.size <= UIP_BUFSIZE THEN f.size ELSE 0
        /\ f.size <= UIP_BUFSIZE => First(f) /\ reass_tag' = f.tag /\ frag_sender' = f.from
    <2>1. input_fragment(f) /\ ~Ongoing(f)
      OBVIOUS
    <2> HIDE DEF f
    <2> DEFINE length == IF f.size <= UIP_BUFSIZE THEN f.size ELSE 0
    <2>2. 1 # length /\ (f.size <= UIP_BUFSIZE <=> ~(f.size > UIP_BUFSIZE))
      BY <1>1, Constants
    <2>3. /\ sicslowpan_buf' = buf /\ UNCHANGED history /\ processed_ip_in_len' = 1
          /\ sicslowpan_len' = length
      <3> DEFINE before == IF Ongoing(f) THEN processed_ip_in_len ELSE 0
      <3>1. before = 0 /\ ~(before + 1 >= f.size) /\ before + 1 = 1
        BY <1>1, <2>1
      <3>2. ~Ongoing(f) /\ 1 # length
        BY <2>1, <2>2
      <3> QED BY <2>1, <3>1, <3>2 DEF input_fragment
    <2>4. f.size <= UIP_BUFSIZE => First(f) /\ reass_tag' = f.tag /\ frag_sender' = f.from
      BY <2>1, <2>2 DEF input_fragment
    <2> QED BY <2>3, <2>4
  <1> SUFFICES ASSUME f.size <= UIP_BUFSIZE PROVE GatheringSound'
    BY <1>3 DEF GatheringSound
  <1>4. /\ tx[s].offset = 0 /\ f.offset = 0 /\ sicslowpan_len' = tx[s].size
        /\ reass_tag' = tx[s].tag /\ frag_sender' = s
    BY <1>0, <1>3 DEF First
  <1>5. sicslowpan_buf \in [Offsets -> PieceType] /\ 0 .. tx[s].size - 1 \subseteq Offsets
    BY <1>0, Constants, TypeForm DEF IInv, Offsets
  <1>6. There(s, k)' = {0}
    <2>1. There(s, k)' = {i \in 0 .. tx[s].size - 1 : buf[i] = [from |-> s, packet |-> k, at |-> i]}
      BY <1>3, <1>4 DEF There
    <2>2. 0 \in 0 .. tx[s].size - 1 /\ buf[0] = [from |-> s, packet |-> k, at |-> 0]
      BY <1>k, <1>0, <1>4, <1>5, FreshFrame
    <2>3. ASSUME NEW i \in 0 .. tx[s].size - 1, buf[i] = [from |-> s, packet |-> k, at |-> i]
          PROVE  i = 0
      <3> SUFFICES ASSUME i # 0 PROVE FALSE
        OBVIOUS
      <3>1. sicslowpan_buf[i] = [from |-> s, packet |-> k, at |-> i] /\ i \in Offsets
        BY <1>4, <1>5, <2>3
      <3>2. i <= tx[s].offset
        BY <1>k, <3>1, PieceIsPast DEF IInv
      <3> QED BY <1>4, <2>3, <3>2
    <2> QED BY <2>1, <2>2, <2>3
  <1>7. Cardinality({0}) = 1
    BY FS_Singleton
  <1>8. arrived[s] < k /\ k \in 1 .. tx'[s].packet /\ tx[s].tag \in Nat
    BY <1>k, FreshFrame DEF SamePackets
  <1>9. Gathers(s, k)'
    <2>1. 0 \in There(s, k)' /\ Cardinality(There(s, k)') = processed_ip_in_len'
      BY <1>3, <1>6, <1>7
    <2>2. processed_ip_in_len' < sicslowpan_len'
      BY <1>0, <1>3, <1>4
    <2> QED BY <1>k, <1>3, <1>4, <1>8, <2>1, <2>2 DEF Gathers, SamePackets, history
  <1> QED BY <1>4, <1>8, <1>9 DEF GatheringSound

LEMMA DroppedFragment ==
    ASSUME IInv, SamePackets, NEW s \in Senders, input_dropped(Frame(s))
    PROVE  GatheringSound' /\ UNCHANGED history
  <1>1. CASE Ongoing(Frame(s))
    BY <1>1, KeepsGathering DEF input_dropped, Dropped, reassembly, history
  <1>2. CASE ~Ongoing(Frame(s))
    BY <1>2 DEF input_dropped, Dropped, history, GatheringSound
  <1> QED BY <1>1, <1>2

(* What the receiver does with a frame that it has heard: unless the filter *)
(* knows it, the filter learns it and the buffer may take it in.            *)
LEMMA FrameReceived ==
    ASSUME Enough, IInv, SamePackets, NEW s \in Senders, tx[s].tries > 0, packet_input(Frame(s))
    PROVE  /\ GatheringSound'
           /\ UNCHANGED history \/ Arrives(s)
           /\ \A i \in Offsets : \/ sicslowpan_buf'[i] = sicslowpan_buf[i]
                                 \/ sicslowpan_buf'[i] = [from |-> s, packet |-> tx[s].packet,
                                                         at |-> tx[s].offset]
           /\ Registered(received_seqnos', s, tx[s].seq)
           /\ \A r \in Senders : \A q : r # s /\ Registered(received_seqnos, r, q)
                                        => Registered(received_seqnos', r, q)
  <1>1. tx \in [Senders -> Transmission] /\ FilterType(received_seqnos)
        /\ sicslowpan_buf \in [Offsets -> PieceType]
    BY TypeForm DEF IInv
  <1>2. Frame(s) \in FrameType /\ Frame(s).from = s /\ Frame(s).seq = tx[s].seq
    BY <1>1, FrameFacts
  <1>3. CASE mac_sequence_is_duplicate(Frame(s))
    <2>1. UNCHANGED <<received_seqnos, reassembly, history>>
      BY <1>3 DEF packet_input
    <2>2. GatheringSound'
      BY <2>1, KeepsGathering DEF history
    <2>3. Registered(received_seqnos, s, tx[s].seq)
      BY <1>2, <1>3 DEF mac_sequence_is_duplicate, Registered
    <2> QED BY <2>1, <2>2, <2>3 DEF reassembly
  <1>4. CASE ~mac_sequence_is_duplicate(Frame(s))
    <2>1. received_seqnos' = mac_sequence_register_seqno(Frame(s))
      BY <1>4 DEF packet_input
    <2>2. /\ Registered(received_seqnos', s, tx[s].seq)
          /\ \A r \in Senders : \A q : r # s /\ Registered(received_seqnos, r, q)
                                        => Registered(received_seqnos', r, q)
      <3> HIDE DEF FilterType, Registered
      <3> QED BY <1>1, <1>2, <2>1, FilterLearns DEF Enough
    <2>3. Piece(Frame(s)) = [from |-> s, packet |-> tx[s].packet, at |-> tx[s].offset]
      BY <1>4, FreshFrame
    <2>4. CASE input_whole(Frame(s))
      BY <1>1, <1>4, <2>2, <2>3, <2>4, WholeArrives DEF input_whole
    <2>5. CASE input_dropped(Frame(s))
      BY <2>2, <2>5, DroppedFragment DEF input_dropped, Dropped
    <2>6. CASE input_fragment(Frame(s))
      <3>1. sicslowpan_buf' = [sicslowpan_buf EXCEPT ![Frame(s).offset] = Piece(Frame(s))]
        BY <2>6 DEF input_fragment
      <3>2. GatheringSound' /\ (UNCHANGED history \/ Arrives(s))
        BY <1>4, <2>6, NextFragment, FirstFragment
      <3> QED BY <1>1, <2>2, <2>3, <3>1, <3>2
    <2> QED BY <1>4, <2>4, <2>5, <2>6 DEF packet_input
  <1> QED BY <1>3, <1>4

(* A transmission, whether it is heard or not *)
LEMMA TransmissionKeepsInv ==
    ASSUME Enough, IInv, TypeOK', NEW s \in Senders, Transmits(s),
           \/ tx[s].tries > 0 /\ packet_input(Frame(s))
           \/ UNCHANGED <<received_seqnos, reassembly, history>>
    PROVE  IInv' /\ (UNCHANGED history \/ Arrives(s)) /\ SamePackets
  <1>1. /\ tx \in [Senders -> Transmission] /\ tx' \in [Senders -> Transmission]
        /\ sicslowpan_buf \in [Offsets -> PieceType]
        /\ arrived \in [Senders -> 0 .. MaxPackets]
    BY TypeForm, TransmitsType DEF IInv
  <1>2. PICK u : SentFrom(tx[s], u) /\ tx' = [tx EXCEPT ![s] = u]
    BY DEF Transmits
  <1>3. tx'[s] = u /\ \A r \in Senders : r # s => tx'[r] = tx[r]
    BY <1>1, <1>2
  <1>4. SamePackets
    BY <1>2, <1>3 DEF SamePackets, SentFrom
  <1>5. /\ tx[s].offset \in Nat /\ tx[s].packet \in Nat /\ arrived[s] \in Nat
        /\ \A r \in Senders : tx[r].packet \in Nat /\ arrived[r] \in Nat
    BY <1>1, Constants DEF Transmission
  <1>6. /\ GatheringSound'
        /\ UNCHANGED history \/ Arrives(s)
        /\ \A i \in Offsets : \/ sicslowpan_buf'[i] = sicslowpan_buf[i]
                              \/ sicslowpan_buf'[i] = [from |-> s, packet |-> tx[s].packet,
                                                      at |-> tx[s].offset]
        /\ \/ Registered(received_seqnos', s, tx[s].seq)
           \/ UNCHANGED <<received_seqnos, sicslowpan_buf, history>>
        /\ \A r \in Senders : \A q : r # s /\ Registered(received_seqnos, r, q)
                                        => Registered(received_seqnos', r, q)
    <2>1. CASE tx[s].tries > 0 /\ packet_input(Frame(s))
      BY <1>4, <2>1, FrameReceived
    <2>2. CASE UNCHANGED <<received_seqnos, reassembly, history>>
      BY <1>4, <2>2, KeepsGathering DEF reassembly, history
    <2> QED BY <2>1, <2>2
  <1>7. /\ u.packet = tx[s].packet /\ u.size = tx[s].size /\ u.tag = tx[s].tag
        /\ \/ u.offset = tx[s].offset /\ u.seq = tx[s].seq
           \/ u.offset = tx[s].offset + 1 /\ u.offset < u.size
        /\ u.tries > 0 => tx[s].tries > 0
    BY <1>2 DEF SentFrom
  <1>8. \A r \in Senders : r # s /\ Fresh(r)' => Fresh(r)
    BY <1>3, <1>6 DEF Fresh
  <1>9. ASSUME Fresh(s)', tx'[s].offset = tx[s].offset
        PROVE  Fresh(s) /\ UNCHANGED <<received_seqnos, sicslowpan_buf, history>>
    <2>1. u.seq = tx[s].seq /\ tx[s].tries > 0
      BY <1>3, <1>5, <1>7, <1>9 DEF Fresh
    <2> QED BY <1>3, <1>6, <1>9, <2>1 DEF Fresh
  <1>10. SendersSound'
    <2> SUFFICES ASSUME NEW r \in Senders
                 PROVE  /\ tx'[r].tag <= tx'[r].packet
                        /\ tx'[r].tries > 0 => /\ tx'[r].packet > 0
                                               /\ tx'[r].size \in PacketSizes
                                               /\ tx'[r].offset < tx'[r].size
      BY DEF SendersSound
    <2>1. CASE r = s
      BY <1>3, <1>7, <2>1 DEF IInv, SendersSound
    <2>2. CASE r # s
      BY <1>3, <2>2 DEF IInv, SendersSound
    <2> QED BY <2>1, <2>2
  <1>11. BufferIsPast'
    <2> SUFFICES ASSUME NEW i \in Offsets, NEW r \in Senders, sicslowpan_buf'[i].from = r
                 PROVE  /\ sicslowpan_buf'[i].packet <= tx'[r].packet
                        /\ sicslowpan_buf'[i].packet = tx'[r].packet
                              => sicslowpan_buf'[i].at <= tx'[r].offset
                        /\ Fresh(r)' => sicslowpan_buf'[i] # [from |-> r, packet |-> tx'[r].packet,
                                                             at |-> tx'[r].offset]
      BY DEF BufferIsPast
    <2>1. CASE r # s
      <3>1. sicslowpan_buf'[i] = sicslowpan_buf[i]
        BY <1>6, <2>1
      <3> QED BY <1>3, <1>8, <2>1, <3>1 DEF IInv, BufferIsPast
    <2>2. CASE r = s
      <3>1. /\ sicslowpan_buf'[i].packet <= tx[s].packet
            /\ sicslowpan_buf'[i].packet = tx[s].packet => sicslowpan_buf'[i].at <= tx[s].offset
            /\ sicslowpan_buf'[i].packet \in Nat /\ sicslowpan_buf'[i].at \in Nat
        <4>1. CASE sicslowpan_buf'[i] = sicslowpan_buf[i]
          BY <1>1, <2>2, <4>1, Constants DEF IInv, BufferIsPast, PieceType
        <4>2. CASE sicslowpan_buf'[i] = [from |-> s, packet |-> tx[s].packet, at |-> tx[s].offset]
          BY <1>5, <4>2
        <4> QED BY <1>6, <4>1, <4>2
      <3>2. CASE tx'[s].offset = tx[s].offset + 1
        <4>1. sicslowpan_buf'[i] # [from |-> r, packet |-> tx'[r].packet, at |-> tx'[r].offset]
          <5> SUFFICES ASSUME sicslowpan_buf'[i] = [from |-> r, packet |-> tx'[r].packet,
                                                   at |-> tx'[r].offset]
                       PROVE  FALSE
            OBVIOUS
          <5>1. sicslowpan_buf'[i].packet = tx[s].packet /\ sicslowpan_buf'[i].at = tx[s].offset + 1
            BY <1>3, <1>7, <2>2, <3>2
          <5> QED BY <1>5, <3>1, <5>1
        <4> QED BY <1>3, <1>5, <1>7, <2>2, <3>1, <3>2, <4>1
      <3>3. CASE tx'[s].offset = tx[s].offset
        <4>1. Fresh(r)' => sicslowpan_buf'[i] # [from |-> r, packet |-> tx'[r].packet,
                                                at |-> tx'[r].offset]
          BY <1>3, <1>7, <1>9, <2>2, <3>3 DEF IInv, BufferIsPast
        <4> QED BY <1>3, <1>5, <1>7, <2>2, <3>1, <3>3, <4>1
      <3> QED BY <1>3, <1>7, <3>2, <3>3
    <2> QED BY <2>1, <2>2
  <1>12. ArrivedIsPast'
    <2> SUFFICES ASSUME NEW r \in Senders
                 PROVE  /\ arrived'[r] <= tx'[r].packet
                        /\ tx'[r].tries > 0 /\ arrived'[r] = tx'[r].packet =>
                              ~Fresh(r)' /\ tx'[r].offset + 1 >= tx'[r].size
      BY DEF ArrivedIsPast
    <2>1. CASE r # s
      <3>1. arrived'[r] = arrived[r]
        BY <1>1, <1>6, <2>1 DEF Arrives, history
      <3> QED BY <1>3, <1>8, <2>1, <3>1 DEF IInv, ArrivedIsPast
    <2>2. CASE r = s
      <3>1. arrived'[s] <= tx[s].packet
        BY <1>1, <1>5, <1>6 DEF Arrives, history, IInv, ArrivedIsPast
      <3>2. ASSUME tx'[s].tries > 0, arrived'[s] = tx'[s].packet
            PROVE  ~Fresh(s)' /\ tx'[s].offset + 1 >= tx'[s].size
        <4>1. tx[s].tries > 0 /\ tx[s].size \in Nat
          BY <1>3, <1>7, <3>2, Constants DEF IInv, SendersSound
        <4>2. tx[s].offset + 1 >= tx[s].size
          BY <1>3, <1>6, <1>7, <3>2, <4>1 DEF Arrives, history, IInv, ArrivedIsPast
        <4>3. tx'[s].offset = tx[s].offset
          BY <1>3, <1>5, <1>7, <4>1, <4>2
        <4>4. ~Fresh(s)'
          <5> SUFFICES ASSUME Fresh(s)' PROVE FALSE
            OBVIOUS
          <5>1. Fresh(s) /\ arrived[s] = tx[s].packet
            BY <1>3, <1>7, <1>9, <3>2, <4>3 DEF history
          <5> QED BY <4>1, <5>1 DEF IInv, ArrivedIsPast
        <4> QED BY <1>3, <1>7, <4>2, <4>3, <4>4
      <3> QED BY <1>3, <1>7, <2>2, <3>1, <3>2
    <2> QED BY <2>1, <2>2
  <1>13. ~mixed'
    BY <1>6 DEF Arrives, history, IInv
  <1> QED BY <1>4, <1>6, <1>10, <1>11, <1>12, <1>13 DEF IInv

(* A new packet: its number and, if it is fragmented, its tag are new. *)
LEMMA OutputKeepsInv ==
    ASSUME Enough, IInv, TypeOK', NEW s \in Senders, NEW size \in PacketSizes, output(s, size)
    PROVE  IInv'
  <1>1. /\ tx \in [Senders -> Transmission] /\ tx' \in [Senders -> Transmission]
        /\ sicslowpan_buf \in [Offsets -> PieceType]
        /\ arrived \in [Senders -> 0 .. MaxPackets]
        /\ reass_tag \in Nat
    <2>1. tx' \in [Senders -> Transmission]
      BY DEF TypeOK, Transmission
    <2>2. TypeOK
      BY DEF IInv
    <2>3. reass_tag \in Nat
      BY <2>2, Constants DEF TypeOK
    <2> QED BY <2>1, <2>2, <2>3, TypeForm
  <1>2. /\ tx'[s].packet = tx[s].packet + 1 /\ tx'[s].size = size /\ tx'[s].offset = 0
        /\ tx'[s].tag = IF size > 1 THEN (tx[s].tag + 1) % TAG_MOD ELSE tx[s].tag
        /\ \A r \in Senders : r # s => tx'[r] = tx[r]
    BY <1>1 DEF output
  <1>3. UNCHANGED <<received_seqnos, sicslowpan_buf, sicslowpan_len, processed_ip_in_len, reass_tag,
                    frag_sender, reass_timer, arrived, mixed>>
    BY DEF output, reassembly, history
  <1>4. /\ \A r \in Senders : tx[r].packet \in Nat /\ tx[r].tag \in Nat /\ arrived[r] \in Nat
        /\ tx[s].packet + 1 <= MaxPackets /\ tx[s].tag <= tx[s].packet
        /\ size \in Nat /\ size > 0
    <2>1. tx'[s].packet \in 0 .. MaxPackets
      BY <1>1 DEF Transmission
    <2> QED BY <1>1, <1>2, <2>1, Constants DEF Transmission, IInv, SendersSound
  <1>5. (tx[s].tag + 1) % TAG_MOD = tx[s].tag + 1
    BY <1>4, Constants DEF Enough
  <1>6. SendersSound'
    BY <1>2, <1>4, <1>5 DEF SendersSound, IInv
  <1>7. \A r \in Senders : r # s /\ Fresh(r)' => Fresh(r)
    BY <1>2, <1>3 DEF Fresh
  <1>8. BufferIsPast'
    <2> SUFFICES ASSUME NEW i \in Offsets, NEW r \in Senders, sicslowpan_buf[i].from = r
                 PROVE  /\ sicslowpan_buf[i].packet <= tx'[r].packet
                        /\ sicslowpan_buf[i].packet = tx'[r].packet
                              => sicslowpan_buf[i].at <= tx'[r].offset
                        /\ Fresh(r)' => sicslowpan_buf[i] # [from |-> r, packet |-> tx'[r].packet,
                                                            at |-> tx'[r].offset]
      BY <1>3 DEF BufferIsPast
    <2>1. CASE r # s
      BY <1>2, <1>7, <2>1 DEF IInv, BufferIsPast
    <2>2. CASE r = s
      <3>1. sicslowpan_buf[i].packet <= tx[s].packet /\ sicslowpan_buf[i].packet \in Nat
        BY <1>1, <2>2, Constants DEF IInv, BufferIsPast, PieceType
      <3>2. sicslowpan_buf[i].packet < tx'[s].packet
        BY <1>2, <1>4, <3>1
      <3>3. sicslowpan_buf[i].packet # tx'[s].packet /\ sicslowpan_buf[i].packet <= tx'[s].packet
        BY <1>2, <1>4, <3>1
      <3> QED BY <2>2, <3>3
    <2> QED BY <2>1, <2>2
  <1>9. ArrivedIsPast'
    BY <1>2, <1>3, <1>4, <1>7 DEF IInv, ArrivedIsPast
  <1>10. GatheringSound'
    <2> SUFFICES ASSUME sicslowpan_len > 0 PROVE GatheringSound'
      BY <1>3 DEF GatheringSound
    <2>1. PICK k \in 1 .. tx[frag_sender].packet : Gathers(frag_sender, k)
      BY DEF IInv, GatheringSound
    <2>2. frag_sender \in Senders
      BY DEF IInv, GatheringSound
    <2>3. There(frag_sender, k)' = There(frag_sender, k)
      BY <1>3 DEF There
    <2>4. Gathers(frag_sender, k)'
      <3>1. CASE frag_sender # s
        BY <1>2, <1>3, <2>1, <2>2, <2>3, <3>1 DEF Gathers, Fragmented
      <3>2. CASE frag_sender = s
        <4>1. k # tx'[s].packet
          BY <1>2, <1>4, <2>1, <3>2
        <4>2. reass_tag <= tx'[s].tag /\ (size > 1 => reass_tag < tx'[s].tag)
          BY <1>1, <1>2, <1>4, <1>5, <2>1, <3>2 DEF Gathers
        <4> QED BY <1>2, <1>3, <2>1, <2>3, <3>2, <4>1, <4>2 DEF Gathers, Fragmented
      <3> QED BY <3>1, <3>2
    <2>5. k \in 1 .. tx'[frag_sender].packet
      BY <1>2, <1>4, <2>1, <2>2
    <2> QED BY <1>3, <2>2, <2>4, <2>5 DEF GatheringSound
  <1> QED BY <1>3, <1>6, <1>8, <1>9, <1>10 DEF IInv

LEMMA TickKeepsInv ==
    ASSUME IInv, TypeOK', clock_tick \/ UNCHANGED vars
    PROVE  IInv'
  <1>1. UNCHANGED <<tx, received_seqnos, sicslowpan_buf, sicslowpan_len, processed_ip_in_len,
                    reass_tag, frag_sender, arrived, mixed>>
    BY DEF clock_tick, vars, link, reassembly, history
  <1>2. \A s, k : There(s, k)' = There(s, k)
    BY <1>1 DEF There
  <1>3. \A s : Fresh(s)' = Fresh(s)
    BY <1>1 DEF Fresh
  <1>4. GatheringSound'
    BY <1>1, <1>2 DEF IInv, GatheringSound, Gathers, Fragmented
  <1> QED BY <1>1, <1>3, <1>4 DEF IInv, SendersSound, BufferIsPast, ArrivedIsPast

LEMMA StepKeepsInv ==
    ASSUME Enough, IInv, TypeOK', [Next]_vars
    PROVE  IInv'
  <1>1. tx \in [Senders -> Transmission]
    BY TypeForm DEF IInv
  <1>2. ASSUME NEW s \in Senders, NEW size \in PacketSizes, output(s, size) PROVE IInv'
    BY <1>2, OutputKeepsInv
  <1>3. ASSUME NEW s \in Senders, output_fails(s) PROVE IInv'
    BY <1>1, <1>3, TransmissionSends, TransmissionKeepsInv DEF output_fails
  <1>4. ASSUME NEW s \in Senders, NEW acked \in BOOLEAN, transmit(s, acked) PROVE IInv'
    BY <1>1, <1>4, TransmissionSends, TransmissionKeepsInv DEF transmit
  <1>5. ASSUME NEW s \in Senders, NEW acked \in BOOLEAN, transmit_lost(s, acked) PROVE IInv'
    BY <1>1, <1>5, TransmissionSends, TransmissionKeepsInv DEF transmit_lost
  <1> QED BY <1>2, <1>3, <1>4, <1>5, TickKeepsInv DEF Next

LEMMA InvInit == Init /\ TypeOK => IInv
  <1> SUFFICES ASSUME Init, TypeOK PROVE IInv
    OBVIOUS
  <1>1. \A i \in Offsets : sicslowpan_buf[i].from = Nobody
    BY DEF Init, NoPiece
  <1>2. BufferIsPast
    BY <1>1, Constants DEF BufferIsPast
  <1> QED BY <1>2 DEF Init, IInv, SendersSound, ArrivedIsPast, GatheringSound, Quiet

LEMMA InvHolds == Enough /\ Spec => [](Enough /\ IInv)
  <1> DEFINE Inv == Enough /\ IInv
  <1>1. Enough /\ Init /\ TypeOK => Inv
    BY InvInit
  <1>2. Inv /\ TypeOK' /\ [Next]_vars => Inv'
    BY StepKeepsInv DEF Enough
  <1> HIDE DEF Inv
  <1>3. Enough /\ Spec => []Inv
    BY <1>1, <1>2, SixTypeCorrect, PTL DEF Spec
  <1> QED BY <1>3, PTL DEF Inv

-----------------------------------------------------------------------------
(* The pieces that were counted are in the buffer, each at its place: no    *)
(* repeated frame is counted twice (sicslowpan.c:1803), so that what is     *)
(* complete by its count has no hole.                                       *)
THEOREM CountIsTrue == Enough /\ Spec => []CountedIsThere
  <1>1. IInv => CountedIsThere
    <2> SUFFICES ASSUME IInv, sicslowpan_len > 0
                 PROVE  \E k \in 1 .. MaxPackets :
                            Cardinality(There(frag_sender, k)) = processed_ip_in_len
      BY DEF CountedIsThere, There
    <2>1. PICK k \in 1 .. tx[frag_sender].packet : Gathers(frag_sender, k)
      BY DEF IInv, GatheringSound
    <2>2. tx[frag_sender].packet \in 0 .. MaxPackets
      BY TypeForm DEF IInv, GatheringSound, Transmission
    <2>3. k \in 1 .. MaxPackets
      BY <2>1, <2>2, Constants
    <2> QED BY <2>1, <2>3 DEF Gathers
  <1> QED BY <1>1, InvHolds, PTL

(* What is handed to IP (sicslowpan.c:1852) is a packet as it was sent, at  *)
(* most once and in the order of its sender, whatever is lost or repeated   *)
(* and however the fragments of the senders interleave.                     *)
THEOREM ImplementsDatagramService == Enough /\ Spec => IsDatagramService
  <1> DEFINE Sent == [s \in Senders |-> tx[s].packet]
             Got == IF mixed THEN [s \in Senders |-> MaxPackets + 1] ELSE arrived
  <1>1. Init => Packets!Init
    BY DEF Init, Packets!Init, Quiet
  <1>2. Enough /\ IInv /\ IInv' /\ [Next]_vars => [Packets!Next]_(Packets!vars)
    <2> SUFFICES ASSUME Enough, IInv, IInv', [Next]_vars PROVE [Packets!Next]_(Packets!vars)
      OBVIOUS
    <2>1. tx \in [Senders -> Transmission] /\ TypeOK'
      BY TypeForm DEF IInv
    <2>2. Got = arrived /\ Got' = arrived'
      BY DEF IInv
    <2>3. ASSUME SamePackets, UNCHANGED history PROVE UNCHANGED Packets!vars
      BY <2>2, <2>3 DEF Packets!vars, SamePackets, history
    <2>4. ASSUME NEW s \in Senders, SamePackets, Arrives(s) PROVE Packets!Arrive(s)
      <3>1. tx[s].packet \in arrived[s] + 1 .. Sent[s]
        BY <2>1, <2>4, Constants, TypeForm DEF Arrives, IInv, Transmission
      <3>2. Sent' = Sent /\ arrived' = [arrived EXCEPT ![s] = tx[s].packet]
        BY <2>4 DEF SamePackets, Arrives
      <3> QED BY <2>2, <3>1, <3>2 DEF Packets!Arrive
    <2>5. ASSUME NEW s \in Senders, NEW size \in PacketSizes, output(s, size) PROVE Packets!Send(s)
      <3>1. Sent' = [Sent EXCEPT ![s] = @ + 1]
        BY <2>1, <2>5 DEF output
      <3> QED BY <2>2, <2>5, <3>1 DEF Packets!Send, output, history
    <2>6. ASSUME NEW s \in Senders, NEW acked \in BOOLEAN,
                 transmit(s, acked) \/ transmit_lost(s, acked) \/ output_fails(s)
          PROVE  Packets!Next \/ UNCHANGED Packets!vars
      <3>1. Transmits(s)
        BY <2>1, <2>6, TransmissionSends
      <3>2. SamePackets /\ (UNCHANGED history \/ Arrives(s))
        BY <2>1, <2>6, <3>1, TransmissionKeepsInv DEF transmit, transmit_lost, output_fails
      <3> QED BY <2>3, <2>4, <3>2 DEF Packets!Next
    <2>7. CASE clock_tick \/ UNCHANGED vars
      BY <2>7, <2>3 DEF clock_tick, vars, link, SamePackets
    <2> QED BY <2>5, <2>6, <2>7 DEF Next, Packets!Next
  <1> QED BY <1>1, <1>2, InvHolds, PTL DEF Spec, IsDatagramService, Packets!Spec
=============================================================================
