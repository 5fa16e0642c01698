-------------------------- MODULE SerialLineProofs --------------------------
(***************************************************************************)
(* Proofs about the serial line for buffers and event queues of every      *)
(* size: types are kept, so no index leaves its buffer, and the event      *)
(* queue under the driver stays a first-in first-out queue.                *)
(***************************************************************************)
EXTENDS SerialLine, EventQueueProofs

Rings == [data : [Indices -> Bytes], mask : {BUFSIZE - 1}, put_ptr : Indices, get_ptr : Indices]

-----------------------------------------------------------------------------
(* Indices of the ring wrap at its size. *)
LEMMA IndexWraps == \A x \in Indices : (x + 1) % (BUFSIZE - 1 + 1) \in Indices
BY SerialAssumption, SMT DEF Indices

(* ringbuf_put writes a slot of the buffer. *)
LEMMA PutKeepsRing ==
    ASSUME NEW r \in Rings, NEW b \in Bytes
    PROVE  ringbuf_put(r, b) \in Rings
<1>1. r.mask = BUFSIZE - 1 /\ (r.put_ptr + 1) % (r.mask + 1) \in Indices
  BY IndexWraps DEF Rings
<1> QED BY <1>1 DEF ringbuf_put, Rings

(* ringbuf_get only moves get_ptr, and what it returns is a byte. *)
LEMMA GetKeepsRing ==
    ASSUME NEW r \in Rings
    PROVE  ringbuf_get(r) \in Rings /\ Oldest(r) \in Bytes
<1>1. r.mask = BUFSIZE - 1 /\ (r.get_ptr + 1) % (r.mask + 1) \in Indices
  BY IndexWraps DEF Rings
<1> QED BY <1>1 DEF ringbuf_get, Oldest, Rings

-----------------------------------------------------------------------------
(* Every step of the driver is a step of the event queue or leaves it alone. *)
LEMMA QueueSteps == [SerialNext]_serial_vars => [Next]_vars
<1> SUFFICES ASSUME [SerialNext]_serial_vars PROVE [Next]_vars
  OBVIOUS
<1>1. {"line", "continue", "other"} = Event
  BY SerialAssumption
<1>2. CASE type
  BY <1>2 DEF type, queue, vars
<1>3. CASE serial_get \/ serial_char \/ serial_backspace
  BY <1>3 DEF serial_get, serial_char, serial_backspace, queue, vars
<1>4. CASE serial_end \/ serial_wait \/ other_post
  BY <1>1, <1>4 DEF serial_end, serial_wait, other_post, Next
<1>5. CASE process_run
  BY <1>5 DEF process_run, Next
<1>6. CASE do_poll \/ deliver_serial \/ \E r \in Readers : deliver_line(r)
  BY <1>6 DEF do_poll, deliver_serial, deliver_line, queue, vars
<1>7. CASE UNCHANGED serial_vars
  BY <1>7 DEF serial_vars, queue, vars
<1> QED BY <1>2, <1>3, <1>4, <1>5, <1>6, <1>7 DEF SerialNext, Thread, Kernel

(* The behaviour of the event queue under the driver is one of EventQueue. *)
LEMMA QueueIsEventQueue == SerialSpec => Spec
<1>1. SerialInit => Init
  BY DEF SerialInit
<1> QED BY <1>1, QueueSteps, PTL DEF SerialSpec, Spec

(* Whatever the driver and the other processes post, the ring of process.c *)
(* is a first-in first-out queue.                                          *)
THEOREM EventsStayFifo == SerialSpec => IsFifo
BY QueueIsEventQueue, RingIsFifo, PTL

-----------------------------------------------------------------------------
(* What makes the types inductive: the line that is typed is counted by the *)
(* bytes, and while the process edits a line there is room for its end.     *)
SerialInv ==
    /\ SerialTypeOK
    /\ typed.line <= typed.bytes + 1
    /\ pc \in {"yield", "get", "got"} => ptr < BUFSIZE

LEMMA ControlsAreBytes ==
    Control("end") \in Bytes /\ Control("backspace") \in Bytes /\ Control("nul") \in Bytes
BY DEF Bytes

LEMMA SerialInitInv == SerialInit => SerialInv
<1> SUFFICES ASSUME SerialInit PROVE SerialInv
  OBVIOUS
<1>1. TypeOK
  BY InitTypeOK DEF SerialInit
<1>2. 0 \in Indices /\ BUFSIZE - 1 \in Nat
  BY SerialAssumption DEF Indices
<1>3. rxbuf \in Rings
  BY <1>2, ControlsAreBytes, SerialAssumption DEF SerialInit, ringbuf_init, Rings, Indices
<1>4. typed \in [line : 1 .. MaxBytes + 1, col : 0 .. BUFSIZE - 1, bytes : 0 .. MaxBytes]
  BY <1>2, SerialAssumption DEF SerialInit
<1>5. buf \in [Indices -> Bytes] /\ c \in Bytes /\ handed \in [Readers -> 0 .. MaxBytes]
  BY ControlsAreBytes, SerialAssumption DEF SerialInit
<1>6. overflow \in BOOLEAN /\ needspoll \in BOOLEAN /\ torn \in BOOLEAN /\ todo \subseteq Readers \cup {serial}
  BY DEF SerialInit
<1>7. pc = "yield" /\ ptr \in 0 .. BUFSIZE /\ ptr < BUFSIZE /\ typed.line <= typed.bytes + 1
  BY SerialAssumption DEF SerialInit
<1>8. SerialTypeOK
  BY <1>1, <1>3, <1>4, <1>5, <1>6, <1>7 DEF SerialTypeOK, Rings
<1> QED BY <1>7, <1>8 DEF SerialInv

(* The interrupt keeps the types: what it puts is a byte that was counted. *)
LEMMA InterruptKeepsInv == ASSUME SerialInv, TypeOK', type PROVE SerialInv'
<1> DEFINE b1 == Char(typed.line, typed.col + 1)
           Typed == [line : 1 .. MaxBytes + 1, col : 0 .. BUFSIZE - 1, bytes : 0 .. MaxBytes]
<1>1. typed \in Typed /\ typed.bytes < MaxBytes /\ typed.line <= typed.bytes + 1
  BY DEF SerialInv, SerialTypeOK, type
<1>2. typed.col < BUFSIZE - 1 => b1 \in Bytes
  BY <1>1, SerialAssumption DEF Char, Bytes
<1>3. ASSUME NEW b \in Bytes, serial_line_input_byte(b)
      PROVE  rxbuf' \in Rings /\ overflow' \in BOOLEAN /\ needspoll' \in BOOLEAN
  BY <1>3, PutKeepsRing DEF serial_line_input_byte, Fits, Room, SerialInv, SerialTypeOK, Rings
<1>4. rxbuf' \in Rings /\ overflow' \in BOOLEAN /\ needspoll' \in BOOLEAN
  BY <1>2, <1>3, ControlsAreBytes DEF type
<1>5. typed' \in Typed /\ typed'.line <= typed'.bytes + 1
  <2>1. CASE typed.col < BUFSIZE - 1 /\ typed' = [typed EXCEPT !.col = @ + 1, !.bytes = @ + 1]
    <3>1. typed' = [line |-> typed.line, col |-> typed.col + 1, bytes |-> typed.bytes + 1]
      BY <1>1, <2>1
    <3> QED BY <1>1, <2>1, <3>1, SerialAssumption
  <2>2. CASE typed.col > 0 /\ typed' = [typed EXCEPT !.col = @ - 1, !.bytes = @ + 1]
    <3>1. typed' = [line |-> typed.line, col |-> typed.col - 1, bytes |-> typed.bytes + 1]
      BY <1>1, <2>2
    <3> QED BY <1>1, <2>2, <3>1, SerialAssumption
  <2>3. CASE typed' = [line |-> typed.line + 1, col |-> 0, bytes |-> typed.bytes + 1]
    BY <1>1, <2>3, SerialAssumption
  <2> QED BY <2>1, <2>2, <2>3 DEF type
<1> QED BY <1>4, <1>5 DEF SerialInv, SerialTypeOK, Rings, type, thread, history

(* The thread keeps the types: it writes no slot behind the line buffer. *)
LEMMA ThreadKeepsInv == ASSUME SerialInv, TypeOK', Thread PROVE SerialInv'
<1>1. /\ rxbuf \in Rings /\ ptr \in 0 .. BUFSIZE /\ c \in Bytes
      /\ buf \in [Indices -> Bytes] /\ BUFSIZE \in Nat /\ BUFSIZE > 1
  BY SerialAssumption DEF SerialInv, SerialTypeOK, Rings
<1>2. ringbuf_get(rxbuf) \in Rings /\ Oldest(rxbuf) \in Bytes
  BY <1>1, GetKeepsRing
<1>3. CASE serial_get
  BY <1>1, <1>2, <1>3 DEF serial_get, SerialInv, SerialTypeOK, Rings, input, history
<1>4. CASE serial_char
  <2>1. buf' \in [Indices -> Bytes] /\ ptr' \in 0 .. BUFSIZE /\ ptr' < BUFSIZE
    BY <1>1, <1>4 DEF serial_char, SerialInv, Indices
  <2> QED BY <1>1, <1>2, <1>4, <2>1
          DEF serial_char, Took, SerialInv, SerialTypeOK, Rings, history
<1>5. CASE serial_backspace
  <2>1. ptr' \in 0 .. BUFSIZE /\ ptr' < BUFSIZE
    BY <1>1, <1>5 DEF serial_backspace, SerialInv
  <2> QED BY <1>1, <1>2, <1>5, <2>1
          DEF serial_backspace, Took, SerialInv, SerialTypeOK, Rings, history
<1>6. CASE serial_end
  <2>1. ptr \in Indices /\ ptr' \in 0 .. BUFSIZE
    BY <1>1, <1>6 DEF serial_end, SerialInv, Indices
  <2>2. buf' \in [Indices -> Bytes]
    BY <1>1, <1>6, <2>1, ControlsAreBytes DEF serial_end
  <2> QED BY <1>1, <1>2, <1>6, <2>1, <2>2
          DEF serial_end, Took, SerialInv, SerialTypeOK, Rings, history
<1>7. CASE serial_wait
  BY <1>1, <1>7 DEF serial_wait, SerialInv, SerialTypeOK, Rings, input, history
<1> QED BY <1>3, <1>4, <1>5, <1>6, <1>7 DEF Thread

(* The kernel keeps the types: a reader is handed a line that was typed. *)
LEMMA KernelKeepsInv ==
    ASSUME SerialInv, TypeOK', Kernel \/ other_post PROVE SerialInv'
<1>1. BUFSIZE \in Nat /\ BUFSIZE > 1 /\ MaxBytes \in Nat
  BY SerialAssumption
<1>2. CASE do_poll
  BY <1>2 DEF do_poll, SerialInv, SerialTypeOK, input, history
<1>3. CASE process_run
  BY <1>3 DEF process_run, SerialInv, SerialTypeOK, input, thread, history
<1>4. CASE deliver_serial
  BY <1>1, <1>4 DEF deliver_serial, Idle, SerialInv, SerialTypeOK, input, history
<1>5. ASSUME NEW r \in Readers, deliver_line(r) PROVE SerialInv'
  <2>1. 0 \in Indices /\ buf[0] \in Bytes
    BY <1>1 DEF SerialInv, SerialTypeOK, Indices
  <2>2. buf[0].line \in 0 .. MaxBytes
    BY <1>1, <2>1 DEF Bytes, Control
  <2>3. handed' \in [Readers -> 0 .. MaxBytes] /\ torn' \in BOOLEAN
    BY <1>5, <2>2 DEF deliver_line, SerialInv, SerialTypeOK, history
  <2> QED BY <1>5, <2>3 DEF deliver_line, SerialInv, SerialTypeOK, input, thread
<1>6. CASE other_post
  BY <1>6 DEF other_post, SerialInv, SerialTypeOK, input, thread, history
<1> QED BY <1>2, <1>3, <1>4, <1>5, <1>6 DEF Kernel

LEMMA StepKeepsSerialInv ==
    ASSUME SerialInv, TypeOK', [SerialNext]_serial_vars PROVE SerialInv'
<1>1. CASE UNCHANGED serial_vars
  BY <1>1 DEF SerialInv, SerialTypeOK, serial_vars, input, thread, history
<1> QED BY <1>1, InterruptKeepsInv, ThreadKeepsInv, KernelKeepsInv DEF SerialNext

(* The ring buffer, the line buffer and the event queue keep their types:   *)
(* no index of the driver leaves its buffer, whatever is typed.             *)
THEOREM SerialTypeCorrect == SerialSpec => []SerialTypeOK
<1>1. SerialInit => SerialInv
  BY SerialInitInv
<1>2. SerialInv /\ TypeOK' /\ [SerialNext]_serial_vars => SerialInv'
  BY StepKeepsSerialInv
<1>3. SerialInv => SerialTypeOK
  BY DEF SerialInv
<1> QED BY <1>1, <1>2, <1>3, QueueIsEventQueue, TypeCorrect, PTL DEF SerialSpec

-----------------------------------------------------------------------------
(* The ring buffer as a queue: its first byte is the oldest, and a put adds *)
(* one behind the last, which is another slot than that of any unread one.  *)

(* Remainders over one turn of the ring in either direction *)
Turn(x) == x % BUFSIZE

LEMMA TurnsOnce ==
    \A x \in Int : - BUFSIZE < x /\ x < 2 * BUFSIZE
        => Turn(x) = IF x < 0 THEN x + BUFSIZE ELSE IF x < BUFSIZE THEN x ELSE x - BUFSIZE
<1> SUFFICES ASSUME NEW x \in Int, - BUFSIZE < x, x < 2 * BUFSIZE
             PROVE  x % BUFSIZE = IF x < 0 THEN x + BUFSIZE
                                  ELSE IF x < BUFSIZE THEN x ELSE x - BUFSIZE
  BY DEF Turn
<1>1. BUFSIZE \in Nat /\ BUFSIZE > 1
  BY SerialAssumption
<1> DEFINE q == x \div BUFSIZE
           r == x % BUFSIZE
<1>2. q \in Int /\ r \in 0 .. BUFSIZE - 1 /\ x = BUFSIZE * q + r
  BY <1>1, SMT
<1> HIDE DEF q, r
<1>3. q = -1 \/ q = 0 \/ q = 1
  <2>1. ASSUME q >= 2 PROVE FALSE
    <3>1. BUFSIZE * q >= BUFSIZE * 2
      BY <1>1, <1>2, <2>1, SMT
    <3> QED BY <1>1, <1>2, <3>1, SMT
  <2>2. ASSUME q <= -2 PROVE FALSE
    <3>1. BUFSIZE * q <= BUFSIZE * (-2)
      BY <1>1, <1>2, <2>2, SMT
    <3> QED BY <1>1, <1>2, <3>1, SMT
  <2> QED BY <1>2, <2>1, <2>2, SMT
<1>4. r = IF x < 0 THEN x + BUFSIZE ELSE IF x < BUFSIZE THEN x ELSE x - BUFSIZE
  <2>1. CASE q = -1
    BY <1>1, <1>2, <2>1, SMT
  <2>2. CASE q = 0
    BY <1>1, <1>2, <2>2, SMT
  <2>3. CASE q = 1
    BY <1>1, <1>2, <2>3, SMT
  <2> QED BY <1>3, <2>1, <2>2, <2>3
<1> QED BY <1>4 DEF r

(* What a ring consists of *)
LEMMA RingParts ==
    ASSUME NEW r \in Rings
    PROVE  /\ BUFSIZE \in Nat /\ BUFSIZE > 1
           /\ r.put_ptr \in 0 .. BUFSIZE - 1 /\ r.get_ptr \in 0 .. BUFSIZE - 1
           /\ r.mask = BUFSIZE - 1
           /\ r.data \in [0 .. BUFSIZE - 1 -> Bytes]
           /\ ringbuf_elements(r) = Turn(r.put_ptr - r.get_ptr)
           /\ ringbuf_elements(r) \in 0 .. BUFSIZE - 1
<1>1. /\ BUFSIZE \in Nat /\ BUFSIZE > 1
      /\ r.put_ptr \in 0 .. BUFSIZE - 1 /\ r.get_ptr \in 0 .. BUFSIZE - 1
      /\ r.mask = BUFSIZE - 1 /\ r.data \in [0 .. BUFSIZE - 1 -> Bytes]
  BY SerialAssumption DEF Rings, Indices
<1>2. r.mask + 1 = BUFSIZE
  BY <1>1
<1>3. ringbuf_elements(r) = Turn(r.put_ptr - r.get_ptr)
  BY <1>2 DEF ringbuf_elements, Turn
<1>4. Turn(r.put_ptr - r.get_ptr) \in 0 .. BUFSIZE - 1
  BY <1>1, TurnsOnce
<1> QED BY <1>1, <1>3, <1>4

LEMMA PutAppends ==
    ASSUME NEW r \in Rings, Room(r), NEW b \in Bytes,
           NEW n, n = ringbuf_elements(r), NEW s, s = ringbuf_put(r, b)
    PROVE  /\ ringbuf_elements(s) = n + 1
           /\ s.get_ptr = r.get_ptr
           /\ s.data[Turn(r.get_ptr + n)] = b
           /\ \A i \in 0 .. n - 1 : s.data[Turn(r.get_ptr + i)] = r.data[Turn(r.get_ptr + i)]
<1> DEFINE g == r.get_ptr
           p == r.put_ptr
<1>1. /\ BUFSIZE \in Nat /\ BUFSIZE > 1 /\ p \in 0 .. BUFSIZE - 1 /\ g \in 0 .. BUFSIZE - 1
      /\ n = Turn(p - g) /\ n \in 0 .. BUFSIZE - 1 /\ n # BUFSIZE - 1
      /\ r.data \in [0 .. BUFSIZE - 1 -> Bytes]
  BY RingParts DEF Room
<1>2. s.get_ptr = g /\ s.data = [r.data EXCEPT ![p] = b] /\ s.put_ptr = Turn(p + 1)
  <2>1. r.mask + 1 = BUFSIZE
    BY RingParts
  <2> QED BY <2>1 DEF ringbuf_put, Turn, Rings
<1>3. ringbuf_elements(s) = Turn(Turn(p + 1) - g)
  BY <1>2, PutKeepsRing, RingParts
<1> HIDE DEF g, p
<1>4. Turn(p + 1) = IF p + 1 < BUFSIZE THEN p + 1 ELSE 0
  BY <1>1, TurnsOnce
<1>5. n = IF p < g THEN p - g + BUFSIZE ELSE p - g
  BY <1>1, TurnsOnce
<1>6. ringbuf_elements(s) = n + 1
  BY <1>1, <1>3, <1>4, <1>5, TurnsOnce
<1>7. Turn(g + n) = p
  BY <1>1, <1>5, TurnsOnce
<1>8. ASSUME NEW i \in 0 .. n - 1 PROVE Turn(g + i) # p /\ Turn(g + i) \in 0 .. BUFSIZE - 1
  BY <1>1, <1>5, TurnsOnce
<1>9. s.data[p] = b /\ \A j \in 0 .. BUFSIZE - 1 : j # p => s.data[j] = r.data[j]
  BY <1>1, <1>2
<1> QED BY <1>2, <1>6, <1>7, <1>8, <1>9 DEF g

LEMMA GetRemoves ==
    ASSUME NEW r \in Rings, ringbuf_elements(r) # 0,
           NEW n, n = ringbuf_elements(r), NEW s, s = ringbuf_get(r)
    PROVE  /\ ringbuf_elements(s) = n - 1
           /\ \A i \in 0 .. n - 2 : s.data[Turn(s.get_ptr + i)] = r.data[Turn(r.get_ptr + i + 1)]
<1> DEFINE g == r.get_ptr
           p == r.put_ptr
<1>1. /\ BUFSIZE \in Nat /\ BUFSIZE > 1 /\ p \in 0 .. BUFSIZE - 1 /\ g \in 0 .. BUFSIZE - 1
      /\ n = Turn(p - g) /\ n \in 0 .. BUFSIZE - 1 /\ n # 0
  BY RingParts
<1>2. s.get_ptr = Turn(g + 1) /\ s.data = r.data /\ s.put_ptr = p
  <2>1. r.mask + 1 = BUFSIZE
    BY RingParts
  <2> QED BY <2>1 DEF ringbuf_get, Turn, Rings
<1>3. ringbuf_elements(s) = Turn(p - Turn(g + 1))
  BY <1>2, GetKeepsRing, RingParts
<1> HIDE DEF g, p
<1>4. Turn(g + 1) = IF g + 1 < BUFSIZE THEN g + 1 ELSE 0
  BY <1>1, TurnsOnce
<1>5. n = IF p < g THEN p - g + BUFSIZE ELSE p - g
  BY <1>1, TurnsOnce
<1>6. ringbuf_elements(s) = n - 1
  BY <1>1, <1>3, <1>4, <1>5, TurnsOnce
<1>7. ASSUME NEW i \in 0 .. n - 2 PROVE Turn(Turn(g + 1) + i) = Turn(g + i + 1)
  BY <1>1, <1>4, TurnsOnce
<1> QED BY <1>2, <1>6, <1>7 DEF g

LEMMA OldestIsFirst == ASSUME NEW r \in Rings PROVE Oldest(r) = r.data[Turn(r.get_ptr)]
<1>1. Turn(r.get_ptr) = r.get_ptr
  BY RingParts, TurnsOnce
<1> QED BY <1>1 DEF Oldest

-----------------------------------------------------------------------------
(* The bytes in the ring are keystrokes: each leads from a place of the     *)
(* typed text, a line and a column, to the next one.  After an overflow an  *)
(* end leads to the start of some later line.                               *)
Position == [line : Nat, col : Nat]
Unread == ringbuf_elements(rxbuf)
Byte(i) == rxbuf.data[Turn(rxbuf.get_ptr + i)]

Leads(p, b, q) ==
    \/ b = Char(p.line, p.col + 1) /\ q = [line |-> p.line, col |-> p.col + 1]
    \/ b = Control("backspace") /\ p.col > 0 /\ q = [line |-> p.line, col |-> p.col - 1]
    \/ b = Control("end") /\ q.line > p.line /\ q.col = 0

(* pos[i] is where the i oldest bytes lead; the last one leads to where     *)
(* the typist is, unless bytes are being skipped.                           *)
Follows(pos) ==
    /\ \A i \in 0 .. Unread - 1 : Leads(pos[i], Byte(i), pos[i + 1])
    /\ pos[Unread].line <= typed.line
    /\ ~overflow => pos[Unread] = [line |-> typed.line, col |-> typed.col]

(* The line buffer holds what leads to position p, or an ended line that    *)
(* lies before it.                                                          *)
Edited(p) ==
    /\ pc \in {"yield", "get", "got"} =>
         ptr = p.col /\ \A i \in 0 .. ptr - 1 : buf[i] = Char(p.line, i + 1)
    /\ pc \in {"posted", "continue"} =>
         /\ p.col = 0 /\ ptr >= 1 /\ buf[ptr - 1] = Control("nul")
         /\ \A i \in 0 .. ptr - 2 : buf[i] = Char(buf[0].line, i + 1)
         /\ ptr > 1 => buf[0].line < p.line

(* A reader that has yet to get the ended line. *)
Owed(r) == \/ pc = "posted"
           \/ \E i \in 1 .. nevents : Waiting[i] = "continue" /\ (i > 1 \/ r \in todo)

HandedBefore(p) ==
    \A r \in Readers :
        /\ handed[r] < p.line
        /\ ptr > 1 /\ pc \in {"posted", "continue"} /\ Owed(r) => handed[r] < buf[0].line

(* An event the process waits for stands behind the one of its line. *)
ContinueBehindLine ==
    /\ \A i \in 1 .. nevents : Waiting[i] = "continue" =>
         /\ pc = "continue"
         /\ i = 1 => current = "line"
         /\ i > 1 => Waiting[i - 1] = "line"
    /\ \A i, j \in 1 .. nevents : Waiting[i] = "continue" /\ Waiting[j] = "continue" => i = j
    /\ current = "continue" /\ serial \in todo =>
         pc = "continue" /\ \A i \in 1 .. nevents : Waiting[i] # "continue"
    /\ \A r \in Readers : r \in todo => current = "line"
    /\ pc = "posted" => nevents = NUMEVENTS \/ (nevents > 0 /\ Waiting[nevents] = "line")

Reads(pos) ==
    /\ pos \in [Nat -> Position]
    /\ Follows(pos) /\ Edited(pos[0]) /\ HandedBefore(pos[0])

LineInv ==
    /\ SerialInv
    /\ ContinueBehindLine
    /\ pc = "got" => Unread # 0 /\ c = Byte(0)
    /\ ~torn
    /\ \E pos : Reads(pos)

-----------------------------------------------------------------------------
(* What a post and a delivery do to the waiting events *)
LEMMA PostIsBehind ==
    ASSUME TypeOK, TypeOK', NEW e \in Event, process_post(e)
    PROVE  /\ nevents \in Nat /\ nevents' = nevents + 1 /\ current' = current
           /\ Waiting'[nevents + 1] = e
           /\ \A i \in 1 .. nevents : Waiting'[i] = Waiting[i]
<1>1. Waiting \in Seq(Contents) /\ Len(Waiting) = nevents
  BY WaitingSlots
<1>2. Waiting' = Append(Waiting, e) /\ current' = current
  BY PostAppends DEF Fifo!Accept
<1>3. nevents \in Nat /\ nevents' = nevents + 1
  BY DEF TypeOK, process_post
<1> QED BY <1>1, <1>2, <1>3

LEMMA TakeIsFirst ==
    ASSUME TypeOK, TypeOK', do_event
    PROVE  /\ nevents \in Nat /\ nevents > 0 /\ nevents' = nevents - 1
           /\ current' = Waiting[1]
           /\ \A i \in 1 .. nevents' : Waiting'[i] = Waiting[i + 1]
<1>1. Waiting \in Seq(Contents) /\ Len(Waiting) = nevents
  BY WaitingSlots
<1>2. Waiting' = Tail(Waiting) /\ current' = Head(Waiting)
  BY TakeRemovesHead DEF Fifo!Take
<1>3. nevents \in Nat /\ nevents > 0 /\ nevents' = nevents - 1
  BY DEF TypeOK, do_event
<1> QED BY <1>1, <1>2, <1>3

LEMMA SameQueue ==
    ASSUME UNCHANGED queue
    PROVE  Waiting' = Waiting /\ nevents' = nevents /\ current' = current
BY DEF queue, Waiting

-----------------------------------------------------------------------------
(* The order of the events in the queue *)

(* serial_end posts the line, or finds the queue full. *)
LEMMA EndKeepsOrder ==
    ASSUME SerialTypeOK, TypeOK', ContinueBehindLine, serial_end
    PROVE  ContinueBehindLine'
<1>1. TypeOK /\ "line" \in Event /\ UNCHANGED todo /\ pc = "got" /\ pc' = "posted"
  BY SerialAssumption DEF SerialTypeOK, serial_end, Took
<1>2. CASE process_post("line")
  BY <1>1, <1>2, PostIsBehind DEF ContinueBehindLine
<1>3. CASE process_post_full
  <2>1. nevents = NUMEVENTS /\ UNCHANGED <<events, nevents, fevent, current>>
    BY <1>3 DEF process_post_full
  <2>2. Waiting' = Waiting
    BY <2>1 DEF Waiting
  <2> QED BY <1>1, <2>1, <2>2 DEF ContinueBehindLine
<1> QED BY <1>2, <1>3 DEF serial_end

(* serial_wait posts behind the line: a queue that refused the line is      *)
(* still full.                                                              *)
LEMMA WaitKeepsOrder ==
    ASSUME SerialTypeOK, TypeOK', ContinueBehindLine, serial_wait
    PROVE  ContinueBehindLine'
<1>1. TypeOK /\ "continue" \in Event /\ UNCHANGED todo /\ pc = "posted"
  BY SerialAssumption DEF SerialTypeOK, serial_wait
<1>2. CASE process_post("continue") /\ pc' = "continue"
  <2>1. nevents # NUMEVENTS
    BY <1>2 DEF process_post
  <2>2. nevents > 0 /\ Waiting[nevents] = "line"
    BY <1>1, <2>1 DEF ContinueBehindLine
  <2>3. /\ nevents \in Nat /\ nevents' = nevents + 1 /\ current' = current
        /\ Waiting'[nevents + 1] = "continue"
        /\ \A i \in 1 .. nevents : Waiting'[i] = Waiting[i] /\ Waiting[i] # "continue"
    BY <1>1, <1>2, PostIsBehind DEF ContinueBehindLine
  <2>4. ~(current = "continue" /\ serial \in todo)
    BY <1>1 DEF ContinueBehindLine
  <2>5. \A i \in 1 .. nevents' : Waiting'[i] = "continue" => i = nevents + 1
    BY <2>3
  <2>6. Waiting'[nevents] = "line"
    BY <2>2, <2>3
  <2> QED BY <1>1, <1>2, <2>2, <2>3, <2>4, <2>5, <2>6 DEF ContinueBehindLine
<1>3. CASE process_post_full /\ pc' = "get"
  <2>1. UNCHANGED <<events, nevents, fevent, current>>
    BY <1>3 DEF process_post_full
  <2>2. Waiting' = Waiting
    BY <2>1 DEF Waiting
  <2> QED BY <1>1, <1>3, <2>1, <2>2 DEF ContinueBehindLine
<1> QED BY <1>2, <1>3 DEF serial_wait

(* The other processes post nothing the process waits for. *)
LEMMA OtherKeepsOrder ==
    ASSUME SerialTypeOK, TypeOK', ContinueBehindLine, other_post
    PROVE  ContinueBehindLine'
<1>1. TypeOK /\ "other" \in Event /\ UNCHANGED <<todo, pc>> /\ pc # "posted"
  BY SerialAssumption DEF SerialTypeOK, other_post, Idle, thread
<1>2. CASE process_post("other")
  <2>1. /\ nevents \in Nat /\ nevents' = nevents + 1 /\ current' = current
        /\ Waiting'[nevents + 1] = "other"
        /\ \A i \in 1 .. nevents : Waiting'[i] = Waiting[i]
    BY <1>1, <1>2, PostIsBehind
  <2> QED BY <1>1, <2>1 DEF ContinueBehindLine
<1>3. CASE process_post_full
  <2>1. UNCHANGED <<events, nevents, fevent, current>>
    BY <1>3 DEF process_post_full
  <2>2. Waiting' = Waiting
    BY <2>1 DEF Waiting
  <2> QED BY <1>1, <2>1, <2>2 DEF ContinueBehindLine
<1> QED BY <1>2, <1>3 DEF other_post

(* A line is taken before the event behind it. *)
LEMMA RunKeepsOrder ==
    ASSUME SerialTypeOK, TypeOK', ContinueBehindLine, process_run
    PROVE  ContinueBehindLine'
<1>1. TypeOK /\ UNCHANGED pc /\ pc # "posted"
  BY DEF SerialTypeOK, process_run, Idle, thread
<1>2. /\ nevents \in Nat /\ nevents > 0 /\ nevents' = nevents - 1
      /\ current' = Waiting[1]
      /\ \A i \in 1 .. nevents' : Waiting'[i] = Waiting[i + 1]
  BY <1>1, TakeIsFirst DEF process_run
<1>3. /\ \A r \in Readers : r \in todo' => current' = "line"
      /\ current' = "continue" => todo' = {serial}
  BY SerialAssumption DEF process_run
<1>4. ASSUME NEW i \in 1 .. nevents', Waiting'[i] = "continue"
      PROVE  pc = "continue" /\ (i = 1 => current' = "line") /\ (i > 1 => Waiting'[i - 1] = "line")
  <2>1. i + 1 \in 1 .. nevents /\ Waiting[i + 1] = "continue"
    BY <1>2, <1>4
  <2>2. pc = "continue" /\ Waiting[i] = "line"
    BY <2>1 DEF ContinueBehindLine
  <2> QED BY <1>2, <2>1, <2>2
<1>5. ASSUME NEW i \in 1 .. nevents', NEW j \in 1 .. nevents',
             Waiting'[i] = "continue", Waiting'[j] = "continue"
      PROVE  i = j
  <2>1. i + 1 \in 1 .. nevents /\ j + 1 \in 1 .. nevents
        /\ Waiting[i + 1] = "continue" /\ Waiting[j + 1] = "continue"
    BY <1>2, <1>5
  <2> QED BY <2>1 DEF ContinueBehindLine
<1>6. ASSUME current' = "continue"
      PROVE  pc = "continue" /\ \A i \in 1 .. nevents' : Waiting'[i] # "continue"
  <2>1. 1 \in 1 .. nevents /\ Waiting[1] = "continue" /\ pc = "continue"
    <3>1. 1 \in 1 .. nevents /\ Waiting[1] = "continue"
      BY <1>2, <1>6
    <3> QED BY <3>1 DEF ContinueBehindLine
  <2>2. ASSUME NEW i \in 1 .. nevents', Waiting'[i] = "continue" PROVE FALSE
    <3>1. i + 1 \in 1 .. nevents /\ Waiting[i + 1] = "continue" /\ i + 1 # 1
      BY <1>2, <2>2
    <3> QED BY <2>1, <3>1 DEF ContinueBehindLine
  <2> QED BY <2>1, <2>2
<1> QED BY <1>1, <1>3, <1>4, <1>5, <1>6 DEF ContinueBehindLine

LEMMA StepKeepsOrder ==
    ASSUME SerialTypeOK, TypeOK', ContinueBehindLine, [SerialNext]_serial_vars
    PROVE  ContinueBehindLine'
<1>1. CASE type \/ UNCHANGED serial_vars
  <2>1. UNCHANGED queue /\ UNCHANGED <<pc, todo>>
    BY <1>1 DEF type, serial_vars, thread
  <2> QED BY <2>1, SameQueue DEF ContinueBehindLine
<1>2. CASE serial_get \/ serial_char \/ serial_backspace
  <2>1. UNCHANGED queue /\ UNCHANGED todo /\ pc \in {"get", "got"} /\ pc' \in {"yield", "get", "got"}
    BY <1>2 DEF serial_get, serial_char, serial_backspace, Took
  <2> QED BY <2>1, SameQueue DEF ContinueBehindLine
<1>3. CASE do_poll
  <2>1. UNCHANGED queue /\ UNCHANGED todo /\ pc \in {"yield", "continue"}
        /\ (IF pc = "yield" THEN pc' = "get" ELSE pc' = pc)
    BY <1>3 DEF do_poll, Idle
  <2> QED BY <2>1, SameQueue DEF ContinueBehindLine
<1>4. CASE deliver_serial
  <2>1. UNCHANGED queue /\ todo' = todo \ {serial} /\ serial \in todo
    BY <1>4 DEF deliver_serial
  <2>2. pc' = "get" => \A i \in 1 .. nevents : Waiting[i] # "continue"
    BY <1>4, <2>1 DEF deliver_serial, ContinueBehindLine
  <2>3. pc' = "get" \/ (pc' = pc /\ pc = "continue")
    BY <1>4 DEF deliver_serial
  <2> QED BY <2>1, <2>2, <2>3, SameQueue DEF ContinueBehindLine
<1>5. ASSUME NEW r \in Readers, deliver_line(r) PROVE ContinueBehindLine'
  <2>1. UNCHANGED queue /\ UNCHANGED pc /\ todo' \subseteq todo
    BY <1>5 DEF deliver_line, thread
  <2> QED BY <2>1, SameQueue DEF ContinueBehindLine
<1> QED BY <1>1, <1>2, <1>3, <1>4, <1>5, EndKeepsOrder, WaitKeepsOrder, OtherKeepsOrder, RunKeepsOrder
        DEF SerialNext, Thread, Kernel

-----------------------------------------------------------------------------
(* The keystrokes in the ring *)

LEMMA RingFacts ==
    ASSUME SerialTypeOK
    PROVE  /\ rxbuf \in Rings
           /\ Unread \in Nat /\ BUFSIZE \in Nat /\ BUFSIZE > 1
           /\ typed.line \in Nat /\ typed.col \in Nat
           /\ ptr \in Nat /\ ptr <= BUFSIZE /\ buf \in [0 .. BUFSIZE - 1 -> Bytes]
BY RingParts, SerialAssumption DEF SerialTypeOK, Rings, Unread, Indices

(* What it takes to follow the text after a step. *)
LEMMA FollowsNext ==
    ASSUME NEW r,
           \A i \in 0 .. Unread' - 1 : Leads(r[i], Byte(i)', r[i + 1]),
           r[Unread'].line <= typed'.line,
           ~overflow' => r[Unread'] = [line |-> typed'.line, col |-> typed'.col]
    PROVE  Follows(r)'
<1>1. \A p, i, q : Leads(p, Byte(i), q)' = Leads(p, Byte(i)', q)
  BY DEF Leads, Char, Control
<1>2. \A i \in 0 .. Unread' - 1 : Leads(r[i], Byte(i), r[i + 1])'
  BY <1>1
<1> QED BY <1>2 DEF Follows

(* A byte that fits lengthens the text by one keystroke; one that does not  *)
(* leaves the typist somewhere behind it.                                   *)
LEMMA InputKeepsReading ==
    ASSUME SerialTypeOK, NEW pos, Reads(pos), NEW b \in Bytes, NEW q \in Position,
           serial_line_input_byte(b), UNCHANGED <<queue, thread, todo, history>>,
           Fits(b) => Leads(pos[Unread], b, q),
           q = [line |-> typed'.line, col |-> typed'.col], typed.line <= typed'.line
    PROVE  (\E r : Reads(r))' /\ Unread' >= Unread
           /\ \A i \in 0 .. Unread - 1 : Byte(i)' = Byte(i)
<1>1. /\ Unread \in Nat /\ pos \in [Nat -> Position] /\ rxbuf \in Rings
      /\ typed.line \in Nat /\ q.line = typed'.line /\ pos[Unread].line \in Nat
      /\ typed'.line \in Nat
  BY RingFacts DEF Reads, Position
<1>2. ASSUME NEW r, r \in [Nat -> Position], r[0] = pos[0] PROVE Edited(r[0])' /\ HandedBefore(r[0])'
  <2>1. UNCHANGED <<pc, ptr, buf, handed, todo, nevents>> /\ Waiting' = Waiting
    BY SameQueue DEF queue, thread, history
  <2>2. \A s : Owed(s)' = Owed(s)
    BY <2>1 DEF Owed
  <2> QED BY <1>2, <2>1, <2>2 DEF Reads, Edited, HandedBefore
<1>3. CASE Fits(b)
  <2> PICK r : r = [pos EXCEPT ![Unread + 1] = q]
    OBVIOUS
  <2>1. Room(rxbuf) /\ rxbuf' = ringbuf_put(rxbuf, b) /\ overflow' = FALSE
    BY <1>3 DEF serial_line_input_byte, Fits
  <2>2. /\ Unread' = Unread + 1
        /\ rxbuf'.data[Turn(rxbuf'.get_ptr + Unread)] = b
        /\ \A i \in 0 .. Unread - 1 : Byte(i)' = Byte(i)
    <3>1. /\ ringbuf_elements(rxbuf') = Unread + 1 /\ rxbuf'.get_ptr = rxbuf.get_ptr
          /\ rxbuf'.data[Turn(rxbuf.get_ptr + Unread)] = b
          /\ \A i \in 0 .. Unread - 1 : rxbuf'.data[Turn(rxbuf.get_ptr + i)]
                                          = rxbuf.data[Turn(rxbuf.get_ptr + i)]
      BY <1>1, <2>1, PutAppends DEF Unread
    <3>2. Unread' = Unread + 1
      BY <3>1 DEF Unread
    <3> QED BY <3>1, <3>2 DEF Byte
  <2>3. /\ r \in [Nat -> Position] /\ r[0] = pos[0] /\ r[Unread + 1] = q
        /\ \A i \in 0 .. Unread : r[i] = pos[i]
    BY <1>1
  <2>4. ASSUME NEW i \in 0 .. Unread' - 1 PROVE Leads(r[i], Byte(i)', r[i + 1])
    <3>1. CASE i = Unread
      <4>1. Byte(i)' = b
        BY <2>2, <3>1 DEF Byte
      <4> QED BY <1>1, <1>3, <2>3, <3>1, <4>1
    <3>2. CASE i # Unread
      <4>1. i \in 0 .. Unread - 1 /\ r[i] = pos[i] /\ r[i + 1] = pos[i + 1]
        BY <1>1, <2>2, <2>3, <3>2
      <4> QED BY <2>2, <4>1 DEF Reads, Follows
    <3> QED BY <3>1, <3>2
  <2>5. Follows(r)'
    <3>1. r[Unread'] = q
      BY <1>1, <2>2, <2>3
    <3>2. typed'.line \in Nat /\ r[Unread'].line <= typed'.line
      BY <1>1, <3>1 DEF Position
    <3> QED BY <2>4, <3>1, <3>2, FollowsNext
  <2>6. Reads(r)'
    BY <1>2, <2>3, <2>5 DEF Reads
  <2> QED BY <1>1, <2>2, <2>6
<1>4. CASE ~Fits(b)
  <2>1. rxbuf' = rxbuf /\ overflow' = TRUE
    BY <1>4 DEF serial_line_input_byte
  <2>2. Unread' = Unread /\ \A i : Byte(i)' = Byte(i)
    BY <2>1 DEF Unread, Byte
  <2>3. Follows(pos)'
    <3>1. \A i \in 0 .. Unread' - 1 : Leads(pos[i], Byte(i)', pos[i + 1])
      BY <2>2 DEF Reads, Follows
    <3>2. pos[Unread'].line <= typed'.line /\ overflow'
      BY <1>1, <2>1, <2>2 DEF Reads, Follows
    <3> QED BY <3>1, <3>2, FollowsNext
  <2> QED BY <1>1, <1>2, <2>2, <2>3 DEF Reads
<1> QED BY <1>3, <1>4

(* What is typed next leads on from where the typist is.  After an          *)
(* overflow only the end of a line is taken.                                *)
LEMMA TypeKeepsReading ==
    ASSUME SerialInv, NEW pos, Reads(pos), type
    PROVE  (\E r : Reads(r))' /\ Unread' >= Unread
           /\ \A i \in 0 .. Unread - 1 : Byte(i)' = Byte(i)
<1>1. /\ SerialTypeOK /\ typed.line \in Nat /\ typed.col \in Nat
      /\ typed.line \in 1 .. MaxBytes /\ typed.col \in 0 .. BUFSIZE - 1
      /\ BUFSIZE \in Nat /\ BUFSIZE > 1
      /\ typed \in [line : 1 .. MaxBytes + 1, col : 0 .. BUFSIZE - 1, bytes : 0 .. MaxBytes]
  BY SerialAssumption DEF SerialInv, SerialTypeOK, type
<1>2. UNCHANGED <<queue, thread, todo, history>>
  BY DEF type
<1>3. pos[Unread].line <= typed.line
      /\ (~overflow => pos[Unread] = [line |-> typed.line, col |-> typed.col])
  BY DEF Reads, Follows
<1>4. CASE /\ typed.col < BUFSIZE - 1
           /\ serial_line_input_byte(Char(typed.line, typed.col + 1))
           /\ typed' = [typed EXCEPT !.col = @ + 1, !.bytes = @ + 1]
  <2> DEFINE b == Char(typed.line, typed.col + 1)
             q == [line |-> typed'.line, col |-> typed'.col]
  <2>1. typed'.line = typed.line /\ typed'.col = typed.col + 1
    BY <1>1, <1>4
  <2>2. b \in Bytes /\ q \in Position /\ b.kind # "end"
    BY <1>1, <1>4, <2>1 DEF Char, Bytes, Position
  <2>3. Fits(b) => Leads(pos[Unread], b, q)
    BY <1>3, <2>1, <2>2 DEF Fits, Leads
  <2> QED BY <1>1, <1>2, <1>4, <2>1, <2>2, <2>3, InputKeepsReading
<1>5. CASE /\ typed.col > 0
           /\ serial_line_input_byte(Control("backspace"))
           /\ typed' = [typed EXCEPT !.col = @ - 1, !.bytes = @ + 1]
  <2> DEFINE b == Control("backspace")
             q == [line |-> typed'.line, col |-> typed'.col]
  <2>1. typed'.line = typed.line /\ typed'.col = typed.col - 1
    BY <1>1, <1>5
  <2>2. b \in Bytes /\ q \in Position /\ b.kind # "end"
    BY <1>1, <1>5, <2>1, ControlsAreBytes DEF Control, Position
  <2>3. Fits(b) => Leads(pos[Unread], b, q)
    BY <1>3, <1>5, <2>1, <2>2 DEF Fits, Leads
  <2> QED BY <1>1, <1>2, <1>5, <2>1, <2>2, <2>3, InputKeepsReading
<1>6. CASE /\ serial_line_input_byte(Control("end"))
           /\ typed' = [line |-> typed.line + 1, col |-> 0, bytes |-> typed.bytes + 1]
  <2> DEFINE b == Control("end")
             q == [line |-> typed'.line, col |-> typed'.col]
  <2>1. typed'.line = typed.line + 1 /\ typed'.col = 0
    BY <1>6
  <2>2. b \in Bytes /\ q \in Position
    BY <1>1, <2>1, ControlsAreBytes DEF Position
  <2>3. Leads(pos[Unread], b, q)
    <3>1. pos[Unread].line \in Nat
      BY <1>1, RingFacts DEF Reads, Position
    <3> QED BY <1>1, <1>3, <2>1, <3>1 DEF Leads
  <2> QED BY <1>1, <1>2, <1>6, <2>1, <2>2, <2>3, InputKeepsReading
<1> QED BY <1>4, <1>5, <1>6 DEF type

(* The thread takes the keystroke that leads from the first position to the *)
(* second.                                                                  *)
LEMMA TookFollows ==
    ASSUME SerialTypeOK, NEW pos, pos \in [Nat -> Position], Follows(pos),
           Unread # 0, c = Byte(0), Took,
           NEW r, r = [i \in Nat |-> pos[i + 1]]
    PROVE  /\ r \in [Nat -> Position] /\ r[0] = pos[1]
           /\ Follows(r)'
           /\ Leads(pos[0], c, r[0])
<1>1. Unread \in Nat /\ rxbuf \in Rings
  BY RingFacts
<1>2. r \in [Nat -> Position] /\ \A i \in Nat : r[i] = pos[i + 1]
  BY DEF Reads
<1>3. Unread' = Unread - 1 /\ \A i \in 0 .. Unread - 2 : Byte(i)' = Byte(i + 1)
  <2>1. rxbuf' = ringbuf_get(rxbuf)
    BY DEF Took
  <2>2. ringbuf_elements(rxbuf') = Unread - 1
        /\ \A i \in 0 .. Unread - 2 : rxbuf'.data[Turn(rxbuf'.get_ptr + i)]
                                        = rxbuf.data[Turn(rxbuf.get_ptr + i + 1)]
    BY <1>1, <2>1, GetRemoves DEF Unread
  <2>3. \A i \in 0 .. Unread - 2 : rxbuf.get_ptr + i + 1 = rxbuf.get_ptr + (i + 1)
    <3>1. rxbuf.get_ptr \in 0 .. BUFSIZE - 1 /\ BUFSIZE \in Nat /\ Unread \in Nat
      BY <1>1, RingParts
    <3> QED BY <3>1
  <2> QED BY <2>2, <2>3 DEF Unread, Byte
<1>4. \A i \in 0 .. Unread' - 1 : Leads(r[i], Byte(i)', r[i + 1])
  <2> SUFFICES ASSUME NEW i \in 0 .. Unread' - 1 PROVE Leads(r[i], Byte(i)', r[i + 1])
    OBVIOUS
  <2>1. i + 1 \in 0 .. Unread - 1 /\ i \in 0 .. Unread - 2 /\ i \in Nat /\ i + 1 \in Nat
    BY <1>1, <1>3
  <2>2. Leads(pos[i + 1], Byte(i + 1), pos[(i + 1) + 1])
    BY <2>1 DEF Follows
  <2> QED BY <1>2, <1>3, <2>1, <2>2
<1>5. Unread' \in Nat /\ r[Unread'] = pos[Unread] /\ UNCHANGED <<typed, overflow>>
  BY <1>1, <1>2, <1>3 DEF Took
<1>6. Leads(pos[0], c, pos[1])
  BY <1>1 DEF Follows
<1>7. pos[Unread].line <= typed.line
      /\ (~overflow => pos[Unread] = [line |-> typed.line, col |-> typed.col])
  BY DEF Follows
<1>8. Follows(r)'
  BY <1>4, <1>5, <1>7, FollowsNext
<1> QED BY <1>2, <1>6, <1>8

LEMMA SameText ==
    ASSUME NEW pos, Follows(pos), UNCHANGED input
    PROVE  Follows(pos)' /\ Unread' = Unread /\ Byte(0)' = Byte(0)
<1>1. rxbuf' = rxbuf /\ overflow' = overflow /\ typed' = typed
  BY DEF input
<1>2. Unread' = Unread /\ \A i : Byte(i)' = Byte(i)
  BY <1>1 DEF Unread, Byte
<1>3. \A i \in 0 .. Unread' - 1 : Leads(pos[i], Byte(i)', pos[i + 1])
  BY <1>2 DEF Follows
<1> QED BY <1>1, <1>2, <1>3, FollowsNext DEF Follows

-----------------------------------------------------------------------------
(* The line buffer follows the keystrokes that the thread takes. *)

LEMMA CharKeepsReading ==
    ASSUME SerialInv, NEW pos, Reads(pos), Unread # 0, c = Byte(0), serial_char
    PROVE  (\E r : Reads(r))'
<1>1. /\ pos \in [Nat -> Position] /\ Follows(pos) /\ Edited(pos[0]) /\ HandedBefore(pos[0])
      /\ SerialTypeOK /\ pc = "got" /\ c.kind = "char" /\ Took /\ c \in Bytes
      /\ pos[0] \in Position /\ ptr \in Nat /\ ptr < BUFSIZE /\ BUFSIZE \in Nat
      /\ buf \in [0 .. BUFSIZE - 1 -> Bytes]
  BY RingFacts DEF Reads, SerialInv, SerialTypeOK, serial_char
<1> PICK r : r = [i \in Nat |-> pos[i + 1]]
  OBVIOUS
<1>2. r \in [Nat -> Position] /\ Follows(r)' /\ Leads(pos[0], c, r[0])
  BY <1>1, TookFollows
<1>3. c = Char(pos[0].line, pos[0].col + 1)
      /\ r[0] = [line |-> pos[0].line, col |-> pos[0].col + 1]
  BY <1>1, <1>2 DEF Leads, Char, Control
<1>4. ptr = pos[0].col /\ \A i \in 0 .. ptr - 1 : buf[i] = Char(pos[0].line, i + 1)
  BY <1>1 DEF Edited
<1>5. ptr < BUFSIZE - 1
  <2>1. c.col \in 1 .. BUFSIZE - 1 /\ c.col = ptr + 1
    BY <1>1, <1>3, <1>4 DEF Bytes, Char, Control
  <2> QED BY <1>1, <2>1
<1>6. buf' = [buf EXCEPT ![ptr] = c] /\ ptr' = ptr + 1 /\ pc' = "get" /\ UNCHANGED handed
  BY <1>5 DEF serial_char, Took, history
<1>7. \A i \in 0 .. ptr : buf'[i] = Char(pos[0].line, i + 1)
  BY <1>1, <1>3, <1>4, <1>5, <1>6
<1>8. Edited(r[0])'
  BY <1>1, <1>3, <1>4, <1>6, <1>7 DEF Edited, Char
<1>9. HandedBefore(r[0])'
  BY <1>1, <1>3, <1>6 DEF HandedBefore
<1> QED BY <1>2, <1>8, <1>9 DEF Reads

LEMMA BackspaceKeepsReading ==
    ASSUME SerialInv, NEW pos, Reads(pos), Unread # 0, c = Byte(0), serial_backspace
    PROVE  (\E r : Reads(r))'
<1>1. /\ pos \in [Nat -> Position] /\ Follows(pos) /\ Edited(pos[0]) /\ HandedBefore(pos[0])
      /\ SerialTypeOK /\ pc = "got" /\ c.kind = "backspace" /\ Took
      /\ pos[0] \in Position /\ ptr \in Nat
  BY RingFacts DEF Reads, SerialInv, SerialTypeOK, serial_backspace
<1> PICK r : r = [i \in Nat |-> pos[i + 1]]
  OBVIOUS
<1>2. r \in [Nat -> Position] /\ Follows(r)' /\ Leads(pos[0], c, r[0])
  BY <1>1, TookFollows
<1>3. pos[0].col > 0 /\ r[0] = [line |-> pos[0].line, col |-> pos[0].col - 1]
  BY <1>1, <1>2 DEF Leads, Char, Control
<1>4. ptr = pos[0].col /\ \A i \in 0 .. ptr - 1 : buf[i] = Char(pos[0].line, i + 1)
  BY <1>1 DEF Edited
<1>5. ptr' = ptr - 1 /\ buf' = buf /\ pc' = "get" /\ UNCHANGED handed
  BY <1>1, <1>3, <1>4 DEF serial_backspace, Took, history, Position
<1>6. Edited(r[0])'
  BY <1>1, <1>3, <1>4, <1>5 DEF Edited, Char
<1>7. HandedBefore(r[0])'
  BY <1>1, <1>3, <1>5 DEF HandedBefore
<1> QED BY <1>2, <1>6, <1>7 DEF Reads

(* What is ended is a line that no reader was handed before. *)
LEMMA EndKeepsReading ==
    ASSUME SerialInv, NEW pos, Reads(pos), Unread # 0, c = Byte(0), serial_end
    PROVE  (\E r : Reads(r))'
<1>1. /\ pos \in [Nat -> Position] /\ Follows(pos) /\ Edited(pos[0]) /\ HandedBefore(pos[0])
      /\ SerialTypeOK /\ pc = "got" /\ c.kind = "end" /\ Took
      /\ pos[0].line \in Nat /\ ptr \in Nat /\ ptr < BUFSIZE /\ BUFSIZE \in Nat
      /\ buf \in [0 .. BUFSIZE - 1 -> Bytes]
      /\ pos[0] \in Position
  BY RingFacts DEF Reads, SerialInv, SerialTypeOK, serial_end, Position
<1> PICK r : r = [i \in Nat |-> pos[i + 1]]
  OBVIOUS
<1>2. r \in [Nat -> Position] /\ Follows(r)' /\ Leads(pos[0], c, r[0])
  BY <1>1, TookFollows
<1>3. r[0].line > pos[0].line /\ r[0].col = 0 /\ r[0].line \in Nat
  <2>1. r[0].line \in Nat
    BY <1>2 DEF Position
  <2> QED BY <1>1, <1>2, <2>1 DEF Leads, Char, Control
<1>4. \A i \in 0 .. ptr - 1 : buf[i] = Char(pos[0].line, i + 1)
  BY <1>1 DEF Edited
<1>5. buf' = [buf EXCEPT ![ptr] = Control("nul")] /\ ptr' = ptr + 1 /\ pc' = "posted"
      /\ UNCHANGED handed
  BY DEF serial_end, Took, history
<1>6. buf'[ptr' - 1] = Control("nul")
      /\ \A i \in 0 .. ptr' - 2 : buf'[i] = Char(pos[0].line, i + 1)
  BY <1>1, <1>4, <1>5
<1>7. ptr' > 1 => buf'[0].line = pos[0].line
  <2> SUFFICES ASSUME ptr' > 1 PROVE buf'[0] = Char(pos[0].line, 1)
    BY DEF Char
  <2>1. 0 \in 0 .. ptr' - 2
    BY <1>1, <1>5
  <2> QED BY <1>6, <2>1
<1>8. Edited(r[0])'
  BY <1>1, <1>3, <1>5, <1>6, <1>7 DEF Edited, Char
<1>9. HandedBefore(r[0])'
  <2>1. \A s \in Readers : handed[s] \in Nat
    BY <1>1, SerialAssumption DEF SerialTypeOK
  <2>2. \A s \in Readers : handed[s] < pos[0].line
    BY <1>1 DEF HandedBefore
  <2>3. \A s \in Readers : handed'[s] < r[0].line
    <3>1. pos[0].line \in Nat /\ r[0].line \in Nat /\ r[0].line > pos[0].line /\ handed' = handed
      BY <1>1, <1>3, <1>5
    <3> QED BY <2>1, <2>2, <3>1
  <2>4. ptr' > 1 => \A s \in Readers : handed'[s] < buf'[0].line
    BY <1>5, <1>7, <2>2
  <2> QED BY <2>3, <2>4 DEF HandedBefore
<1> QED BY <1>2, <1>8, <1>9 DEF Reads

-----------------------------------------------------------------------------
(* The steps that take no keystroke *)

LEMMA WaitKeepsReading ==
    ASSUME SerialInv, TypeOK', ContinueBehindLine, NEW pos, Reads(pos), serial_wait
    PROVE  Reads(pos)'
<1>1. /\ pos \in [Nat -> Position] /\ Follows(pos) /\ Edited(pos[0]) /\ HandedBefore(pos[0])
      /\ pc = "posted" /\ UNCHANGED <<buf, handed, todo>> /\ UNCHANGED input /\ TypeOK
  BY DEF Reads, serial_wait, history, SerialInv, SerialTypeOK
<1>2. Follows(pos)'
  BY <1>1, SameText
<1>3. CASE pc' = "continue" /\ UNCHANGED ptr
  BY <1>1, <1>2, <1>3 DEF Reads, Edited, HandedBefore, Owed, Char
<1>4. CASE pc' = "get" /\ ptr' = 0
  BY <1>1, <1>2, <1>4 DEF Reads, Edited, HandedBefore, Owed
<1> QED BY <1>3, <1>4 DEF serial_wait

(* The kernel takes the event before the one that the process waits for:    *)
(* the readers it is given to were owed the line.                           *)
LEMMA RunKeepsReading ==
    ASSUME SerialInv, TypeOK', NEW pos, Reads(pos), process_run
    PROVE  Reads(pos)'
<1>1. /\ pos \in [Nat -> Position] /\ Follows(pos) /\ Edited(pos[0]) /\ HandedBefore(pos[0])
      /\ UNCHANGED <<buf, ptr, pc, handed>> /\ UNCHANGED input /\ TypeOK /\ pc # "posted"
  BY DEF Reads, process_run, thread, history, Idle, SerialInv, SerialTypeOK
<1>2. Follows(pos)'
  BY <1>1, SameText
<1>3. ASSUME NEW r \in Readers, Owed(r)' PROVE Owed(r)
  <2>1. PICK i \in 1 .. nevents' : Waiting'[i] = "continue"
    BY <1>1, <1>3 DEF Owed
  <2>2. nevents \in Nat /\ nevents' = nevents - 1 /\ Waiting'[i] = Waiting[i + 1]
    BY <1>1, TakeIsFirst DEF process_run
  <2>3. i + 1 \in 1 .. nevents /\ i + 1 > 1
    BY <2>2
  <2> QED BY <2>1, <2>2, <2>3 DEF Owed
<1>4. Edited(pos[0])'
  BY <1>1 DEF Edited, Char
<1>5. HandedBefore(pos[0])'
  BY <1>1, <1>3 DEF HandedBefore
<1> QED BY <1>1, <1>2, <1>4, <1>5 DEF Reads

(* Posts of others put nothing into the queue that anybody is owed. *)
LEMMA OtherKeepsReading ==
    ASSUME SerialInv, TypeOK', NEW pos, Reads(pos), other_post
    PROVE  Reads(pos)'
<1>1. /\ pos \in [Nat -> Position] /\ Follows(pos) /\ Edited(pos[0]) /\ HandedBefore(pos[0])
      /\ UNCHANGED <<buf, ptr, pc, handed, todo>> /\ UNCHANGED input /\ TypeOK /\ pc # "posted"
      /\ "other" \in Event
  BY SerialAssumption DEF Reads, other_post, thread, history, Idle, SerialInv, SerialTypeOK
<1>2. Follows(pos)'
  BY <1>1, SameText
<1>3. ASSUME NEW r \in Readers, Owed(r)' PROVE Owed(r)
  <2>1. PICK i \in 1 .. nevents' : Waiting'[i] = "continue" /\ (i > 1 \/ r \in todo)
    BY <1>1, <1>3 DEF Owed
  <2>2. CASE process_post("other")
    <3>1. nevents \in Nat /\ nevents' = nevents + 1 /\ Waiting'[nevents + 1] = "other"
          /\ \A j \in 1 .. nevents : Waiting'[j] = Waiting[j]
      BY <1>1, <2>2, PostIsBehind
    <3>2. i \in 1 .. nevents /\ Waiting[i] = "continue"
      BY <2>1, <3>1
    <3> QED BY <2>1, <3>2 DEF Owed
  <2>3. CASE process_post_full
    <3>1. UNCHANGED <<events, nevents, fevent>>
      BY <2>3 DEF process_post_full
    <3>2. Waiting' = Waiting /\ nevents' = nevents
      BY <3>1 DEF Waiting
    <3> QED BY <2>1, <3>2 DEF Owed
  <2> QED BY <2>2, <2>3 DEF other_post
<1>4. Edited(pos[0])'
  BY <1>1 DEF Edited, Char
<1>5. HandedBefore(pos[0])'
  BY <1>1, <1>3 DEF HandedBefore
<1> QED BY <1>1, <1>2, <1>4, <1>5 DEF Reads

(* A process that is woken goes on with the same text; the one that waited  *)
(* begins a new line at its start.                                          *)
LEMMA WakeKeepsReading ==
    ASSUME SerialInv, NEW pos, Reads(pos), serial_get \/ do_poll \/ deliver_serial
    PROVE  Reads(pos)'
<1>1. /\ pos \in [Nat -> Position] /\ Follows(pos) /\ Edited(pos[0]) /\ HandedBefore(pos[0])
      /\ UNCHANGED <<buf, handed>> /\ UNCHANGED input /\ UNCHANGED queue
  BY DEF Reads, serial_get, do_poll, deliver_serial, history
<1>2. Follows(pos)'
  BY <1>1, SameText
<1>3. CASE pc' \in {"yield", "get", "got"} /\ pc \in {"yield", "get", "got"} /\ UNCHANGED ptr
  BY <1>1, <1>2, <1>3 DEF Reads, Edited, HandedBefore, Char
<1>4. CASE pc' = "get" /\ pc = "continue" /\ ptr' = 0
  BY <1>1, <1>2, <1>4 DEF Reads, Edited, HandedBefore
<1>5. CASE pc' = "continue" /\ pc = "continue" /\ UNCHANGED ptr /\ todo' \subseteq todo
  <2>1. \A r : Owed(r)' => Owed(r)
    BY <1>1, <1>5, SameQueue DEF Owed
  <2> QED BY <1>1, <1>2, <1>5, <2>1 DEF Reads, Edited, HandedBefore, Char
<1>6. CASE serial_get
  BY <1>3, <1>6 DEF serial_get
<1>7. CASE do_poll
  BY <1>3, <1>5, <1>7 DEF do_poll, Idle
<1>8. CASE deliver_serial
  <2>1. todo' \subseteq todo
    BY <1>8 DEF deliver_serial
  <2> QED BY <1>3, <1>4, <1>5, <1>8, <2>1 DEF deliver_serial
<1> QED BY <1>6, <1>7, <1>8

(* A reader that the kernel gives a line to while the process waits behind  *)
(* it finds the line in the buffer, and has not had it before.              *)
LEMMA DeliveryIsIntact ==
    ASSUME SerialInv, SerialInv', ContinueBehindLine, ~torn, NEW pos, Reads(pos),
           NEW r \in Readers, deliver_line(r)
    PROVE  Reads(pos)' /\ ~torn'
<1>1. /\ pos \in [Nat -> Position] /\ Follows(pos) /\ Edited(pos[0]) /\ HandedBefore(pos[0])
      /\ UNCHANGED thread /\ UNCHANGED <<buf, pc, ptr>> /\ UNCHANGED input /\ UNCHANGED queue
      /\ r \in todo /\ todo' = todo \ {r} /\ SerialTypeOK /\ BUFSIZE \in Nat
      /\ nevents \in Nat /\ ptr \in Nat /\ ptr <= BUFSIZE
  <2>1. SerialTypeOK
    BY DEF SerialInv
  <2>2. nevents \in Nat
    BY <2>1 DEF SerialTypeOK, TypeOK
  <2> QED BY <2>1, <2>2, RingFacts DEF Reads, deliver_line, thread, input
<1>2. Follows(pos)' /\ Edited(pos[0])'
  BY <1>1, SameText DEF Edited, Char
<1>3. \A s : Owed(s)' => Owed(s)
  BY <1>1, SameQueue DEF Owed
<1>4. CASE UNCHANGED history
  BY <1>1, <1>2, <1>3, <1>4 DEF history, Reads, HandedBefore
<1>5. CASE /\ Waited /\ buf[0] # Control("nul")
           /\ handed' = [handed EXCEPT ![r] = buf[0].line]
           /\ torn' = (torn \/ ~Intact(buf[0].line) \/ buf[0].line <= handed[r])
  <2>1. 1 \in 1 .. nevents /\ Waiting[1] = "continue" /\ pc = "continue"
    <3>1. 1 \in 1 .. nevents /\ Waiting[1] = "continue"
      BY <1>1, <1>5 DEF Waited
    <3> QED BY <3>1 DEF ContinueBehindLine
  <2>2. Owed(r) /\ ~Owed(r)'
    <3>1. Owed(r)
      BY <1>1, <2>1 DEF Owed
    <3>2. \A i \in 1 .. nevents : Waiting[i] = "continue" => i = 1
      BY <2>1 DEF ContinueBehindLine
    <3> QED BY <1>1, <2>1, <3>1, <3>2, SameQueue DEF Owed
  <2>3. ptr >= 1 /\ buf[ptr - 1] = Control("nul")
        /\ \A i \in 0 .. ptr - 2 : buf[i] = Char(buf[0].line, i + 1)
    BY <1>1, <2>1 DEF Edited
  <2>4. ptr > 1
    BY <1>1, <1>5, <2>3
  <2>5. handed[r] < buf[0].line /\ buf[0].line < pos[0].line
    BY <1>1, <2>1, <2>2, <2>4 DEF HandedBefore, Edited
  <2>6. Intact(buf[0].line)
    <3>1. ptr - 1 \in Indices /\ \A i \in 0 .. (ptr - 1) - 1 : buf[i] = Char(buf[0].line, i + 1)
      BY <1>1, <2>3 DEF Indices
    <3> QED BY <2>3, <3>1 DEF Intact
  <2>7. handed[r] \in Nat /\ buf[0].line \in Nat
    <3>1. handed[r] \in Nat /\ handed'[r] \in Nat /\ handed'[r] = buf[0].line
      BY <1>1, <1>5, SerialAssumption DEF SerialInv, SerialTypeOK
    <3> QED BY <3>1
  <2>8. ~torn'
    <3>1. ~(buf[0].line <= handed[r])
      BY <2>5, <2>7
    <3> QED BY <1>5, <2>6, <3>1, Zenon
  <2>9. HandedBefore(pos[0])'
    <3>1. ASSUME NEW s \in Readers
          PROVE  handed'[s] < pos[0].line
                 /\ (ptr > 1 /\ pc \in {"posted", "continue"} /\ Owed(s)' => handed'[s] < buf[0].line)
      <4>1. CASE s = r
        BY <1>1, <1>5, <2>2, <2>5, <4>1 DEF SerialTypeOK
      <4>2. CASE s # r
        <5>1. handed'[s] = handed[s]
          BY <1>1, <1>5, <4>2 DEF SerialTypeOK
        <5> QED BY <1>1, <1>3, <5>1 DEF HandedBefore
      <4> QED BY <4>1, <4>2
    <3> QED BY <1>1, <3>1 DEF HandedBefore
  <2> QED BY <1>1, <1>2, <2>8, <2>9 DEF Reads
<1> QED BY <1>4, <1>5 DEF deliver_line

-----------------------------------------------------------------------------
(* The byte that the thread looked at stays the oldest one, whatever the    *)
(* interrupt puts behind it.                                                *)
HasByte == pc = "got" => Unread # 0 /\ c = Byte(0)

LEMMA StepKeepsByte ==
    ASSUME SerialInv, HasByte, NEW pos, Reads(pos), [SerialNext]_serial_vars
    PROVE  HasByte'
<1>1. SerialTypeOK /\ Unread \in Nat /\ rxbuf \in Rings
  BY RingFacts DEF SerialInv
<1>2. CASE type
  <2>1. Unread' >= Unread /\ \A i \in 0 .. Unread - 1 : Byte(i)' = Byte(i)
    BY <1>2, TypeKeepsReading
  <2>2. UNCHANGED <<pc, c>>
    BY <1>2 DEF type, thread
  <2>3. pc = "got" => Byte(0)' = Byte(0) /\ Unread' # 0
    BY <1>1, <2>1 DEF HasByte
  <2> QED BY <2>2, <2>3 DEF HasByte
<1>3. CASE serial_get
  <2>1. Follows(pos) /\ UNCHANGED input
    BY <1>3 DEF Reads, serial_get
  <2>2. Unread' = Unread /\ Byte(0)' = Byte(0)
    BY <2>1, SameText
  <2>3. pc' = "got" => Unread # 0 /\ c' = Oldest(rxbuf)
    BY <1>3 DEF serial_get, Unread
  <2>4. Oldest(rxbuf) = Byte(0)
    <3>1. rxbuf.get_ptr + 0 = rxbuf.get_ptr
      BY <1>1, RingParts
    <3> QED BY <1>1, <3>1, OldestIsFirst DEF Byte
  <2> QED BY <2>2, <2>3, <2>4 DEF HasByte
<1>4. CASE UNCHANGED serial_vars
  <2>1. UNCHANGED <<pc, c, rxbuf>>
    BY <1>4 DEF serial_vars, thread, input
  <2> QED BY <2>1 DEF HasByte, Unread, Byte
<1>5. CASE serial_char \/ serial_backspace \/ serial_end \/ serial_wait \/ do_poll \/ deliver_serial
  BY <1>5 DEF serial_char, serial_backspace, serial_end, serial_wait, do_poll, deliver_serial,
              Idle, HasByte
<1>6. CASE process_run \/ other_post \/ \E r \in Readers : deliver_line(r)
  <2>1. Idle /\ UNCHANGED pc
    BY <1>6 DEF process_run, other_post, deliver_line, thread
  <2> QED BY <2>1 DEF Idle, HasByte
<1> QED BY <1>2, <1>3, <1>4, <1>5, <1>6 DEF SerialNext, Thread, Kernel

LEMMA LineInit == SerialInit => LineInv
<1> SUFFICES ASSUME SerialInit PROVE LineInv
  OBVIOUS
<1>1. SerialInv /\ pc = "yield" /\ ptr = 0 /\ todo = {} /\ ~torn /\ overflow = FALSE
      /\ nevents = 0 /\ typed = [line |-> 1, col |-> 0, bytes |-> 0]
      /\ handed = [r \in Readers |-> 0] /\ current = NoEvent
  BY SerialInitInv DEF SerialInit, Init
<1>2. ContinueBehindLine
  BY <1>1 DEF ContinueBehindLine
<1>3. Unread = 0
  <2>1. rxbuf \in Rings /\ rxbuf.put_ptr = 0 /\ rxbuf.get_ptr = 0
    BY <1>1, RingFacts DEF SerialInv, SerialInit, ringbuf_init
  <2>2. Unread = Turn(0 - 0) /\ BUFSIZE \in Nat /\ BUFSIZE > 1
    BY <2>1, RingParts DEF Unread
  <2> QED BY <2>2, TurnsOnce
<1> PICK pos : pos = [i \in Nat |-> [line |-> 1, col |-> 0]]
  OBVIOUS
<1>4. pos \in [Nat -> Position] /\ pos[0] = [line |-> 1, col |-> 0]
  BY DEF Position
<1>5. Follows(pos)
  BY <1>1, <1>3, <1>4 DEF Follows
<1>6. Edited(pos[0]) /\ HandedBefore(pos[0])
  BY <1>1, <1>4 DEF Edited, HandedBefore
<1> QED BY <1>1, <1>2, <1>4, <1>5, <1>6 DEF LineInv, Reads

LEMMA LineStep ==
    ASSUME LineInv, TypeOK', [SerialNext]_serial_vars
    PROVE  LineInv'
<1>1. SerialInv /\ SerialTypeOK /\ ContinueBehindLine /\ HasByte /\ ~torn
  BY DEF LineInv, HasByte, SerialInv
<1> PICK pos : Reads(pos)
  BY DEF LineInv
<1>2. SerialInv' /\ ContinueBehindLine' /\ HasByte'
  BY <1>1, StepKeepsSerialInv, StepKeepsOrder, StepKeepsByte
<1>3. ASSUME (\E r : Reads(r))', ~torn' PROVE LineInv'
  BY <1>2, <1>3 DEF LineInv, HasByte
<1>4. ASSUME Reads(pos)', ~torn' PROVE LineInv'
  BY <1>3, <1>4
<1>5. CASE type
  BY <1>1, <1>3, <1>5, TypeKeepsReading DEF type, history
<1>6. CASE serial_char
  BY <1>1, <1>3, <1>6, CharKeepsReading DEF HasByte, serial_char, Took, history
<1>7. CASE serial_backspace
  BY <1>1, <1>3, <1>7, BackspaceKeepsReading DEF HasByte, serial_backspace, Took, history
<1>8. CASE serial_end
  BY <1>1, <1>3, <1>8, EndKeepsReading DEF HasByte, serial_end, Took, history
<1>9. CASE serial_wait
  BY <1>1, <1>4, <1>9, WaitKeepsReading DEF serial_wait, history
<1>10. CASE serial_get \/ do_poll \/ deliver_serial
  BY <1>1, <1>4, <1>10, WakeKeepsReading DEF serial_get, do_poll, deliver_serial, history
<1>11. CASE process_run
  BY <1>1, <1>4, <1>11, RunKeepsReading DEF process_run, history
<1>12. CASE other_post
  BY <1>1, <1>4, <1>12, OtherKeepsReading DEF other_post, history
<1>13. ASSUME NEW r \in Readers, deliver_line(r) PROVE LineInv'
  BY <1>1, <1>2, <1>4, <1>13, DeliveryIsIntact
<1>14. CASE UNCHANGED serial_vars
  <2>1. UNCHANGED <<pc, ptr, buf, handed, todo, torn>> /\ UNCHANGED queue /\ UNCHANGED input
    BY <1>14 DEF serial_vars, thread, history
  <2>2. Follows(pos)'
    BY <2>1, SameText DEF Reads
  <2>3. \A r : Owed(r)' = Owed(r)
    BY <2>1, SameQueue DEF Owed
  <2>4. Reads(pos)'
    BY <2>1, <2>2, <2>3 DEF Reads, Edited, HandedBefore, Char
  <2> QED BY <1>1, <1>4, <2>1, <2>4
<1> QED BY <1>5, <1>6, <1>7, <1>8, <1>9, <1>10, <1>11, <1>12, <1>13, <1>14
        DEF SerialNext, Thread, Kernel

(* A reader that the driver waits for finds the beginning of one line in    *)
(* the shared buffer, with its corrections, and each line at most once and  *)
(* in order: for rings, lines and event queues of every size, any typing,   *)
(* overflow and any other events, with interrupts between all steps.        *)
THEOREM LinesStayIntact == SerialSpec => []LinesIntact
<1>1. LineInv /\ TypeOK' /\ [SerialNext]_serial_vars => LineInv'
  BY LineStep
<1>2. LineInv => LinesIntact
  BY DEF LineInv, LinesIntact
<1> QED BY <1>1, <1>2, LineInit, QueueIsEventQueue, TypeCorrect, PTL DEF SerialSpec
=============================================================================
