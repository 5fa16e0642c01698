----------------------------- MODULE SerialLine ----------------------------
(***************************************************************************)
(* The serial line driver, core/dev/serial-line.c: the receive interrupt   *)
(* puts bytes into a ring buffer and polls the driver's process, which     *)
(* edits them into a line and broadcasts the address of its line buffer.   *)
(* The line reaches its readers through the event queue of EventQueue, so  *)
(* the process posts itself a second event and touches the buffer again    *)
(* only when that one comes back.  The interrupt comes between any two     *)
(* steps; the kernel serves polls before each delivery.                    *)
(***************************************************************************)
EXTENDS EventQueue, RingBuf, FiniteSets

CONSTANTS
    Readers,        \* the processes that read lines
    serial,         \* serial_line_process
    BUFSIZE,        \* SERIAL_LINE_CONF_BUFSIZE, of the ring and of the line
    MaxBytes        \* bound: bytes that are typed

ASSUME SerialAssumption ==
    /\ BUFSIZE \in Nat /\ BUFSIZE > 1
    /\ MaxBytes \in Nat
    /\ serial \notin Readers
    /\ Event = {"line", "continue", "other"}

VARIABLES
    rxbuf,          \* the ring buffer
    overflow,       \* static overflow of serial_line_input_byte
    needspoll,      \* of serial_line_process
    pc,             \* where serial_line_process stands
    c, buf, ptr,    \* its static variables
    todo,           \* the processes the current event has yet to be given to
    typed,          \* the line and the column it is at, and how many bytes
    handed,         \* history: the last line each reader was handed
    torn            \* history: a reader found something else in the buffer

queue == <<events, nevents, fevent, current, full>>
input == <<rxbuf, overflow, typed>>
thread == <<pc, c, buf, ptr>>
history == <<handed, torn>>
serial_vars == <<queue, input, needspoll, thread, todo, history>>

(* A character is known by the line and the column it was typed at. *)
Char(n, k) == [kind |-> "char", line |-> n, col |-> k]
Control(k) == [kind |-> k, line |-> 0, col |-> 0]
Bytes == [kind : {"char"}, line : 1 .. MaxBytes, col : 1 .. BUFSIZE - 1]
         \cup {Control(k) : k \in {"end", "backspace", "nul"}}

Indices == 0 .. BUFSIZE - 1

SerialTypeOK ==
    /\ TypeOK
    /\ rxbuf \in [data : [Indices -> Bytes], mask : {BUFSIZE - 1},
                  put_ptr : Indices, get_ptr : Indices]
    /\ overflow \in BOOLEAN /\ needspoll \in BOOLEAN
    /\ pc \in {"yield", "get", "got", "posted", "continue"}
    /\ c \in Bytes /\ buf \in [Indices -> Bytes]
    /\ ptr \in 0 .. BUFSIZE
    /\ todo \subseteq Readers \cup {serial}
    /\ typed \in [line : 1 .. MaxBytes + 1, col : 0 .. BUFSIZE - 1, bytes : 0 .. MaxBytes]
    /\ handed \in [Readers -> 0 .. MaxBytes] /\ torn \in BOOLEAN

SerialInit ==
    /\ Init
    /\ rxbuf = ringbuf_init(BUFSIZE, Control("nul"))
    /\ overflow = FALSE
    /\ needspoll = FALSE
    /\ pc = "yield"
    /\ c = Control("nul")
    /\ buf = [i \in Indices |-> Control("nul")]
    /\ ptr = 0
    /\ todo = {}
    /\ typed = [line |-> 1, col |-> 0, bytes |-> 0]
    /\ handed = [r \in Readers |-> 0]
    /\ torn = FALSE

-----------------------------------------------------------------------------
(* The receive interrupt *)

Fits(b) == Room(rxbuf) /\ (overflow => b.kind = "end")

(* Mutant of serial_line_input_byte: any byte that fits ends the overflow. *)
serial_line_input_byte_resumes(b) ==
    /\ rxbuf' = IF Room(rxbuf) THEN ringbuf_put(rxbuf, b) ELSE rxbuf
    /\ overflow' = ~Room(rxbuf)
    /\ needspoll' = TRUE

(* After an overflow everything is skipped up to an end that fits. *)
serial_line_input_byte(b) ==
    /\ rxbuf' = IF Fits(b) THEN ringbuf_put(rxbuf, b) ELSE rxbuf
    /\ overflow' = ~Fits(b)
    /\ needspoll' = TRUE

(* Characters, backspaces and ends, in lines that are not too long. *)
type ==
    /\ typed.bytes < MaxBytes
    /\ \/ /\ typed.col < BUFSIZE - 1
          /\ serial_line_input_byte(Char(typed.line, typed.col + 1))
          /\ typed' = [typed EXCEPT !.col = @ + 1, !.bytes = @ + 1]
       \/ /\ typed.col > 0
          /\ serial_line_input_byte(Control("backspace"))
          /\ typed' = [typed EXCEPT !.col = @ - 1, !.bytes = @ + 1]
       \/ /\ serial_line_input_byte(Control("end"))
          /\ typed' = [line |-> typed.line + 1, col |-> 0, bytes |-> typed.bytes + 1]
    /\ UNCHANGED <<queue, thread, todo, history>>

-----------------------------------------------------------------------------
(* The thread of serial_line_process *)

(* ringbuf_get looks and reads, before it moves get_ptr; an empty buffer    *)
(* makes the process yield.                                                 *)
serial_get ==
    /\ pc = "get"
    /\ IF ringbuf_elements(rxbuf) = 0
       THEN pc' = "yield" /\ UNCHANGED c
       ELSE pc' = "got" /\ c' = Oldest(rxbuf)
    /\ UNCHANGED <<queue, input, needspoll, buf, ptr, todo, history>>

Took == rxbuf' = ringbuf_get(rxbuf) /\ UNCHANGED <<overflow, typed, needspoll, c, todo, history>>

(* Mutant of serial_char: the process yields after every character. *)
serial_char_yields ==
    /\ pc = "got" /\ c.kind = "char"
    /\ Took
    /\ IF ptr < BUFSIZE - 1
       THEN buf' = [buf EXCEPT ![ptr] = c] /\ ptr' = ptr + 1
       ELSE UNCHANGED <<buf, ptr>>
    /\ pc' = "yield"
    /\ UNCHANGED queue

serial_char ==
    /\ pc = "got" /\ c.kind = "char"
    /\ Took
    /\ IF ptr < BUFSIZE - 1
       THEN buf' = [buf EXCEPT ![ptr] = c] /\ ptr' = ptr + 1
       ELSE UNCHANGED <<buf, ptr>>
    /\ pc' = "get"
    /\ UNCHANGED queue

serial_backspace ==
    /\ pc = "got" /\ c.kind = "backspace"
    /\ Took
    /\ ptr' = IF ptr = 0 THEN 0 ELSE ptr - 1
    /\ pc' = "get"
    /\ UNCHANGED <<buf, queue>>

(* The line is broadcast; a queue that is full refuses it. *)
serial_end ==
    /\ pc = "got" /\ c.kind = "end"
    /\ Took
    /\ buf' = [buf EXCEPT ![ptr] = Control("nul")]
    /\ ptr' = ptr + 1
    /\ process_post("line") \/ process_post_full
    /\ pc' = "posted"

(* The process waits for an event behind the line, or, refused, goes on. *)
serial_wait ==
    /\ pc = "posted"
    /\ \/ process_post("continue") /\ pc' = "continue" /\ UNCHANGED ptr
       \/ process_post_full /\ pc' = "get" /\ ptr' = 0
    /\ UNCHANGED <<input, needspoll, c, buf, todo, history>>

-----------------------------------------------------------------------------
(* The kernel, when no thread of serial_line_process is running *)

Idle == pc \in {"yield", "continue"}

do_poll ==
    /\ Idle /\ needspoll
    /\ needspoll' = FALSE
    /\ pc' = IF pc = "yield" THEN "get" ELSE pc
    /\ UNCHANGED <<queue, input, c, buf, ptr, todo, history>>

process_run ==
    /\ Idle /\ ~needspoll /\ todo = {}
    /\ do_event
    /\ todo' = CASE current' = "line" -> Readers \cup {serial}
                 [] current' = "continue" -> {serial}
                 [] OTHER -> {}
    /\ UNCHANGED <<input, needspoll, thread, history>>

(* PROCESS_YIELD takes any event, PROCESS_WAIT_EVENT_UNTIL the one it named. *)
deliver_serial ==
    /\ Idle /\ ~needspoll /\ serial \in todo
    /\ todo' = todo \ {serial}
    /\ \/ pc = "yield" /\ pc' = "get" /\ UNCHANGED ptr
       \/ pc = "continue" /\ current = "continue" /\ pc' = "get" /\ ptr' = 0
       \/ pc = "continue" /\ current # "continue" /\ UNCHANGED <<pc, ptr>>
    /\ UNCHANGED <<queue, input, needspoll, c, buf, history>>

(* What stands in the buffer is the start of one line, as it was typed. *)
Intact(n) ==
    \E k \in Indices :
        /\ buf[k] = Control("nul")
        /\ \A i \in 0 .. k - 1 : buf[i] = Char(n, i + 1)

(* The process waits for the event behind the current one. *)
Waited == nevents > 0 /\ Waiting[1] = "continue"

(* A reader looks at the buffer when the event comes. *)
deliver_line(r) ==
    /\ Idle /\ ~needspoll /\ r \in todo
    /\ todo' = todo \ {r}
    /\ \/ /\ ~Waited \/ buf[0] = Control("nul")
          /\ UNCHANGED history
       \/ /\ Waited /\ buf[0] # Control("nul")
          /\ handed' = [handed EXCEPT ![r] = buf[0].line]
          /\ torn' = (torn \/ ~Intact(buf[0].line) \/ buf[0].line <= handed[r])
    /\ UNCHANGED <<queue, input, needspoll, thread>>

(* The other processes fill the event queue. *)
other_post ==
    /\ Idle
    /\ process_post("other") \/ process_post_full
    /\ UNCHANGED <<input, needspoll, thread, todo, history>>

Thread == serial_get \/ serial_char \/ serial_backspace \/ serial_end \/ serial_wait
Kernel == do_poll \/ process_run \/ deliver_serial \/ \E r \in Readers : deliver_line(r)
SerialNext == type \/ Thread \/ Kernel \/ other_post

(* main calls process_run for ever, and interrupts return. *)
SerialSpec == SerialInit /\ [][SerialNext]_serial_vars /\ WF_serial_vars(Thread \/ Kernel)

-----------------------------------------------------------------------------
(* A reader finds in the shared line buffer the beginning of one line, with *)
(* its corrections, and each line at most once and in order, however the    *)
(* ring buffer overflowed and whatever other events stand in the queue; the *)
(* exception is a line whose second event (serial-line.c:117) was refused.  *)
LinesIntact == ~torn

(* Nothing that was typed stays unread, although a poll is used up while    *)
(* the process waits for its event and the interrupt may come after the     *)
(* ring buffer was found empty: the process comes back to its PROCESS_YIELD *)
(* with the buffer empty (serial-line.c:105).                               *)
AllIsRead == []<>(pc = "yield" /\ ringbuf_elements(rxbuf) = 0)

(* The comment at serial-line.c:116: the process waits until all processes  *)
(* have handled the serial line event, before it uses the buffer again.     *)
(* This does not hold: the event it would wait for may be refused by a full *)
(* queue, and then it goes on at once.                                      *)
WaitsForAll ==
    (\E i \in 1 .. nevents : Waiting[i] = "line") \/ (current = "line" /\ todo \cap Readers # {})
        => pc \in {"posted", "continue"}
=============================================================================
