------------------------------ MODULE RingBuf ------------------------------
(***************************************************************************)
(* The ring buffer of core/lib/ringbuf.c, as operators on its structure.   *)
(* The size is a power of two, so that & mask is the remainder; the one    *)
(* slot in front of get_ptr stays free.                                    *)
(***************************************************************************)
EXTENDS Integers

ringbuf_init(size, byte) ==
    [data |-> [i \in 0 .. size - 1 |-> byte], mask |-> size - 1, put_ptr |-> 0, get_ptr |-> 0]

ringbuf_elements(r) == (r.put_ptr - r.get_ptr) % (r.mask + 1)

Room(r) == ringbuf_elements(r) # r.mask

(* ringbuf_put of a buffer with room *)
ringbuf_put(r, c) ==
    [r EXCEPT !.data[r.put_ptr] = c, !.put_ptr = (@ + 1) % (r.mask + 1)]

(* ringbuf_get of a buffer that is not empty: the byte, and what is left *)
Oldest(r) == r.data[r.get_ptr]
ringbuf_get(r) == [r EXCEPT !.get_ptr = (@ + 1) % (r.mask + 1)]
=============================================================================
