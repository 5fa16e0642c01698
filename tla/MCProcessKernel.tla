-------------------------- MODULE MCProcessKernel --------------------------
(* Small instances of ProcessKernel: who is started by main and what the   *)
(* code of each process may call.                                          *)
EXTENDS ProcessKernel
CONSTANTS a, b, c

Three == {a, b, c}
Two   == {a, b}
BootThree == <<a, b, c>>
BootTwo   == <<a, b>>

(* Services that end by themselves, as PROCESS_END and PROCESS_EXIT do,    *)
(* and call each other; nobody calls process_exit.                         *)
Ending == [p \in Three |-> IF p = a THEN {"post", "poll", "synch"}
                           ELSE IF p = b THEN {"end", "synch"}
                           ELSE {"broadcast", "end", "pause"}]

(* A service that is started late and made to exit by its user. *)
Managing == [p \in Three |-> IF p = a THEN {"start", "exit", "poll"}
                             ELSE IF p = b THEN {"synch", "poll"}
                             ELSE {"post", "synch"}]

(* Two processes that pause while they fill the event queue. *)
Pausing == [p \in Two |-> {"post", "pause"}]
=============================================================================
