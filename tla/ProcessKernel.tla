--------------------------- MODULE ProcessKernel ---------------------------
(***************************************************************************)
(* The Contiki process kernel, sys/process.c: the list of processes linked *)
(* through their next fields, the poll flags that interrupts set, the      *)
(* event queue (a sequence here; EventQueue shows that the ring is one),   *)
(* and the nesting of calls: a process that is called may start, exit,     *)
(* poll or synchronously call other processes, which changes the list      *)
(* while do_poll, do_event and exit_process walk it.                       *)
(*                                                                         *)
(* The call stack is explicit: each C function that is waiting for another *)
(* one to return is a frame with the local variables it will still use.    *)
(* An interrupt may come between any two steps and poll a process.         *)
(***************************************************************************)
EXTENDS Naturals, Sequences, FiniteSets

CONSTANTS
    Process,     \* the struct process objects
    NULL,
    NUMEVENTS,   \* places in the event queue
    Boot,        \* the processes main starts, in order
    May,         \* what the code of each process may call
    PolledByIsr, \* the processes that interrupt handlers poll
    MaxCalls,    \* bound: kernel calls in one activation of a process
    MaxDepth     \* bound: frames on the stack when a process makes a call

ASSUME KernelAssumption ==
    /\ NULL \notin Process
    /\ NUMEVENTS \in Nat \ {0}
    /\ Boot \in Seq(Process)
    /\ May \in [Process -> SUBSET {"post", "broadcast", "synch", "poll",
                                   "start", "exit", "pause", "end"}]
    /\ PolledByIsr \subseteq Process

VARIABLES
    process_list, next,   \* the list of processes
    process_current,
    state,                \* PROCESS_STATE_...: "none", "running", "called"
    needspoll,
    poll_requested,
    queue,                \* waiting events: [ev, to], to = NULL is a broadcast
    stack,                \* the frames, the innermost first
    loop,                 \* the main loop: which half of process_run is next
    boot,                 \* the processes main has still to start
    paused                \* the processes inside PROCESS_PAUSE

lists == <<process_list, next>>
polls == <<needspoll, poll_requested>>
vars  == <<lists, process_current, state, polls, queue, stack, loop, boot, paused>>

Pointer == Process \cup {NULL}
Event == {"INIT", "POLL", "EXIT", "EXITED", "CONTINUE", "MSG"}

(* The processes that a walk along next meets from p on: the least set that *)
(* holds p, unless it is NULL, and with a process the one behind it.        *)
Holds(S, p) == p \in S \cup {NULL} /\ \A r \in S : next[r] \in S \cup {NULL}
From(p) == {q \in Process : \A S \in SUBSET Process : Holds(S, p) => q \in S}

OnList(p) == p \in From(process_list)

(* Frames.  call_process waits inside the frame of the thread it called:   *)
(* via is "call_process", or "exit_process" for the direct call there.     *)
Thread(p, ev, via) == [at |-> "thread", p |-> p, ev |-> ev, via |-> via, calls |-> 0]
DoPoll(p)  == [at |-> "do_poll", p |-> p, called |-> FALSE]
DoEvent(ev) == [at |-> "do_event", p |-> process_list, ev |-> ev, step |-> "check",
                   due |-> From(process_list), got |-> {}, twice |-> FALSE]
ExitProcess(p, from) == [at |-> "exit_process", p |-> p, from |-> from, old |-> process_current,
                         q |-> NULL, step |-> "begin", told |-> {}]
PostSynch(caller) == [at |-> "process_post_synch", caller |-> caller]

Top  == Head(stack)
Rest == Tail(stack)
At(f) == stack # <<>> /\ Top.at = f

(* Mutant: call_process also calls a process that is being called.        *)
call_process_again(p, ev, frames) ==
    IF p # NULL /\ state[p] # "none"
      THEN /\ process_current' = p
           /\ state' = [state EXCEPT ![p] = "called"]
           /\ stack' = <<Thread(p, ev, "call_process")>> \o frames
      ELSE /\ stack' = frames
           /\ UNCHANGED <<process_current, state>>

(* call_process: only a process in state running is called. *)
call_process(p, ev, frames) ==
    IF p # NULL /\ state[p] = "running"
      THEN /\ process_current' = p
           /\ state' = [state EXCEPT ![p] = "called"]
           /\ stack' = <<Thread(p, ev, "call_process")>> \o frames
      ELSE /\ stack' = frames
           /\ UNCHANGED <<process_current, state>>

(* process_poll *)
process_poll(p) ==
    /\ needspoll' = [needspoll EXCEPT ![p] = @ \/ state[p] # "none"]
    /\ poll_requested' = (poll_requested \/ state[p] # "none")

(* Mutant: process_post does not look whether the queue is full.           *)
process_post_unchecked(to, ev) ==
    queue' = Append(queue, [ev |-> ev, to |-> to])

(* process_post; a full queue refuses the event. *)
process_post(to, ev) ==
    queue' = IF Len(queue) < NUMEVENTS THEN Append(queue, [ev |-> ev, to |-> to]) ELSE queue

(* process_start, called with frames below it *)
process_start(p, frames) ==
    IF OnList(p)
      THEN stack' = frames /\ UNCHANGED <<lists, process_current, state>>
      ELSE /\ next' = [next EXCEPT ![p] = process_list]
           /\ process_list' = p
           /\ process_current' = p
           /\ state' = [state EXCEPT ![p] = "called"]
           /\ stack' = <<Thread(p, "INIT", "call_process"), PostSynch(process_current)>> \o frames

Init ==
    /\ process_list = NULL
    /\ next = [p \in Process |-> NULL]
    /\ process_current = NULL
    /\ state = [p \in Process |-> "none"]
    /\ needspoll = [p \in Process |-> FALSE]
    /\ poll_requested = FALSE
    /\ queue = <<>>
    /\ stack = <<>>
    /\ loop = "poll"
    /\ boot = Boot
    /\ paused = {}

-----------------------------------------------------------------------------
(* Interrupts and the main loop. *)

isr_poll(p) ==
    /\ process_poll(p)
    /\ UNCHANGED <<lists, process_current, state, queue, stack, loop, boot, paused>>

main_start ==
    /\ stack = <<>>
    /\ boot # <<>>
    /\ process_start(Head(boot), <<>>)
    /\ boot' = Tail(boot)
    /\ UNCHANGED <<polls, queue, loop, paused>>

(* process_run, first half: do_poll clears the request, then walks.        *)
run_polls ==
    /\ stack = <<>> /\ boot = <<>>
    /\ loop = "poll"
    /\ loop' = "event"
    /\ poll_requested' = FALSE
    /\ stack' = IF poll_requested THEN <<DoPoll(process_list)>> ELSE <<>>
    /\ UNCHANGED <<lists, process_current, state, needspoll, queue, boot, paused>>

(* process_run, second half: one event is taken from the queue.            *)
run_event ==
    /\ stack = <<>> /\ boot = <<>>
    /\ loop = "event"
    /\ loop' = "poll"
    /\ \/ /\ queue = <<>>
          /\ UNCHANGED <<process_current, state, queue, stack>>
       \/ /\ queue # <<>>
          /\ queue' = Tail(queue)
          /\ IF Head(queue).to = NULL
               THEN /\ stack' = <<DoEvent(Head(queue).ev)>>
                    /\ UNCHANGED <<process_current, state>>
               ELSE call_process(Head(queue).to, Head(queue).ev, <<>>)
    /\ UNCHANGED <<lists, polls, boot, paused>>

-----------------------------------------------------------------------------
(* The loop of do_poll: its pointer moves on only after the called process *)
(* has returned, along whatever next is then.                              *)

do_poll_call ==
    /\ At("do_poll") /\ ~Top.called
    /\ Top.p # NULL
    /\ needspoll[Top.p]
    /\ needspoll' = [needspoll EXCEPT ![Top.p] = FALSE]
    /\ process_current' = Top.p
    /\ state' = [state EXCEPT ![Top.p] = "called"]
    /\ stack' = <<Thread(Top.p, "POLL", "call_process"), [Top EXCEPT !.called = TRUE]>> \o Rest
    /\ UNCHANGED <<lists, poll_requested, queue, loop, boot, paused>>

do_poll_next ==
    /\ At("do_poll")
    /\ Top.p # NULL
    /\ Top.called \/ ~needspoll[Top.p]
    /\ stack' = <<DoPoll(next[Top.p])>> \o Rest
    /\ UNCHANGED <<lists, process_current, state, polls, queue, loop, boot, paused>>

(* Mutant: the poll request is cleared when the walk is over.              *)
do_poll_end_clears ==
    /\ At("do_poll")
    /\ Top.p = NULL
    /\ poll_requested' = FALSE
    /\ stack' = Rest
    /\ UNCHANGED <<lists, process_current, state, needspoll, queue, loop, boot, paused>>

do_poll_end ==
    /\ At("do_poll")
    /\ Top.p = NULL
    /\ stack' = Rest
    /\ UNCHANGED <<lists, process_current, state, polls, queue, loop, boot, paused>>

-----------------------------------------------------------------------------
(* The broadcast loop of do_event: polls are served before each call.  due *)
(* records who was on the list at first, got who was called, and twice     *)
(* whether one was called again.                                           *)

broadcast_check ==
    /\ At("do_event") /\ Top.step = "check"
    /\ Top.p # NULL
    /\ poll_requested' = FALSE
    /\ stack' = (IF poll_requested THEN <<DoPoll(process_list)>> ELSE <<>>)
                  \o <<[Top EXCEPT !.step = "call"]>> \o Rest
    /\ UNCHANGED <<lists, process_current, state, needspoll, queue, loop, boot, paused>>

broadcast_call ==
    /\ At("do_event") /\ Top.step = "call"
    /\ call_process(Top.p, Top.ev,
         <<IF state[Top.p] = "running"
             THEN [Top EXCEPT !.step = "called", !.got = @ \cup {Top.p},
                              !.twice = @ \/ Top.p \in Top.got]
             ELSE [Top EXCEPT !.step = "called"]>> \o Rest)
    /\ UNCHANGED <<lists, polls, queue, loop, boot, paused>>

broadcast_next ==
    /\ At("do_event") /\ Top.step = "called"
    /\ stack' = <<[Top EXCEPT !.step = "check", !.p = next[Top.p]]>> \o Rest
    /\ UNCHANGED <<lists, process_current, state, polls, queue, loop, boot, paused>>

broadcast_end ==
    /\ At("do_event") /\ Top.step = "check"
    /\ Top.p = NULL
    /\ stack' = Rest
    /\ UNCHANGED <<lists, process_current, state, polls, queue, loop, boot, paused>>

-----------------------------------------------------------------------------
(* exit_process.  told records who was called with PROCESS_EVENT_EXITED.   *)

exit_begin ==
    /\ At("exit_process") /\ Top.step = "begin"
    /\ \/ /\ ~OnList(Top.p)
          /\ stack' = Rest
          /\ UNCHANGED state
       \/ /\ OnList(Top.p)
          /\ stack' = <<[Top EXCEPT !.q = process_list,
                           !.step = IF state[Top.p] = "none" THEN "unlink" ELSE "tell"]>> \o Rest
          /\ state' = [state EXCEPT ![Top.p] = "none"]
    /\ UNCHANGED <<lists, process_current, polls, queue, loop, boot, paused>>

exit_tell ==
    /\ At("exit_process") /\ Top.step = "tell"
    /\ Top.q # NULL
    /\ call_process(IF Top.q = Top.p THEN NULL ELSE Top.q, "EXITED",
         <<[Top EXCEPT !.step = "told",
              !.told = IF state[Top.q] = "running" THEN @ \cup {Top.q} ELSE @]>> \o Rest)
    /\ UNCHANGED <<lists, polls, queue, loop, boot, paused>>

exit_next ==
    /\ At("exit_process") /\ Top.step = "told"
    /\ stack' = <<[Top EXCEPT !.step = "tell", !.q = next[Top.q]]>> \o Rest
    /\ UNCHANGED <<lists, process_current, state, polls, queue, loop, boot, paused>>

(* A process that is made to exit by another one is called a last time, by *)
(* its thread function and not through call_process.                       *)
exit_thread ==
    /\ At("exit_process") /\ Top.step = "tell"
    /\ Top.q = NULL
    /\ IF Top.p # Top.from
         THEN /\ process_current' = Top.p
              /\ stack' = <<Thread(Top.p, "EXIT", "exit_process"),
                            [Top EXCEPT !.step = "unlink"]>> \o Rest
         ELSE /\ stack' = <<[Top EXCEPT !.step = "unlink"]>> \o Rest
              /\ UNCHANGED process_current
    /\ UNCHANGED <<lists, state, polls, queue, loop, boot, paused>>

(* Mutant: the pointer of a process that leaves the list is reset.         *)
exit_unlink_resets ==
    /\ At("exit_process") /\ Top.step = "unlink"
    /\ process_list' = IF Top.p = process_list THEN next[Top.p] ELSE process_list
    /\ next' = [q \in Process |-> IF q = Top.p THEN NULL
                                  ELSE IF OnList(q) /\ next[q] = Top.p THEN next[Top.p]
                                  ELSE next[q]]
    /\ process_current' = Top.old
    /\ stack' = Rest
    /\ UNCHANGED <<state, polls, queue, loop, boot, paused>>

(* Mutant: the first process of the list is never taken off it.            *)
exit_unlink_not_head ==
    /\ At("exit_process") /\ Top.step = "unlink"
    /\ next' = [q \in Process |-> IF OnList(q) /\ next[q] = Top.p
                                  THEN next[Top.p] ELSE next[q]]
    /\ process_current' = Top.old
    /\ stack' = Rest
    /\ UNCHANGED <<process_list, state, polls, queue, loop, boot, paused>>

exit_unlink ==
    /\ At("exit_process") /\ Top.step = "unlink"
    /\ IF Top.p = process_list
         THEN process_list' = next[Top.p] /\ UNCHANGED next
         ELSE /\ next' = [q \in Process |-> IF OnList(q) /\ next[q] = Top.p
                                              THEN next[Top.p] ELSE next[q]]
              /\ UNCHANGED process_list
    /\ process_current' = Top.old
    /\ stack' = Rest
    /\ UNCHANGED <<state, polls, queue, loop, boot, paused>>

(* Mutant: process_post_synch does not restore the current process.        *)
synch_return_no_restore ==
    /\ At("process_post_synch")
    /\ stack' = Rest
    /\ UNCHANGED <<lists, process_current, state, polls, queue, loop, boot, paused>>

synch_return ==
    /\ At("process_post_synch")
    /\ process_current' = Top.caller
    /\ stack' = Rest
    /\ UNCHANGED <<lists, state, polls, queue, loop, boot, paused>>

-----------------------------------------------------------------------------
(* What the thread of a process does while it is called.                   *)

CanCall(what) ==
    /\ At("thread")
    /\ what \in May[Top.p]
    /\ Top.p \notin paused
    /\ Top.calls < MaxCalls
Caller == [Top EXCEPT !.calls = @ + 1]

thread_post(to) ==
    /\ CanCall(IF to = NULL THEN "broadcast" ELSE "post")
    /\ process_post(to, "MSG")
    /\ stack' = <<Caller>> \o Rest
    /\ UNCHANGED <<lists, process_current, state, polls, loop, boot, paused>>

thread_poll(q) ==
    /\ CanCall("poll")
    /\ process_poll(q)
    /\ stack' = <<Caller>> \o Rest
    /\ UNCHANGED <<lists, process_current, state, queue, loop, boot, paused>>

thread_post_synch(q) ==
    /\ CanCall("synch")
    /\ Len(stack) < MaxDepth
    /\ call_process(q, "MSG", <<PostSynch(process_current), Caller>> \o Rest)
    /\ UNCHANGED <<lists, polls, queue, loop, boot, paused>>

thread_start(q) ==
    /\ CanCall("start")
    /\ Len(stack) < MaxDepth
    /\ process_start(q, <<Caller>> \o Rest)
    /\ paused' = IF OnList(q) THEN paused ELSE paused \ {q}
    /\ UNCHANGED <<polls, queue, loop, boot>>

thread_exit(q) ==
    /\ CanCall("exit")
    /\ Len(stack) < MaxDepth
    /\ stack' = <<ExitProcess(q, process_current), Caller>> \o Rest
    /\ UNCHANGED <<lists, process_current, state, polls, queue, loop, boot, paused>>

(* How call_process goes on when the thread returns. *)
Returned(ended) ==
    IF Top.via = "exit_process"
      THEN stack' = Rest /\ UNCHANGED state
    ELSE IF ended \/ Top.ev = "EXIT"
      THEN stack' = <<ExitProcess(Top.p, Top.p)>> \o Rest /\ UNCHANGED state
      ELSE stack' = Rest /\ state' = [state EXCEPT ![Top.p] = "running"]

(* The thread waits for its next event; inside PROCESS_PAUSE every event   *)
(* but CONTINUE leads straight here.                                       *)
thread_wait ==
    /\ At("thread")
    /\ Top.p \in paused => Top.ev # "CONTINUE"
    /\ Returned(FALSE)
    /\ UNCHANGED <<lists, process_current, polls, queue, loop, boot, paused>>

thread_end ==
    /\ CanCall("end")
    /\ Returned(TRUE)
    /\ UNCHANGED <<lists, process_current, polls, queue, loop, boot, paused>>

(* PROCESS_PAUSE: the result of process_post is ignored. *)
thread_pause ==
    /\ CanCall("pause")
    /\ process_post(process_current, "CONTINUE")
    /\ paused' = paused \cup {Top.p}
    /\ Returned(FALSE)
    /\ UNCHANGED <<lists, process_current, polls, loop, boot>>

thread_continue ==
    /\ At("thread")
    /\ Top.p \in paused
    /\ Top.ev = "CONTINUE"
    /\ paused' = paused \ {Top.p}
    /\ UNCHANGED <<lists, process_current, state, polls, queue, stack, loop, boot>>

-----------------------------------------------------------------------------
Walk == \/ do_poll_call \/ do_poll_next \/ do_poll_end
        \/ broadcast_check \/ broadcast_call \/ broadcast_next \/ broadcast_end
        \/ exit_begin \/ exit_tell \/ exit_next \/ exit_thread \/ exit_unlink
        \/ synch_return

Activity == \/ \E q \in Process : thread_poll(q) \/ thread_post_synch(q)
                                    \/ thread_start(q) \/ thread_exit(q)
            \/ \E to \in Pointer : thread_post(to)
            \/ thread_wait \/ thread_end \/ thread_pause \/ thread_continue

Main == main_start \/ run_polls \/ run_event \/ Walk \/ Activity

Next == Main \/ \E p \in PolledByIsr : isr_poll(p)

Spec == Init /\ [][Next]_vars
LiveSpec == Spec /\ WF_vars(Main)

-----------------------------------------------------------------------------
TypeOK ==
    /\ process_list \in Pointer
    /\ next \in [Process -> Pointer]
    /\ process_current \in Pointer
    /\ state \in [Process -> {"none", "running", "called"}]
    /\ needspoll \in [Process -> BOOLEAN]
    /\ poll_requested \in BOOLEAN
    /\ queue \in Seq([ev : Event, to : Pointer])
    /\ Len(queue) <= NUMEVENTS
    /\ loop \in {"poll", "event"}
    /\ paused \subseteq Process

Frames(f) == {i \in DOMAIN stack : stack[i].at = f}

(***************************************************************************)
(* No poll is lost: a process on the list whose poll flag is set will be   *)
(* visited by a do_poll that is still walking, or poll_requested is set,   *)
(* so that another do_poll follows.  The flag may be set by an interrupt   *)
(* between any two steps, and the walk may run over processes that exit    *)
(* or start under it.                                                      *)
(***************************************************************************)
StillVisited(f) == From(IF f.called THEN next[f.p] ELSE f.p)

NoLostPoll ==
    \A p \in Process :
        needspoll[p] /\ OnList(p) =>
            \/ poll_requested
            \/ \E i \in Frames("do_poll") : p \in StillVisited(stack[i])

(***************************************************************************)
(* PROCESS_CURRENT() is the process whose code is running, whatever it     *)
(* started, called or made to exit before: timers it sets and the events   *)
(* of PROCESS_PAUSE go to it.                                              *)
(***************************************************************************)
CurrentIsRunning == At("thread") => process_current = Top.p

(***************************************************************************)
(* A thread is never entered again while a call of it has not returned,    *)
(* whatever the chain of synchronous calls and of exit notices: state      *)
(* called is what keeps call_process from it.                              *)
(***************************************************************************)
Entered(p) == {i \in Frames("thread") : stack[i].p = p}

EnteredOnce == \A p \in Process : Cardinality(Entered(p)) <= 1

(***************************************************************************)
(* While nobody is exiting, exactly the processes on the list are running  *)
(* or called.  process.h, of process_exit: "This function causes a process *)
(* to exit.  The process can either be the currently executing process, or *)
(* another process that is currently running."                             *)
(***************************************************************************)
ListedAreRunning ==
    Frames("exit_process") = {} =>
        \A p \in Process : state[p] # "none" <=> OnList(p)

(***************************************************************************)
(* A broadcast calls no process twice, and when its walk has ended it has  *)
(* called every process that was on the list when it began and still is,   *)
(* although the processes it calls, and those polled in between, exit and  *)
(* take themselves off the list that is walked.                            *)
(***************************************************************************)
BroadcastOnce ==
    At("do_event") =>
        /\ ~Top.twice
        /\ Top.p = NULL => Top.due \cap From(process_list) \subseteq Top.got

(***************************************************************************)
(* Polls are answered: a process with the poll flag set is called with     *)
(* PROCESS_EVENT_POLL, which clears the flag, or leaves the list.          *)
(***************************************************************************)
PollsAnswered ==
    \A p \in Process : (needspoll[p] /\ OnList(p)) ~> ~(needspoll[p] /\ OnList(p))

(***************************************************************************)
(* process.c:142, of exit_process: "Post a synchronous event to all        *)
(* processes to inform them that this process is about to exit. This will  *)
(* allow services to deallocate state associated with this process."  All  *)
(* processes on the list that are not exiting too have been called when    *)
(* this one is taken off it.                                               *)
(***************************************************************************)
AllToldOfExit ==
    At("exit_process") /\ Top.step = "unlink" =>
        \A p \in From(process_list) : state[p] = "none" \/ p \in Top.told

(***************************************************************************)
(* process.h:214, of PROCESS_PAUSE: "This macro yields the currently       *)
(* running process for a short while, thus letting other processes run     *)
(* before the process continues."                                          *)
(***************************************************************************)
PauseEnds == \A p \in Process : p \in paused ~> p \notin paused

=============================================================================
