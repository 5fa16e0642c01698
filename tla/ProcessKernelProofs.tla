------------------------ MODULE ProcessKernelProofs ------------------------
(***************************************************************************)
(* Theorems about the process kernel.  The frames of the stack are typed,  *)
(* and what lies below a frame fits it: a thread that waits has a frame    *)
(* above it that will make it the current process again.                   *)
(***************************************************************************)
EXTENDS ProcessKernel, TLAPS, SequenceTheorems, FiniteSetTheorems

ThreadFrame == [at : {"thread"}, p : Process, ev : Event,
                via : {"call_process", "exit_process"}, calls : Nat]
DoPollFrame == [at : {"do_poll"}, p : Pointer, called : {FALSE}]
                  \cup [at : {"do_poll"}, p : Process, called : {TRUE}]
DoEventFrame == [at : {"do_event"}, p : Pointer, ev : Event, step : {"check"},
                 due : SUBSET Process, got : SUBSET Process, twice : BOOLEAN]
                  \cup [at : {"do_event"}, p : Process, ev : Event, step : {"call", "called"},
                        due : SUBSET Process, got : SUBSET Process, twice : BOOLEAN]
ExitFrame == [at : {"exit_process"}, p : Process, from : Pointer, old : Pointer, q : Pointer,
              step : {"begin", "tell", "unlink"}, told : SUBSET Process]
               \cup [at : {"exit_process"}, p : Process, from : Pointer, old : Pointer,
                     q : Process, step : {"told"}, told : SUBSET Process]
SynchFrame == [at : {"process_post_synch"}, caller : Pointer]
Frame == ThreadFrame \cup DoPollFrame \cup DoEventFrame \cup ExitFrame \cup SynchFrame

(* Frame f may lie on g: a thread below is restored by the frame above it, *)
(* and exit_process begins before it calls anybody.                        *)
Fits(f, g) ==
    /\ g.at = "thread" => \/ f.at = "process_post_synch" /\ f.caller = g.p
                          \/ f.at = "exit_process" /\ f.old = g.p
    /\ g.at = "exit_process" => g.step # "begin"

Sound(s) ==
    /\ s \in Seq(Frame)
    /\ \A i \in 1 .. Len(s) - 1 : Fits(s[i], s[i + 1])

-----------------------------------------------------------------------------
(* Facts about stacks *)

(* A stack with one more frame *)
LEMMA Push ==
    ASSUME NEW S, NEW s \in Seq(S), NEW f \in S
    PROVE  /\ <<f>> \o s \in Seq(S)
           /\ <<f>> \o s # <<>>
           /\ Len(<<f>> \o s) = Len(s) + 1
           /\ Head(<<f>> \o s) = f
           /\ Tail(<<f>> \o s) = s
           /\ (<<f>> \o s)[1] = f
           /\ \A i \in 1 .. Len(s) : (<<f>> \o s)[i + 1] = s[i]
  <1>1. <<f>> \in Seq(S) /\ Len(<<f>>) = 1 /\ <<f>>[1] = f
    OBVIOUS
  <1>2. /\ <<f>> \o s \in Seq(S) /\ Len(<<f>> \o s) = Len(s) + 1
        /\ (<<f>> \o s)[1] = f
        /\ \A i \in 1 .. Len(s) : (<<f>> \o s)[i + 1] = s[i]
    BY <1>1, ConcatProperties
  <1>3. <<f>> \o s # <<>> /\ Head(<<f>> \o s) = f
    BY <1>2
  <1>4. Tail(<<f>> \o s) = s
    <2>1. /\ Tail(<<f>> \o s) \in Seq(S)
          /\ Len(Tail(<<f>> \o s)) = Len(s)
          /\ \A i \in 1 .. Len(s) : Tail(<<f>> \o s)[i] = (<<f>> \o s)[i + 1]
      BY <1>2, <1>3, HeadTailProperties
    <2> QED BY <2>1, <1>2, SeqEqual
  <1> QED BY <1>2, <1>3, <1>4

(* Two frames are pushed one after the other. *)
LEMMA PushTwo ==
    ASSUME NEW S, NEW s \in Seq(S), NEW f \in S, NEW g \in S
    PROVE  <<f, g>> \o s = <<f>> \o (<<g>> \o s)
  <1>1. <<f>> \in Seq(S) /\ <<g>> \in Seq(S) /\ <<f, g>> \in Seq(S)
    OBVIOUS
  <1>2. /\ <<f>> \o <<g>> \in Seq(S) /\ Len(<<f>> \o <<g>>) = 2
        /\ (<<f>> \o <<g>>)[1] = f /\ (<<f>> \o <<g>>)[2] = g
    <2>1. Len(<<g>>) = 1 /\ <<g>>[1] = g
      OBVIOUS
    <2>2. \A i \in 1 .. Len(<<g>>) : (<<f>> \o <<g>>)[i + 1] = <<g>>[i]
      BY <1>1, Push
    <2>3. (<<f>> \o <<g>>)[1 + 1] = g
      BY <2>1, <2>2
    <2> QED BY <1>1, <2>1, <2>3, Push
  <1>3. <<f, g>> = <<f>> \o <<g>>
    <2>1. Len(<<f, g>>) = 2 /\ <<f, g>>[1] = f /\ <<f, g>>[2] = g
      OBVIOUS
    <2>2. \A i \in 1 .. 2 : <<f, g>>[i] = (<<f>> \o <<g>>)[i]
      <3>1. \A i \in 1 .. 2 : i = 1 \/ i = 2
        OBVIOUS
      <3> QED BY <3>1, <2>1, <1>2
    <2> QED BY <1>1, <1>2, <2>1, <2>2, SeqEqual
  <1> QED BY <1>1, <1>3, ConcatAssociative

LEMMA SoundPush ==
    ASSUME NEW s, Sound(s), NEW f \in Frame, s # <<>> => Fits(f, Head(s))
    PROVE  /\ Sound(<<f>> \o s)
           /\ <<f>> \o s # <<>> /\ Head(<<f>> \o s) = f /\ Tail(<<f>> \o s) = s
  <1>1. s \in Seq(Frame)
    BY DEF Sound
  <1> DEFINE t == <<f>> \o s
  <1>2. /\ t \in Seq(Frame) /\ t # <<>> /\ Len(t) = Len(s) + 1 /\ Head(t) = f /\ Tail(t) = s
        /\ t[1] = f /\ \A i \in 1 .. Len(s) : t[i + 1] = s[i]
    BY <1>1, Push
  <1>3. ASSUME NEW i \in 1 .. Len(t) - 1 PROVE Fits(t[i], t[i + 1])
    <2>1. CASE i = 1
      <3>1. s # <<>> /\ Head(s) = s[1] /\ t[2] = s[1]
        BY <1>1, <1>2, <2>1
      <3> QED BY <3>1, <2>1, <1>2
    <2>2. CASE i # 1
      <3>1. i - 1 \in 1 .. Len(s) - 1 /\ t[i] = s[i - 1] /\ t[i + 1] = s[i]
        <4>1. i - 1 \in 1 .. Len(s) /\ i \in 1 .. Len(s) /\ Len(s) \in Nat
          BY <1>1, <1>2, <2>2
        <4>2. t[(i - 1) + 1] = s[i - 1] /\ (i - 1) + 1 = i
          BY <4>1, <1>2
        <4> QED BY <4>1, <4>2, <1>2
      <3>2. Fits(s[i - 1], s[(i - 1) + 1]) /\ (i - 1) + 1 = i
        BY <3>1 DEF Sound
      <3> QED BY <3>1, <3>2
    <2> QED BY <2>1, <2>2
  <1> QED BY <1>2, <1>3 DEF Sound

LEMMA SoundPop ==
    ASSUME NEW s, Sound(s), s # <<>>
    PROVE  /\ Sound(Tail(s)) /\ Head(s) \in Frame
           /\ Tail(s) # <<>> => Fits(Head(s), Head(Tail(s)))
           /\ s = <<Head(s)>> \o Tail(s)
  <1>1. s \in Seq(Frame)
    BY DEF Sound
  <1>2. /\ Head(s) \in Frame /\ Head(s) = s[1] /\ Tail(s) \in Seq(Frame)
        /\ Len(s) \in Nat /\ Len(s) >= 1 /\ Len(Tail(s)) = Len(s) - 1
        /\ \A i \in 1 .. Len(s) - 1 : Tail(s)[i] = s[i + 1]
    BY <1>1, HeadTailProperties
  <1>3. ASSUME NEW i \in 1 .. Len(Tail(s)) - 1
        PROVE  Fits(Tail(s)[i], Tail(s)[i + 1])
    <2>1. i + 1 \in 1 .. Len(s) - 1 /\ Tail(s)[i] = s[i + 1] /\ Tail(s)[i + 1] = s[(i + 1) + 1]
      BY <1>2
    <2> QED BY <2>1 DEF Sound
  <1>4. ASSUME Tail(s) # <<>> PROVE Fits(Head(s), Head(Tail(s)))
    <2> DEFINE t == Tail(s)
    <2>1. t \in Seq(Frame) /\ t # <<>>
      BY <1>2, <1>4
    <2>2. Head(t) = t[1] /\ Len(t) \in Nat /\ Len(t) >= 1
      <3> HIDE DEF t
      <3> QED BY <2>1, HeadTailProperties
    <2>3. 1 \in 1 .. Len(s) - 1 /\ t[1] = s[1 + 1]
      BY <1>2, <2>2
    <2>4. Fits(s[1], s[1 + 1])
      BY <2>3 DEF Sound
    <2> QED BY <1>2, <2>2, <2>3, <2>4
  <1>5. s = <<Head(s)>> \o Tail(s)
    <2>1. /\ <<Head(s)>> \o Tail(s) \in Seq(Frame)
          /\ Len(<<Head(s)>> \o Tail(s)) = Len(s)
          /\ (<<Head(s)>> \o Tail(s))[1] = Head(s)
          /\ \A i \in 1 .. Len(s) - 1 : (<<Head(s)>> \o Tail(s))[i + 1] = s[i + 1]
      BY <1>2, Push
    <2>2. ASSUME NEW i \in 1 .. Len(s) PROVE s[i] = (<<Head(s)>> \o Tail(s))[i]
      <3>1. CASE i = 1
        BY <3>1, <2>1, <1>2
      <3>2. CASE i # 1
        <4>1. i - 1 \in 1 .. Len(s) - 1 /\ (i - 1) + 1 = i
          BY <3>2, <1>2
        <4> QED BY <4>1, <2>1
      <3> QED BY <3>1, <3>2
    <2> QED BY <1>1, <2>1, <2>2, SeqEqual
  <1> QED BY <1>2, <1>3, <1>4, <1>5 DEF Sound

-----------------------------------------------------------------------------
(* The invariant *)

(* When exit_process begins, the current process is still the one it found. *)
Begun == At("exit_process") /\ Top.step = "begin" => process_current = Top.old

KernelInv == TypeOK /\ Sound(stack) /\ CurrentIsRunning /\ Begun

(* The frame on top is neither a thread nor an exit_process that begins. *)
Waits(s) ==
    s # <<>> => Head(s).at # "thread" /\ (Head(s).at = "exit_process" => Head(s).step # "begin")

LEMMA FrameKinds ==
    ASSUME NEW f \in Frame
    PROVE  /\ f.at = "thread" => f \in ThreadFrame
           /\ f.at = "do_poll" => f \in DoPollFrame
           /\ f.at = "do_event" => f \in DoEventFrame
           /\ f.at = "exit_process" => f \in ExitFrame
           /\ f.at = "process_post_synch" => f \in SynchFrame
  BY DEF Frame, ThreadFrame, DoPollFrame, DoEventFrame, ExitFrame, SynchFrame

LEMMA TopFacts ==
    ASSUME Sound(stack), stack # <<>>
    PROVE  /\ Top \in Frame /\ Sound(Rest)
           /\ Rest # <<>> => Fits(Top, Head(Rest))
           /\ Top.at \notin {"process_post_synch", "exit_process"} => Waits(Rest)
  BY SoundPop DEF Top, Rest, Fits, Waits

LEMMA WaitingFits ==
    ASSUME NEW s, Waits(s), NEW f
    PROVE  s # <<>> => Fits(f, Head(s))
  BY DEF Waits, Fits

LEMMA WaitingTop ==
    ASSUME Waits(stack)'
    PROVE  CurrentIsRunning' /\ Begun'
  BY DEF Waits, CurrentIsRunning, Begun, At, Top

(* What call_process does above frames that wait for it *)
LEMMA CallStep ==
    ASSUME TypeOK, NEW p \in Pointer, NEW ev \in Event, NEW frames, Sound(frames),
           Waits(frames), call_process(p, ev, frames)
    PROVE  /\ process_current' \in Pointer
           /\ state' \in [Process -> {"none", "running", "called"}]
           /\ Sound(stack)' /\ CurrentIsRunning' /\ Begun'
  <1>1. CASE p # NULL /\ state[p] = "running"
    <2> DEFINE f == Thread(p, ev, "call_process")
    <2>1. p \in Process
      BY <1>1 DEF Pointer
    <2>2. f \in Frame
      BY <2>1 DEF Thread, Frame, ThreadFrame
    <2>3. stack' = <<f>> \o frames /\ process_current' = p /\ state' = [state EXCEPT ![p] = "called"]
      BY <1>1 DEF call_process
    <2>4. Sound(stack') /\ stack' # <<>> /\ Head(stack') = f
      BY <2>2, <2>3, SoundPush, WaitingFits
    <2>5. CurrentIsRunning' /\ Begun'
      BY <2>3, <2>4 DEF CurrentIsRunning, Begun, At, Top, Thread
    <2> QED BY <2>1, <2>3, <2>4, <2>5 DEF TypeOK, Pointer, Sound
  <1>2. CASE ~(p # NULL /\ state[p] = "running")
    <2>1. stack' = frames /\ process_current' = process_current /\ state' = state
      BY <1>2 DEF call_process
    <2> QED BY <2>1, WaitingTop DEF TypeOK, Sound, Waits
  <1> QED BY <1>1, <1>2

(* What process_start does above the thread that called it, or above nobody *)
LEMMA StartStep ==
    ASSUME TypeOK, NEW p \in Process, NEW frames, Sound(frames),
           frames # <<>> => Head(frames).at = "thread" /\ Head(frames).p = process_current,
           process_start(p, frames)
    PROVE  /\ process_list' \in Pointer /\ next' \in [Process -> Pointer]
           /\ process_current' \in Pointer
           /\ state' \in [Process -> {"none", "running", "called"}]
           /\ Sound(stack)' /\ CurrentIsRunning' /\ Begun'
  <1>1. CASE OnList(p)
    <2>1. stack' = frames /\ UNCHANGED <<lists, process_current, state>>
      BY <1>1 DEF process_start
    <2>2. CurrentIsRunning' /\ Begun'
      BY <2>1 DEF CurrentIsRunning, Begun, At, Top
    <2> QED BY <2>1, <2>2 DEF TypeOK, Sound, lists
  <1>2. CASE ~OnList(p)
    <2> DEFINE f == Thread(p, "INIT", "call_process")
               g == PostSynch(process_current)
    <2>1. f \in Frame /\ g \in Frame
      BY DEF TypeOK, Frame, ThreadFrame, SynchFrame, Thread, PostSynch, Event
    <2>2. /\ stack' = <<f, g>> \o frames /\ process_current' = p /\ process_list' = p
          /\ next' = [next EXCEPT ![p] = process_list]
          /\ state' = [state EXCEPT ![p] = "called"]
      BY <1>2 DEF process_start
    <2>3. stack' = <<f>> \o (<<g>> \o frames)
      BY <2>1, <2>2, PushTwo DEF Sound
    <2>4. frames # <<>> => Fits(g, Head(frames))
      BY DEF Fits, PostSynch
    <2>5. Sound(<<g>> \o frames) /\ Head(<<g>> \o frames) = g
      BY <2>1, <2>4, SoundPush
    <2>6. Fits(f, g)
      BY DEF Fits, PostSynch
    <2>7. Sound(stack') /\ stack' # <<>> /\ Head(stack') = f
      <3> HIDE DEF f, g
      <3> QED BY <2>1, <2>3, <2>5, <2>6, SoundPush
    <2>8. CurrentIsRunning' /\ Begun'
      BY <2>2, <2>7 DEF CurrentIsRunning, Begun, At, Top, Thread
    <2> QED BY <2>2, <2>7, <2>8 DEF TypeOK, Pointer, Sound
  <1> QED BY <1>1, <1>2

(* A step of a frame that is not a thread and not an exit_process that begins *)
(* replaces the frame by one that stands for it.                              *)
LEMMA Replace ==
    ASSUME Sound(stack), stack # <<>>, NEW f \in Frame,
           f.at = Top.at,
           f.at = "thread" => f.p = Top.p,
           f.at = "exit_process" => f.old = Top.old,
           f.at = "process_post_synch" => f.caller = Top.caller
    PROVE  /\ Sound(<<f>> \o Rest) /\ <<f>> \o Rest # <<>>
           /\ Head(<<f>> \o Rest) = f /\ Tail(<<f>> \o Rest) = Rest
  <1>1. Sound(Rest) /\ (Rest # <<>> => Fits(Top, Head(Rest)))
    BY TopFacts
  <1>2. Rest # <<>> => Fits(f, Head(Rest))
    BY <1>1 DEF Fits
  <1> QED BY <1>1, <1>2, SoundPush

-----------------------------------------------------------------------------
(* One step of the program *)

LEMMA KernelInit == Init => KernelInv
  <1> SUFFICES ASSUME Init PROVE KernelInv
    OBVIOUS
  <1>1. TypeOK
    <2>1. queue \in Seq([ev : Event, to : Pointer]) /\ Len(queue) <= NUMEVENTS
      BY KernelAssumption DEF Init
    <2> QED BY <2>1 DEF Init, TypeOK, Pointer
  <1>2. Sound(stack)
    BY DEF Init, Sound
  <1> QED BY <1>1, <1>2 DEF Init, KernelInv, CurrentIsRunning, Begun, At

LEMMA FromType == ASSUME NEW p PROVE From(p) \in SUBSET Process
  BY DEF From

LEMMA PostType ==
    ASSUME TypeOK, NEW to \in Pointer, NEW ev \in Event, process_post(to, ev)
    PROVE  queue' \in Seq([ev : Event, to : Pointer]) /\ Len(queue') <= NUMEVENTS
  <1>1. NUMEVENTS \in Nat /\ queue \in Seq([ev : Event, to : Pointer]) /\ Len(queue) <= NUMEVENTS
    BY KernelAssumption DEF TypeOK
  <1> DEFINE E == [ev : Event, to : Pointer]
             e == [ev |-> ev, to |-> to]
  <1>2. e \in E
    OBVIOUS
  <1>3. Append(queue, e) \in Seq(E) /\ Len(Append(queue, e)) = Len(queue) + 1 /\ Len(queue) \in Nat
    <2> HIDE DEF e, E
    <2>1. queue \in Seq(E)
      BY <1>1 DEF E
    <2> QED BY <2>1, <1>2, AppendProperties
  <1>4. queue' = IF Len(queue) < NUMEVENTS THEN Append(queue, e) ELSE queue
    BY DEF process_post
  <1>5. queue' \in Seq(E) /\ Len(queue') <= NUMEVENTS
    <2>1. queue \in Seq(E)
      BY <1>1
    <2> HIDE DEF e, E
    <2>2. CASE Len(queue) < NUMEVENTS
      <3>1. queue' = Append(queue, e)
        BY <2>2, <1>4
      <3>2. Len(queue) + 1 <= NUMEVENTS
        BY <2>2, <1>3, <1>1
      <3> QED BY <3>1, <3>2, <1>3
    <2>3. CASE ~(Len(queue) < NUMEVENTS)
      BY <2>1, <2>3, <1>1, <1>4
    <2> QED BY <2>2, <2>3
  <1> QED BY <1>5

(* The loops of do_poll and do_event and the return of a synchronous call *)
LEMMA WalkStep ==
    ASSUME KernelInv,
           \/ do_poll_call \/ do_poll_next \/ do_poll_end
           \/ broadcast_check \/ broadcast_call \/ broadcast_next \/ broadcast_end
           \/ synch_return
    PROVE  KernelInv'
  <1> USE DEF KernelInv
  <1>0. stack # <<>>
    BY DEF do_poll_call, do_poll_next, do_poll_end, broadcast_check, broadcast_call,
           broadcast_next, broadcast_end, synch_return, At
  <1>t. /\ Top \in Frame /\ Sound(Rest)
        /\ Rest # <<>> => Fits(Top, Head(Rest))
        /\ Top.at \notin {"process_post_synch", "exit_process"} => Waits(Rest)
    BY <1>0, TopFacts
  <1>1. CASE do_poll_call
    <2> USE <1>1 DEF do_poll_call
    <2> DEFINE f == Thread(Top.p, "POLL", "call_process")
               g == [Top EXCEPT !.called = TRUE]
    <2>1. Top \in DoPollFrame /\ Top.p \in Process
      BY <1>t, FrameKinds DEF At, DoPollFrame, Pointer
    <2>2. f \in Frame /\ f.at = "thread" /\ f.p = Top.p
      BY <2>1 DEF Thread, Frame, ThreadFrame, Event
    <2>3. g \in Frame /\ g.at = "do_poll" /\ Top.at = "do_poll"
      BY <2>1 DEF Frame, DoPollFrame, At
    <2>4. Sound(<<g>> \o Rest) /\ Head(<<g>> \o Rest) = g
      BY <1>0, <2>3, Replace
    <2>5. Fits(f, g)
      BY <2>3 DEF Fits
    <2>6. stack' = <<f>> \o (<<g>> \o Rest)
      BY <1>t, <2>2, <2>3, PushTwo DEF Sound
    <2>7. Sound(stack') /\ stack' # <<>> /\ Head(stack') = f
      <3> HIDE DEF f, g
      <3> QED BY <2>2, <2>4, <2>5, <2>6, SoundPush
    <2>8. CurrentIsRunning' /\ Begun'
      BY <2>2, <2>7 DEF CurrentIsRunning, Begun, At, Top
    <2>9. TypeOK'
      BY <2>1 DEF TypeOK, Pointer, lists
    <2> QED BY <2>7, <2>8, <2>9 DEF Sound
  <1>2. CASE do_poll_next
    <2> USE <1>2 DEF do_poll_next
    <2>1. Top \in DoPollFrame /\ Top.p \in Process
      BY <1>t, FrameKinds DEF At, DoPollFrame, Pointer
    <2> DEFINE g == DoPoll(next[Top.p])
    <2>2. g \in Frame /\ g.at = "do_poll" /\ Top.at = "do_poll"
      BY <2>1 DEF TypeOK, Frame, DoPollFrame, DoPoll, At
    <2>3. Sound(stack') /\ stack' # <<>> /\ Head(stack') = g
      BY <1>0, <2>2, Replace
    <2>4. CurrentIsRunning' /\ Begun'
      BY <2>2, <2>3 DEF CurrentIsRunning, Begun, At, Top
    <2>5. TypeOK'
      BY DEF TypeOK, lists, polls
    <2> QED BY <2>3, <2>4, <2>5 DEF Sound
  <1>3. CASE do_poll_end \/ broadcast_end
    <2>1. stack' = Rest /\ Waits(Rest)
      BY <1>3, <1>t DEF do_poll_end, broadcast_end, At
    <2>2. TypeOK'
      BY <1>3 DEF do_poll_end, broadcast_end, TypeOK, lists, polls
    <2> QED BY <2>1, <2>2, <1>t, WaitingTop DEF Sound, Waits
  <1>4. CASE broadcast_check
    <2> USE <1>4 DEF broadcast_check
    <2> DEFINE g == [Top EXCEPT !.step = "call"]
               d == DoPoll(process_list)
    <2>1. Top \in DoEventFrame /\ Top.p \in Process
      BY <1>t, FrameKinds DEF At, DoEventFrame, Pointer
    <2>2. g \in Frame /\ g.at = "do_event" /\ Top.at = "do_event"
      BY <2>1 DEF Frame, DoEventFrame, At
    <2>3. /\ Sound(<<g>> \o Rest) /\ <<g>> \o Rest # <<>>
          /\ Head(<<g>> \o Rest) = g
      BY <1>0, <2>2, Replace
    <2>4. d \in Frame /\ d.at = "do_poll"
      BY DEF TypeOK, Frame, DoPollFrame, DoPoll
    <2>5. Sound(stack') /\ Waits(stack')
      <3>1. CASE poll_requested
        <4>1. stack' = <<d>> \o (<<g>> \o Rest)
          <5>1. stack' = (<<d>> \o <<g>>) \o Rest
            BY <3>1
          <5>2. <<d>> \in Seq(Frame) /\ <<g>> \in Seq(Frame) /\ Rest \in Seq(Frame)
            BY <2>2, <2>4, <1>t DEF Sound
          <5>3. (<<d>> \o <<g>>) \o Rest = <<d>> \o (<<g>> \o Rest)
            <6> HIDE DEF d, g
            <6> QED BY <5>2, ConcatAssociative
          <5> QED BY <5>1, <5>3
        <4>2. Fits(d, g)
          BY <2>2 DEF Fits
        <4>3. Sound(stack') /\ Head(stack') = d
          <5> HIDE DEF d, g
          <5> QED BY <4>1, <4>2, <2>3, <2>4, SoundPush
        <4> QED BY <4>3, <2>4 DEF Waits
      <3>2. CASE ~poll_requested
        <4>1. stack' = <<g>> \o Rest
          <5>1. stack' = (<<>> \o <<g>>) \o Rest /\ <<g>> \in Seq(Frame)
            BY <3>2, <2>2
          <5> HIDE DEF g
          <5>2. <<>> \o <<g>> = <<g>>
            BY <5>1, ConcatEmptySeq
          <5> QED BY <5>1, <5>2
        <4> QED BY <4>1, <2>3, <2>2 DEF Waits
      <3> QED BY <3>1, <3>2
    <2>6. TypeOK'
      BY DEF TypeOK, lists
    <2>7. Sound(stack)' /\ Waits(stack)'
      BY <2>5 DEF Sound, Waits
    <2> QED BY <2>7, <2>6, WaitingTop
  <1>5. CASE broadcast_call
    <2> USE <1>5 DEF broadcast_call
    <2> DEFINE g == IF state[Top.p] = "running"
                      THEN [Top EXCEPT !.step = "called", !.got = @ \cup {Top.p},
                                       !.twice = @ \/ Top.p \in Top.got]
                      ELSE [Top EXCEPT !.step = "called"]
    <2>1. Top \in DoEventFrame /\ Top.p \in Process /\ Top.ev \in Event
      BY <1>t, FrameKinds DEF At, DoEventFrame, Pointer
    <2>2. g \in Frame /\ g.at = "do_event" /\ Top.at = "do_event"
      BY <2>1 DEF Frame, DoEventFrame, At
    <2>3. Sound(<<g>> \o Rest) /\ <<g>> \o Rest # <<>> /\ Head(<<g>> \o Rest) = g
      BY <1>0, <2>2, Replace
    <2>4. Waits(<<g>> \o Rest)
      BY <2>2, <2>3 DEF Waits
    <2>5. call_process(Top.p, Top.ev, <<g>> \o Rest)
      OBVIOUS
    <2>6. Top.p \in Pointer
      BY <2>1 DEF Pointer
    <2>7. /\ process_current' \in Pointer
          /\ state' \in [Process -> {"none", "running", "called"}]
          /\ Sound(stack)' /\ CurrentIsRunning' /\ Begun'
      <3> HIDE DEF g
      <3> QED BY <2>1, <2>3, <2>4, <2>5, <2>6, CallStep
    <2> QED BY <2>7 DEF TypeOK, lists, polls
  <1>6. CASE broadcast_next
    <2> USE <1>6 DEF broadcast_next
    <2>1. Top \in DoEventFrame /\ Top.p \in Process
      BY <1>t, FrameKinds DEF At, DoEventFrame, Pointer
    <2> DEFINE g == [Top EXCEPT !.step = "check", !.p = next[Top.p]]
    <2>2. g \in Frame /\ g.at = "do_event" /\ Top.at = "do_event"
      BY <2>1 DEF TypeOK, Frame, DoEventFrame, At
    <2>3. Sound(stack') /\ stack' # <<>> /\ Head(stack') = g
      BY <1>0, <2>2, Replace
    <2>4. CurrentIsRunning' /\ Begun'
      BY <2>2, <2>3 DEF CurrentIsRunning, Begun, At, Top
    <2>5. TypeOK'
      BY DEF TypeOK, lists, polls
    <2> QED BY <2>3, <2>4, <2>5 DEF Sound
  <1>7. CASE synch_return
    <2> USE <1>7 DEF synch_return
    <2>1. Top \in SynchFrame
      BY <1>t, FrameKinds DEF At
    <2>2. CurrentIsRunning' /\ Begun'
      <3>1. Rest # <<>> /\ Head(Rest).at = "thread" => Head(Rest).p = Top.caller
        BY <1>t, <2>1 DEF Fits, SynchFrame
      <3>2. Rest # <<>> /\ Head(Rest).at = "exit_process" => Head(Rest).step # "begin"
        BY <1>t DEF Fits
      <3> QED BY <3>1, <3>2 DEF CurrentIsRunning, Begun, At, Top
    <2>3. TypeOK'
      BY <2>1 DEF TypeOK, lists, polls, SynchFrame
    <2> QED BY <1>t, <2>2, <2>3 DEF Sound
  <1> QED BY <1>1, <1>2, <1>3, <1>4, <1>5, <1>6, <1>7

(* exit_process *)
LEMMA ExitStep ==
    ASSUME KernelInv,
           exit_begin \/ exit_tell \/ exit_next \/ exit_thread \/ exit_unlink
    PROVE  KernelInv'
  <1> USE DEF KernelInv
  <1>0. stack # <<>> /\ Top.at = "exit_process"
    BY DEF exit_begin, exit_tell, exit_next, exit_thread, exit_unlink, At
  <1>t. Top \in ExitFrame /\ Sound(Rest) /\ (Rest # <<>> => Fits(Top, Head(Rest)))
    BY <1>0, TopFacts, FrameKinds
  <1>f. Top.p \in Process /\ Top.old \in Pointer
    BY <1>t DEF ExitFrame
  (* What holds when the frame is taken off and its old is current again *)
  <1>r. ASSUME stack' = Rest, process_current' = Top.old PROVE CurrentIsRunning' /\ Begun'
    <2>1. Rest # <<>> /\ Head(Rest).at = "thread" => Head(Rest).p = Top.old
      BY <1>0, <1>t DEF Fits
    <2>2. Rest # <<>> /\ Head(Rest).at = "exit_process" => Head(Rest).step # "begin"
      BY <1>t DEF Fits
    <2> QED BY <1>r, <2>1, <2>2 DEF CurrentIsRunning, Begun, At, Top
  (* What holds when the frame goes on with another step *)
  <1>g. ASSUME NEW g \in Frame, g.at = "exit_process", g.old = Top.old, g.step # "begin",
               stack' = <<g>> \o Rest
        PROVE  Sound(stack)' /\ CurrentIsRunning' /\ Begun'
    <2>1. Sound(<<g>> \o Rest) /\ <<g>> \o Rest # <<>> /\ Head(<<g>> \o Rest) = g
      BY <1>0, <1>g, Replace
    <2> QED BY <2>1, <1>g DEF CurrentIsRunning, Begun, At, Top, Sound
  <1>1. CASE exit_begin
    <2> USE <1>1 DEF exit_begin
    <2>1. TypeOK'
      BY <1>f DEF TypeOK, lists, polls
    <2>2. CASE stack' = Rest
      <3>1. process_current' = Top.old
        BY <1>0 DEF Begun
      <3> QED BY <2>1, <2>2, <3>1, <1>r, <1>t DEF Sound
    <2>3. CASE stack' = <<[Top EXCEPT !.q = process_list,
                             !.step = IF state[Top.p] = "none" THEN "unlink" ELSE "tell"]>> \o Rest
      <3> DEFINE g == [Top EXCEPT !.q = process_list,
                         !.step = IF state[Top.p] = "none" THEN "unlink" ELSE "tell"]
      <3>1. g \in ExitFrame /\ g.at = "exit_process" /\ g.old = Top.old /\ g.step # "begin"
        BY <1>t DEF TypeOK, ExitFrame
      <3>2. g \in Frame
        BY <3>1 DEF Frame
      <3>3. stack' = <<g>> \o Rest
        BY <2>3
      <3> HIDE DEF g
      <3> QED BY <2>1, <3>1, <3>2, <3>3, <1>g
    <2> QED BY <2>2, <2>3
  <1>2. CASE exit_tell
    <2> USE <1>2 DEF exit_tell
    <2> DEFINE g == [Top EXCEPT !.step = "told",
                       !.told = IF state[Top.q] = "running" THEN @ \cup {Top.q} ELSE @]
               c == IF Top.q = Top.p THEN NULL ELSE Top.q
    <2>1. Top.q \in Process
      BY <1>t DEF ExitFrame, Pointer
    <2>2. g \in ExitFrame /\ g.at = "exit_process" /\ g.old = Top.old /\ g.step = "told"
      BY <1>t, <2>1 DEF ExitFrame
    <2>3. g \in Frame /\ c \in Pointer
      BY <2>1, <2>2 DEF Frame, Pointer
    <2>4. Sound(<<g>> \o Rest) /\ <<g>> \o Rest # <<>> /\ Head(<<g>> \o Rest) = g
      BY <1>0, <2>2, <2>3, Replace
    <2>5. Waits(<<g>> \o Rest)
      BY <2>2, <2>4 DEF Waits
    <2>6. call_process(c, "EXITED", <<g>> \o Rest) /\ "EXITED" \in Event
      BY DEF Event
    <2>7. /\ process_current' \in Pointer
          /\ state' \in [Process -> {"none", "running", "called"}]
          /\ Sound(stack)' /\ CurrentIsRunning' /\ Begun'
      <3> HIDE DEF g, c
      <3> QED BY <2>3, <2>4, <2>5, <2>6, CallStep
    <2> QED BY <2>7 DEF TypeOK, lists, polls
  <1>3. CASE exit_next
    <2> USE <1>3 DEF exit_next
    <2> DEFINE g == [Top EXCEPT !.step = "tell", !.q = next[Top.q]]
    <2>1. Top.q \in Process
      BY <1>t DEF ExitFrame
    <2>2. g \in ExitFrame /\ g.at = "exit_process" /\ g.old = Top.old /\ g.step = "tell"
      BY <1>t, <2>1 DEF ExitFrame, TypeOK
    <2>3. g \in Frame /\ stack' = <<g>> \o Rest
      BY <2>2 DEF Frame
    <2>4. TypeOK'
      BY DEF TypeOK, lists, polls
    <2> HIDE DEF g
    <2> QED BY <2>2, <2>3, <2>4, <1>g
  <1>4. CASE exit_thread
    <2> USE <1>4 DEF exit_thread
    <2> DEFINE g == [Top EXCEPT !.step = "unlink"]
               f == Thread(Top.p, "EXIT", "exit_process")
    <2>1. g \in ExitFrame /\ g.at = "exit_process" /\ g.old = Top.old /\ g.step = "unlink"
      BY <1>t DEF ExitFrame
    <2>2. g \in Frame
      BY <2>1 DEF Frame
    <2>3. f \in Frame /\ f.at = "thread" /\ f.p = Top.p /\ f.via = "exit_process"
      BY <1>f DEF Thread, Frame, ThreadFrame, Event
    <2>4. TypeOK'
      BY <1>f DEF TypeOK, lists, polls, Pointer
    <2>5. CASE Top.p # Top.from
      <3>1. stack' = <<f>> \o (<<g>> \o Rest) /\ process_current' = Top.p
        BY <1>t, <2>2, <2>3, <2>5, PushTwo DEF Sound
      <3>2. Sound(<<g>> \o Rest) /\ Head(<<g>> \o Rest) = g
        BY <1>0, <2>1, <2>2, Replace
      <3>3. Sound(stack') /\ stack' # <<>> /\ Head(stack') = f
        <4>1. f.at # "exit_process" /\ g.at # "thread" /\ g.step # "begin"
          BY <2>1, <2>3
        <4>2. Fits(f, g)
          BY <2>1 DEF Fits
        <4> HIDE DEF f, g
        <4> QED BY <3>1, <3>2, <4>2, <2>3, SoundPush
      <3>4. CurrentIsRunning' /\ Begun'
        BY <2>3, <3>1, <3>3 DEF CurrentIsRunning, Begun, At, Top
      <3> QED BY <2>4, <3>3, <3>4 DEF Sound
    <2>6. CASE Top.p = Top.from
      <3>1. stack' = <<g>> \o Rest
        BY <2>6
      <3> HIDE DEF g
      <3> QED BY <2>1, <2>2, <2>4, <3>1, <1>g
    <2> QED BY <2>5, <2>6
  <1>5. CASE exit_unlink
    <2> USE <1>5 DEF exit_unlink
    <2>1. process_list' \in Pointer /\ next' \in [Process -> Pointer]
      <3>1. next[Top.p] \in Pointer
        BY <1>f DEF TypeOK
      <3> QED BY <3>1 DEF TypeOK
    <2>2. TypeOK'
      BY <2>1, <1>f DEF TypeOK, polls
    <2> QED BY <2>2, <1>r, <1>t DEF Sound
  <1> QED BY <1>1, <1>2, <1>3, <1>4, <1>5

(* What a thread may call *)
LEMMA ThreadCallStep ==
    ASSUME KernelInv,
           NEW q \in Process,
           thread_poll(q) \/ thread_post_synch(q) \/ thread_start(q) \/ thread_exit(q)
    PROVE  KernelInv'
  <1> USE DEF KernelInv
  <1>0. stack # <<>> /\ Top.at = "thread"
    BY DEF thread_poll, thread_post_synch, thread_start, thread_exit, CanCall, At
  <1>t. Top \in ThreadFrame /\ Sound(Rest) /\ process_current = Top.p
    BY <1>0, TopFacts, FrameKinds DEF CurrentIsRunning, At
  <1>c. /\ Caller \in Frame /\ Caller.at = "thread" /\ Caller.p = Top.p
        /\ Sound(<<Caller>> \o Rest) /\ <<Caller>> \o Rest # <<>>
        /\ Head(<<Caller>> \o Rest) = Caller
    <2>1. Caller \in Frame /\ Caller.at = "thread" /\ Caller.p = Top.p
      BY <1>t DEF Caller, Frame, ThreadFrame
    <2>2. Top.at = "thread"
      BY <1>0
    <2> QED BY <1>0, <2>1, <2>2, Replace
  <1>1. CASE thread_poll(q)
    <2> USE <1>1 DEF thread_poll
    <2>1. TypeOK'
      <3>1. needspoll' \in [Process -> BOOLEAN] /\ poll_requested' \in BOOLEAN
        BY DEF process_poll, TypeOK
      <3> QED BY <3>1 DEF TypeOK, lists
    <2>2. CurrentIsRunning' /\ Begun'
      BY <1>c, <1>t DEF CurrentIsRunning, Begun, At, Top
    <2> QED BY <1>c, <2>1, <2>2 DEF Sound
  <1>2. CASE thread_post_synch(q)
    <2> USE <1>2 DEF thread_post_synch
    <2> DEFINE g == PostSynch(process_current)
               s == <<g>> \o (<<Caller>> \o Rest)
    <2>1. g \in Frame /\ g.at = "process_post_synch" /\ g.caller = Top.p
      BY <1>t DEF TypeOK, Frame, SynchFrame, PostSynch
    <2>2. Fits(g, Caller)
      BY <2>1, <1>c DEF Fits
    <2>3. Sound(s) /\ s # <<>> /\ Head(s) = g
      <3> HIDE DEF g
      <3> QED BY <2>1, <2>2, <1>c, SoundPush
    <2>4. Waits(s)
      BY <2>1, <2>3 DEF Waits
    <2>5. <<g, Caller>> \o Rest = s
      BY <2>1, <1>c, <1>t, PushTwo DEF Sound
    <2>6. call_process(q, "MSG", s) /\ "MSG" \in Event /\ q \in Pointer
      BY <2>5 DEF Event, Pointer
    <2>7. /\ process_current' \in Pointer
          /\ state' \in [Process -> {"none", "running", "called"}]
          /\ Sound(stack)' /\ CurrentIsRunning' /\ Begun'
      <3> HIDE DEF s
      <3> QED BY <2>3, <2>4, <2>6, CallStep
    <2> QED BY <2>7 DEF TypeOK, lists, polls
  <1>3. CASE thread_start(q)
    <2> USE <1>3 DEF thread_start
    <2>1. process_start(q, <<Caller>> \o Rest)
      OBVIOUS
    <2>2. Head(<<Caller>> \o Rest).at = "thread" /\ Head(<<Caller>> \o Rest).p = process_current
      BY <1>c, <1>t
    <2>3. /\ process_list' \in Pointer /\ next' \in [Process -> Pointer]
          /\ process_current' \in Pointer
          /\ state' \in [Process -> {"none", "running", "called"}]
          /\ Sound(stack)' /\ CurrentIsRunning' /\ Begun'
      BY <1>c, <2>1, <2>2, StartStep
    <2> QED BY <2>3 DEF TypeOK, polls
  <1>4. CASE thread_exit(q)
    <2> USE <1>4 DEF thread_exit
    <2> DEFINE g == ExitProcess(q, process_current)
    <2>1. g \in ExitFrame /\ g.at = "exit_process" /\ g.old = process_current
      BY DEF TypeOK, ExitFrame, ExitProcess, Pointer
    <2>2. Fits(g, Caller) /\ g \in Frame
      BY <2>1, <1>c, <1>t DEF Fits, Frame
    <2>3. stack' = <<g>> \o (<<Caller>> \o Rest)
      BY <2>2, <1>c, <1>t, PushTwo DEF Sound
    <2>4. Sound(stack') /\ stack' # <<>> /\ Head(stack') = g
      <3> HIDE DEF g
      <3> QED BY <2>2, <2>3, <1>c, SoundPush
    <2>5. CurrentIsRunning' /\ Begun'
      BY <2>1, <2>4 DEF CurrentIsRunning, Begun, At, Top
    <2>6. TypeOK'
      BY DEF TypeOK, lists, polls
    <2> QED BY <2>4, <2>5, <2>6 DEF Sound
  <1> QED BY <1>1, <1>2, <1>3, <1>4

(* How a thread returns, and what it posts *)
LEMMA ThreadReturnStep ==
    ASSUME KernelInv,
           \/ \E to \in Pointer : thread_post(to)
           \/ thread_wait \/ thread_end \/ thread_pause \/ thread_continue
    PROVE  KernelInv'
  <1> USE DEF KernelInv
  <1>0. stack # <<>> /\ Top.at = "thread"
    BY DEF thread_post, thread_wait, thread_end, thread_pause, thread_continue, CanCall, At
  <1>t. Top \in ThreadFrame /\ Sound(Rest) /\ Waits(Rest) /\ process_current = Top.p
    BY <1>0, TopFacts, FrameKinds DEF CurrentIsRunning, At
  <1>r. ASSUME NEW ended \in BOOLEAN, Returned(ended), process_current' = process_current
        PROVE  /\ state' \in [Process -> {"none", "running", "called"}]
               /\ Sound(stack)' /\ CurrentIsRunning' /\ Begun'
    <2>1. state' \in [Process -> {"none", "running", "called"}]
      BY <1>r, <1>t DEF Returned, TypeOK
    <2>2. CASE stack' = Rest
      <3>1. Waits(stack)' /\ Sound(stack)'
        BY <2>2, <1>t DEF Waits, Sound
      <3> QED BY <2>1, <3>1, WaitingTop
    <2>3. CASE stack' = <<ExitProcess(Top.p, Top.p)>> \o Rest
      <3> DEFINE g == ExitProcess(Top.p, Top.p)
      <3>1. g \in ExitFrame /\ g.at = "exit_process" /\ g.old = process_current
        BY <1>t DEF TypeOK, ExitFrame, ExitProcess, Pointer, ThreadFrame
      <3>2. g \in Frame
        BY <3>1 DEF Frame
      <3>3. Sound(<<g>> \o Rest) /\ <<g>> \o Rest # <<>> /\ Head(<<g>> \o Rest) = g
        <4> HIDE DEF g
        <4> QED BY <3>2, <1>t, WaitingFits, SoundPush
      <3>4. stack' = <<g>> \o Rest
        BY <2>3
      <3>5. CurrentIsRunning' /\ Begun'
        <4> HIDE DEF g
        <4> QED BY <1>r, <3>1, <3>3, <3>4 DEF CurrentIsRunning, Begun, At, Top
      <3> QED BY <2>1, <3>3, <3>4, <3>5 DEF Sound
    <2> QED BY <1>r, <2>2, <2>3 DEF Returned
  <1>1. ASSUME NEW to \in Pointer, thread_post(to) PROVE KernelInv'
    <2> USE <1>1 DEF thread_post
    <2>1. Caller \in Frame /\ Caller.at = "thread" /\ Caller.p = Top.p /\ Top.at = "thread"
      BY <1>0, <1>t DEF Caller, Frame, ThreadFrame
    <2>2. Sound(stack') /\ stack' # <<>> /\ Head(stack') = Caller
      BY <1>0, <2>1, Replace
    <2>3. queue' \in Seq([ev : Event, to : Pointer]) /\ Len(queue') <= NUMEVENTS
      BY PostType DEF Event
    <2>4. TypeOK'
      BY <2>3 DEF TypeOK, lists, polls
    <2>5. CurrentIsRunning' /\ Begun'
      BY <1>t, <2>1, <2>2 DEF CurrentIsRunning, Begun, At, Top
    <2> QED BY <2>2, <2>4, <2>5 DEF Sound
  <1>2. CASE thread_wait
    BY <1>2, <1>r DEF thread_wait, TypeOK, lists, polls
  <1>3. CASE thread_end
    BY <1>3, <1>r DEF thread_end, TypeOK, lists, polls
  <1>4. CASE thread_pause
    <2> USE <1>4 DEF thread_pause
    <2>1. queue' \in Seq([ev : Event, to : Pointer]) /\ Len(queue') <= NUMEVENTS
      BY PostType DEF Event, TypeOK
    <2>2. paused' \subseteq Process
      BY <1>t DEF ThreadFrame, TypeOK
    <2> QED BY <2>1, <2>2, <1>r DEF TypeOK, lists, polls
  <1>5. CASE thread_continue
    BY <1>5 DEF thread_continue, TypeOK, CurrentIsRunning, Begun, At, Top, Sound, lists, polls
  <1> QED BY <1>1, <1>2, <1>3, <1>4, <1>5

(* Interrupts and the main loop, which runs on the empty stack *)
LEMMA MainStep ==
    ASSUME KernelInv, boot \in Seq(Process),
           \/ \E p \in PolledByIsr : isr_poll(p)
           \/ main_start \/ run_polls \/ run_event
    PROVE  KernelInv'
  <1> USE DEF KernelInv
  <1>e. Sound(<<>>) /\ Waits(<<>>)
    BY DEF Sound, Waits
  <1>1. ASSUME NEW p \in PolledByIsr, isr_poll(p) PROVE KernelInv'
    <2> USE <1>1 DEF isr_poll
    <2>1. needspoll' \in [Process -> BOOLEAN] /\ poll_requested' \in BOOLEAN
      BY KernelAssumption DEF process_poll, TypeOK
    <2> QED BY <2>1 DEF TypeOK, CurrentIsRunning, Begun, At, Top, Sound, lists
  <1>2. CASE main_start
    <2> USE <1>2 DEF main_start
    <2>1. Head(boot) \in Process
      BY HeadTailProperties
    <2>2. process_start(Head(boot), <<>>)
      OBVIOUS
    <2>3. /\ process_list' \in Pointer /\ next' \in [Process -> Pointer]
          /\ process_current' \in Pointer
          /\ state' \in [Process -> {"none", "running", "called"}]
          /\ Sound(stack)' /\ CurrentIsRunning' /\ Begun'
      <3> DEFINE p == Head(boot)
                 s == <<>>
      <3>1. p \in Process /\ process_start(p, s) /\ Sound(s) /\ ~(s # <<>>)
        BY <2>1, <2>2, <1>e
      <3> HIDE DEF p, s
      <3> QED BY <3>1, StartStep
    <2> QED BY <2>3 DEF TypeOK, polls
  <1>3. CASE run_polls
    <2> USE <1>3 DEF run_polls
    <2> DEFINE d == DoPoll(process_list)
    <2>1. d \in Frame /\ d.at = "do_poll"
      BY DEF TypeOK, Frame, DoPollFrame, DoPoll
    <2>2. Sound(stack)' /\ Waits(stack)'
      <3>1. CASE poll_requested
        <4>1. stack' = <<d>> /\ <<d>> \in Seq(Frame) /\ Len(<<d>>) = 1
          BY <3>1, <2>1
        <4>2. Sound(<<d>>) /\ Head(<<d>>) = d
          <5> HIDE DEF d
          <5> QED BY <4>1 DEF Sound
        <4> QED BY <4>1, <4>2, <2>1 DEF Sound, Waits
      <3>2. CASE ~poll_requested
        BY <3>2, <1>e DEF Sound, Waits
      <3> QED BY <3>1, <3>2
    <2>3. TypeOK'
      BY DEF TypeOK, lists
    <2> QED BY <2>2, <2>3, WaitingTop
  <1>4. CASE run_event
    <2> USE <1>4 DEF run_event
    <2> DEFINE E == [ev : Event, to : Pointer]
               e == Head(queue)
               d == DoEvent(e.ev)
    <2>1. CASE queue = <<>>
      BY <2>1 DEF TypeOK, CurrentIsRunning, Begun, At, Top, Sound, lists, polls
    <2>2. CASE queue # <<>>
      <3>1. e \in E /\ Tail(queue) \in Seq(E) /\ Len(Tail(queue)) = Len(queue) - 1
            /\ Len(queue) \in Nat
        <4>1. queue \in Seq(E)
          BY DEF TypeOK
        <4> HIDE DEF E
        <4> QED BY <4>1, <2>2, HeadTailProperties
      <3>2. queue' \in Seq(E) /\ Len(queue') <= NUMEVENTS
        <4>1. queue' = Tail(queue) /\ Len(queue) <= NUMEVENTS /\ NUMEVENTS \in Nat
          BY <2>2, KernelAssumption DEF TypeOK
        <4>2. Len(Tail(queue)) <= NUMEVENTS
          <5> DEFINE n == Len(queue)
                     m == Len(Tail(queue))
          <5>1. n \in Nat /\ n <= NUMEVENTS /\ NUMEVENTS \in Nat /\ m = n - 1
            BY <4>1, <3>1
          <5> HIDE DEF n, m
          <5>2. m <= NUMEVENTS
            BY ONLY <5>1
          <5> QED BY <5>2 DEF m
        <4> QED BY <4>1, <4>2, <3>1
      <3>3. CASE e.to = NULL
        <4>1. d \in DoEventFrame /\ d.at = "do_event"
          <5>1. e.ev \in Event /\ process_list \in Pointer
            BY <3>1 DEF TypeOK
          <5>2. From(process_list) \in SUBSET Process
            BY FromType
          <5> HIDE DEF e
          <5> QED BY <5>1, <5>2 DEF DoEvent, DoEventFrame
        <4>2. d \in Frame /\ stack' = <<d>> /\ UNCHANGED <<process_current, state>>
          BY <2>2, <3>3, <4>1 DEF Frame
        <4>3. Sound(stack)' /\ Waits(stack)'
          <5>1. Sound(<<d>>) /\ Head(<<d>>) = d
            <6> HIDE DEF d
            <6> QED BY <4>2 DEF Sound
          <5> HIDE DEF d
          <5> QED BY <4>1, <4>2, <5>1 DEF Sound, Waits
        <4>4. TypeOK'
          BY <3>2, <4>2 DEF TypeOK, lists, polls
        <4> QED BY <4>3, <4>4, WaitingTop
      <3>4. CASE e.to # NULL
        <4>1. e.to \in Pointer /\ e.ev \in Event /\ call_process(e.to, e.ev, <<>>)
          BY <2>2, <3>1, <3>4
        <4>2. /\ process_current' \in Pointer
              /\ state' \in [Process -> {"none", "running", "called"}]
              /\ Sound(stack)' /\ CurrentIsRunning' /\ Begun'
          <5> DEFINE p == e.to
                     ev == e.ev
          <5>1. p \in Pointer /\ ev \in Event /\ call_process(p, ev, <<>>)
            BY <4>1
          <5> HIDE DEF p, ev
          <5> QED BY <5>1, <1>e, CallStep
        <4> QED BY <4>2, <3>2 DEF TypeOK, lists, polls
      <3> QED BY <3>3, <3>4
    <2> QED BY <2>1, <2>2
  <1> QED BY <1>1, <1>2, <1>3, <1>4

LEMMA BootStep == boot \in Seq(Process) /\ [Next]_vars => boot' \in Seq(Process)
  <1> SUFFICES ASSUME boot \in Seq(Process), [Next]_vars PROVE boot' \in Seq(Process)
    OBVIOUS
  <1>1. CASE main_start
    BY <1>1, HeadTailProperties DEF main_start
  <1>2. CASE ~main_start
    BY <1>2 DEF Next, Main, Walk, Activity, vars, isr_poll, run_polls, run_event,
       do_poll_call, do_poll_next, do_poll_end, broadcast_check, broadcast_call,
       broadcast_next, broadcast_end, exit_begin, exit_tell, exit_next, exit_thread,
       exit_unlink, synch_return, thread_poll, thread_post_synch, thread_start,
       thread_exit, thread_post, thread_wait, thread_end, thread_pause, thread_continue
  <1> QED BY <1>1, <1>2

LEMMA KernelStep == KernelInv /\ boot \in Seq(Process) /\ [Next]_vars => KernelInv'
  <1> SUFFICES ASSUME KernelInv, boot \in Seq(Process), [Next]_vars PROVE KernelInv'
    OBVIOUS
  <1>1. CASE main_start \/ run_polls \/ run_event \/ \E p \in PolledByIsr : isr_poll(p)
    BY <1>1, MainStep
  <1>2. CASE Walk
    <2>1. CASE exit_begin \/ exit_tell \/ exit_next \/ exit_thread \/ exit_unlink
      BY <2>1, ExitStep
    <2> QED BY <2>1, <1>2, WalkStep DEF Walk
  <1>3. CASE Activity
    <2>1. ASSUME NEW q \in Process,
                 thread_poll(q) \/ thread_post_synch(q) \/ thread_start(q) \/ thread_exit(q)
          PROVE  KernelInv'
      BY <2>1, ThreadCallStep
    <2> QED BY <2>1, <1>3, ThreadReturnStep DEF Activity
  <1>4. CASE UNCHANGED vars
    BY <1>4 DEF KernelInv, TypeOK, CurrentIsRunning, Begun, At, Top, Sound, vars, lists, polls
  <1> QED BY <1>1, <1>2, <1>3, <1>4 DEF Next, Main

-----------------------------------------------------------------------------
(* Every variable keeps its type and the event queue never holds more than *)
(* NUMEVENTS events, for every set of processes and all they may call:     *)
(* starts and exits of each other, synchronous calls nested to any depth.  *)
THEOREM KernelTypeCorrect == Spec => []TypeOK
  <1>1. Init => KernelInv /\ boot \in Seq(Process)
    BY KernelInit, KernelAssumption DEF Init
  <1>2. KernelInv /\ boot \in Seq(Process) /\ [Next]_vars => (KernelInv /\ boot \in Seq(Process))'
    BY KernelStep, BootStep
  <1>3. KernelInv => TypeOK
    BY DEF KernelInv
  <1> QED BY <1>1, <1>2, <1>3, PTL DEF Spec

(* Whatever a thread started, called or made to exit, when its code runs   *)
(* again process_current is this process: the frames of process_post_synch *)
(* and exit_process that stand on a waiting thread hold its pointer.       *)
THEOREM CurrentIsAlwaysRunning == Spec => []CurrentIsRunning
  <1>1. Init => KernelInv /\ boot \in Seq(Process)
    BY KernelInit, KernelAssumption DEF Init
  <1>2. KernelInv /\ boot \in Seq(Process) /\ [Next]_vars => (KernelInv /\ boot \in Seq(Process))'
    BY KernelStep, BootStep
  <1>3. KernelInv => CurrentIsRunning
    BY DEF KernelInv
  <1> QED BY <1>1, <1>2, <1>3, PTL DEF Spec

-----------------------------------------------------------------------------
(***************************************************************************)
(* That no poll is lost: what do_poll will still meet while the list it    *)
(* walks changes.  The argument has three parts.  The list never has a     *)
(* cycle.  A step keeps each process with its flag set in the way of a     *)
(* walk on the stack, or poll_requested is set.  And a process that main   *)
(* starts has not been polled before.                                      *)
(***************************************************************************)
-----------------------------------------------------------------------------
(* The walk along next *)

LEMMA FromFacts ==
    ASSUME next \in [Process -> Pointer], NEW p \in Pointer
    PROVE  /\ p = NULL => From(p) = {}
           /\ p # NULL => p \in From(p)
           /\ \A r \in From(p) : next[r] # NULL => next[r] \in From(p)
           /\ \A r \in From(p) : From(next[r]) \subseteq From(p)
           /\ p # NULL => From(p) \subseteq {p} \cup From(next[p])
  <1>1. ASSUME p = NULL PROVE From(p) = {}
    <2>1. Holds({}, p)
      BY <1>1 DEF Holds
    <2> QED BY <2>1 DEF From
  <1>2. ASSUME p # NULL PROVE p \in From(p)
    BY <1>2 DEF From, Holds, Pointer
  <1>3. ASSUME NEW r \in From(p), next[r] # NULL PROVE next[r] \in From(p)
    <2>1. r \in Process /\ next[r] \in Process
      BY <1>3 DEF From, Pointer
    <2>2. ASSUME NEW S \in SUBSET Process, Holds(S, p) PROVE next[r] \in S
      BY <1>3, <2>2 DEF From, Holds
    <2> QED BY <2>1, <2>2 DEF From
  <1>4. ASSUME NEW r \in From(p) PROVE From(next[r]) \subseteq From(p)
    <2>1. ASSUME NEW S \in SUBSET Process, Holds(S, p) PROVE Holds(S, next[r])
      BY <2>1, <1>4 DEF From, Holds
    <2> QED BY <2>1 DEF From
  <1>5. ASSUME p # NULL PROVE From(p) \subseteq {p} \cup From(next[p])
    <2> SUFFICES ASSUME NEW q \in From(p), q # p PROVE q \in From(next[p])
      OBVIOUS
    <2>1. ASSUME NEW S \in SUBSET Process, Holds(S, next[p]) PROVE q \in S
      <3>1. S \cup {p} \in SUBSET Process
        BY <1>5 DEF Pointer
      <3>2. Holds(S \cup {p}, p)
        BY <2>1 DEF Holds
      <3> QED BY <3>1, <3>2 DEF From
    <2> QED BY <2>1 DEF From
  <1> QED BY <1>1, <1>2, <1>3, <1>4, <1>5

LEMMA SameLists ==
    ASSUME UNCHANGED lists
    PROVE  /\ \A p : From(p)' = From(p)
           /\ \A p : OnList(p)' = OnList(p)
  BY DEF lists, From, Holds, OnList

(* No process on the list is met again behind itself. *)
Acyclic == \A p \in Process : OnList(p) => p \notin From(next[p])

(* Frame f will visit p. *)
Visiting(p) == {f \in DoPollFrame : p \in StillVisited(f)}

Touch(s, Q) == \E i \in 1 .. Len(s) : s[i] \in Q

Polled == \A p \in Process :
              needspoll[p] /\ OnList(p) => poll_requested \/ Touch(stack, Visiting(p))

LEMMA PolledIsNoLostPoll == ASSUME Sound(stack) PROVE Polled <=> NoLostPoll
  <1>1. \A i \in 1 .. Len(stack) : stack[i] \in Frame /\ DOMAIN stack = 1 .. Len(stack)
    BY DEF Sound
  <1>2. ASSUME NEW p \in Process
        PROVE  Touch(stack, Visiting(p))
                 <=> \E i \in Frames("do_poll") : p \in StillVisited(stack[i])
    <2>1. \A i \in 1 .. Len(stack) : stack[i].at = "do_poll" <=> stack[i] \in DoPollFrame
      <3>1. \A f \in DoPollFrame : f.at = "do_poll"
        BY DEF DoPollFrame
      <3> QED BY <1>1, <3>1, FrameKinds
    <2> QED BY <1>1, <2>1 DEF Touch, Visiting, Frames
  <1> QED BY <1>2 DEF Polled, NoLostPoll

LEMMA TouchPush ==
    ASSUME NEW T, NEW s \in Seq(T), NEW f, NEW Q
    PROVE  /\ Touch(<<f>> \o s, Q) <=> f \in Q \/ Touch(s, Q)
           /\ <<f>> \o s \in Seq(T \cup {f})
  <1> DEFINE S == T \cup {f}
             t == <<f>> \o s
  <1>1. s \in Seq(S) /\ f \in S
    OBVIOUS
  <1>2. /\ t \in Seq(S) /\ Len(t) = Len(s) + 1 /\ t[1] = f /\ Len(s) \in Nat
        /\ \A i \in 1 .. Len(s) : t[i + 1] = s[i]
    <2> HIDE DEF S
    <2> QED BY <1>1, Push
  <1> HIDE DEF t
  <1>3. ASSUME Touch(t, Q) PROVE f \in Q \/ Touch(s, Q)
    <2>1. PICK i \in 1 .. Len(t) : t[i] \in Q
      BY <1>3 DEF Touch
    <2>2. CASE i = 1
      BY <2>1, <2>2, <1>2
    <2>3. CASE i # 1
      <3>1. i - 1 \in 1 .. Len(s) /\ (i - 1) + 1 = i
        BY <1>2, <2>3
      <3>2. t[(i - 1) + 1] = s[i - 1]
        BY <3>1, <1>2
      <3> QED BY <3>1, <3>2, <2>1 DEF Touch
    <2> QED BY <2>2, <2>3
  <1>4. ASSUME f \in Q PROVE Touch(t, Q)
    BY <1>2, <1>4 DEF Touch
  <1>5. ASSUME Touch(s, Q) PROVE Touch(t, Q)
    <2>1. PICK i \in 1 .. Len(s) : s[i] \in Q
      BY <1>5 DEF Touch
    <2>2. i + 1 \in 1 .. Len(t) /\ t[i + 1] \in Q
      BY <2>1, <1>2
    <2> QED BY <2>2 DEF Touch
  <1> QED BY <1>2, <1>3, <1>4, <1>5 DEF t

LEMMA TouchPushTwo ==
    ASSUME NEW T, NEW s \in Seq(T), NEW f, NEW g, NEW Q
    PROVE  /\ Touch(<<f, g>> \o s, Q) <=> f \in Q \/ g \in Q \/ Touch(s, Q)
           /\ <<f, g>> \o s \in Seq(T \cup {f, g})
  <1> DEFINE S == T \cup {f, g}
  <1>1. <<f, g>> \o s = <<f>> \o (<<g>> \o s)
    <2>1. s \in Seq(S) /\ f \in S /\ g \in S
      OBVIOUS
    <2> HIDE DEF S
    <2> QED BY <2>1, PushTwo
  <1>2. <<g>> \o s \in Seq(T \cup {g}) /\ (Touch(<<g>> \o s, Q) <=> g \in Q \/ Touch(s, Q))
    BY TouchPush
  <1>3. /\ Touch(<<f>> \o (<<g>> \o s), Q) <=> f \in Q \/ Touch(<<g>> \o s, Q)
        /\ <<f>> \o (<<g>> \o s) \in Seq((T \cup {g}) \cup {f})
    BY <1>2, TouchPush
  <1>4. (T \cup {g}) \cup {f} = S
    OBVIOUS
  <1> QED BY <1>1, <1>2, <1>3, <1>4

LEMMA TouchTop ==
    ASSUME Sound(stack), stack # <<>>, NEW Q
    PROVE  /\ Rest \in Seq(Frame)
           /\ Touch(stack, Q) <=> Top \in Q \/ Touch(Rest, Q)
  <1>1. stack = <<Top>> \o Rest /\ Rest \in Seq(Frame)
    BY SoundPop DEF Top, Rest, Sound
  <1> HIDE DEF Top, Rest
  <1> QED BY <1>1, TouchPush

(* A step that leaves the list and the flags alone keeps the polls if the *)
(* walks that are on the stack stay there.                                *)
LEMMA KeepsPolls ==
    ASSUME Polled, Acyclic, UNCHANGED lists, UNCHANGED needspoll,
           poll_requested => poll_requested',
           NEW s, \A Q \in SUBSET DoPollFrame : Touch(stack, Q) => Touch(s, Q),
           stack' = s
    PROVE  Polled' /\ Acyclic'
  <1>1. Acyclic'
    BY SameLists DEF Acyclic, lists
  <1>2. \A p \in Process : Visiting(p)' = Visiting(p) /\ Visiting(p) \in SUBSET DoPollFrame
    <2>1. \A f : StillVisited(f)' = StillVisited(f)
      BY SameLists DEF StillVisited, lists
    <2> QED BY <2>1 DEF Visiting
  <1>3. \A p \in Process : Touch(stack, Visiting(p)) => Touch(stack, Visiting(p))'
    BY <1>2 DEF Touch
  <1> QED BY <1>1, <1>3, SameLists DEF Polled

(* The frame on top is not a do_poll, and what is below it stays. *)
LEMMA OtherFrames ==
    ASSUME KernelInv, stack # <<>>, Top.at # "do_poll",
           NEW Q \in SUBSET DoPollFrame, Touch(stack, Q)
    PROVE  /\ Touch(Rest, Q)
           /\ \A f : Touch(<<f>> \o Rest, Q)
           /\ \A f, g : Touch(<<f, g>> \o Rest, Q)
           /\ \A f, g : Touch(<<f>> \o (<<g>> \o Rest), Q)
           /\ \A f, g, h : Touch(<<f, g>> \o (<<h>> \o Rest), Q)
           /\ \A f, g, h : Touch(<<f>> \o (<<g, h>> \o Rest), Q)
  <1>1. Rest \in Seq(Frame) /\ Touch(Rest, Q)
    <2>1. Top \notin Q
      BY DEF DoPollFrame
    <2> QED BY <2>1, TouchTop DEF KernelInv
  <1>2. \A f : Touch(<<f>> \o Rest, Q) /\ <<f>> \o Rest \in Seq(Frame \cup {f})
    BY <1>1, TouchPush
  <1>3. \A f, g : Touch(<<f, g>> \o Rest, Q) /\ <<f, g>> \o Rest \in Seq(Frame \cup {f, g})
    BY <1>1, TouchPushTwo
  <1>4. \A f, g : Touch(<<f>> \o (<<g>> \o Rest), Q)
    BY <1>2, TouchPush
  <1>5. \A f, g, h : Touch(<<f, g>> \o (<<h>> \o Rest), Q)
    BY <1>2, TouchPushTwo
  <1>6. \A f, g, h : Touch(<<f>> \o (<<g, h>> \o Rest), Q)
    BY <1>3, TouchPush
  <1> QED BY <1>1, <1>2, <1>3, <1>4, <1>5, <1>6

(* Steps of the threads, of exit_process and of a broadcast: they neither  *)
(* clear a flag nor take a walk off the stack.                             *)
LEMMA OtherStep ==
    ASSUME KernelInv, Polled, Acyclic,
           \/ broadcast_call \/ broadcast_next \/ broadcast_end \/ synch_return
           \/ exit_begin \/ exit_tell \/ exit_next \/ exit_thread
           \/ \E q \in Process : thread_post_synch(q) \/ thread_exit(q)
           \/ \E to \in Pointer : thread_post(to)
           \/ thread_wait \/ thread_end \/ thread_pause \/ thread_continue
    PROVE  Polled' /\ Acyclic'
  <1>1. stack # <<>> /\ Top.at # "do_poll"
    BY DEF broadcast_call, broadcast_next, broadcast_end, synch_return, exit_begin, exit_tell,
           exit_next, exit_thread, thread_post_synch, thread_exit, thread_post, thread_wait,
           thread_end, thread_pause, thread_continue, CanCall, At
  <1>2. UNCHANGED lists /\ UNCHANGED polls
    BY DEF broadcast_call, broadcast_next, broadcast_end, synch_return, exit_begin, exit_tell,
           exit_next, exit_thread, thread_post_synch, thread_exit, thread_post, thread_wait,
           thread_end, thread_pause, thread_continue, polls
  <1>3. \/ stack' = stack \/ stack' = Rest
        \/ \E f : stack' = <<f>> \o Rest
        \/ \E f, g : stack' = <<f, g>> \o Rest
        \/ \E f, g : stack' = <<f>> \o (<<g>> \o Rest)
        \/ \E f, g, h : stack' = <<f>> \o (<<g, h>> \o Rest)
    <2>1. CASE broadcast_call \/ broadcast_next \/ broadcast_end \/ synch_return
      BY <2>1 DEF broadcast_call, broadcast_next, broadcast_end, synch_return, call_process
    <2>2. CASE exit_begin \/ exit_tell \/ exit_next \/ exit_thread
      BY <2>2 DEF exit_begin, exit_tell, exit_next, exit_thread, call_process
    <2>3. ASSUME NEW q \in Process, thread_post_synch(q) \/ thread_exit(q)
          PROVE  \/ \E f, g : stack' = <<f, g>> \o Rest
                 \/ \E f, g, h : stack' = <<f>> \o (<<g, h>> \o Rest)
      BY <2>3 DEF thread_post_synch, thread_exit, call_process
    <2>4. CASE \/ \E to \in Pointer : thread_post(to)
               \/ thread_wait \/ thread_end \/ thread_pause \/ thread_continue
      BY <2>4 DEF thread_post, thread_wait, thread_end, thread_pause, thread_continue, Returned
    <2> QED BY <2>1, <2>2, <2>3, <2>4
  <1>4. \A Q \in SUBSET DoPollFrame : Touch(stack, Q) => Touch(stack, Q)'
    <2> SUFFICES ASSUME NEW Q \in SUBSET DoPollFrame, Touch(stack, Q) PROVE Touch(stack', Q)
      BY DEF Touch
    <2> DEFINE R == Rest
    <2>1. /\ Touch(R, Q)
          /\ \A f : Touch(<<f>> \o R, Q)
          /\ \A f, g : Touch(<<f, g>> \o R, Q)
          /\ \A f, g : Touch(<<f>> \o (<<g>> \o R), Q)
          /\ \A f, g, h : Touch(<<f>> \o (<<g, h>> \o R), Q)
      BY <1>1, OtherFrames
    <2> HIDE DEF R
    <2> QED BY <1>3, <2>1 DEF R
  <1> DEFINE s == stack'
  <1>5. \A Q \in SUBSET DoPollFrame : Touch(stack, Q) => Touch(s, Q)
    BY <1>4 DEF Touch
  <1>6. stack' = s /\ UNCHANGED needspoll /\ (poll_requested => poll_requested')
    BY <1>2 DEF polls
  <1> HIDE DEF s
  <1> QED BY <1>2, <1>5, <1>6, KeepsPolls

(* The walk of do_poll: it calls the process it stands on, goes on, ends.  *)
LEMMA PollWalkStep ==
    ASSUME KernelInv, Polled, Acyclic, do_poll_call \/ do_poll_next \/ do_poll_end
    PROVE  Polled' /\ Acyclic'
  <1>1. stack # <<>> /\ Top.at = "do_poll" /\ Top \in DoPollFrame
    <2>1. stack # <<>> /\ Top.at = "do_poll"
      BY DEF do_poll_call, do_poll_next, do_poll_end, At
    <2> QED BY <2>1, TopFacts, FrameKinds DEF KernelInv
  <1>2. next \in [Process -> Pointer] /\ UNCHANGED lists /\ poll_requested' = poll_requested
    BY DEF KernelInv, TypeOK, do_poll_call, do_poll_next, do_poll_end, polls
  <1>3. Acyclic'
    BY <1>2, SameLists DEF Acyclic, lists
  <1>4. Rest \in Seq(Frame) /\ \A Q : Touch(stack, Q) <=> Top \in Q \/ Touch(Rest, Q)
    BY <1>1, TouchTop DEF KernelInv
  <1>5. \A p \in Process : Visiting(p)' = Visiting(p)
    <2>1. \A f : StillVisited(f)' = StillVisited(f)
      BY <1>2, SameLists DEF StillVisited, lists
    <2> QED BY <2>1 DEF Visiting
  <1>6. SUFFICES ASSUME NEW s \in Process, needspoll'[s], OnList(s), ~poll_requested
                 PROVE  Touch(stack', Visiting(s))
    <2>1. \A s \in Process : OnList(s)' = OnList(s)
      BY <1>2, SameLists
    <2> QED BY <1>2, <1>3, <1>5, <2>1 DEF Polled, Touch
  <1>7. needspoll[s]
    <2>1. CASE do_poll_call
      BY <2>1, <1>6 DEF do_poll_call, KernelInv, TypeOK
    <2>2. CASE do_poll_next \/ do_poll_end
      BY <2>2, <1>6 DEF do_poll_next, do_poll_end, polls
    <2> QED BY <2>1, <2>2
  <1>8. Top \in Visiting(s) \/ Touch(Rest, Visiting(s))
    BY <1>4, <1>6, <1>7 DEF Polled
  <1>9. CASE do_poll_call
    <2> USE <1>9 DEF do_poll_call
    <2> DEFINE f == Thread(Top.p, "POLL", "call_process")
               g == [Top EXCEPT !.called = TRUE]
               R == Rest
    <2>1. Top.p \in Process /\ ~Top.called /\ s # Top.p
      BY <1>1, <1>6 DEF DoPollFrame, Pointer, KernelInv, TypeOK
    <2>2. g \in DoPollFrame /\ g.called /\ g.p = Top.p
      BY <1>1, <2>1 DEF DoPollFrame
    <2>3. ASSUME Top \in Visiting(s) PROVE g \in Visiting(s)
      <3>1. s \in From(Top.p)
        BY <2>1, <2>3 DEF Visiting, StillVisited
      <3>2. Top.p \in Pointer /\ Top.p # NULL
        BY <2>1, KernelAssumption DEF Pointer
      <3>3. s \in From(next[Top.p])
        BY <1>2, <2>1, <3>1, <3>2, FromFacts
      <3> QED BY <2>2, <3>3 DEF Visiting, StillVisited
    <2>4. stack' = <<f, g>> \o R
      OBVIOUS
    <2>5. g \in Visiting(s) \/ Touch(R, Visiting(s))
      BY <1>8, <2>3
    <2>6. R \in Seq(Frame)
      BY <1>4
    <2> DEFINE Q == Visiting(s)
    <2> HIDE DEF f, g, R, Q
    <2>7. Touch(<<f, g>> \o R, Q)
      BY <2>5, <2>6, TouchPushTwo DEF Q
    <2> QED BY ONLY <2>4, <2>7 DEF Q
  <1>10. CASE do_poll_next
    <2> USE <1>10 DEF do_poll_next
    <2> DEFINE g == DoPoll(next[Top.p])
               R == Rest
    <2>1. Top.p \in Process /\ next[Top.p] \in Pointer
      BY <1>1, <1>2 DEF DoPollFrame, Pointer
    <2>2. g \in DoPollFrame /\ ~g.called /\ g.p = next[Top.p]
      BY <2>1 DEF DoPollFrame, DoPoll
    <2>3. ASSUME Top \in Visiting(s) PROVE g \in Visiting(s)
      <3>1. CASE Top.called
        BY <2>2, <2>3, <3>1 DEF Visiting, StillVisited
      <3>2. CASE ~Top.called
        <4>1. s \in From(Top.p) /\ s # Top.p
          BY <2>3, <3>2, <1>7 DEF Visiting, StillVisited
        <4>2. Top.p \in Pointer /\ Top.p # NULL
          BY <2>1, KernelAssumption DEF Pointer
        <4>3. s \in From(next[Top.p])
          BY <1>2, <4>1, <4>2, FromFacts
        <4> QED BY <2>2, <4>3 DEF Visiting, StillVisited
      <3> QED BY <3>1, <3>2
    <2>4. stack' = <<g>> \o R
      OBVIOUS
    <2>5. g \in Visiting(s) \/ Touch(R, Visiting(s))
      BY <1>8, <2>3
    <2>6. R \in Seq(Frame)
      BY <1>4
    <2> HIDE DEF g, R
    <2> QED BY <2>4, <2>5, <2>6, TouchPush
  <1>11. CASE do_poll_end
    <2> USE <1>11 DEF do_poll_end
    <2>1. ~Top.called /\ Top.p = NULL
      BY <1>1, KernelAssumption DEF DoPollFrame
    <2>2. From(Top.p) = {}
      BY <2>1, <1>2, FromFacts DEF Pointer
    <2>3. Top \notin Visiting(s)
      BY <2>1, <2>2 DEF Visiting, StillVisited
    <2> QED BY <1>8, <2>3
  <1> QED BY <1>9, <1>10, <1>11

(* A poll sets a flag and requests a walk; a walk that begins at the head  *)
(* of the list meets all that is on it.                                    *)
LEMMA RequestStep ==
    ASSUME KernelInv, Polled, Acyclic,
           \/ run_polls \/ run_event \/ broadcast_check
           \/ \E p \in PolledByIsr : isr_poll(p)
           \/ \E q \in Process : thread_poll(q)
    PROVE  Polled' /\ Acyclic'
  <1>1. UNCHANGED lists
    BY DEF run_polls, run_event, broadcast_check, isr_poll, thread_poll
  <1>2. Acyclic'
    BY <1>1, SameLists DEF Acyclic, lists
  <1>3. \A p \in Process : Visiting(p)' = Visiting(p) /\ Visiting(p) \in SUBSET DoPollFrame
    <2>1. \A f : StillVisited(f)' = StillVisited(f)
      BY <1>1, SameLists DEF StillVisited, lists
    <2> QED BY <2>1 DEF Visiting
  <1>4. SUFFICES ASSUME NEW s \in Process, needspoll'[s], OnList(s), ~poll_requested'
                 PROVE  Touch(stack', Visiting(s))
    <2>1. \A s \in Process : OnList(s)' = OnList(s)
      BY <1>1, SameLists
    <2> QED BY <1>2, <1>3, <2>1 DEF Polled, Touch
  <1> DEFINE d == DoPoll(process_list)
             Q == Visiting(s)
  <1>5. d \in Q
    <2>1. d \in DoPollFrame /\ ~d.called /\ d.p = process_list
      BY DEF KernelInv, TypeOK, DoPollFrame, DoPoll
    <2> QED BY <1>4, <2>1 DEF OnList, Visiting, StillVisited
  <1>6. ~Touch(<<>>, Q)
    BY DEF Touch
  <1>7. CASE run_polls
    <2>1. needspoll[s]
      BY <1>7, <1>4 DEF run_polls
    <2>2. CASE poll_requested
      <3>1. stack' = <<d>>
        BY <1>7, <2>2 DEF run_polls
      <3> HIDE DEF d, Q
      <3>2. Touch(<<d>>, Q)
        BY <1>5 DEF Touch
      <3> QED BY <3>1, <3>2 DEF Q
    <2>3. CASE ~poll_requested
      <3>1. Touch(stack, Q) /\ stack = <<>>
        BY <1>7, <2>1, <2>3, <1>4 DEF run_polls, Polled
      <3> HIDE DEF Q
      <3> QED BY <3>1, <1>6
    <2> QED BY <2>2, <2>3
  <1>8. CASE run_event
    <2>1. needspoll[s] /\ ~poll_requested /\ stack = <<>>
      BY <1>8, <1>4 DEF run_event, polls
    <2>2. Touch(<<>>, Q)
      BY <2>1, <1>4 DEF Polled
    <2> QED BY <2>2, <1>6
  <1>9. CASE broadcast_check
    <2>1. needspoll[s] /\ stack # <<>> /\ Top.at # "do_poll"
      BY <1>9, <1>4 DEF broadcast_check, At
    <2> DEFINE g == [Top EXCEPT !.step = "call"]
               R == Rest
    <2>2. R \in Seq(Frame)
      BY <2>1, TouchTop DEF KernelInv
    <2>3. CASE poll_requested
      <3>1. stack' = (<<d>> \o <<g>>) \o R
        BY <1>9, <2>3 DEF broadcast_check
      <3> HIDE DEF d, g, R, Q
      <3>2. (<<d>> \o <<g>>) \o R = <<d>> \o (<<g>> \o R)
        <4> DEFINE S == Frame \cup {d, g}
        <4>1. <<d>> \in Seq(S) /\ <<g>> \in Seq(S) /\ R \in Seq(S)
          BY <2>2
        <4> HIDE DEF S
        <4> QED BY <4>1, ConcatAssociative
      <3>3. <<g>> \o R \in Seq(Frame \cup {g})
        BY <2>2, TouchPush
      <3>4. Touch(<<d>> \o (<<g>> \o R), Q)
        BY <3>3, <1>5, TouchPush
      <3> QED BY <3>1, <3>2, <3>4 DEF Q
    <2>4. CASE ~poll_requested
      <3>1. Touch(stack, Q) /\ Q \in SUBSET DoPollFrame
        BY <2>1, <2>4, <1>3, <1>4 DEF Polled
      <3>2. stack' = (<<>> \o <<g>>) \o R
        BY <1>9, <2>4 DEF broadcast_check
      <3>3. \A f : Touch(<<f>> \o R, Q)
        <4> HIDE DEF Q
        <4> QED BY <2>1, <3>1, OtherFrames
      <3>4. <<>> \o <<g>> = <<g>>
        <4> HIDE DEF g
        <4>1. <<g>> \in Seq({g})
          OBVIOUS
        <4> QED BY <4>1, ConcatEmptySeq
      <3> HIDE DEF g, R, Q
      <3> QED BY <3>2, <3>3, <3>4 DEF Q
    <2> QED BY <2>3, <2>4
  <1>10. ASSUME NEW p \in Process, process_poll(p)
         PROVE  needspoll[s] /\ ~poll_requested
    BY <1>10, <1>4 DEF process_poll, KernelInv, TypeOK
  <1>11. ASSUME NEW p \in PolledByIsr, isr_poll(p)
         PROVE  Touch(stack', Visiting(s))
    <2>1. needspoll[s] /\ ~poll_requested /\ stack' = stack
      BY <1>10, <1>11, KernelAssumption DEF isr_poll
    <2> QED BY <2>1, <1>4 DEF Polled
  <1>12. ASSUME NEW q \in Process, thread_poll(q)
         PROVE  Touch(stack', Visiting(s))
    <2>1. /\ needspoll[s] /\ ~poll_requested /\ stack' = <<Caller>> \o Rest
          /\ stack # <<>> /\ Top.at # "do_poll"
      BY <1>10, <1>12 DEF thread_poll, CanCall, At
    <2>2. Touch(stack, Q) /\ Q \in SUBSET DoPollFrame
      BY <2>1, <1>3, <1>4 DEF Polled
    <2> DEFINE R == Rest
    <2>3. \A f : Touch(<<f>> \o R, Q)
      <3> HIDE DEF Q
      <3> QED BY <2>1, <2>2, OtherFrames
    <2> HIDE DEF R, Q
    <2> QED BY <2>1, <2>3 DEF R, Q
  <1> QED BY <1>7, <1>8, <1>9, <1>11, <1>12

-----------------------------------------------------------------------------
(* The steps that change the list *)

(* The walks on the stack keep the polls if what each of them would visit  *)
(* it still visits, for all that are on the list after the step.           *)
LEMMA KeepsWalks ==
    ASSUME Polled, UNCHANGED polls,
           \A s \in Process : needspoll[s] /\ OnList(s)' =>
               /\ OnList(s)
               /\ \A f \in Visiting(s) : f \in Visiting(s)'
               /\ Touch(stack, Visiting(s)) => Touch(stack', Visiting(s))
    PROVE  Polled'
  <1> SUFFICES ASSUME NEW s \in Process, needspoll[s], OnList(s)', ~poll_requested
               PROVE  Touch(stack, Visiting(s))'
    BY DEF Polled, polls
  <1>1. Touch(stack', Visiting(s))
    BY DEF Polled
  <1>2. PICK i \in 1 .. Len(stack') : stack'[i] \in Visiting(s)
    BY <1>1 DEF Touch
  <1>3. stack'[i] \in Visiting(s)'
    BY <1>2
  <1> QED BY <1>2, <1>3 DEF Touch

(* process_start links p at the head of the list. *)
LEMMA LinkFacts ==
    ASSUME TypeOK, Acyclic, NEW p \in Process, ~OnList(p),
           process_list' = p, next' = [next EXCEPT ![p] = process_list]
    PROVE  /\ \A x \in Pointer : p \notin From(x) => From(x)' = From(x)
           /\ \A s \in Process : OnList(s)' => s = p \/ OnList(s)
           /\ \A s \in Process : OnList(s) => \A f \in Visiting(s) : f \in Visiting(s)'
           /\ Acyclic'
  <1>0. PICK head : head = process_list
    OBVIOUS
  <1>1. next \in [Process -> Pointer] /\ head \in Pointer /\ p \in Pointer /\ p # NULL
    BY <1>0, KernelAssumption DEF TypeOK, Pointer
  <1>2. p \notin From(head)
    BY <1>0 DEF OnList
  <1>3. /\ \A r \in Process : r # p => next'[r] = next[r]
        /\ next'[p] = head
    BY <1>0, <1>1
  <1>4. ASSUME NEW x \in Pointer, p \notin From(x) PROVE From(x)' = From(x)
    <2>1. ASSUME NEW S \in SUBSET Process, Holds(S, x)' PROVE From(x) \subseteq S
      <3>1. /\ x \in S \cup {NULL} /\ \A r \in S : next'[r] \in S \cup {NULL}
        BY <2>1 DEF Holds
      <3>2. Holds(S \cap From(x), x)
        <4>1. x \in (S \cap From(x)) \cup {NULL}
          BY <3>1, <1>1, FromFacts
        <4>2. \A r \in S \cap From(x) : next[r] \in (S \cap From(x)) \cup {NULL}
          BY <3>1, <1>1, <1>3, <1>4, FromFacts
        <4> QED BY <4>1, <4>2 DEF Holds
      <3> QED BY <3>2 DEF From
    <2>2. PICK F : F = From(x)
      OBVIOUS
    <2>3. F \in SUBSET Process
      BY <2>2, FromType
    <2>4. Holds(F, x)'
      <3>1. x \in F \cup {NULL}
        BY <1>1, <2>2, FromFacts
      <3>2. \A r \in F : next'[r] \in F \cup {NULL}
        <4>1. \A r \in F : r \in Process /\ r # p
          BY <1>4, <2>2, <2>3
        <4> QED BY <4>1, <1>1, <1>3, <2>2, FromFacts
      <3> QED BY <3>1, <3>2 DEF Holds
    <2>5. F \subseteq From(x)'
      BY <2>1, <2>2, <2>3 DEF From
    <2>6. From(x)' \subseteq F
      BY <2>3, <2>4 DEF From
    <2> QED BY <2>2, <2>5, <2>6
  <1>5. From(head)' = From(head)
    BY <1>1, <1>2, <1>4
  (* what is on the list and was met from x is met from x *)
  <1>6. ASSUME NEW x \in Pointer, NEW s \in From(x), s \in From(head) PROVE s \in From(x)'
    <2>1. ASSUME NEW S \in SUBSET Process, Holds(S, x)' PROVE s \in S
      <3>1. x \in S \cup {NULL} /\ \A r \in S : next'[r] \in S \cup {NULL}
        BY <2>1 DEF Holds
      <3>2. CASE p \in S
        <4>1. Holds(S, head)'
          BY <3>1, <3>2, <1>3 DEF Holds
        <4>2. s \in From(head)'
          BY <1>5, <1>6
        <4> QED BY <4>1, <4>2 DEF From
      <3>3. CASE p \notin S
        <4>1. Holds(S, x)
          BY <3>1, <3>3, <1>3 DEF Holds
        <4> QED BY <4>1, <1>6 DEF From
      <3> QED BY <3>2, <3>3
    <2> QED BY <2>1 DEF From
  <1>7. ASSUME NEW s \in Process, OnList(s)' PROVE s = p \/ OnList(s)
    <2>0. PICK S : S = {p} \cup From(head)
      OBVIOUS
    <2>1. S \in SUBSET Process
      BY <2>0, FromType
    <2>2. \A r \in S : next'[r] \in S \cup {NULL}
      <3>1. ASSUME NEW r \in From(head) PROVE next'[r] \in S \cup {NULL}
        <4>1. r \in Process /\ r # p
          BY <1>2 DEF From
        <4> QED BY <4>1, <2>0, <1>1, <1>3, FromFacts
      <3>2. next'[p] \in S \cup {NULL}
        BY <2>0, <1>1, <1>3, FromFacts
      <3> QED BY <2>0, <3>1, <3>2
    <2>3. Holds(S, p)'
      BY <2>0, <2>2 DEF Holds
    <2>4. s \in From(p)'
      BY <1>7 DEF OnList
    <2>5. s \in S
      BY <2>1, <2>3, <2>4 DEF From
    <2> QED BY <1>0, <2>0, <2>5 DEF OnList
  <1>8. ASSUME NEW s \in Process, OnList(s), NEW f \in Visiting(s) PROVE f \in Visiting(s)'
    <2>1. f \in DoPollFrame /\ s \in From(head)
      BY <1>0, <1>8 DEF Visiting, OnList
    <2>2. s \in From(head)'
      BY <2>1, <1>5
    <2>3. CASE f.called
      <3>1. f.p \in Process /\ s \in From(next[f.p])
        BY <2>1, <2>3, <1>8 DEF DoPollFrame, Visiting, StillVisited
      <3>2. CASE f.p = p
        <4>1. s \in From(next[f.p])'
          BY <3>2, <2>2, <1>3
        <4> QED BY <2>1, <2>3, <4>1 DEF Visiting, StillVisited
      <3>3. CASE f.p # p
        <4>1. next'[f.p] = next[f.p] /\ next[f.p] \in Pointer
          BY <3>1, <3>3, <1>1, <1>3
        <4>2. s \in From(next[f.p])'
          BY <3>1, <4>1, <2>1, <1>6
        <4> QED BY <2>1, <2>3, <4>2 DEF Visiting, StillVisited
      <3> QED BY <3>2, <3>3
    <2>4. CASE ~f.called
      <3>1. f.p \in Pointer /\ s \in From(f.p)
        BY <2>1, <2>4, <1>8 DEF DoPollFrame, Visiting, StillVisited
      <3>2. s \in From(f.p)'
        BY <3>1, <2>1, <1>6
      <3> QED BY <2>1, <2>4, <3>2 DEF Visiting, StillVisited
    <2> QED BY <2>3, <2>4
  <1>9. ASSUME NEW r \in Process, OnList(r)' PROVE r \notin From(next[r])'
    <2>1. CASE r = p
      BY <2>1, <1>2, <1>3, <1>5
    <2>2. CASE r # p
      <3>1. r \in From(head) /\ r \notin From(next[r])
        BY <1>0, <2>2, <1>7, <1>9 DEF OnList, Acyclic
      <3>2. From(next[r]) \subseteq From(head) /\ next[r] \in Pointer
        BY <3>1, <1>1, FromFacts
      <3>3. From(next[r])' = From(next[r])
        <4>1. next'[r] = next[r]
          BY <2>2, <1>3
        <4> QED BY <4>1, <3>2, <1>2, <1>4
      <3> QED BY <3>1, <3>3
    <2> QED BY <2>1, <2>2
  <1>10. Acyclic'
    BY <1>9 DEF Acyclic
  <1> QED BY <1>4, <1>7, <1>8, <1>10

(* exit_process takes p out from behind the others: whoever was met, but   *)
(* for p, still is.                                                        *)
LEMMA UnlinkFacts ==
    ASSUME TypeOK, Acyclic, NEW p \in Process, p # process_list,
           UNCHANGED process_list,
           next' = [q \in Process |-> IF OnList(q) /\ next[q] = p THEN next[p] ELSE next[q]]
    PROVE  /\ \A x \in Pointer : From(x)' \subseteq From(x) /\ From(x) \ {p} \subseteq From(x)'
           /\ \A s \in Process : OnList(s)' => OnList(s) /\ s # p
           /\ \A s \in Process : s # p => \A f \in Visiting(s) : f \in Visiting(s)'
           /\ Acyclic'
  <1>0. PICK head : head = process_list
    OBVIOUS
  <1>1. next \in [Process -> Pointer] /\ head \in Pointer /\ p \in Pointer /\ p # NULL
        /\ head' = head
    BY <1>0, KernelAssumption DEF TypeOK, Pointer
  <1>2. \A r \in Process : \/ next'[r] = next[r] /\ ~(OnList(r) /\ next[r] = p)
                           \/ OnList(r) /\ next[r] = p /\ next'[r] = next[p]
    OBVIOUS
  <1>3. ASSUME NEW x \in Pointer, NEW s \in From(x), s # p PROVE s \in From(x)'
    <2>1. ASSUME NEW S \in SUBSET Process, Holds(S, x)' PROVE s \in S
      <3>1. x \in S \cup {NULL} /\ \A r \in S : next'[r] \in S \cup {NULL}
        BY <2>1 DEF Holds
      <3>2. CASE \E q \in S : OnList(q) /\ next[q] = p
        <4>1. next[p] \in S \cup {NULL}
          <5>1. PICK q \in S : OnList(q) /\ next[q] = p
            BY <3>2
          <5> QED BY <5>1, <3>1, <1>2
        <4>2. Holds(S \cup {p}, x)
          <5>1. \A r \in S : next[r] \in S \cup {p} \cup {NULL}
            BY <3>1, <1>2
          <5> QED BY <3>1, <4>1, <5>1 DEF Holds
        <4>3. S \cup {p} \in SUBSET Process
          OBVIOUS
        <4> QED BY <4>2, <4>3, <1>3 DEF From
      <3>3. CASE ~\E q \in S : OnList(q) /\ next[q] = p
        <4>1. Holds(S, x)
          BY <3>1, <3>3, <1>2 DEF Holds
        <4> QED BY <4>1, <1>3 DEF From
      <3> QED BY <3>2, <3>3
    <2> QED BY <2>1 DEF From
  <1>4. ASSUME NEW x \in Pointer PROVE From(x)' \subseteq From(x)
    <2>1. PICK F : F = From(x)
      OBVIOUS
    <2>2. F \in SUBSET Process
      BY <2>1, FromType
    <2>3. Holds(F, x)'
      <3>1. x \in F \cup {NULL}
        BY <1>1, <2>1, FromFacts
      <3>2. \A r \in F : next'[r] \in F \cup {NULL}
        BY <1>1, <1>2, <2>1, <2>2, FromFacts
      <3> QED BY <3>1, <3>2 DEF Holds
    <2> QED BY <2>1, <2>2, <2>3 DEF From
  <1>5. p \notin From(head)'
    <2>0. PICK S : S = From(head) \ {p}
      OBVIOUS
    <2>1. S \in SUBSET Process /\ p \notin S
      BY <2>0, FromType
    <2>2. head \in S \cup {NULL}
      BY <2>0, <1>0, <1>1, FromFacts
    <2>3. ASSUME NEW r \in S PROVE next'[r] \in S \cup {NULL}
      <3>1. r \in From(head) /\ r \in Process /\ OnList(r)
        BY <2>0, <2>1, <2>3, <1>0 DEF OnList
      <3>2. CASE next[r] = p
        <4>1. p \in From(head) /\ OnList(p)
          BY <3>1, <3>2, <1>0, <1>1, FromFacts DEF OnList
        <4>2. next[p] # p
          <5>1. p \notin From(next[p])
            BY <4>1 DEF Acyclic
          <5> QED BY <5>1, <1>1, FromFacts
        <4>3. next[p] \in From(head) \cup {NULL}
          BY <4>1, <1>1, FromFacts
        <4> QED BY <2>0, <3>1, <3>2, <4>2, <4>3, <1>2
      <3>3. CASE next[r] # p
        BY <2>0, <3>1, <3>3, <1>1, <1>2, FromFacts
      <3> QED BY <3>2, <3>3
    <2>4. Holds(S, head)'
      BY <2>2, <2>3, <1>1 DEF Holds
    <2> QED BY <2>1, <2>4 DEF From
  <1>6. ASSUME NEW s \in Process, OnList(s)' PROVE OnList(s) /\ s # p
    <2>1. s \in From(head)'
      BY <1>0, <1>6 DEF OnList
    <2> QED BY <1>0, <1>1, <1>4, <1>5, <2>1 DEF OnList
  <1>7. ASSUME NEW s \in Process, s # p, NEW f \in Visiting(s) PROVE f \in Visiting(s)'
    <2>1. f \in DoPollFrame
      BY <1>7 DEF Visiting
    <2>2. CASE f.called
      <3>1. f.p \in Process /\ s \in From(next[f.p]) /\ next[f.p] \in Pointer
        BY <2>1, <2>2, <1>1, <1>7 DEF DoPollFrame, Visiting, StillVisited
      <3>2. CASE next'[f.p] = next[f.p]
        <4>1. s \in From(next[f.p])'
          BY <3>1, <3>2, <1>3, <1>7
        <4> QED BY <2>1, <2>2, <4>1 DEF Visiting, StillVisited
      <3>3. CASE next[f.p] = p /\ next'[f.p] = next[p]
        <4>1. s \in From(next[p]) /\ next[p] \in Pointer
          BY <3>1, <3>3, <1>1, <1>7, FromFacts
        <4>2. s \in From(next[f.p])'
          BY <3>3, <4>1, <1>3, <1>7
        <4> QED BY <2>1, <2>2, <4>2 DEF Visiting, StillVisited
      <3> QED BY <3>1, <3>2, <3>3, <1>2
    <2>3. CASE ~f.called
      <3>1. f.p \in Pointer /\ s \in From(f.p)
        BY <2>1, <2>3, <1>7 DEF DoPollFrame, Visiting, StillVisited
      <3>2. s \in From(f.p)'
        BY <3>1, <1>3, <1>7
      <3> QED BY <2>1, <2>3, <3>2 DEF Visiting, StillVisited
    <2> QED BY <2>2, <2>3
  <1>8. ASSUME NEW r \in Process, OnList(r)' PROVE r \notin From(next[r])'
    <2>1. OnList(r) /\ r \notin From(next[r]) /\ next[r] \in Pointer
      BY <1>1, <1>6, <1>8 DEF Acyclic
    <2>2. CASE next'[r] = next[r]
      BY <2>1, <2>2, <1>4
    <2>3. CASE next[r] = p /\ next'[r] = next[p]
      <3>1. r \notin From(next[p]) /\ next[p] \in Pointer
        <4>1. From(next[p]) \subseteq From(p)
          BY <1>1, FromFacts
        <4> QED BY <2>1, <2>3, <4>1, <1>1
      <3> QED BY <2>3, <3>1, <1>4
    <2> QED BY <2>2, <2>3, <1>2
  <1>9. Acyclic'
    BY <1>8 DEF Acyclic
  <1> QED BY <1>3, <1>4, <1>6, <1>7, <1>9

(* The first of the list is taken off by moving process_list alone. *)
LEMMA UnlinkHeadFacts ==
    ASSUME TypeOK, Acyclic, NEW p \in Process, p = process_list,
           process_list' = next[p], UNCHANGED next
    PROVE  /\ \A x : From(x)' = From(x)
           /\ \A s \in Process : OnList(s)' => OnList(s) /\ s # p
           /\ \A s \in Process : \A f \in Visiting(s) : f \in Visiting(s)'
           /\ Acyclic'
  <1>1. next \in [Process -> Pointer] /\ p \in Pointer /\ p # NULL
    BY KernelAssumption DEF TypeOK, Pointer
  <1>2. \A x : From(x)' = From(x)
    BY DEF From, Holds
  <1>3. ASSUME NEW s \in Process, OnList(s)' PROVE OnList(s) /\ s # p
    <2>1. PICK x : x = next[p]
      OBVIOUS
    <2>2. s \in From(x)'
      BY <1>3, <2>1 DEF OnList
    <2>3. s \in From(next[p])
      BY <1>2, <2>1, <2>2
    <2>4. p \in From(p)
      BY <1>1, FromFacts
    <2>5. From(next[p]) \subseteq From(p)
      BY <1>1, <2>4, FromFacts
    <2>6. p \notin From(next[p])
      BY <2>4 DEF Acyclic, OnList
    <2> QED BY <2>3, <2>5, <2>6 DEF OnList
  <1>4. \A f : StillVisited(f)' = StillVisited(f)
    BY <1>2 DEF StillVisited
  <1>5. ASSUME NEW r \in Process, OnList(r)' PROVE r \notin From(next[r])'
    BY <1>2, <1>3, <1>5 DEF Acyclic
  <1> QED BY <1>2, <1>3, <1>4, <1>5 DEF Visiting, Acyclic

LEMMA UnlinkList ==
    ASSUME KernelInv, Acyclic, exit_unlink
    PROVE  /\ \A s \in Process : OnList(s)' => OnList(s)
           /\ \A s \in Process : OnList(s)' => \A f \in Visiting(s) : f \in Visiting(s)'
           /\ Acyclic'
  <1>1. stack # <<>> /\ Top.at = "exit_process"
    BY DEF exit_unlink, At
  <1>2. TypeOK /\ Top \in ExitFrame
    BY <1>1, TopFacts, FrameKinds DEF KernelInv
  <1>3. PICK p \in Process : p = Top.p
    BY <1>2 DEF ExitFrame
  <1>4. CASE p = process_list
    <2>1. process_list' = next[p] /\ UNCHANGED next
      BY <1>3, <1>4 DEF exit_unlink
    <2> QED BY <1>2, <1>4, <2>1, UnlinkHeadFacts
  <1>5. CASE p # process_list
    <2>1. /\ UNCHANGED process_list
          /\ next' = [q \in Process |-> IF OnList(q) /\ next[q] = p THEN next[p] ELSE next[q]]
      BY <1>3, <1>5 DEF exit_unlink
    <2>2. /\ \A s \in Process : OnList(s)' => OnList(s) /\ s # p
          /\ \A s \in Process : s # p => \A f \in Visiting(s) : f \in Visiting(s)'
          /\ Acyclic'
      BY <1>2, <1>5, <2>1, UnlinkFacts
    <2> QED BY <2>2
  <1> QED BY <1>4, <1>5

LEMMA UnlinkStep ==
    ASSUME KernelInv, Polled, Acyclic, exit_unlink
    PROVE  Polled' /\ Acyclic'
  <1>1. stack # <<>> /\ Top.at # "do_poll" /\ stack' = Rest /\ UNCHANGED polls
    BY DEF exit_unlink, At
  <1>4. /\ \A s \in Process : OnList(s)' => OnList(s)
        /\ \A s \in Process : OnList(s)' => \A f \in Visiting(s) : f \in Visiting(s)'
        /\ Acyclic'
    BY UnlinkList
  <1>5. \A s \in Process : Touch(stack, Visiting(s)) => Touch(stack', Visiting(s))
    <2>1. \A s \in Process : Visiting(s) \in SUBSET DoPollFrame
      BY DEF Visiting
    <2> QED BY <1>1, <2>1, OtherFrames
  <1> QED BY <1>1, <1>4, <1>5, KeepsWalks

(* A process that is put on the list has no poll flag set. *)
Fresh == \A p \in Process : OnList(p)' /\ ~OnList(p) => ~needspoll[p]

LEMMA LinkStep ==
    ASSUME KernelInv, Polled, Acyclic, Fresh, boot \in Seq(Process),
           main_start \/ \E q \in Process : thread_start(q)
    PROVE  Polled' /\ Acyclic'
  <1>1. UNCHANGED polls
    BY DEF main_start, thread_start
  <1>p. PICK p \in Process : \E frames :
           /\ process_start(p, frames)
           /\ stack = <<>> \/ (frames = <<Caller>> \o Rest /\ stack # <<>> /\ Top.at # "do_poll")
    <2>1. CASE main_start
      <3>1. Head(boot) \in Process
        BY <2>1, HeadTailProperties DEF main_start
      <3> QED BY <2>1, <3>1 DEF main_start
    <2>2. CASE \E q \in Process : thread_start(q)
      BY <2>2 DEF thread_start, CanCall, At
    <2> QED BY <2>1, <2>2
  <1>2. PICK frames :
           /\ process_start(p, frames)
           /\ stack = <<>> \/ (frames = <<Caller>> \o Rest /\ stack # <<>> /\ Top.at # "do_poll")
    BY <1>p
  <1>3. \A Q \in SUBSET DoPollFrame : Touch(stack, Q) =>
           /\ Touch(frames, Q)
           /\ \A f, g : Touch(<<f, g>> \o frames, Q)
    <2> SUFFICES ASSUME NEW Q \in SUBSET DoPollFrame, Touch(stack, Q)
                 PROVE  Touch(frames, Q) /\ \A f, g : Touch(<<f, g>> \o frames, Q)
      OBVIOUS
    <2>1. stack # <<>>
      BY DEF Touch
    <2>2. PICK R, c : R = Rest /\ c = Caller
      OBVIOUS
    <2>3. (\A f : Touch(<<f>> \o R, Q)) /\ \A f, g, h : Touch(<<f, g>> \o (<<h>> \o R), Q)
      BY <1>2, <2>1, <2>2, OtherFrames
    <2>4. frames = <<c>> \o R
      BY <1>2, <2>1, <2>2
    <2> QED BY <2>3, <2>4
  <1>4. CASE OnList(p)
    <2>1. UNCHANGED lists /\ stack' = frames
      BY <1>2, <1>4 DEF process_start
    <2>2. UNCHANGED needspoll /\ (poll_requested => poll_requested')
      BY <1>1 DEF polls
    <2> QED BY <1>3, <2>1, <2>2, KeepsPolls
  <1>5. CASE ~OnList(p)
    <2>1. /\ process_list' = p /\ next' = [next EXCEPT ![p] = process_list]
          /\ \E f, g : stack' = <<f, g>> \o frames
      BY <1>2, <1>5 DEF process_start
    <2>2. /\ \A s \in Process : OnList(s)' => s = p \/ OnList(s)
          /\ \A s \in Process : OnList(s) => \A f \in Visiting(s) : f \in Visiting(s)'
          /\ Acyclic'
      BY <1>5, <2>1, LinkFacts DEF KernelInv
    <2>3. \A s \in Process : needspoll[s] /\ OnList(s)' => OnList(s)
      BY <1>5, <2>2 DEF Fresh
    <2>4. \A s \in Process : Touch(stack, Visiting(s)) => Touch(stack', Visiting(s))
      <3>1. \A s \in Process : Visiting(s) \in SUBSET DoPollFrame
        BY DEF Visiting
      <3> QED BY <1>3, <2>1, <3>1
    <2> QED BY <1>1, <2>2, <2>3, <2>4, KeepsWalks
  <1> QED BY <1>4, <1>5

LEMMA PolledStep ==
    KernelInv /\ boot \in Seq(Process) /\ Polled /\ Acyclic /\ [Next]_vars /\ Fresh
        => Polled' /\ Acyclic'
  <1> SUFFICES ASSUME KernelInv, boot \in Seq(Process), Polled, Acyclic, [Next]_vars, Fresh
               PROVE  Polled' /\ Acyclic'
    OBVIOUS
  <1>1. CASE \/ run_polls \/ run_event \/ broadcast_check
             \/ \E p \in PolledByIsr : isr_poll(p)
             \/ \E q \in Process : thread_poll(q)
    BY <1>1, RequestStep
  <1>2. CASE do_poll_call \/ do_poll_next \/ do_poll_end
    BY <1>2, PollWalkStep
  <1>3. CASE main_start \/ \E q \in Process : thread_start(q)
    BY <1>3, LinkStep
  <1>4. CASE exit_unlink
    BY <1>4, UnlinkStep
  <1>5. CASE \/ broadcast_call \/ broadcast_next \/ broadcast_end \/ synch_return
             \/ exit_begin \/ exit_tell \/ exit_next \/ exit_thread
             \/ \E q \in Process : thread_post_synch(q) \/ thread_exit(q)
             \/ \E to \in Pointer : thread_post(to)
             \/ thread_wait \/ thread_end \/ thread_pause \/ thread_continue
    BY <1>5, OtherStep
  <1>6. CASE UNCHANGED vars
    <2>1. UNCHANGED lists /\ UNCHANGED needspoll /\ poll_requested' = poll_requested
          /\ stack' = stack
      BY <1>6 DEF vars, polls
    <2> QED BY <2>1, KeepsPolls
  <1> QED BY <1>1, <1>2, <1>3, <1>4, <1>5, <1>6 DEF Next, Main, Walk, Activity

-----------------------------------------------------------------------------
(* The processes main has still to start *)

Owned(p) == {f \in ThreadFrame : f.p = p} \cup {f \in ExitFrame : f.p = p /\ f.step # "begin"}

Unborn(p) == state[p] = "none" /\ ~needspoll[p] /\ ~OnList(p) /\ ~Touch(stack, Owned(p))

(* Frames that are no thread of p and no exit of p may be pushed. *)
LEMMA StillUntouched ==
    ASSUME Sound(stack), stack # <<>>, NEW Q, ~Touch(stack, Q)
    PROVE  /\ Top \notin Q /\ ~Touch(Rest, Q)
           /\ \A f : f \notin Q => ~Touch(<<f>> \o Rest, Q) /\ <<f>> \o Rest \in Seq(Frame \cup {f})
           /\ \A f, g : f \notin Q /\ g \notin Q =>
                /\ ~Touch(<<f, g>> \o Rest, Q)
                /\ ~Touch(<<f>> \o (<<g>> \o Rest), Q)
                /\ <<f, g>> \o Rest \in Seq(Frame \cup {f, g})
  <1>1. Rest \in Seq(Frame) /\ Top \notin Q /\ ~Touch(Rest, Q)
    BY TouchTop
  <1>2. \A f : f \notin Q => ~Touch(<<f>> \o Rest, Q) /\ <<f>> \o Rest \in Seq(Frame \cup {f})
    BY <1>1, TouchPush
  <1>3. \A f, g : f \notin Q /\ g \notin Q =>
           ~Touch(<<f, g>> \o Rest, Q) /\ <<f, g>> \o Rest \in Seq(Frame \cup {f, g})
    BY <1>1, TouchPushTwo
  <1>4. \A f, g : f \notin Q /\ g \notin Q => ~Touch(<<f>> \o (<<g>> \o Rest), Q)
    BY <1>2, TouchPush
  <1> QED BY <1>1, <1>2, <1>3, <1>4

LEMMA UnbornCall ==
    ASSUME TypeOK, NEW p \in Process, Unborn(p), NEW q, NEW ev, NEW T, NEW frames \in Seq(T),
           ~Touch(frames, Owned(p)), call_process(q, ev, frames)
    PROVE  state'[p] = "none" /\ ~Touch(stack', Owned(p))
  <1>1. CASE q # NULL /\ state[q] = "running"
    <2>1. PICK f : f = Thread(q, ev, "call_process")
      OBVIOUS
    <2>2. q # p /\ f \notin Owned(p)
      BY <1>1, <2>1 DEF Unborn, Owned, Thread, ThreadFrame, ExitFrame
    <2>3. stack' = <<f>> \o frames /\ state' = [state EXCEPT ![q] = "called"]
      BY <1>1, <2>1 DEF call_process
    <2>4. ~Touch(<<f>> \o frames, Owned(p))
      BY <2>2, TouchPush
    <2> QED BY <2>2, <2>3, <2>4 DEF TypeOK, Unborn
  <1>2. CASE ~(q # NULL /\ state[q] = "running")
    BY <1>2 DEF call_process, Unborn
  <1> QED BY <1>1, <1>2

(* Steps of the walks and of exit_process *)
LEMMA UnbornWalk ==
    ASSUME KernelInv, Acyclic, NEW p \in Process, Unborn(p), Walk
    PROVE  Unborn(p)'
  <1>1. stack # <<>> /\ Sound(stack) /\ TypeOK
    BY DEF Walk, KernelInv, do_poll_call, do_poll_next, do_poll_end, broadcast_check,
       broadcast_call, broadcast_next, broadcast_end, exit_begin, exit_tell, exit_next,
       exit_thread, exit_unlink, synch_return, At
  <1>2. PICK Q : Q = Owned(p)
    OBVIOUS
  <1>u. /\ Top \notin Q /\ ~Touch(Rest, Q)
        /\ \A f : f \notin Q => ~Touch(<<f>> \o Rest, Q) /\ <<f>> \o Rest \in Seq(Frame \cup {f})
        /\ \A f, g : f \notin Q /\ g \notin Q =>
             ~Touch(<<f, g>> \o Rest, Q) /\ ~Touch(<<f>> \o (<<g>> \o Rest), Q)
    <2>1. ~Touch(stack, Q)
      BY <1>2 DEF Unborn
    <2> QED BY <1>1, <2>1, StillUntouched
  <1>q. \A f : f.at # "thread" /\ f.at # "exit_process" => f \notin Q
    BY <1>2 DEF Owned, ThreadFrame, ExitFrame
  <1>k. Top.at = "exit_process" => Top \in ExitFrame
    BY <1>1, TopFacts, FrameKinds
  <1>p. needspoll[p] = FALSE /\ state[p] = "none" /\ p \notin From(process_list)
    BY <1>1 DEF Unborn, TypeOK, OnList
  <1>s. SUFFICES ~needspoll'[p] /\ ~OnList(p)' /\ state'[p] = "none" /\ ~Touch(stack', Q)
    <2>1. ~Touch(stack', Owned(p)) => ~Touch(stack, Owned(p))'
      BY DEF Touch, Owned
    <2> QED BY <1>2, <2>1 DEF Unborn
  <1>o. UNCHANGED lists => ~OnList(p)'
    BY <1>p, SameLists DEF OnList, Unborn
  <1>1a. CASE do_poll_call
    <2>1. /\ Top.p # p /\ UNCHANGED lists /\ Top.at = "do_poll"
          /\ needspoll' = [needspoll EXCEPT ![Top.p] = FALSE]
          /\ state' = [state EXCEPT ![Top.p] = "called"]
          /\ stack' = <<Thread(Top.p, "POLL", "call_process"), [Top EXCEPT !.called = TRUE]>> \o Rest
      BY <1>1a, <1>p DEF do_poll_call, At
    <2>2. PICK f, g : f = Thread(Top.p, "POLL", "call_process") /\ g = [Top EXCEPT !.called = TRUE]
      OBVIOUS
    <2>3. f \notin Q
      BY <1>2, <2>1, <2>2 DEF Owned, Thread, ThreadFrame, ExitFrame
    <2>4. g \notin Q
      <3>1. Top \in DoPollFrame
        BY <1>1, <2>1, TopFacts, FrameKinds
      <3>2. g.at = "do_poll"
        BY <2>1, <2>2, <3>1 DEF DoPollFrame
      <3> QED BY <3>2, <1>q
    <2>5. ~Touch(stack', Q)
      BY <2>1, <2>2, <2>3, <2>4, <1>u
    <2> QED BY <2>1, <2>5, <1>o, <1>p, <1>1 DEF TypeOK
  <1>2a. CASE do_poll_next
    <2>1. PICK f : f = DoPoll(next[Top.p])
      OBVIOUS
    <2>2. f \notin Q /\ stack' = <<f>> \o Rest /\ UNCHANGED <<lists, needspoll, state>>
      BY <1>2a, <2>1, <1>q DEF do_poll_next, DoPoll, polls
    <2>3. ~Touch(stack', Q)
      BY <2>2, <1>u
    <2> QED BY <2>2, <2>3, <1>o, <1>p
  <1>3a. CASE do_poll_end \/ broadcast_end \/ synch_return
    <2>1. stack' = Rest /\ UNCHANGED <<lists, needspoll, state>>
      BY <1>3a DEF do_poll_end, broadcast_end, synch_return, polls
    <2> QED BY <2>1, <1>u, <1>o, <1>p
  <1>4a. CASE broadcast_check \/ broadcast_call \/ broadcast_next
    <2>1. Top \in DoEventFrame /\ UNCHANGED <<lists, needspoll>>
      <3>1. Top.at = "do_event" /\ UNCHANGED <<lists, needspoll>>
        BY <1>4a DEF broadcast_check, broadcast_call, broadcast_next, At, polls
      <3> QED BY <3>1, <1>1, TopFacts, FrameKinds
    <2>2. CASE broadcast_check
      <3>1. PICK d, g, R : d = DoPoll(process_list) /\ g = [Top EXCEPT !.step = "call"] /\ R = Rest
        OBVIOUS
      <3>2. d \notin Q /\ g \notin Q
        <4>1. d.at = "do_poll" /\ g.at = "do_event"
          BY <2>1, <3>1 DEF DoPoll, DoEventFrame
        <4> QED BY <4>1, <1>q
      <3>3. /\ stack' = ((IF poll_requested THEN <<d>> ELSE <<>>) \o <<g>>) \o R
            /\ UNCHANGED state
        BY <2>2, <3>1 DEF broadcast_check
      <3>4. <<d>> \o <<g>> = <<d, g>> /\ <<>> \o <<g>> = <<g>>
        <4>1. PICK S : S = {d, g}
          OBVIOUS
        <4>2. /\ d \in S /\ g \in S /\ <<>> \in Seq(S)
              /\ <<d>> \in Seq(S) /\ <<g>> \in Seq(S) /\ <<d, g>> \in Seq(S)
          BY <4>1
        <4>3. <<d, g>> \o <<>> = <<d>> \o (<<g>> \o <<>>)
          BY ONLY <4>2, PushTwo
        <4> QED BY <4>2, <4>3, ConcatEmptySeq
      <3>5. ~Touch(stack', Q)
        BY <3>1, <3>2, <3>3, <3>4, <1>u
      <3> QED BY <2>1, <3>3, <3>5, <1>o, <1>p
    <2>3. CASE broadcast_call
      <3>1. PICK g : g = IF state[Top.p] = "running"
                           THEN [Top EXCEPT !.step = "called", !.got = @ \cup {Top.p},
                                            !.twice = @ \/ Top.p \in Top.got]
                           ELSE [Top EXCEPT !.step = "called"]
        OBVIOUS
      <3>2. g.at = "do_event" /\ call_process(Top.p, Top.ev, <<g>> \o Rest)
        BY <2>1, <2>3, <3>1 DEF broadcast_call, DoEventFrame
      <3>3. <<g>> \o Rest \in Seq(Frame \cup {g}) /\ ~Touch(<<g>> \o Rest, Q)
        BY <3>2, <1>q, <1>u
      <3>4. state'[p] = "none" /\ ~Touch(stack', Q)
        BY <1>1, <1>2, <3>2, <3>3, UnbornCall
      <3> QED BY <2>1, <3>4, <1>o, <1>p
    <2>4. CASE broadcast_next
      <3>1. PICK g : g = [Top EXCEPT !.step = "check", !.p = next[Top.p]]
        OBVIOUS
      <3>2. g.at = "do_event" /\ stack' = <<g>> \o Rest /\ UNCHANGED state
        BY <2>1, <2>4, <3>1 DEF broadcast_next, DoEventFrame
      <3>3. ~Touch(stack', Q)
        BY <3>2, <1>q, <1>u
      <3> QED BY <2>1, <3>2, <3>3, <1>o, <1>p
    <2> QED BY <1>4a, <2>2, <2>3, <2>4
  <1>5a. CASE exit_begin \/ exit_tell \/ exit_next \/ exit_thread
    <2>1. Top \in ExitFrame /\ UNCHANGED <<lists, needspoll>>
      BY <1>5a, <1>k DEF exit_begin, exit_tell, exit_next, exit_thread, At, polls
    <2>2. Top.step = "begin" \/ Top.p # p
      BY <2>1, <1>2, <1>u DEF Owned
    <2>3. \A f \in ExitFrame : f.p # p => f \notin Q
      BY <1>2 DEF Owned, ExitFrame, ThreadFrame
    <2>4. CASE exit_begin
      <3>1. state'[p] = "none"
        BY <2>4, <1>p, <1>1 DEF exit_begin, TypeOK
      <3>2. CASE stack' = Rest
        BY <3>1, <3>2, <2>1, <1>u, <1>o, <1>p
      <3>3. CASE OnList(Top.p)
        <4>1. PICK g : g = [Top EXCEPT !.q = process_list,
                              !.step = IF state[Top.p] = "none" THEN "unlink" ELSE "tell"]
          OBVIOUS
        <4>2. g \in ExitFrame /\ g.p # p
          BY <4>1, <3>3, <2>1, <1>1 DEF ExitFrame, TypeOK, Unborn
        <4>3. stack' = <<g>> \o Rest \/ stack' = Rest
          BY <2>4, <4>1 DEF exit_begin
        <4>4. ~Touch(stack', Q)
          BY <4>2, <4>3, <2>3, <1>u
        <4> QED BY <3>1, <4>4, <2>1, <1>o, <1>p
      <3> QED BY <2>4, <3>2, <3>3 DEF exit_begin
    <2>5. CASE exit_tell
      <3>1. PICK g, c : /\ g = [Top EXCEPT !.step = "told",
                                  !.told = IF state[Top.q] = "running" THEN @ \cup {Top.q} ELSE @]
                        /\ c = IF Top.q = Top.p THEN NULL ELSE Top.q
        OBVIOUS
      <3>2. call_process(c, "EXITED", <<g>> \o Rest) /\ Top.step = "tell" /\ Top.q # NULL
        BY <2>5, <3>1 DEF exit_tell
      <3>3. g \in ExitFrame /\ g.p # p
        BY <2>1, <2>2, <3>1, <3>2 DEF ExitFrame, Pointer
      <3>4. ~Touch(<<g>> \o Rest, Q) /\ <<g>> \o Rest \in Seq(Frame \cup {g})
        BY <3>3, <2>3, <1>u
      <3>5. state'[p] = "none" /\ ~Touch(stack', Q)
        BY <1>1, <1>2, <3>2, <3>4, UnbornCall
      <3> QED BY <3>5, <2>1, <1>o, <1>p
    <2>6. CASE exit_next
      <3>1. PICK g : g = [Top EXCEPT !.step = "tell", !.q = next[Top.q]]
        OBVIOUS
      <3>2. stack' = <<g>> \o Rest /\ UNCHANGED state /\ Top.step = "told"
        BY <2>6, <3>1 DEF exit_next
      <3>3. g \in ExitFrame /\ g.p # p
        BY <2>1, <2>2, <3>1, <3>2, <1>1 DEF ExitFrame, TypeOK
      <3>4. ~Touch(stack', Q)
        BY <3>2, <3>3, <2>3, <1>u
      <3> QED BY <3>2, <3>4, <2>1, <1>o, <1>p
    <2>7. CASE exit_thread
      <3>1. PICK f, g : f = Thread(Top.p, "EXIT", "exit_process") /\ g = [Top EXCEPT !.step = "unlink"]
        OBVIOUS
      <3>2. /\ stack' = <<f, g>> \o Rest \/ stack' = <<g>> \o Rest
            /\ UNCHANGED state /\ Top.step = "tell"
        BY <2>7, <3>1 DEF exit_thread
      <3>3. g \in ExitFrame /\ g.p # p /\ f.p # p
        BY <2>1, <2>2, <3>1, <3>2 DEF ExitFrame, Thread
      <3>4. f \notin Q
        BY <3>3, <1>2 DEF Owned
      <3>5. ~Touch(stack', Q)
        BY <3>2, <3>3, <3>4, <2>3, <1>u
      <3> QED BY <3>2, <3>5, <2>1, <1>o, <1>p
    <2> QED BY <1>5a, <2>4, <2>5, <2>6, <2>7
  <1>6a. CASE exit_unlink
    <2>1. stack' = Rest /\ UNCHANGED <<needspoll, state>> /\ Top \in ExitFrame
      BY <1>6a, <1>k DEF exit_unlink, At, polls
    <2>2. OnList(p)' => OnList(p)
      BY <1>6a, UnlinkList
    <2> QED BY <2>1, <2>2, <1>u, <1>p DEF OnList
  <1> QED BY <1>1a, <1>2a, <1>3a, <1>4a, <1>5a, <1>6a DEF Walk

(* A process that is not running gets no poll flag. *)
LEMMA UnbornPoll ==
    ASSUME TypeOK, NEW p \in Process, Unborn(p), NEW q \in Process, process_poll(q)
    PROVE  ~needspoll'[p]
  BY DEF TypeOK, Unborn, process_poll

(* Steps of the threads *)
LEMMA UnbornThread ==
    ASSUME KernelInv, NEW p \in Process, Unborn(p),
           \/ \E q \in Process : thread_poll(q) \/ thread_post_synch(q) \/ thread_exit(q)
           \/ \E to \in Pointer : thread_post(to)
           \/ thread_wait \/ thread_end \/ thread_pause \/ thread_continue
    PROVE  Unborn(p)'
  <1>1. stack # <<>> /\ Top.at = "thread" /\ Sound(stack) /\ TypeOK /\ UNCHANGED lists
    BY DEF KernelInv, thread_poll, thread_post_synch, thread_exit, thread_post, thread_wait,
       thread_end, thread_pause, thread_continue, CanCall, At
  <1>2. PICK Q : Q = Owned(p)
    OBVIOUS
  <1>3. Top \in ThreadFrame /\ ~Touch(stack, Q)
    BY <1>1, <1>2, TopFacts, FrameKinds DEF Unborn
  <1>u. /\ Top \notin Q /\ ~Touch(Rest, Q) /\ Rest \in Seq(Frame)
        /\ \A f : f \notin Q => ~Touch(<<f>> \o Rest, Q)
        /\ \A f, g : f \notin Q /\ g \notin Q =>
             ~Touch(<<f, g>> \o Rest, Q) /\ <<f, g>> \o Rest \in Seq(Frame \cup {f, g})
    BY <1>1, <1>3, StillUntouched, TouchTop
  <1>4. Top.p # p
    BY <1>2, <1>3, <1>u DEF Owned
  <1>p. ~needspoll[p] /\ state[p] = "none" /\ ~OnList(p)'
    BY <1>1, SameLists DEF Unborn
  <1>s. SUFFICES ~needspoll'[p] /\ state'[p] = "none" /\ ~Touch(stack', Q)
    <2>1. ~Touch(stack', Owned(p)) => ~Touch(stack, Owned(p))'
      BY DEF Touch, Owned
    <2> QED BY <1>2, <1>p, <2>1 DEF Unborn
  <1>c. PICK c : c = Caller
    OBVIOUS
  <1>5. c \notin Q
    BY <1>2, <1>3, <1>4, <1>c DEF Caller, Owned, ThreadFrame, ExitFrame
  <1>6. \A q, from : ExitProcess(q, from) \notin Q
    BY <1>2 DEF Owned, ExitProcess, ThreadFrame
  <1>7. ASSUME NEW q \in Process, thread_poll(q)
        PROVE  ~needspoll'[p] /\ state'[p] = "none" /\ ~Touch(stack', Q)
    <2>1. process_poll(q) /\ stack' = <<c>> \o Rest /\ UNCHANGED state
      BY <1>7, <1>c DEF thread_poll
    <2> QED BY <2>1, <1>1, <1>5, <1>u, <1>p, UnbornPoll
  <1>8. ASSUME NEW q \in Process, thread_post_synch(q)
        PROVE  ~needspoll'[p] /\ state'[p] = "none" /\ ~Touch(stack', Q)
    <2>1. PICK g : g = PostSynch(process_current)
      OBVIOUS
    <2>2. g \notin Q
      BY <1>2, <2>1 DEF Owned, PostSynch, ThreadFrame, ExitFrame
    <2>3. call_process(q, "MSG", <<g, c>> \o Rest) /\ UNCHANGED needspoll
      BY <1>8, <1>c, <2>1 DEF thread_post_synch, polls
    <2>4. ~Touch(<<g, c>> \o Rest, Q) /\ <<g, c>> \o Rest \in Seq(Frame \cup {g, c})
      BY <2>2, <1>5, <1>u
    <2> QED BY <1>1, <1>2, <1>p, <2>3, <2>4, UnbornCall
  <1>9. ASSUME NEW q \in Process, thread_exit(q)
        PROVE  ~needspoll'[p] /\ state'[p] = "none" /\ ~Touch(stack', Q)
    <2>1. PICK g : g = ExitProcess(q, process_current)
      OBVIOUS
    <2>2. stack' = <<g, c>> \o Rest /\ UNCHANGED <<needspoll, state>>
      BY <1>9, <1>c, <2>1 DEF thread_exit, polls
    <2> QED BY <2>1, <2>2, <1>5, <1>6, <1>u, <1>p
  <1>10. ASSUME NEW to \in Pointer, thread_post(to)
         PROVE  ~needspoll'[p] /\ state'[p] = "none" /\ ~Touch(stack', Q)
    <2>1. stack' = <<c>> \o Rest /\ UNCHANGED <<needspoll, state>>
      BY <1>10, <1>c DEF thread_post, polls
    <2> QED BY <2>1, <1>5, <1>u, <1>p
  <1>11. ASSUME NEW ended, Returned(ended), UNCHANGED needspoll
         PROVE  ~needspoll'[p] /\ state'[p] = "none" /\ ~Touch(stack', Q)
    <2>1. PICK g : g = ExitProcess(Top.p, Top.p)
      OBVIOUS
    <2>2. stack' = Rest \/ stack' = <<g>> \o Rest
      BY <1>11, <2>1 DEF Returned
    <2>3. state'[p] = "none"
      BY <1>11, <1>1, <1>4, <1>p DEF Returned, TypeOK
    <2> QED BY <1>11, <2>1, <2>2, <2>3, <1>6, <1>u, <1>p
  <1>12. CASE thread_wait \/ thread_end \/ thread_pause
    BY <1>11, <1>12 DEF thread_wait, thread_end, thread_pause, polls
  <1>13. CASE thread_continue
    BY <1>13, <1>3, <1>p DEF thread_continue, polls
  <1> QED BY <1>7, <1>8, <1>9, <1>10, <1>12, <1>13

(* Interrupts, the main loop, and the start of another process *)
LEMMA UnbornMain ==
    ASSUME KernelInv, Acyclic, boot \in Seq(Process), NEW p \in Process, Unborn(p),
           \/ \E q \in PolledByIsr : isr_poll(q)
           \/ run_polls \/ run_event
           \/ main_start /\ Head(boot) # p
    PROVE  Unborn(p)'
  <1>1. PICK Q : Q = Owned(p)
    OBVIOUS
  <1>2. TypeOK /\ ~needspoll[p] /\ state[p] = "none" /\ ~OnList(p) /\ ~Touch(stack, Q)
    BY <1>1 DEF KernelInv, Unborn
  <1>s. SUFFICES ~needspoll'[p] /\ ~OnList(p)' /\ state'[p] = "none" /\ ~Touch(stack', Q)
    <2>1. ~Touch(stack', Owned(p)) => ~Touch(stack, Owned(p))'
      BY DEF Touch, Owned
    <2> QED BY <1>1, <2>1 DEF Unborn
  <1>o. UNCHANGED lists => ~OnList(p)'
    BY <1>2, SameLists
  <1>e. <<>> \in Seq(Frame) /\ ~Touch(<<>>, Q)
    BY DEF Touch
  <1>q. \A f : f.at # "thread" /\ f.at # "exit_process" => f \notin Q
    BY <1>1 DEF Owned, ThreadFrame, ExitFrame
  <1>f. ASSUME NEW f, f \notin Q PROVE ~Touch(<<f>>, Q)
    <2>1. Len(<<f>>) = 1 /\ <<f>>[1] = f
      OBVIOUS
    <2> QED BY <2>1, <1>f DEF Touch
  <1>3. ASSUME NEW q \in PolledByIsr, isr_poll(q)
        PROVE  ~needspoll'[p] /\ ~OnList(p)' /\ state'[p] = "none" /\ ~Touch(stack', Q)
    <2>1. process_poll(q) /\ q \in Process /\ UNCHANGED <<lists, state, stack>>
      BY <1>3, KernelAssumption DEF isr_poll
    <2> QED BY <2>1, <1>2, <1>o, UnbornPoll
  <1>4. CASE run_polls
    <2>1. PICK d : d = DoPoll(process_list)
      OBVIOUS
    <2>2. d \notin Q
      BY <2>1, <1>q DEF DoPoll
    <2>3. (stack' = <<d>> \/ stack' = <<>>) /\ UNCHANGED <<lists, state, needspoll>>
      BY <1>4, <2>1 DEF run_polls
    <2> QED BY <2>2, <2>3, <1>2, <1>e, <1>f, <1>o
  <1>5. CASE run_event
    <2>1. UNCHANGED <<lists, needspoll>>
      BY <1>5 DEF run_event, polls
    <2>2. PICK d, e : e = Head(queue) /\ d = DoEvent(e.ev)
      OBVIOUS
    <2>3. d \notin Q
      BY <2>2, <1>q DEF DoEvent
    <2>4. \/ UNCHANGED <<state, stack>>
          \/ stack' = <<d>> /\ UNCHANGED state
          \/ call_process(e.to, e.ev, <<>>)
      BY <1>5, <2>2 DEF run_event
    <2>5. CASE call_process(e.to, e.ev, <<>>)
      <3>1. PICK to, ev : to = e.to /\ ev = e.ev
        OBVIOUS
      <3>2. call_process(to, ev, <<>>)
        BY <2>5, <3>1
      <3>3. state'[p] = "none" /\ ~Touch(stack', Q)
        BY <1>1, <1>2, <1>e, <3>2, UnbornCall
      <3> QED BY <3>3, <2>1, <1>2, <1>o
    <2> QED BY <2>1, <2>3, <2>4, <2>5, <1>2, <1>f, <1>o
  <1>6. CASE main_start /\ Head(boot) # p
    <2>1. PICK q : q = Head(boot)
      OBVIOUS
    <2>2. q \in Process /\ q # p /\ process_start(q, <<>>) /\ UNCHANGED needspoll
      BY <1>6, <2>1, HeadTailProperties DEF main_start, polls
    <2>3. CASE OnList(q)
      BY <2>2, <2>3, <1>2, <1>e, <1>o DEF process_start
    <2>4. CASE ~OnList(q)
      <3>1. PICK f, g : f = Thread(q, "INIT", "call_process") /\ g = PostSynch(process_current)
        OBVIOUS
      <3>2. /\ process_list' = q /\ next' = [next EXCEPT ![q] = process_list]
            /\ state' = [state EXCEPT ![q] = "called"]
            /\ stack' = <<f, g>> \o <<>>
        BY <2>2, <2>4, <3>1 DEF process_start
      <3>3. ~OnList(p)'
        BY <2>2, <2>4, <3>2, <1>2, LinkFacts
      <3>4. f \notin Q /\ g \notin Q
        BY <2>2, <3>1, <1>1 DEF Owned, Thread, PostSynch, ThreadFrame, ExitFrame
      <3>5. ~Touch(<<f, g>> \o <<>>, Q)
        BY <3>4, <1>e, TouchPushTwo
      <3>6. state'[p] = "none"
        BY <2>2, <3>2, <1>2 DEF TypeOK
      <3> QED BY <3>2, <3>3, <3>5, <3>6, <2>2, <1>2
    <2> QED BY <2>3, <2>4
  <1> QED BY <1>3, <1>4, <1>5, <1>6

(* Only main starts processes, and none twice. *)
OnlyBoot ==
    /\ \A p \in Process : "start" \notin May[p]
    /\ \A i, j \in 1 .. Len(Boot) : Boot[i] = Boot[j] => i = j

BootInv ==
    /\ boot \in Seq(Process)
    /\ \A i, j \in 1 .. Len(boot) : boot[i] = boot[j] => i = j
    /\ \A i \in 1 .. Len(boot) : Unborn(boot[i])

LEMMA NoThreadStarts ==
    ASSUME OnlyBoot, KernelInv, NEW q PROVE ~thread_start(q)
  <1> SUFFICES ASSUME thread_start(q) PROVE FALSE
    OBVIOUS
  <1>1. stack # <<>> /\ Top.at = "thread" /\ "start" \in May[Top.p]
    BY DEF thread_start, CanCall, At
  <1>2. Top \in ThreadFrame
    BY <1>1, TopFacts, FrameKinds DEF KernelInv
  <1> QED BY <1>1, <1>2 DEF OnlyBoot, ThreadFrame

LEMMA FreshStep ==
    ASSUME OnlyBoot, KernelInv, Acyclic, BootInv, [Next]_vars
    PROVE  Fresh
  <1> SUFFICES ASSUME NEW p \in Process, OnList(p)', ~OnList(p) PROVE ~needspoll[p]
    BY DEF Fresh
  <1>1. CASE main_start
    <2>1. PICK q : q = Head(boot)
      OBVIOUS
    <2>2. q \in Process /\ q = boot[1] /\ 1 \in 1 .. Len(boot) /\ process_start(q, <<>>)
      BY <1>1, <2>1, HeadTailProperties DEF main_start, BootInv
    <2>3. CASE OnList(q)
      <3>1. UNCHANGED lists
        BY <2>2, <2>3 DEF process_start
      <3> QED BY <3>1, SameLists
    <2>4. CASE ~OnList(q)
      <3>1. process_list' = q /\ next' = [next EXCEPT ![q] = process_list]
        BY <2>2, <2>4 DEF process_start
      <3>2. p = q
        BY <2>2, <2>4, <3>1, LinkFacts DEF KernelInv
      <3>3. Unborn(q)
        BY <2>2 DEF BootInv
      <3> QED BY <3>2, <3>3 DEF Unborn
    <2> QED BY <2>3, <2>4
  <1>2. CASE exit_unlink
    BY <1>2, UnlinkList
  <1>3. CASE ~main_start /\ ~exit_unlink
    <2>1. UNCHANGED lists
      BY <1>3, NoThreadStarts DEF Next, Main, Walk, Activity, vars, isr_poll, run_polls, run_event,
         do_poll_call, do_poll_next, do_poll_end, broadcast_check, broadcast_call,
         broadcast_next, broadcast_end, exit_begin, exit_tell, exit_next, exit_thread,
         synch_return, thread_poll, thread_post_synch,
         thread_exit, thread_post, thread_wait, thread_end, thread_pause, thread_continue
    <2> QED BY <2>1, SameLists
  <1> QED BY <1>1, <1>2, <1>3

LEMMA UnbornStep ==
    ASSUME OnlyBoot, KernelInv, Acyclic, BootInv, [Next]_vars, NEW p \in Process, Unborn(p),
           main_start => Head(boot) # p
    PROVE  Unborn(p)'
  <1>1. CASE Walk
    BY <1>1, UnbornWalk
  <1>2. CASE \/ \E q \in PolledByIsr : isr_poll(q)
             \/ run_polls \/ run_event \/ main_start
    BY <1>2, UnbornMain DEF BootInv
  <1>3. CASE Activity
    BY <1>3, UnbornThread, NoThreadStarts DEF Activity
  <1>4. CASE UNCHANGED vars
    <2>1. UNCHANGED <<lists, state, needspoll, stack>>
      BY <1>4 DEF vars, polls
    <2> QED BY <2>1, SameLists DEF Unborn, Touch, Owned
  <1> QED BY <1>1, <1>2, <1>3, <1>4 DEF Next, Main

LEMMA BootInvStep ==
    ASSUME OnlyBoot, KernelInv, Acyclic, BootInv, [Next]_vars
    PROVE  BootInv'
  <1>0. \A i \in 1 .. Len(boot) : boot[i] \in Process
    BY DEF BootInv
  <1>1. CASE main_start
    <2>1. /\ boot' \in Seq(Process) /\ Len(boot) \in Nat /\ Len(boot) >= 1
          /\ Len(boot') = Len(boot) - 1 /\ Head(boot) = boot[1]
          /\ \A i \in 1 .. Len(boot) - 1 : boot'[i] = boot[i + 1]
      BY <1>1, HeadTailProperties DEF main_start, BootInv
    <2>2. ASSUME NEW i \in 1 .. Len(boot') PROVE i + 1 \in 1 .. Len(boot) /\ boot'[i] = boot[i + 1]
      BY <2>1
    <2>3. ASSUME NEW i \in 1 .. Len(boot'), NEW j \in 1 .. Len(boot'), boot'[i] = boot'[j]
          PROVE  i = j
      <3>1. i + 1 = j + 1
        BY <2>2, <2>3 DEF BootInv
      <3> QED BY <3>1, <2>1
    <2>4. ASSUME NEW i \in 1 .. Len(boot') PROVE Unborn(boot[i])'
      <3>1. PICK p : p = boot[i + 1]
        OBVIOUS
      <3>2. p \in Process /\ Unborn(p) /\ boot'[i] = p
        BY <3>1, <2>2, <1>0 DEF BootInv
      <3>3. Head(boot) # p
        <4>1. 1 \in 1 .. Len(boot) /\ 1 # i + 1
          BY <2>1
        <4> QED BY <2>1, <2>2, <3>1, <4>1 DEF BootInv
      <3>4. Unborn(p)'
        BY <3>2, <3>3, UnbornStep
      <3> QED BY <3>2, <3>4
    <2> QED BY <2>1, <2>3, <2>4 DEF BootInv
  <1>2. CASE ~main_start
    <2>1. boot' = boot
      BY <1>2 DEF Next, Main, Walk, Activity, vars, isr_poll, run_polls, run_event,
         do_poll_call, do_poll_next, do_poll_end, broadcast_check, broadcast_call,
         broadcast_next, broadcast_end, exit_begin, exit_tell, exit_next, exit_thread,
         exit_unlink, synch_return, thread_poll, thread_post_synch, thread_start,
         thread_exit, thread_post, thread_wait, thread_end, thread_pause, thread_continue
    <2>2. ASSUME NEW i \in 1 .. Len(boot) PROVE Unborn(boot[i])'
      <3>1. PICK p : p = boot[i]
        OBVIOUS
      <3>2. p \in Process /\ Unborn(p) /\ boot'[i] = p
        BY <3>1, <2>1, <1>0 DEF BootInv
      <3>3. Unborn(p)'
        BY <1>2, <3>2, UnbornStep
      <3> QED BY <3>2, <3>3
    <2> QED BY <2>1, <2>2 DEF BootInv
  <1> QED BY <1>1, <1>2

(* When the system begins nobody is on the list. *)
LEMMA PolledInit == OnlyBoot /\ Init => Polled /\ Acyclic /\ BootInv
  <1> SUFFICES ASSUME OnlyBoot, Init PROVE Polled /\ Acyclic /\ BootInv
    OBVIOUS
  <1>1. From(process_list) = {}
    <2>1. process_list = NULL /\ process_list \in Pointer /\ next \in [Process -> Pointer]
      BY DEF Init, Pointer
    <2> QED BY <2>1, FromFacts
  <1>2. \A p \in Process : ~OnList(p)
    BY <1>1 DEF OnList
  <1>3. \A p \in Process : Unborn(p)
    <2>1. \A p : ~Touch(stack, Owned(p))
      BY DEF Init, Touch
    <2> QED BY <1>2, <2>1 DEF Init, Unborn
  <1>4. BootInv
    <2>1. boot = Boot /\ Boot \in Seq(Process)
      BY KernelAssumption DEF Init
    <2>2. \A i \in 1 .. Len(boot) : boot[i] \in Process
      BY <2>1
    <2> QED BY <1>3, <2>1, <2>2 DEF BootInv, OnlyBoot
  <1> QED BY <1>2, <1>4 DEF Polled, Acyclic

-----------------------------------------------------------------------------
(* No poll is lost when only main starts processes, none of them twice: a  *)
(* process on the list whose flag an interrupt or a thread has set will be *)
(* met by a walk of do_poll, however many processes exit under the walks,  *)
(* and however deep walks, broadcasts and synchronous calls are nested.    *)
(* A process that exits with its flag set and is started again would be on *)
(* the list with a flag nobody looks at.                                   *)
THEOREM PollsAreNotLost == OnlyBoot /\ Spec => []NoLostPoll
  <1> DEFINE Inv == OnlyBoot /\ KernelInv /\ Polled /\ Acyclic /\ BootInv
  <1>1. OnlyBoot /\ Init => Inv
    BY KernelInit, PolledInit
  <1>2. Inv /\ [Next]_vars => Inv'
    <2> SUFFICES ASSUME Inv, [Next]_vars PROVE Inv'
      OBVIOUS
    <2>1. boot \in Seq(Process)
      BY DEF BootInv
    <2>2. Fresh
      BY FreshStep
    <2>3. KernelInv'
      BY <2>1, KernelStep
    <2>4. Polled' /\ Acyclic'
      BY <2>1, <2>2, PolledStep
    <2>5. BootInv'
      BY BootInvStep
    <2> QED BY <2>3, <2>4, <2>5 DEF OnlyBoot
  <1>3. Inv => NoLostPoll
    BY PolledIsNoLostPoll DEF KernelInv
  <1> HIDE DEF Inv
  <1> QED BY <1>1, <1>2, <1>3, PTL DEF Spec

-----------------------------------------------------------------------------
(* Who is on the list of processes, what state he is in, and which frames   *)
(* of the stack are his.  From it follow that a thread is entered once, that *)
(* the processes on the list are those that run, and that a broadcast        *)
(* reaches everybody who stays on the list, once.                            *)

-----------------------------------------------------------------------------
(* The ways along next *)

(* No process is met again behind itself, be it on the list or not.        *)
NeverRound == \A p \in Process : p \notin From(next[p])

(* process_start puts p before the others. *)
LEMMA LinkWays ==
    ASSUME TypeOK, NeverRound, NEW p \in Process, ~OnList(p),
           process_list' = p, next' = [next EXCEPT ![p] = process_list]
    PROVE  /\ From(process_list)' = From(process_list) \cup {p}
           /\ \A x \in Pointer : p \notin From(x) => From(x)' = From(x)
           /\ NeverRound'
  <1>0. PICK head : head = process_list
    OBVIOUS
  <1>1. /\ next \in [Process -> Pointer] /\ next' \in [Process -> Pointer]
        /\ head \in Pointer /\ p \in Pointer /\ p # NULL
        /\ \A r \in Process : r # p => next'[r] = next[r]
        /\ next'[p] = head
    BY <1>0, KernelAssumption DEF TypeOK, Pointer
  <1>2. p \notin From(head)
    BY <1>0 DEF OnList
  <1>3. /\ \A x \in Pointer : p \notin From(x) => From(x)' = From(x)
        /\ \A s \in Process : OnList(s)' => s = p \/ OnList(s)
    <2>1. Acyclic
      BY DEF NeverRound, Acyclic
    <2> QED BY <2>1, LinkFacts
  <1>4. From(head)' = From(head)
    BY <1>1, <1>2, <1>3
  <1>5. From(p)' = From(head) \cup {p}
    <2>1. From(p)' \subseteq From(head) \cup {p}
      <3>1. \A s \in From(p)' : s \in Process /\ OnList(s)'
        BY FromType DEF OnList, From
      <3> QED BY <3>1, <1>0, <1>3 DEF OnList
    <2>2. p \in From(p)' /\ From(head) \subseteq From(p)'
      <3>1. next'[p] \in Pointer /\ p \in From(p)'
        <4>1. ASSUME NEW S \in SUBSET Process, Holds(S, p)' PROVE p \in S
          BY <4>1, <1>1 DEF Holds
        <4> QED BY <4>1, <1>1 DEF From
      <3>2. ASSUME NEW s \in From(head) PROVE s \in From(p)'
        <4>1. s \in From(head)' /\ s \in Process
          BY <1>4, FromType, <3>2
        <4>2. ASSUME NEW S \in SUBSET Process, Holds(S, p)' PROVE s \in S
          <5>1. Holds(S, head)'
            BY <4>2, <1>1 DEF Holds
          <5> QED BY <4>1, <5>1 DEF From
        <4> QED BY <4>1, <4>2 DEF From
      <3> QED BY <3>1, <3>2
    <2> QED BY <2>1, <2>2
  <1>6. ASSUME NEW r \in Process PROVE r \notin From(next[r])'
    <2>1. CASE r = p
      BY <2>1, <1>1, <1>2, <1>4
    <2>2. CASE r # p /\ p \notin From(next[r])
      <3>1. next'[r] = next[r] /\ next[r] \in Pointer
        BY <2>2, <1>1
      <3>2. From(next[r])' = From(next[r])
        BY <2>2, <3>1, <1>3
      <3> QED BY <3>2 DEF NeverRound
    <2>3. CASE r # p /\ p \in From(next[r])
      <3>1. PICK x : x = next[r]
        OBVIOUS
      <3>2. next'[r] = x /\ x \in Pointer
        BY <2>3, <3>1, <1>1
      <3>3. r \notin From(head)
        <4>1. r \in From(head) => From(x) \subseteq From(head)
          BY <1>1, <3>1, FromFacts
        <4> QED BY <4>1, <2>3, <3>1, <1>2
      <3>4. PICK S : S = From(x) \cup From(head) \cup {p}
        OBVIOUS
      <3>5. S \in SUBSET Process /\ r \notin S
        BY <3>1, <3>3, <3>4, <2>3, FromType DEF NeverRound
      <3>6. Holds(S, x)'
        <4>1. x \in S \cup {NULL}
          BY <3>2, <3>4, <1>1, FromFacts
        <4>2. ASSUME NEW y \in S PROVE next'[y] \in S \cup {NULL}
          <5>1. y \in From(x) => next[y] \in From(x) \cup {NULL}
            BY <3>2, <1>1, FromFacts
          <5>2. y \in From(head) => next[y] \in From(head) \cup {NULL}
            BY <1>1, FromFacts
          <5>3. next'[p] \in S \cup {NULL}
            BY <3>4, <1>1, FromFacts
          <5> QED BY <5>1, <5>2, <5>3, <3>4, <3>5, <1>1
        <4> QED BY <4>1, <4>2 DEF Holds
      <3>7. From(x)' \subseteq S
        BY <3>5, <3>6 DEF From
      <3> QED BY <3>2, <3>5, <3>7
    <2> QED BY <2>1, <2>2, <2>3
  <1> QED BY <1>0, <1>3, <1>5, <1>6 DEF NeverRound

(* exit_process takes the process of its frame off, and no other.          *)
LEMMA UnlinkWays ==
    ASSUME KernelInv, NeverRound, exit_unlink
    PROVE  /\ Top.p \in Process
           /\ From(process_list)' = From(process_list) \ {Top.p}
           /\ \A x \in Pointer : From(x)' \subseteq From(x) /\ From(x) \ {Top.p} \subseteq From(x)'
           /\ \A r \in Process : \/ next'[r] = next[r]
                                 \/ next[r] = Top.p /\ next'[r] = next[Top.p]
           /\ NeverRound'
  <1>1. stack # <<>> /\ Top.at = "exit_process"
    BY DEF exit_unlink, At
  <1>2. TypeOK /\ Top \in ExitFrame /\ Acyclic
    BY <1>1, TopFacts, FrameKinds DEF KernelInv, NeverRound, Acyclic
  <1>3. PICK p \in Process : p = Top.p
    BY <1>2 DEF ExitFrame
  <1>n. next \in [Process -> Pointer] /\ process_list \in Pointer /\ p \in Pointer /\ p # NULL
    BY <1>2, KernelAssumption DEF TypeOK, Pointer
  <1>4. /\ \A s \in Process : OnList(s)' => OnList(s) /\ s # p
        /\ \A x \in Pointer : From(x)' \subseteq From(x) /\ From(x) \ {p} \subseteq From(x)'
        /\ \A r \in Process : next'[r] = next[r] \/ (next[r] = p /\ next'[r] = next[p])
        /\ From(process_list) \ {p} \subseteq From(process_list)'
    <2>1. CASE p = process_list
      <3>1. process_list' = next[p] /\ UNCHANGED next
        BY <1>3, <2>1 DEF exit_unlink
      <3>2. (\A x : From(x)' = From(x)) /\ \A s \in Process : OnList(s)' => OnList(s) /\ s # p
        BY <1>2, <2>1, <3>1, UnlinkHeadFacts
      <3>3. PICK y : y = next[p]
        OBVIOUS
      <3>4. From(y)' = From(y) /\ From(p) \subseteq {p} \cup From(y)
        BY <3>2, <3>3, <1>n, FromFacts
      <3>5. From(process_list) \ {p} \subseteq From(process_list)'
        BY <2>1, <3>1, <3>3, <3>4
      <3> QED BY <3>1, <3>2, <3>5
    <2>2. CASE p # process_list
      <3>1. /\ UNCHANGED process_list
            /\ next' = [q \in Process |-> IF OnList(q) /\ next[q] = p THEN next[p] ELSE next[q]]
        BY <1>3, <2>2 DEF exit_unlink
      <3>2. /\ \A s \in Process : OnList(s)' => OnList(s) /\ s # p
            /\ \A x \in Pointer : From(x)' \subseteq From(x) /\ From(x) \ {p} \subseteq From(x)'
        BY <1>2, <2>2, <3>1, UnlinkFacts
      <3>3. PICK h : h = process_list
        OBVIOUS
      <3>4. From(h) \ {p} \subseteq From(h)' /\ h' = h
        BY <3>1, <3>2, <3>3, <1>n
      <3> QED BY <3>1, <3>2, <3>3, <3>4
    <2> QED BY <2>1, <2>2
  <1>5. From(process_list)' \subseteq From(process_list) \ {p}
    <2>1. \A s \in From(process_list)' : s \in Process /\ OnList(s)'
      BY DEF OnList, From
    <2> QED BY <2>1, <1>4 DEF OnList
  <1>6. ASSUME NEW r \in Process PROVE r \notin From(next[r])'
    <2>1. PICK y : y = next'[r]
      OBVIOUS
    <2>2. CASE y = next[r]
      <3>1. y \in Pointer /\ r \notin From(y)
        BY <2>2, <1>n DEF NeverRound
      <3>2. r \notin From(y)'
        BY <3>1, <1>4
      <3> QED BY <2>1, <3>2
    <2>3. CASE next[r] = p /\ y = next[p]
      <3>1. y \in Pointer /\ r \notin From(p) /\ From(y) \subseteq From(p)
        BY <2>3, <1>n, FromFacts DEF NeverRound
      <3>2. r \notin From(y)'
        BY <3>1, <1>4
      <3> QED BY <2>1, <3>2
    <2> QED BY <2>1, <2>2, <2>3, <1>4
  <1> QED BY <1>3, <1>4, <1>5, <1>6 DEF NeverRound

-----------------------------------------------------------------------------
(* The frames of a process *)

CallFrame(p) == {f \in ThreadFrame : f.p = p /\ f.via = "call_process"}
EndFrame(p)  == {f \in ExitFrame : f.p = p}
Own(p) == CallFrame(p) \cup EndFrame(p)

(* While p is called, and after it is no longer. *)
Live(p)  == CallFrame(p) \cup {f \in EndFrame(p) : f.step = "begin"}
Dying(p) == {f \in EndFrame(p) : f.step # "begin"}

(* The frames of a process that another one makes to exit *)
Foreign == {f \in ThreadFrame : f.via # "call_process"} \cup {f \in ExitFrame : f.from # f.p}

Once(s, Q) == \A i, j \in 1 .. Len(s) : s[i] \in Q /\ s[j] \in Q => i = j

(* Who is on the list L without running has a frame of his on the stack.   *)
Busy(s, st, L) == \A p \in L : st[p] # "running" => Touch(s, Own(p))

(* Nobody has two frames; whoever has one is on the list, and his state is *)
(* the one the frame tells; and a process that is off the list has none.   *)
Seated(s, st, L) ==
    /\ ~Touch(s, Foreign)
    /\ \A p \in Process :
          /\ Once(s, Own(p))
          /\ Touch(s, Live(p)) => st[p] = "called"
          /\ Touch(s, Dying(p)) => st[p] = "none"
          /\ Touch(s, Own(p)) => p \in L
          /\ st[p] # "none" => p \in L

(* Frame g stands for f. *)
Like(f, g) ==
    /\ g.at = f.at
    /\ f.at \in {"thread", "exit_process"} => g.p = f.p
    /\ f.at = "thread" => g.via = f.via
    /\ f.at = "exit_process" => g.from = f.from /\ f.step # "begin" /\ g.step # "begin"

LEMMA OncePush ==
    ASSUME NEW s \in Seq(Frame), NEW f \in Frame, NEW Q
    PROVE  Once(<<f>> \o s, Q) <=> Once(s, Q) /\ (f \in Q => ~Touch(s, Q))
  <1>1. PICK t : t = <<f>> \o s
    OBVIOUS
  <1>2. /\ t \in Seq(Frame) /\ Len(t) = Len(s) + 1 /\ t[1] = f /\ Len(s) \in Nat
        /\ \A i \in 1 .. Len(s) : t[i + 1] = s[i]
    BY <1>1, Push
  <1>3. \A i \in 1 .. Len(t) : i = 1 \/ (i - 1 \in 1 .. Len(s) /\ t[i] = s[i - 1])
    <2> SUFFICES ASSUME NEW i \in 1 .. Len(t), i # 1
                 PROVE  i - 1 \in 1 .. Len(s) /\ t[i] = s[i - 1]
      OBVIOUS
    <2>1. i - 1 \in 1 .. Len(s) /\ (i - 1) + 1 = i
      BY <1>2
    <2> QED BY <2>1, <1>2
  <1>4. ASSUME Once(t, Q) PROVE Once(s, Q) /\ (f \in Q => ~Touch(s, Q))
    <2>1. ASSUME NEW i \in 1 .. Len(s) PROVE i + 1 \in 1 .. Len(t) /\ t[i + 1] = s[i] /\ i + 1 # 1
      BY <1>2
    <2>2. Once(s, Q)
      <3> SUFFICES ASSUME NEW i \in 1 .. Len(s), NEW j \in 1 .. Len(s), s[i] \in Q, s[j] \in Q
                   PROVE  i = j
        BY DEF Once
      <3>1. i + 1 = j + 1
        BY <2>1, <1>4 DEF Once
      <3> QED BY <3>1
    <2>3. ASSUME f \in Q, NEW i \in 1 .. Len(s), s[i] \in Q PROVE FALSE
      <3>1. 1 \in 1 .. Len(t)
        BY <1>2
      <3> QED BY <3>1, <2>1, <2>3, <1>2, <1>4 DEF Once
    <2> QED BY <2>2, <2>3 DEF Touch
  <1>5. ASSUME Once(s, Q), f \in Q => ~Touch(s, Q) PROVE Once(t, Q)
    <2> SUFFICES ASSUME NEW i \in 1 .. Len(t), NEW j \in 1 .. Len(t), t[i] \in Q, t[j] \in Q
                 PROVE  i = j
      BY DEF Once
    <2>1. CASE i = 1 /\ j = 1
      BY <2>1
    <2>2. CASE i = 1 /\ j # 1
      BY <2>2, <1>2, <1>3, <1>5 DEF Touch
    <2>3. CASE i # 1 /\ j = 1
      BY <2>3, <1>2, <1>3, <1>5 DEF Touch
    <2>4. CASE i # 1 /\ j # 1
      <3>1. i - 1 = j - 1
        BY <2>4, <1>3, <1>5 DEF Once
      <3> QED BY <3>1
    <2> QED BY <2>1, <2>2, <2>3, <2>4
  <1> QED BY <1>1, <1>4, <1>5

(* A frame on top: what it adds *)
LEMMA OnTop ==
    ASSUME NEW s \in Seq(Frame), NEW f \in Frame, NEW st, NEW L
    PROVE  /\ <<f>> \o s \in Seq(Frame)
           /\ Busy(<<f>> \o s, st, L)
                <=> \A p \in L : st[p] # "running" => f \in Own(p) \/ Touch(s, Own(p))
           /\ Seated(<<f>> \o s, st, L)
                <=> /\ f \notin Foreign /\ ~Touch(s, Foreign)
                    /\ \A p \in Process :
                          /\ Once(s, Own(p)) /\ (f \in Own(p) => ~Touch(s, Own(p)))
                          /\ f \in Live(p) \/ Touch(s, Live(p)) => st[p] = "called"
                          /\ f \in Dying(p) \/ Touch(s, Dying(p)) => st[p] = "none"
                          /\ f \in Own(p) \/ Touch(s, Own(p)) => p \in L
                          /\ st[p] # "none" => p \in L
  <1>1. PICK t : t = <<f>> \o s
    OBVIOUS
  <1>2. t \in Seq(Frame)
    BY <1>1, Push
  <1>3. \A Q : Touch(t, Q) <=> f \in Q \/ Touch(s, Q)
    BY <1>1, TouchPush
  <1>4. \A Q : Once(t, Q) <=> Once(s, Q) /\ (f \in Q => ~Touch(s, Q))
    BY <1>1, OncePush
  <1>5. Busy(t, st, L) <=> \A p \in L : st[p] # "running" => f \in Own(p) \/ Touch(s, Own(p))
    BY <1>3 DEF Busy
  <1>6. Seated(t, st, L)
                <=> /\ f \notin Foreign /\ ~Touch(s, Foreign)
                    /\ \A p \in Process :
                          /\ Once(s, Own(p)) /\ (f \in Own(p) => ~Touch(s, Own(p)))
                          /\ f \in Live(p) \/ Touch(s, Live(p)) => st[p] = "called"
                          /\ f \in Dying(p) \/ Touch(s, Dying(p)) => st[p] = "none"
                          /\ f \in Own(p) \/ Touch(s, Own(p)) => p \in L
                          /\ st[p] # "none" => p \in L
    BY <1>3, <1>4 DEF Seated
  <1> QED BY <1>1, <1>2, <1>5, <1>6

(* The frames of processes by kind *)
LEMMA OwnFacts ==
    ASSUME NEW p
    PROVE  /\ Own(p) = Live(p) \cup Dying(p) /\ Live(p) \cap Dying(p) = {}
           /\ \A f \in Own(p) : f.at \in {"thread", "exit_process"} /\ f.p = p
           /\ \A f \in Foreign : f.at \in {"thread", "exit_process"}
           /\ CallFrame(p) \subseteq Live(p) /\ CallFrame(p) \cap Foreign = {}
  BY DEF Own, Live, Dying, CallFrame, EndFrame, Foreign, ThreadFrame, ExitFrame

(* Frames that belong to nobody come and go. *)
LEMMA SeatNeutral ==
    ASSUME NEW s \in Seq(Frame), NEW f \in Frame, f.at \notin {"thread", "exit_process"},
           NEW st, NEW L
    PROVE  /\ Busy(<<f>> \o s, st, L) <=> Busy(s, st, L)
           /\ Seated(<<f>> \o s, st, L) <=> Seated(s, st, L)
  <1>1. f \notin Foreign /\ \A p : f \notin Own(p) /\ f \notin Live(p) /\ f \notin Dying(p)
    BY OwnFacts
  <1>2. Busy(<<f>> \o s, st, L) <=> Busy(s, st, L)
    BY <1>1, OnTop DEF Busy
  <1>3. Seated(<<f>> \o s, st, L) <=> Seated(s, st, L)
    BY <1>1, OnTop DEF Seated
  <1> QED BY <1>2, <1>3

LEMMA SeatLike ==
    ASSUME NEW s \in Seq(Frame), NEW f \in Frame, NEW g \in Frame, Like(f, g), NEW st, NEW L
    PROVE  /\ Busy(<<f>> \o s, st, L) => Busy(<<g>> \o s, st, L)
           /\ Seated(<<f>> \o s, st, L) => Seated(<<g>> \o s, st, L)
  <1>1. ASSUME f.at = "thread"
        PROVE  /\ f \in Foreign <=> g \in Foreign
               /\ \A p : /\ f \in Own(p) <=> g \in Own(p)
                         /\ f \in Live(p) <=> g \in Live(p)
                         /\ f \notin Dying(p) /\ g \notin Dying(p)
    <2>1. f \in ThreadFrame /\ g \in ThreadFrame /\ f.p = g.p /\ f.via = g.via
      BY <1>1, FrameKinds DEF Like
    <2>2. f \notin ExitFrame /\ g \notin ExitFrame
      BY <2>1 DEF ThreadFrame, ExitFrame
    <2> QED BY <2>1, <2>2 DEF Own, Live, Dying, CallFrame, EndFrame, Foreign
  <1>2. ASSUME f.at = "exit_process"
        PROVE  /\ f \in Foreign <=> g \in Foreign
               /\ \A p : /\ f \in Own(p) <=> g \in Own(p)
                         /\ f \notin Live(p) /\ g \notin Live(p)
                         /\ f \in Dying(p) <=> g \in Dying(p)
    <2>1. /\ f \in ExitFrame /\ g \in ExitFrame /\ f.p = g.p /\ f.from = g.from
          /\ f.step # "begin" /\ g.step # "begin"
      BY <1>2, FrameKinds DEF Like
    <2>2. f \notin ThreadFrame /\ g \notin ThreadFrame
      BY <2>1 DEF ThreadFrame, ExitFrame
    <2> QED BY <2>1, <2>2 DEF Own, Live, Dying, CallFrame, EndFrame, Foreign
  <1>3. CASE f.at \notin {"thread", "exit_process"}
    <2>1. g.at \notin {"thread", "exit_process"}
      BY <1>3 DEF Like
    <2> QED BY <1>3, <2>1, SeatNeutral
  <1>4. CASE f.at \in {"thread", "exit_process"}
    <2>1. /\ f \in Foreign <=> g \in Foreign
          /\ \A p : /\ f \in Own(p) <=> g \in Own(p)
                    /\ f \in Live(p) <=> g \in Live(p)
                    /\ f \in Dying(p) <=> g \in Dying(p)
      BY <1>1, <1>2, <1>4
    <2>2. Busy(<<f>> \o s, st, L) => Busy(<<g>> \o s, st, L)
      BY <2>1, OnTop
    <2>3. Seated(<<f>> \o s, st, L) => Seated(<<g>> \o s, st, L)
      <3>1. PICK t, u : t = <<f>> \o s /\ u = <<g>> \o s
        OBVIOUS
      <3>2. \A Q : Touch(t, Q) <=> f \in Q \/ Touch(s, Q)
        BY <3>1, TouchPush
      <3>3. \A Q : Touch(u, Q) <=> g \in Q \/ Touch(s, Q)
        BY <3>1, TouchPush
      <3>4. \A p : Once(t, Own(p)) <=> Once(u, Own(p))
        BY <3>1, <2>1, OncePush
      <3> QED BY <3>1, <3>2, <3>3, <3>4, <2>1 DEF Seated
    <2> QED BY <2>2, <2>3
  <1> QED BY <1>3, <1>4

States == [Process -> {"none", "running", "called"}]

(* A process is called, and if it was not on the list it is put there.     *)
LEMMA SeatCall ==
    ASSUME NEW s \in Seq(Frame), NEW q \in Process, NEW f \in CallFrame(q),
           NEW st \in States, NEW L
    PROVE  LET called == [st EXCEPT ![q] = "called"] IN
           /\ f \in Frame
           /\ Busy(s, st, L) => Busy(<<f>> \o s, called, L \cup {q})
           /\ Seated(s, st, L) /\ ~Touch(s, Own(q)) => Seated(<<f>> \o s, called, L \cup {q})
  <1>1. PICK called : called = [st EXCEPT ![q] = "called"]
    OBVIOUS
  <1>2. called[q] = "called" /\ \A p \in Process : p # q => called[p] = st[p]
    BY <1>1 DEF States
  <1>3. /\ f \in Frame /\ f \in Own(q) /\ f \in Live(q) /\ f \notin Foreign /\ f \notin Dying(q)
        /\ f.p = q
    BY OwnFacts DEF CallFrame, Frame
  <1>4. \A p : p # q => f \notin Own(p) /\ f \notin Live(p) /\ f \notin Dying(p)
    BY <1>3, OwnFacts
  <1>5. ASSUME Busy(s, st, L) PROVE Busy(<<f>> \o s, called, L \cup {q})
    <2>1. ASSUME NEW p \in L \cup {q}, called[p] # "running"
          PROVE  f \in Own(p) \/ Touch(s, Own(p))
      <3>1. CASE p \in Process /\ p # q
        BY <3>1, <2>1, <1>2, <1>5 DEF Busy
      <3>2. CASE p = q
        BY <3>2, <1>3
      <3>3. CASE p \notin Process
        <4>1. called[p] = st[p]
          BY <3>3, <1>1
        <4> QED BY <4>1, <3>3, <2>1, <1>5 DEF Busy
      <3> QED BY <3>1, <3>2, <3>3
    <2> QED BY <2>1, <1>3, OnTop
  <1>6. ASSUME Seated(s, st, L), ~Touch(s, Own(q)) PROVE Seated(<<f>> \o s, called, L \cup {q})
    <2>1. ~Touch(s, Live(q)) /\ ~Touch(s, Dying(q))
      BY <1>6, OwnFacts DEF Touch
    <2>2. ASSUME NEW p \in Process
          PROVE  /\ Once(s, Own(p)) /\ (f \in Own(p) => ~Touch(s, Own(p)))
                 /\ f \in Live(p) \/ Touch(s, Live(p)) => called[p] = "called"
                 /\ f \in Dying(p) \/ Touch(s, Dying(p)) => called[p] = "none"
                 /\ f \in Own(p) \/ Touch(s, Own(p)) => p \in L \cup {q}
                 /\ called[p] # "none" => p \in L \cup {q}
      BY <1>2, <1>3, <1>4, <1>6, <2>1 DEF Seated
    <2>3. PICK M : M = L \cup {q}
      OBVIOUS
    <2>4. ~Touch(s, Foreign)
      BY <1>6 DEF Seated
    <2>5. Seated(<<f>> \o s, called, M)
      BY <2>2, <2>3, <2>4, <1>3, OnTop
    <2> QED BY <2>3, <2>5
  <1> QED BY <1>1, <1>3, <1>5, <1>6

(* The process of a frame that is the only one of its owner *)
LEMMA SeatOwner ==
    ASSUME NEW s \in Seq(Frame), NEW f \in Frame, NEW q \in Process, f \in Own(q), NEW st, NEW L,
           Seated(<<f>> \o s, st, L)
    PROVE  /\ q \in L
           /\ ~Touch(s, Own(q)) /\ ~Touch(s, Live(q)) /\ ~Touch(s, Dying(q))
           /\ \A p : p # q => f \notin Own(p) /\ f \notin Live(p) /\ f \notin Dying(p)
           /\ Seated(s, st, L)
  <1>1. q \in L /\ ~Touch(s, Own(q))
    BY OnTop
  <1>2. ~Touch(s, Live(q)) /\ ~Touch(s, Dying(q))
    BY <1>1, OwnFacts DEF Touch
  <1>3. \A p : p # q => f \notin Own(p) /\ f \notin Live(p) /\ f \notin Dying(p)
    BY OwnFacts
  <1>4. Seated(s, st, L)
    <2>1. /\ ~Touch(s, Foreign)
          /\ \A p \in Process :
                /\ Once(s, Own(p))
                /\ Touch(s, Live(p)) => st[p] = "called"
                /\ Touch(s, Dying(p)) => st[p] = "none"
                /\ Touch(s, Own(p)) => p \in L
                /\ st[p] # "none" => p \in L
      BY OnTop
    <2> QED BY <2>1 DEF Seated
  <1> QED BY <1>1, <1>2, <1>3, <1>4

(* The thread of a process returns. *)
LEMMA SeatReturn ==
    ASSUME NEW s \in Seq(Frame), NEW q \in Process, NEW f \in CallFrame(q),
           NEW st \in States, NEW L
    PROVE  LET running == [st EXCEPT ![q] = "running"] IN
           /\ Busy(<<f>> \o s, st, L) => Busy(s, running, L)
           /\ Seated(<<f>> \o s, st, L) => Seated(s, running, L)
  <1>1. PICK running : running = [st EXCEPT ![q] = "running"]
    OBVIOUS
  <1>2. running[q] = "running" /\ \A p : p # q => running[p] = st[p]
    BY <1>1 DEF States
  <1>3. f \in Frame /\ f \in Own(q) /\ f.p = q
    BY DEF CallFrame, Frame, Own
  <1>4. ASSUME Busy(<<f>> \o s, st, L) PROVE Busy(s, running, L)
    <2>1. \A p \in L : st[p] # "running" => f \in Own(p) \/ Touch(s, Own(p))
      BY <1>3, <1>4, OnTop
    <2> QED BY <2>1, <1>2, <1>3, OwnFacts DEF Busy
  <1>5. ASSUME Seated(<<f>> \o s, st, L) PROVE Seated(s, running, L)
    <2>1. /\ q \in L /\ ~Touch(s, Own(q)) /\ ~Touch(s, Live(q)) /\ ~Touch(s, Dying(q))
          /\ Seated(s, st, L)
      BY <1>3, <1>5, SeatOwner
    <2> QED BY <2>1, <1>2 DEF Seated
  <1> QED BY <1>1, <1>4, <1>5

(* The thread of a process ends: it is made to exit by itself.             *)
LEMMA SeatEnd ==
    ASSUME NEW s \in Seq(Frame), NEW q \in Process, NEW f \in CallFrame(q),
           NEW g \in EndFrame(q), g.step = "begin", NEW st, NEW L
    PROVE  /\ Busy(<<f>> \o s, st, L) => Busy(<<g>> \o s, st, L)
           /\ g.from = q /\ Seated(<<f>> \o s, st, L) => Seated(<<g>> \o s, st, L)
  <1>1. /\ f \in Frame /\ f \in Own(q) /\ f \in Live(q) /\ f.p = q
        /\ g \in Frame /\ g \in Own(q) /\ g \in Live(q) /\ g \notin Dying(q) /\ g.p = q
        /\ g.from = q => g \notin Foreign
    BY DEF CallFrame, EndFrame, Frame, Own, Live, Dying, Foreign, ThreadFrame, ExitFrame
  <1>2. Busy(<<f>> \o s, st, L) => Busy(<<g>> \o s, st, L)
    BY <1>1, OnTop, OwnFacts
  <1>3. ASSUME g.from = q, Seated(<<f>> \o s, st, L) PROVE Seated(<<g>> \o s, st, L)
    <2>1. /\ q \in L /\ ~Touch(s, Own(q)) /\ ~Touch(s, Live(q)) /\ ~Touch(s, Dying(q))
          /\ Seated(s, st, L)
      BY <1>1, <1>3, SeatOwner
    <2>2. \A p : p # q => g \notin Own(p) /\ g \notin Live(p) /\ g \notin Dying(p)
      BY <1>1, OwnFacts
    <2>3. st[q] = "called"
      BY <1>1, <1>3, OnTop
    <2>4. ASSUME NEW p \in Process
          PROVE  /\ Once(s, Own(p)) /\ (g \in Own(p) => ~Touch(s, Own(p)))
                 /\ g \in Live(p) \/ Touch(s, Live(p)) => st[p] = "called"
                 /\ g \in Dying(p) \/ Touch(s, Dying(p)) => st[p] = "none"
                 /\ g \in Own(p) \/ Touch(s, Own(p)) => p \in L
                 /\ st[p] # "none" => p \in L
      BY <1>1, <2>1, <2>2, <2>3 DEF Seated
    <2> QED BY <1>1, <1>3, <2>1, <2>4, OnTop DEF Seated
  <1> QED BY <1>2, <1>3

(* exit_process sets the state of its process.                             *)
LEMMA SeatBegin ==
    ASSUME NEW s \in Seq(Frame), NEW q \in Process, NEW f \in EndFrame(q), f.step = "begin",
           NEW g \in EndFrame(q), g.step # "begin", g.from = f.from, NEW st \in States, NEW L
    PROVE  LET none == [st EXCEPT ![q] = "none"] IN
           /\ Busy(<<f>> \o s, st, L) => Busy(<<g>> \o s, none, L)
           /\ Seated(<<f>> \o s, st, L) => Seated(<<g>> \o s, none, L)
  <1>0. PICK none : none = [st EXCEPT ![q] = "none"]
    OBVIOUS
  <1>n. none[q] = "none" /\ \A p : p # q => none[p] = st[p]
    BY <1>0 DEF States
  <1>1. /\ f \in Frame /\ f \in Own(q) /\ f.p = q
        /\ g \in Frame /\ g \in Own(q) /\ g \in Dying(q) /\ g \notin Live(q) /\ g.p = q
        /\ f \notin Foreign => g \notin Foreign
    BY DEF CallFrame, EndFrame, Frame, Own, Live, Dying, Foreign, ThreadFrame, ExitFrame
  <1>2. Busy(<<f>> \o s, st, L) => Busy(<<g>> \o s, none, L)
    BY <1>n, <1>1, OnTop, OwnFacts
  <1>3. ASSUME Seated(<<f>> \o s, st, L) PROVE Seated(<<g>> \o s, none, L)
    <2>1. /\ q \in L /\ ~Touch(s, Own(q)) /\ ~Touch(s, Live(q)) /\ ~Touch(s, Dying(q))
          /\ Seated(s, st, L) /\ f \notin Foreign
      BY <1>1, <1>3, SeatOwner, OnTop
    <2>2. \A p : p # q => g \notin Own(p) /\ g \notin Live(p) /\ g \notin Dying(p)
      BY <1>1, OwnFacts
    <2>3. ASSUME NEW p \in Process
          PROVE  /\ Once(s, Own(p)) /\ (g \in Own(p) => ~Touch(s, Own(p)))
                 /\ g \in Live(p) \/ Touch(s, Live(p)) => none[p] = "called"
                 /\ g \in Dying(p) \/ Touch(s, Dying(p)) => none[p] = "none"
                 /\ g \in Own(p) \/ Touch(s, Own(p)) => p \in L
                 /\ none[p] # "none" => p \in L
      BY <1>1, <1>n, <2>1, <2>2 DEF Seated
    <2> QED BY <1>1, <2>1, <2>3, OnTop DEF Seated
  <1> QED BY <1>0, <1>2, <1>3

(* exit_process returns when its process is off the list.                  *)
LEMMA SeatGone ==
    ASSUME NEW s \in Seq(Frame), NEW q \in Process, NEW f \in EndFrame(q), NEW st, NEW L
    PROVE  /\ Busy(<<f>> \o s, st, L) => Busy(s, st, L \ {q})
           /\ f.step # "begin" /\ Seated(<<f>> \o s, st, L) => Seated(s, st, L \ {q})
  <1>1. f \in Frame /\ f \in Own(q) /\ f.p = q /\ (f.step # "begin" => f \in Dying(q))
    BY DEF EndFrame, Frame, Own, Dying
  <1>2. ASSUME Busy(<<f>> \o s, st, L) PROVE Busy(s, st, L \ {q})
    <2>1. \A p \in L : st[p] # "running" => f \in Own(p) \/ Touch(s, Own(p))
      BY <1>1, <1>2, OnTop
    <2> QED BY <2>1, <1>1, OwnFacts DEF Busy
  <1>3. ASSUME f.step # "begin", Seated(<<f>> \o s, st, L) PROVE Seated(s, st, L \ {q})
    <2>1. ~Touch(s, Own(q)) /\ Seated(s, st, L) /\ st[q] = "none"
      BY <1>1, <1>3, SeatOwner, OnTop
    <2> QED BY <2>1 DEF Seated
  <1> QED BY <1>2, <1>3

-----------------------------------------------------------------------------
(* The walks at the bottom of the stack *)

(* Frame f may lie on g: a do_event lies on nothing and a do_poll on a     *)
(* do_event at most; on a do_poll lies what runs for the process it calls. *)
Rides(f, g) ==
    /\ g.at = "do_poll" => g.called /\ f.at \in {"thread", "exit_process"} /\ f.p = g.p
    /\ f.at = "do_poll" => g.at = "do_event"
    /\ f.at # "do_event"

Ridden(s) == \A i \in 1 .. Len(s) - 1 : Rides(s[i], s[i + 1])

LEMMA RidesPush ==
    ASSUME NEW s \in Seq(Frame), NEW f \in Frame
    PROVE  Ridden(<<f>> \o s) <=> Ridden(s) /\ (s # <<>> => Rides(f, Head(s)))
  <1>1. PICK t : t = <<f>> \o s
    OBVIOUS
  <1>2. /\ Len(t) = Len(s) + 1 /\ t[1] = f /\ Len(s) \in Nat
        /\ \A i \in 1 .. Len(s) : t[i + 1] = s[i]
    BY <1>1, Push
  <1>3. s # <<>> => Head(s) = s[1] /\ 1 \in 1 .. Len(s) /\ 1 \in 1 .. Len(t) - 1
    <2>1. s # <<>> => Head(s) = s[1] /\ Len(s) >= 1
      BY HeadTailProperties
    <2> QED BY <2>1, <1>2
  <1>4. ASSUME NEW i \in 1 .. Len(s) - 1
        PROVE  i + 1 \in 1 .. Len(t) - 1 /\ t[i + 1] = s[i] /\ t[(i + 1) + 1] = s[i + 1]
    <2>1. i \in 1 .. Len(s) /\ i + 1 \in 1 .. Len(s)
      BY <1>2
    <2> QED BY <2>1, <1>2
  <1>5. ASSUME NEW i \in 1 .. Len(t) - 1, i # 1
        PROVE  i - 1 \in 1 .. Len(s) - 1 /\ t[i] = s[i - 1] /\ t[i + 1] = s[(i - 1) + 1]
    <2>1. i - 1 \in 1 .. Len(s) - 1 /\ i - 1 \in 1 .. Len(s) /\ i \in 1 .. Len(s) /\ (i - 1) + 1 = i
      BY <1>2, <1>5
    <2> QED BY <2>1, <1>2
  <1>6. ASSUME Ridden(t) PROVE Ridden(s) /\ (s # <<>> => Rides(f, Head(s)))
    <2>1. ASSUME s # <<>> PROVE Rides(f, Head(s))
      <3>1. Rides(t[1], t[1 + 1]) /\ t[1 + 1] = s[1]
        BY <1>2, <1>3, <1>6, <2>1 DEF Ridden
      <3> QED BY <3>1, <1>2, <1>3, <2>1
    <2>2. ASSUME NEW i \in 1 .. Len(s) - 1 PROVE Rides(s[i], s[i + 1])
      <3>1. Rides(t[i + 1], t[(i + 1) + 1])
        BY <1>4, <1>6 DEF Ridden
      <3> QED BY <3>1, <1>4
    <2> QED BY <2>1, <2>2 DEF Ridden
  <1>7. ASSUME Ridden(s), s # <<>> => Rides(f, Head(s)) PROVE Ridden(t)
    <2> SUFFICES ASSUME NEW i \in 1 .. Len(t) - 1 PROVE Rides(t[i], t[i + 1])
      BY DEF Ridden
    <2>1. CASE i = 1
      <3>1. s # <<>> /\ t[1 + 1] = s[1]
        <4>1. Len(s) >= 1
          BY <2>1, <1>2
        <4> QED BY <4>1, <1>2
      <3> QED BY <2>1, <3>1, <1>2, <1>3, <1>7
    <2>2. CASE i # 1
      <3>1. Rides(s[i - 1], s[(i - 1) + 1])
        BY <2>2, <1>5, <1>7 DEF Ridden
      <3> QED BY <3>1, <2>2, <1>5
    <2> QED BY <2>1, <2>2
  <1> QED BY <1>1, <1>6, <1>7

(* While a walk is on top, no process has a frame.                         *)
LEMMA WalkAlone ==
    ASSUME Sound(stack), Ridden(stack), stack # <<>>, Top.at \in {"do_poll", "do_event"}
    PROVE  \A p : ~Touch(stack, Own(p))
  <1>1. stack \in Seq(Frame) /\ Top = stack[1] /\ Len(stack) \in Nat
    BY HeadTailProperties DEF Sound, Top
  <1>2. \A i \in 1 .. Len(stack) : stack[i].at \in {"do_poll", "do_event"}
    <2>1. \A i \in 1 .. Len(stack) - 1 : stack[i].at # "do_event"
      BY DEF Ridden, Rides
    <2>2. ASSUME 2 \in 1 .. Len(stack) PROVE stack[2].at = "do_event"
      <3>1. 1 \in 1 .. Len(stack) - 1
        BY <2>2, <1>1
      <3>2. Rides(stack[1], stack[1 + 1])
        BY <3>1 DEF Ridden
      <3> QED BY <3>2, <1>1 DEF Rides
    <2>3. ASSUME NEW i \in 1 .. Len(stack), i > 2 PROVE FALSE
      <3>1. 2 \in 1 .. Len(stack) /\ 2 \in 1 .. Len(stack) - 1
        BY <2>3, <1>1
      <3> QED BY <3>1, <2>1, <2>2
    <2>4. \A i \in 1 .. Len(stack) : i = 1 \/ i = 2 \/ i > 2
      BY <1>1
    <2> QED BY <2>2, <2>3, <2>4, <1>1
  <1> QED BY <1>2, OwnFacts DEF Touch

-----------------------------------------------------------------------------
(* What a step does to the stack *)

(* A walk of do_poll that would leave the list *)
Astray == {f \in DoPollFrame : ~(StillVisited(f) \subseteq From(process_list))}

Neutral(f) == f \in Frame /\ f.at \notin {"thread", "exit_process"}

(* Frame f may replace the one on top. *)
Keeps(f) == f \in Frame /\ Like(Top, f) /\ (f \in Astray => Top \in Astray)

(* Stack s has the same frames of processes as the stack.                  *)
Kept(s) ==
    \/ s = stack
    \/ stack = <<>> /\ \E d : Neutral(d) /\ d \notin Astray /\ s = <<d>> \o <<>>
    \/ stack # <<>> /\ \/ Neutral(Top) /\ s = Rest
                       \/ \E f : Keeps(f) /\ s = <<f>> \o Rest
                       \/ \E f, n : /\ Keeps(f) /\ Neutral(n) /\ n \notin Astray /\ Rides(n, f)
                                    /\ s = <<n>> \o (<<f>> \o Rest)

Goes(s) == stack' = s /\ UNCHANGED <<state, lists>>

Calls(q, s) == \E f \in CallFrame(q) : /\ stack' = <<f>> \o s
                                       /\ state' = [state EXCEPT ![q] = "called"]

Starts(q, s) ==
    /\ ~OnList(q)
    /\ process_list' = q /\ next' = [next EXCEPT ![q] = process_list]
    /\ s # <<>> => Head(s).at = "thread"
    /\ \E n \in SynchFrame : Calls(q, <<n>> \o s)

Returns ==
    /\ At("thread")
    /\ stack' = Rest /\ UNCHANGED lists
    /\ state' = IF Top.via = "call_process" THEN [state EXCEPT ![Top.p] = "running"] ELSE state

Ends ==
    /\ At("thread") /\ Top.via = "call_process"
    /\ stack' = <<ExitProcess(Top.p, Top.p)>> \o Rest
    /\ UNCHANGED <<state, lists>>

Move ==
    \/ \E s : Kept(s) /\ \/ Goes(s)
                         \/ /\ s # <<>> => Head(s).at # "do_poll"
                            /\ \E q \in Process : state[q] = "running" /\ Calls(q, s)
                            /\ UNCHANGED lists
                         \/ \E q \in Process : Starts(q, s)
    \/ do_poll_call
    \/ Returns \/ Ends
    \/ \E q \in Process : thread_exit(q)
    \/ exit_thread /\ Top.p # Top.from
    \/ exit_begin \/ exit_unlink

LEMMA KeptFacts ==
    ASSUME Sound(stack), NEW s, Kept(s), NEW st, NEW L
    PROVE  /\ s \in Seq(Frame)
           /\ Busy(stack, st, L) => Busy(s, st, L)
           /\ Seated(stack, st, L) => Seated(s, st, L)
           /\ Ridden(stack) => Ridden(s)
           /\ Touch(s, Astray) => Touch(stack, Astray)
  <1>1. CASE s = stack
    BY <1>1 DEF Sound
  <1>2. CASE stack = <<>> /\ \E d : Neutral(d) /\ d \notin Astray /\ s = <<d>> \o <<>>
    <2>1. PICK d : Neutral(d) /\ d \notin Astray /\ s = <<d>> \o <<>>
      BY <1>2
    <2>2. PICK e : e = stack
      OBVIOUS
    <2>3. e \in Seq(Frame) /\ e = <<>> /\ d \in Frame /\ d.at \notin {"thread", "exit_process"}
          /\ s = <<d>> \o e
      BY <1>2, <2>1, <2>2 DEF Neutral, Sound
    <2>4. s \in Seq(Frame)
      BY <2>3, Push
    <2>5. Ridden(e) => Ridden(s)
      BY <2>3, RidesPush
    <2>6. Touch(<<d>> \o e, Astray) <=> d \in Astray \/ Touch(e, Astray)
      BY <2>3, TouchPush
    <2>7. /\ Busy(<<d>> \o e, st, L) <=> Busy(e, st, L)
          /\ Seated(<<d>> \o e, st, L) <=> Seated(e, st, L)
      BY <2>3, SeatNeutral
    <2> QED BY <2>1, <2>2, <2>3, <2>4, <2>5, <2>6, <2>7
  <1>3. ASSUME stack # <<>>
        PROVE  /\ Top \in Frame /\ Rest \in Seq(Frame) /\ stack = <<Top>> \o Rest
    BY <1>3, SoundPop DEF Sound, Top, Rest
  <1>4. CASE stack # <<>> /\ Neutral(Top) /\ s = Rest
    <2>1. PICK f, R : f = Top /\ R = Rest
      OBVIOUS
    <2>2. f \in Frame /\ R \in Seq(Frame) /\ stack = <<f>> \o R /\ s = R
          /\ f.at \notin {"thread", "exit_process"}
      BY <1>3, <1>4, <2>1 DEF Neutral
    <2> QED BY <2>2, SeatNeutral, RidesPush, TouchPush
  <1>5. ASSUME stack # <<>>, NEW f, Keeps(f)
        PROVE  /\ <<f>> \o Rest \in Seq(Frame) /\ f \in Frame
               /\ Busy(stack, st, L) => Busy(<<f>> \o Rest, st, L)
               /\ Seated(stack, st, L) => Seated(<<f>> \o Rest, st, L)
               /\ Ridden(stack) => Ridden(<<f>> \o Rest)
               /\ Touch(<<f>> \o Rest, Astray) => Touch(stack, Astray)
    <2>1. PICK h, R : h = Top /\ R = Rest
      OBVIOUS
    <2>2. /\ h \in Frame /\ f \in Frame /\ R \in Seq(Frame) /\ stack = <<h>> \o R /\ Like(h, f)
          /\ f \in Astray => h \in Astray
      BY <1>3, <1>5, <2>1 DEF Keeps
    <2>3. R # <<>> /\ Rides(h, Head(R)) => Rides(f, Head(R))
      BY <2>2 DEF Like, Rides
    <2>4. Ridden(stack) => Ridden(<<f>> \o R)
      BY <2>2, <2>3, RidesPush
    <2>5. Touch(<<f>> \o R, Astray) => Touch(stack, Astray)
      BY <2>2, TouchPush
    <2>6. <<f>> \o R \in Seq(Frame)
      BY <2>2, Push
    <2> QED BY <2>1, <2>2, <2>4, <2>5, <2>6, SeatLike
  <1>6. CASE stack # <<>> /\ \E f : Keeps(f) /\ s = <<f>> \o Rest
    BY <1>5, <1>6
  <1>7. CASE /\ stack # <<>>
             /\ \E f, n : /\ Keeps(f) /\ Neutral(n) /\ n \notin Astray /\ Rides(n, f)
                          /\ s = <<n>> \o (<<f>> \o Rest)
    <2>1. PICK f, n : /\ Keeps(f) /\ Neutral(n) /\ n \notin Astray /\ Rides(n, f)
                      /\ s = <<n>> \o (<<f>> \o Rest)
      BY <1>7
    <2>2. PICK t : t = <<f>> \o Rest
      OBVIOUS
    <2>3. /\ t \in Seq(Frame) /\ f \in Frame
          /\ Busy(stack, st, L) => Busy(t, st, L)
          /\ Seated(stack, st, L) => Seated(t, st, L)
          /\ Ridden(stack) => Ridden(t)
          /\ Touch(t, Astray) => Touch(stack, Astray)
      BY <1>5, <1>7, <2>1, <2>2
    <2>4. n \in Frame /\ n.at \notin {"thread", "exit_process"} /\ s = <<n>> \o t
      BY <2>1, <2>2 DEF Neutral
    <2>5. Head(t) = f
      BY <1>3, <1>7, <2>2, <2>3, Push
    <2>6. Ridden(t) => Ridden(s)
      BY <2>1, <2>3, <2>4, <2>5, RidesPush
    <2>7. Touch(<<n>> \o t, Astray) <=> n \in Astray \/ Touch(t, Astray)
      BY <2>3, TouchPush
    <2>8. s \in Seq(Frame)
      BY <2>3, <2>4, Push
    <2>9. /\ Busy(<<n>> \o t, st, L) <=> Busy(t, st, L)
          /\ Seated(<<n>> \o t, st, L) <=> Seated(t, st, L)
      BY <2>3, <2>4, SeatNeutral
    <2> QED BY <2>1, <2>3, <2>4, <2>6, <2>7, <2>8, <2>9
  <1> QED BY <1>1, <1>2, <1>4, <1>6, <1>7 DEF Kept

(* call_process above what is kept *)
LEMMA CallMoves ==
    ASSUME NEW q \in Pointer, NEW ev \in Event, NEW s, Kept(s),
           s # <<>> => Head(s).at # "do_poll",
           call_process(q, ev, s), UNCHANGED lists
    PROVE  Move
  <1>1. CASE q # NULL /\ state[q] = "running"
    <2>1. PICK f : f = Thread(q, ev, "call_process")
      OBVIOUS
    <2>2. q \in Process /\ f \in CallFrame(q)
      BY <1>1, <2>1 DEF Pointer, CallFrame, Thread, ThreadFrame
    <2>3. Calls(q, s)
      BY <1>1, <2>1, <2>2 DEF call_process, Calls
    <2> QED BY <1>1, <2>2, <2>3 DEF Move
  <1>2. CASE ~(q # NULL /\ state[q] = "running")
    <2>1. Goes(s)
      BY <1>2 DEF call_process, Goes
    <2> QED BY <2>1 DEF Move
  <1> QED BY <1>1, <1>2

(* process_start above the thread that called it, or above nothing *)
LEMMA StartMoves ==
    ASSUME TypeOK, NEW q \in Process, NEW s \in Seq(Frame), Kept(s),
           s # <<>> => Head(s).at = "thread", process_start(q, s)
    PROVE  Move
  <1>1. CASE OnList(q)
    <2>1. Goes(s)
      BY <1>1 DEF process_start, Goes
    <2> QED BY <2>1 DEF Move
  <1>2. CASE ~OnList(q)
    <2>1. PICK f, n : f = Thread(q, "INIT", "call_process") /\ n = PostSynch(process_current)
      OBVIOUS
    <2>2. f \in CallFrame(q) /\ n \in SynchFrame /\ f \in Frame /\ n \in Frame
      BY <2>1 DEF CallFrame, Thread, ThreadFrame, PostSynch, SynchFrame, TypeOK, Frame, Event
    <2>3. /\ process_list' = q /\ next' = [next EXCEPT ![q] = process_list]
          /\ state' = [state EXCEPT ![q] = "called"] /\ stack' = <<f, n>> \o s
      BY <1>2, <2>1 DEF process_start
    <2>4. stack' = <<f>> \o (<<n>> \o s)
      BY <2>2, <2>3, PushTwo
    <2>5. Starts(q, s)
      BY <1>2, <2>2, <2>3, <2>4 DEF Starts, Calls
    <2> QED BY <2>5 DEF Move
  <1> QED BY <1>1, <1>2

LEMMA StayMoves ==
    ASSUME UNCHANGED <<lists, state, stack>>
    PROVE  Move
  BY DEF Move, Kept, Goes

LEMMA KeepMoves ==
    ASSUME stack # <<>>, NEW f, Keeps(f), stack' = <<f>> \o Rest, UNCHANGED <<lists, state>>
    PROVE  Move
  <1>1. Kept(<<f>> \o Rest)
    BY DEF Kept
  <1> QED BY <1>1 DEF Move, Goes

(* Interrupts and the main loop *)
LEMMA MainMoves ==
    ASSUME KernelInv, boot \in Seq(Process),
           \/ \E p \in PolledByIsr : isr_poll(p)
           \/ main_start \/ run_polls \/ run_event
    PROVE  Move
  <1>e. /\ <<>> \in Seq(Frame)
        /\ stack = <<>> => Kept(<<>>)
        /\ \A d : stack = <<>> /\ Neutral(d) /\ d \notin Astray => Kept(<<d>>)
    <2>1. \A d \in Frame : <<d>> \o <<>> = <<d>>
      <3> TAKE d \in Frame
      <3>1. <<d>> \in Seq(Frame)
        OBVIOUS
      <3> QED BY <3>1, ConcatEmptySeq
    <2> QED BY <2>1 DEF Kept, Neutral
  <1>1. ASSUME NEW p \in PolledByIsr, isr_poll(p) PROVE Move
    BY <1>1, StayMoves DEF isr_poll
  <1>2. CASE main_start
    <2>1. PICK q \in Process : q = Head(boot)
      BY <1>2, HeadTailProperties DEF main_start
    <2>2. PICK s : s = <<>> /\ s = stack
      BY <1>2 DEF main_start
    <2>3. process_start(q, s) /\ s \in Seq(Frame) /\ Kept(s) /\ ~(s # <<>>)
      BY <1>2, <1>e, <2>1, <2>2 DEF main_start
    <2> QED BY <2>3, StartMoves DEF KernelInv
  <1>3. CASE run_polls
    <2>1. PICK d : d = DoPoll(process_list)
      OBVIOUS
    <2>2. Neutral(d) /\ d \notin Astray
      BY <2>1 DEF KernelInv, TypeOK, Neutral, Frame, DoPoll, DoPollFrame, Astray, StillVisited
    <2>3. stack = <<>> /\ (stack' = <<d>> \/ stack' = <<>>) /\ UNCHANGED <<lists, state>>
      BY <1>3, <2>1 DEF run_polls
    <2>4. Goes(stack') /\ Kept(<<d>>) /\ Kept(<<>>)
      BY <2>2, <2>3, <1>e DEF Goes
    <2>5. PICK s : s = stack' /\ Kept(s)
      BY <2>3, <2>4
    <2>6. Goes(s)
      BY <2>3, <2>5 DEF Goes
    <2> QED BY <2>5, <2>6 DEF Move
  <1>4. CASE run_event
    <2>1. CASE queue = <<>>
      BY <2>1, <1>4, StayMoves DEF run_event
    <2>2. CASE queue # <<>>
      <3>1. PICK e : e = Head(queue)
        OBVIOUS
      <3>2. e \in [ev : Event, to : Pointer]
        BY <2>2, <3>1, HeadTailProperties DEF KernelInv, TypeOK
      <3>3. CASE e.to = NULL
        <4>1. PICK d : d = DoEvent(e.ev)
          OBVIOUS
        <4>2. e.ev \in Event /\ process_list \in Pointer /\ From(process_list) \in SUBSET Process
          BY <3>2, FromType DEF KernelInv, TypeOK
        <4>3. d \in DoEventFrame /\ d.at = "do_event"
          BY <4>1, <4>2 DEF DoEvent, DoEventFrame
        <4>4. Neutral(d) /\ d \notin Astray
          BY <4>3 DEF Neutral, Frame, Astray, DoPollFrame
        <4>5. stack = <<>> /\ stack' = <<d>> /\ UNCHANGED <<lists, state>>
          BY <1>4, <2>2, <3>1, <3>3, <4>1 DEF run_event
        <4>6. Kept(<<d>>) /\ Goes(<<d>>)
          BY <4>4, <4>5, <1>e DEF Goes
        <4> QED BY <4>6 DEF Move
      <3>4. CASE e.to # NULL
        <4>1. PICK q \in Pointer, ev \in Event : q = e.to /\ ev = e.ev
          BY <3>2
        <4>2. PICK s : s = <<>> /\ s = stack
          BY <1>4 DEF run_event
        <4>3. call_process(q, ev, s) /\ UNCHANGED lists /\ Kept(s) /\ ~(s # <<>>)
          BY <1>4, <1>e, <2>2, <3>1, <3>4, <4>1, <4>2 DEF run_event
        <4> QED BY <4>3, CallMoves
      <3> QED BY <3>3, <3>4
    <2> QED BY <2>1, <2>2
  <1> QED BY <1>1, <1>2, <1>3, <1>4

(* The walks of do_poll and of do_event, the return of a synchronous call  *)
LEMMA WalkMoves ==
    ASSUME KernelInv,
           \/ do_poll_call \/ do_poll_next \/ do_poll_end
           \/ broadcast_check \/ broadcast_call \/ broadcast_next \/ broadcast_end
           \/ synch_return
    PROVE  Move
  <1>0. /\ stack # <<>> /\ Top \in Frame /\ Rest \in Seq(Frame) /\ TypeOK
        /\ Top.at \in {"do_poll", "do_event", "process_post_synch"}
    <2>1. stack # <<>> /\ Top.at \in {"do_poll", "do_event", "process_post_synch"}
      BY DEF do_poll_call, do_poll_next, do_poll_end, broadcast_check, broadcast_call,
             broadcast_next, broadcast_end, synch_return, At
    <2> QED BY <2>1, TopFacts DEF KernelInv, Sound
  <1>n. next \in [Process -> Pointer]
    BY <1>0 DEF TypeOK
  <1>k. \A f : f \in Frame /\ f.at = Top.at /\ f \notin Astray => Keeps(f)
    BY <1>0 DEF Keeps, Like
  <1>l. \A f : f.at = "do_event" => f \notin Astray
    BY DEF Astray, DoPollFrame
  <1>1. CASE do_poll_call
    BY <1>1 DEF Move
  <1>2. CASE do_poll_next
    <2>1. PICK f : f = DoPoll(next[Top.p])
      OBVIOUS
    <2>2. Top \in DoPollFrame /\ Top.p \in Process /\ Top.at = "do_poll"
      <3>1. Top.at = "do_poll" /\ Top.p # NULL
        BY <1>2 DEF do_poll_next, At
      <3> QED BY <3>1, <1>0, FrameKinds DEF DoPollFrame, Pointer
    <2>3. f \in DoPollFrame /\ f.at = "do_poll" /\ ~f.called /\ f.p = next[Top.p]
      BY <2>1, <2>2, <1>n DEF DoPoll, DoPollFrame
    <2>4. StillVisited(f) \subseteq StillVisited(Top)
      <3>1. StillVisited(f) = From(next[Top.p])
        BY <2>3 DEF StillVisited
      <3>2. From(next[Top.p]) \subseteq From(Top.p)
        BY <2>2, <1>n, KernelAssumption, FromFacts DEF Pointer
      <3> QED BY <3>1, <3>2 DEF StillVisited
    <2>5. Keeps(f)
      BY <2>2, <2>3, <2>4 DEF Keeps, Frame, Like, Astray
    <2> QED BY <1>0, <1>2, <2>1, <2>5, KeepMoves DEF do_poll_next
  <1>3. CASE do_poll_end \/ broadcast_end \/ synch_return
    <2>1. Kept(Rest)
      BY <1>0 DEF Kept, Neutral
    <2>2. Goes(Rest)
      BY <1>3 DEF do_poll_end, broadcast_end, synch_return, Goes
    <2> QED BY <2>1, <2>2 DEF Move
  <1>4. CASE broadcast_check
    <2>1. PICK d, g, R : d = DoPoll(process_list) /\ g = [Top EXCEPT !.step = "call"] /\ R = Rest
      OBVIOUS
    <2>2. /\ stack' = ((IF poll_requested THEN <<d>> ELSE <<>>) \o <<g>>) \o R
          /\ UNCHANGED <<lists, state>> /\ Top.at = "do_event" /\ Top.step = "check" /\ Top.p # NULL
      BY <1>4, <2>1 DEF broadcast_check, At
    <2>3. g \in Frame /\ g.at = "do_event"
      <3>1. Top \in DoEventFrame
        BY <1>0, <2>2, FrameKinds
      <3> QED BY <2>1, <2>2, <3>1 DEF DoEventFrame, Pointer, Frame
    <2>4. Neutral(d) /\ d \notin Astray /\ Rides(d, g)
      BY <1>0, <2>1, <2>3
         DEF TypeOK, Neutral, Frame, DoPoll, DoPollFrame, Astray, StillVisited, Rides
    <2>5. Keeps(g)
      BY <2>2, <2>3, <1>k, <1>l
    <2>6. (<<d>> \o <<g>>) \o R = <<d>> \o (<<g>> \o R) /\ <<>> \o <<g>> = <<g>>
      <3>1. <<d>> \in Seq(Frame) /\ <<g>> \in Seq(Frame) /\ R \in Seq(Frame)
        BY <1>0, <2>1, <2>3, <2>4 DEF Neutral
      <3> QED BY <3>1, ConcatAssociative, ConcatEmptySeq
    <2>7. CASE poll_requested
      <3>1. PICK s : s = <<d>> \o (<<g>> \o R)
        OBVIOUS
      <3>2. Kept(s)
        BY <1>0, <2>1, <2>4, <2>5, <3>1 DEF Kept
      <3>3. Goes(s)
        BY <2>2, <2>6, <2>7, <3>1 DEF Goes
      <3> QED BY <3>2, <3>3 DEF Move
    <2>8. CASE ~poll_requested
      BY <1>0, <2>1, <2>2, <2>5, <2>6, <2>8, KeepMoves
    <2> QED BY <2>7, <2>8
  <1>5. CASE broadcast_call
    <2>1. PICK g : g = IF state[Top.p] = "running"
                         THEN [Top EXCEPT !.step = "called", !.got = @ \cup {Top.p},
                                          !.twice = @ \/ Top.p \in Top.got]
                         ELSE [Top EXCEPT !.step = "called"]
      OBVIOUS
    <2>2. /\ call_process(Top.p, Top.ev, <<g>> \o Rest) /\ UNCHANGED lists
          /\ Top.at = "do_event" /\ Top.step = "call"
      BY <1>5, <2>1 DEF broadcast_call, At
    <2>3. Top \in DoEventFrame
      BY <1>0, <2>2, FrameKinds
    <2>4. Top.p \in Process /\ Top.ev \in Event /\ Top.got \in SUBSET Process /\ Top.twice \in BOOLEAN
      BY <2>2, <2>3 DEF DoEventFrame
    <2>5. g \in Frame /\ g.at = "do_event"
      <3>1. (Top.twice \/ Top.p \in Top.got) \in BOOLEAN /\ Top.got \cup {Top.p} \in SUBSET Process
        BY <2>4
      <3>2. g \in DoEventFrame /\ g.at = "do_event"
        BY <2>1, <2>2, <2>3, <3>1 DEF DoEventFrame
      <3> QED BY <3>2 DEF Frame
    <2>6. PICK s, q, ev : s = <<g>> \o Rest /\ q = Top.p /\ ev = Top.ev
      OBVIOUS
    <2>7. Kept(s) /\ Head(s).at # "do_poll" /\ q \in Pointer /\ ev \in Event
      <3>1. Keeps(g) /\ Head(s) = g
        BY <1>0, <2>2, <2>5, <2>6, <1>k, <1>l, Push
      <3> QED BY <3>1, <1>0, <2>4, <2>5, <2>6 DEF Kept, Pointer
    <2> QED BY <2>2, <2>6, <2>7, CallMoves
  <1>6. CASE broadcast_next
    <2>1. PICK g : g = [Top EXCEPT !.step = "check", !.p = next[Top.p]]
      OBVIOUS
    <2>2. /\ stack' = <<g>> \o Rest /\ UNCHANGED <<lists, state>>
          /\ Top.at = "do_event" /\ Top.step = "called"
      BY <1>6, <2>1 DEF broadcast_next, At
    <2>3. Top \in DoEventFrame
      BY <1>0, <2>2, FrameKinds
    <2>4. g \in DoEventFrame /\ g.at = "do_event"
      <3>1. next[Top.p] \in Pointer
        BY <2>2, <2>3, <1>n DEF DoEventFrame
      <3> QED BY <2>1, <2>2, <2>3, <3>1 DEF DoEventFrame
    <2>5. Keeps(g)
      BY <2>2, <2>4, <1>k, <1>l DEF Frame
    <2> QED BY <1>0, <2>2, <2>5, KeepMoves
  <1> QED BY <1>1, <1>2, <1>3, <1>4, <1>5, <1>6

LEMMA ExitMoves ==
    ASSUME KernelInv, exit_begin \/ exit_tell \/ exit_next \/ exit_thread \/ exit_unlink
    PROVE  Move
  <1>0. /\ stack # <<>> /\ Top \in ExitFrame /\ Top.at = "exit_process" /\ Top \in Frame
        /\ Rest \in Seq(Frame) /\ TypeOK
    <2>1. stack # <<>> /\ Top.at = "exit_process"
      BY DEF exit_begin, exit_tell, exit_next, exit_thread, exit_unlink, At
    <2> QED BY <2>1, TopFacts, FrameKinds DEF KernelInv, Sound
  <1>n. next \in [Process -> Pointer]
    BY <1>0 DEF TypeOK
  <1>k. ASSUME NEW g \in ExitFrame, g.p = Top.p, g.from = Top.from,
               g.step # "begin", Top.step # "begin"
        PROVE  Keeps(g) /\ g \in Frame /\ g.at = "exit_process"
    <2>1. g.at = "exit_process" /\ g \in Frame
      BY <1>k DEF ExitFrame, Frame
    <2>2. g \notin Astray
      BY <2>1 DEF Astray, DoPollFrame
    <2> QED BY <1>0, <1>k, <2>1, <2>2 DEF Keeps, Like
  <1>1. CASE exit_begin \/ exit_unlink
    BY <1>1 DEF Move
  <1>2. CASE exit_tell
    <2>1. PICK g, q : /\ g = [Top EXCEPT !.step = "told",
                                !.told = IF state[Top.q] = "running" THEN @ \cup {Top.q} ELSE @]
                      /\ q = IF Top.q = Top.p THEN NULL ELSE Top.q
      OBVIOUS
    <2>2. /\ call_process(q, "EXITED", <<g>> \o Rest) /\ UNCHANGED lists
          /\ Top.step = "tell" /\ Top.q # NULL
      BY <1>2, <2>1 DEF exit_tell
    <2>3. g \in ExitFrame /\ g.p = Top.p /\ g.from = Top.from /\ g.step # "begin"
      BY <1>0, <2>1, <2>2 DEF ExitFrame, Pointer
    <2>4. PICK s : s = <<g>> \o Rest
      OBVIOUS
    <2>5. Keeps(g) /\ g.at = "exit_process" /\ Head(s) = g
      BY <1>0, <1>k, <2>2, <2>3, <2>4, Push
    <2>6. Kept(s)
      BY <1>0, <2>4, <2>5 DEF Kept
    <2>7. q \in Pointer /\ "EXITED" \in Event
      BY <1>0, <2>1 DEF ExitFrame, Pointer, Event
    <2> QED BY <2>2, <2>4, <2>5, <2>6, <2>7, CallMoves
  <1>3. CASE exit_next
    <2>1. PICK g : g = [Top EXCEPT !.step = "tell", !.q = next[Top.q]]
      OBVIOUS
    <2>2. /\ stack' = <<g>> \o Rest /\ UNCHANGED <<lists, state>> /\ Top.step = "told"
      BY <1>3, <2>1 DEF exit_next
    <2>3. g \in ExitFrame /\ g.p = Top.p /\ g.from = Top.from /\ g.step # "begin"
      <3>1. Top.q \in Process
        BY <1>0, <2>2 DEF ExitFrame
      <3>2. next[Top.q] \in Pointer
        BY <3>1, <1>n
      <3> QED BY <1>0, <2>1, <3>2 DEF ExitFrame
    <2> QED BY <1>0, <1>k, <2>2, <2>3, KeepMoves
  <1>4. CASE exit_thread
    <2>1. CASE Top.p # Top.from
      BY <1>4, <2>1 DEF Move
    <2>2. CASE Top.p = Top.from
      <3>1. PICK g : g = [Top EXCEPT !.step = "unlink"]
        OBVIOUS
      <3>2. stack' = <<g>> \o Rest /\ UNCHANGED <<lists, state>> /\ Top.step = "tell"
        BY <1>4, <2>2, <3>1 DEF exit_thread
      <3>3. g \in ExitFrame /\ g.p = Top.p /\ g.from = Top.from /\ g.step # "begin"
        BY <1>0, <3>1, <3>2 DEF ExitFrame
      <3> QED BY <1>0, <1>k, <3>2, <3>3, KeepMoves
    <2> QED BY <2>1, <2>2
  <1> QED BY <1>1, <1>2, <1>3, <1>4

(* The code of a process *)
LEMMA ThreadMoves ==
    ASSUME KernelInv, Activity
    PROVE  Move
  <1>0. /\ stack # <<>> /\ Top \in ThreadFrame /\ Top.at = "thread" /\ Top \in Frame
        /\ Rest \in Seq(Frame) /\ TypeOK
    <2>1. stack # <<>> /\ Top.at = "thread"
      BY DEF Activity, thread_poll, thread_post_synch, thread_start, thread_exit, thread_post,
             thread_wait, thread_end, thread_pause, thread_continue, CanCall, At
    <2> QED BY <2>1, TopFacts, FrameKinds DEF KernelInv, Sound
  <1>c. Keeps(Caller) /\ Caller \in Frame /\ Caller.at = "thread"
    <2>1. PICK g : g = Caller
      OBVIOUS
    <2>2. /\ g \in ThreadFrame /\ g.at = "thread" /\ g.p = Top.p /\ g.via = Top.via
      BY <1>0, <2>1 DEF Caller, ThreadFrame
    <2>3. g \notin Astray /\ g \in Frame
      BY <2>2 DEF Astray, DoPollFrame, Frame
    <2> QED BY <1>0, <2>1, <2>2, <2>3 DEF Keeps, Like
  <1>h. /\ Kept(<<Caller>> \o Rest) /\ <<Caller>> \o Rest \in Seq(Frame)
        /\ Head(<<Caller>> \o Rest) = Caller
    BY <1>0, <1>c, Push DEF Kept
  <1>1. ASSUME NEW q \in Process, thread_poll(q) PROVE Move
    BY <1>0, <1>1, <1>c, KeepMoves DEF thread_poll
  <1>2. ASSUME NEW q \in Process, thread_post_synch(q) PROVE Move
    <2>1. PICK n, c : n = PostSynch(process_current) /\ c = Caller
      OBVIOUS
    <2>2. n \in Frame /\ n.at = "process_post_synch"
      BY <1>0, <2>1 DEF TypeOK, PostSynch, SynchFrame, Frame
    <2>3. Neutral(n) /\ n \notin Astray /\ Rides(n, c)
      BY <1>c, <2>1, <2>2 DEF Neutral, Astray, DoPollFrame, Rides
    <2>4. PICK s : s = <<n>> \o (<<c>> \o Rest)
      OBVIOUS
    <2>5. s = <<n, c>> \o Rest /\ Head(s) = n
      BY <1>0, <1>c, <1>h, <2>1, <2>2, <2>4, PushTwo, Push
    <2>6. Kept(s)
      BY <1>0, <1>c, <2>1, <2>3, <2>4 DEF Kept
    <2>7. call_process(q, "MSG", s) /\ UNCHANGED lists /\ q \in Pointer /\ "MSG" \in Event
      BY <1>2, <2>1, <2>5 DEF thread_post_synch, Pointer, Event
    <2> QED BY <2>2, <2>5, <2>6, <2>7, CallMoves
  <1>3. ASSUME NEW q \in Process, thread_start(q) PROVE Move
    <2>1. PICK s : s = <<Caller>> \o Rest
      OBVIOUS
    <2>2. process_start(q, s)
      BY <1>3, <2>1 DEF thread_start
    <2> QED BY <1>0, <1>c, <1>h, <2>1, <2>2, StartMoves
  <1>4. ASSUME NEW q \in Process, thread_exit(q) PROVE Move
    BY <1>4 DEF Move
  <1>5. ASSUME NEW to \in Pointer, thread_post(to) PROVE Move
    BY <1>0, <1>5, <1>c, KeepMoves DEF thread_post
  <1>6. ASSUME NEW ended, Returned(ended), UNCHANGED lists PROVE Returns \/ Ends
    <2>1. Top.via = "exit_process" \/ Top.via = "call_process"
      BY <1>0 DEF ThreadFrame
    <2>2. At("thread")
      BY <1>0 DEF At
    <2> QED BY <2>1, <2>2, <1>6 DEF Returned, Returns, Ends
  <1>7. CASE thread_wait \/ thread_end \/ thread_pause
    BY <1>6, <1>7 DEF thread_wait, thread_end, thread_pause, Move
  <1>8. CASE thread_continue
    BY <1>8, StayMoves DEF thread_continue
  <1> QED BY <1>1, <1>2, <1>3, <1>4, <1>5, <1>7, <1>8 DEF Activity

(* Every step of the system is one of these. *)
LEMMA Moves ==
    ASSUME KernelInv, boot \in Seq(Process), [Next]_vars
    PROVE  Move
  <1>1. CASE main_start \/ run_polls \/ run_event \/ \E p \in PolledByIsr : isr_poll(p)
    BY <1>1, MainMoves
  <1>2. CASE Walk
    BY <1>2, WalkMoves, ExitMoves DEF Walk
  <1>3. CASE Activity
    BY <1>3, ThreadMoves
  <1>4. CASE UNCHANGED vars
    BY <1>4, StayMoves DEF vars
  <1> QED BY <1>1, <1>2, <1>3, <1>4 DEF Next, Main

-----------------------------------------------------------------------------
(* Each move keeps who has a frame *)

LEMMA SameList ==
    ASSUME UNCHANGED lists
    PROVE  /\ From(process_list)' = From(process_list)
           /\ NeverRound => NeverRound'
           /\ Astray' = Astray
  <1>1. process_list' = process_list /\ next' = next
    BY DEF lists
  <1>2. \A p : From(p)' = From(p)
    BY SameLists
  <1> QED BY <1>1, <1>2 DEF NeverRound, Astray, StillVisited

LEMMA TopAndRest ==
    ASSUME KernelInv, stack # <<>>
    PROVE  stack = <<Top>> \o Rest /\ Top \in Frame /\ Rest \in Seq(Frame)
  BY SoundPop DEF KernelInv, Sound, Top, Rest

(* A walk below another frame has called a process that is on the list.    *)
LEMMA WalksWait ==
    ASSUME NEW s \in Seq(Frame), NEW st, NEW L, Seated(s, st, L), Ridden(s),
           NEW i \in 1 .. Len(s), i # 1, s[i] \in DoPollFrame
    PROVE  s[i].called /\ s[i].p \in Process /\ s[i].p \in L
  <1>1. i - 1 \in 1 .. Len(s) /\ i - 1 \in 1 .. Len(s) - 1 /\ (i - 1) + 1 = i
    OBVIOUS
  <1>2. PICK f, g : f = s[i - 1] /\ g = s[i]
    OBVIOUS
  <1>3. Rides(f, g)
    <2>1. Rides(s[i - 1], s[(i - 1) + 1])
      BY <1>1 DEF Ridden
    <2> QED BY <2>1, <1>1, <1>2
  <1>4. g.called /\ f.at \in {"thread", "exit_process"} /\ f.p = g.p /\ g.p \in Process
    BY <1>2, <1>3 DEF Rides, DoPollFrame
  <1>5. f \in Frame /\ f \notin Foreign
    BY <1>1, <1>2 DEF Seated, Touch
  <1>6. f \in Own(g.p)
    BY <1>4, <1>5, FrameKinds DEF Own, CallFrame, EndFrame, Foreign
  <1>7. Touch(s, Own(g.p))
    BY <1>1, <1>2, <1>6 DEF Touch
  <1> QED BY <1>2, <1>4, <1>7 DEF Seated

(* The moves that change nobody's state and the list neither *)
LEMMA KeptStep ==
    ASSUME KernelInv, NeverRound, Busy(stack, state, From(process_list)), Ridden(stack),
           NEW s, Kept(s), Goes(s)
    PROVE  /\ NeverRound' /\ Busy(stack', state', From(process_list)') /\ Ridden(stack')
           /\ Seated(stack, state, From(process_list)) /\ ~Touch(stack, Astray)
                => Seated(stack', state', From(process_list)') /\ ~Touch(stack', Astray')
  <1>1. From(process_list)' = From(process_list) /\ Astray' = Astray /\ NeverRound'
    BY SameList DEF Goes
  <1>2. stack' = s /\ state' = state
    BY DEF Goes
  <1> QED BY <1>1, <1>2, KeptFacts DEF KernelInv

(* A running process is called. *)
LEMMA CalledStep ==
    ASSUME KernelInv, NeverRound, Busy(stack, state, From(process_list)), Ridden(stack),
           NEW s, Kept(s), s # <<>> => Head(s).at # "do_poll",
           NEW q \in Process, state[q] = "running", Calls(q, s), UNCHANGED lists
    PROVE  /\ NeverRound' /\ Busy(stack', state', From(process_list)') /\ Ridden(stack')
           /\ Seated(stack, state, From(process_list)) /\ ~Touch(stack, Astray)
                => Seated(stack', state', From(process_list)') /\ ~Touch(stack', Astray')
  <1>1. From(process_list)' = From(process_list) /\ Astray' = Astray /\ NeverRound'
    BY SameList
  <1>2. PICK L, st, A : L = From(process_list) /\ st = state /\ A = Astray
    OBVIOUS
  <1>3. PICK f \in CallFrame(q) : stack' = <<f>> \o s /\ state' = [state EXCEPT ![q] = "called"]
    BY DEF Calls
  <1>4. PICK called, t : called = [st EXCEPT ![q] = "called"] /\ t = <<f>> \o s
    OBVIOUS
  <1>5. /\ s \in Seq(Frame) /\ Busy(s, st, L) /\ Ridden(s)
        /\ Seated(stack, st, L) => Seated(s, st, L)
        /\ Touch(s, A) => Touch(stack, A)
    BY <1>2, KeptFacts DEF KernelInv
  <1>6. f \in Frame /\ f.at = "thread" /\ f \notin A
    BY <1>2 DEF CallFrame, ThreadFrame, Frame, Astray, DoPollFrame
  <1>7. st \in States /\ st[q] = "running"
    BY <1>2 DEF KernelInv, TypeOK, States
  <1>8. Busy(t, called, L \cup {q}) /\ (Seated(s, st, L) /\ ~Touch(s, Own(q)) => Seated(t, called, L \cup {q}))
    BY <1>4, <1>5, <1>7, SeatCall
  <1>9. Busy(t, called, L)
    BY <1>8 DEF Busy
  <1>10. Ridden(t)
    BY <1>4, <1>5, <1>6, RidesPush DEF Rides
  <1>11. ~Touch(s, A) => ~Touch(t, A)
    BY <1>4, <1>5, <1>6, TouchPush
  <1>12. ASSUME Seated(s, st, L) PROVE Seated(t, called, L)
    <2>1. q \in L /\ ~Touch(s, Live(q)) /\ ~Touch(s, Dying(q))
      BY <1>7, <1>12 DEF Seated
    <2>2. ~Touch(s, Own(q))
      BY <2>1, OwnFacts DEF Touch
    <2>3. L \cup {q} = L
      BY <2>1
    <2> QED BY <2>2, <2>3, <1>8, <1>12
  <1> QED BY <1>1, <1>2, <1>3, <1>4, <1>5, <1>9, <1>10, <1>11, <1>12

(* What a process on the list leads to after a step is on the list then.   *)
LEMMA FromClosedAfter ==
    ASSUME NEW h, NEW r \in Process, r \in From(h)'
    PROVE  From(next[r])' \subseteq From(h)'
  <1>1. PICK y : y = next'[r]
    OBVIOUS
  <1>2. ASSUME NEW S \in SUBSET Process, Holds(S, h)' PROVE Holds(S, y)'
    <2>1. r \in S
      BY <1>2 DEF From
    <2> QED BY <2>1, <1>1, <1>2 DEF Holds
  <1>3. From(y)' \subseteq From(h)'
    BY <1>2 DEF From
  <1> QED BY <1>1, <1>3

(* A process is put on the list and called. *)
LEMMA StartedStep ==
    ASSUME KernelInv, NeverRound, Busy(stack, state, From(process_list)), Ridden(stack),
           NEW s, Kept(s), NEW q \in Process, Starts(q, s)
    PROVE  /\ NeverRound' /\ Busy(stack', state', From(process_list)') /\ Ridden(stack')
           /\ Seated(stack, state, From(process_list)) /\ ~Touch(stack, Astray)
                => Seated(stack', state', From(process_list)') /\ ~Touch(stack', Astray')
  <1>1. /\ From(process_list)' = From(process_list) \cup {q} /\ NeverRound'
        /\ \A x \in Pointer : q \notin From(x) => From(x)' = From(x)
    BY LinkWays DEF Starts, KernelInv
  <1>2. PICK L, st : L = From(process_list) /\ st = state
    OBVIOUS
  <1>3. PICK n \in SynchFrame : Calls(q, <<n>> \o s)
    BY DEF Starts
  <1>4. PICK f \in CallFrame(q) : /\ stack' = <<f>> \o (<<n>> \o s)
                                  /\ state' = [state EXCEPT ![q] = "called"]
    BY <1>3 DEF Calls
  <1>5. /\ s \in Seq(Frame) /\ Busy(s, st, L) /\ Ridden(s)
        /\ Seated(stack, st, L) => Seated(s, st, L)
        /\ Touch(s, Astray) => Touch(stack, Astray)
    BY <1>2, KeptFacts DEF KernelInv
  <1>6. /\ n \in Frame /\ n.at = "process_post_synch" /\ n \notin DoPollFrame
        /\ f \in Frame /\ f.at = "thread" /\ f \notin DoPollFrame
    BY DEF CallFrame, ThreadFrame, SynchFrame, Frame, DoPollFrame
  <1>7. PICK called, u, t : /\ called = [st EXCEPT ![q] = "called"]
                            /\ u = <<n>> \o s /\ t = <<f>> \o u
    OBVIOUS
  <1>8. /\ u \in Seq(Frame) /\ u # <<>> /\ Head(u) = n
        /\ Busy(u, st, L) /\ (Seated(u, st, L) <=> Seated(s, st, L))
    BY <1>5, <1>6, <1>7, Push, SeatNeutral
  <1>9. Ridden(u)
    BY <1>5, <1>6, <1>7, RidesPush DEF Rides, Starts
  <1>10. Ridden(t)
    BY <1>6, <1>7, <1>8, <1>9, RidesPush DEF Rides
  <1>11. st \in States
    BY <1>2 DEF KernelInv, TypeOK, States
  <1>12. Busy(t, called, L \cup {q})
    BY <1>7, <1>8, <1>11, SeatCall
  <1>13. ASSUME Seated(s, st, L) PROVE Seated(t, called, L \cup {q})
    <2>1. q \notin L
      BY <1>2 DEF Starts, OnList
    <2>2. ~Touch(u, Own(q)) /\ Seated(u, st, L)
      BY <2>1, <1>8, <1>13 DEF Seated
    <2> QED BY <2>2, <1>7, <1>8, <1>11, SeatCall
  <1>14. ASSUME Seated(s, st, L), ~Touch(s, Astray) PROVE ~Touch(t, Astray')
    <2>1. ASSUME NEW i \in 1 .. Len(s), s[i] \in DoPollFrame PROVE s[i] \notin Astray'
      <3>1. PICK g : g = s[i]
        OBVIOUS
      <3>2. i # 1
        <4>1. s # <<>> /\ Head(s) = s[1]
          BY <2>1, <1>5
        <4> QED BY <4>1, <2>1 DEF Starts, DoPollFrame
      <3>3. g.called /\ g.p \in Process /\ g.p \in L
        BY <2>1, <3>1, <3>2, <1>5, <1>14, WalksWait
      <3>4. From(next[g.p]) \subseteq L
        BY <2>1, <3>1, <3>3, <1>2, <1>14 DEF Astray, Touch, StillVisited
      <3>5. PICK y : y = next[g.p]
        OBVIOUS
      <3>6. q \notin L /\ y \in Pointer /\ next'[g.p] = y
        BY <3>3, <3>5, <1>2 DEF Starts, OnList, KernelInv, TypeOK
      <3>7. From(y)' = From(y)
        BY <3>4, <3>5, <3>6, <1>1
      <3>8. StillVisited(g)' \subseteq From(process_list)'
        BY <3>3, <3>4, <3>5, <3>6, <3>7, <1>1, <1>2 DEF StillVisited
      <3> QED BY <3>1, <3>8 DEF Astray
    <2>2. PICK A : A = Astray'
      OBVIOUS
    <2>3. A \subseteq DoPollFrame
      BY <2>2 DEF Astray
    <2>4. ~Touch(s, A)
      BY <2>1, <2>2, <2>3 DEF Touch
    <2>5. ~Touch(u, A)
      BY <2>3, <2>4, <1>5, <1>6, <1>7, TouchPush
    <2>6. ~Touch(t, A)
      BY <2>3, <2>5, <1>6, <1>7, <1>8, TouchPush
    <2> QED BY <2>2, <2>6
  <1> QED BY <1>1, <1>2, <1>4, <1>5, <1>7, <1>10, <1>12, <1>13, <1>14

(* do_poll calls the process it stands on. *)
LEMMA PolledCallStep ==
    ASSUME KernelInv, NeverRound, Busy(stack, state, From(process_list)), Ridden(stack),
           do_poll_call
    PROVE  /\ NeverRound' /\ Busy(stack', state', From(process_list)') /\ Ridden(stack')
           /\ Seated(stack, state, From(process_list)) /\ ~Touch(stack, Astray)
                => Seated(stack', state', From(process_list)') /\ ~Touch(stack', Astray')
  <1>1. stack # <<>> /\ Top.at = "do_poll" /\ ~Top.called /\ Top.p # NULL /\ UNCHANGED lists
    BY DEF do_poll_call, At
  <1>2. From(process_list)' = From(process_list) /\ Astray' = Astray /\ NeverRound'
    BY <1>1, SameList
  <1>3. PICK L, st, R, h : L = From(process_list) /\ st = state /\ R = Rest /\ h = Top
    OBVIOUS
  <1>4. stack = <<h>> \o R /\ h \in Frame /\ R \in Seq(Frame)
    BY <1>1, <1>3, TopAndRest
  <1>5. h \in DoPollFrame
    BY <1>1, <1>3, <1>4, FrameKinds
  <1>6. PICK q \in Process : q = h.p
    BY <1>1, <1>3, <1>5 DEF DoPollFrame, Pointer
  <1>7. PICK f, g : f = Thread(q, "POLL", "call_process") /\ g = [h EXCEPT !.called = TRUE]
    OBVIOUS
  <1>8. /\ f \in CallFrame(q) /\ f \in Frame /\ f.at = "thread" /\ f.p = q /\ f \notin DoPollFrame
        /\ g \in Frame /\ g \in DoPollFrame /\ g.at = "do_poll" /\ g.called /\ g.p = q
    BY <1>5, <1>6, <1>7
       DEF CallFrame, Thread, ThreadFrame, Event, Frame, DoPollFrame
  <1>9. PICK u, t, called : /\ u = <<g>> \o R /\ t = <<f>> \o u
                            /\ called = [st EXCEPT ![q] = "called"]
    OBVIOUS
  <1>10. stack' = t /\ state' = called
    <2>1. stack' = <<f, g>> \o R /\ state' = [state EXCEPT ![q] = "called"]
      BY <1>3, <1>6, <1>7 DEF do_poll_call
    <2> QED BY <2>1, <1>3, <1>4, <1>8, <1>9, PushTwo
  <1>11. u \in Seq(Frame) /\ Head(u) = g
    BY <1>4, <1>8, <1>9, Push
  <1>12. Like(h, g)
    BY <1>1, <1>3, <1>8 DEF Like
  <1>13. Busy(u, st, L) /\ (Seated(stack, st, L) => Seated(u, st, L))
    BY <1>3, <1>4, <1>8, <1>9, <1>12, SeatLike
  <1>14. st \in States
    BY <1>3 DEF KernelInv, TypeOK, States
  <1>15. Busy(t, called, L)
    <2>1. Busy(t, called, L \cup {q})
      BY <1>8, <1>9, <1>11, <1>13, <1>14, SeatCall
    <2> QED BY <2>1 DEF Busy
  <1>16. Ridden(t)
    <2>1. Ridden(R) /\ (R # <<>> => Rides(h, Head(R)))
      BY <1>4, RidesPush
    <2>2. R # <<>> => Rides(g, Head(R))
      BY <2>1, <1>1, <1>3, <1>8 DEF Rides
    <2>3. Ridden(u)
      BY <2>1, <2>2, <1>4, <1>8, <1>9, RidesPush
    <2>4. Rides(f, g)
      BY <1>8 DEF Rides
    <2> QED BY <2>3, <2>4, <1>8, <1>9, <1>11, RidesPush
  <1>17. ASSUME Seated(stack, st, L), ~Touch(stack, Astray)
         PROVE  Seated(t, called, L) /\ ~Touch(t, Astray)
    <2>1. ~Touch(stack, Own(q))
      BY <1>1, WalkAlone DEF KernelInv
    <2>2. ~Touch(u, Own(q))
      <3>1. g \notin Own(q) /\ ~Touch(R, Own(q))
        BY <2>1, <1>4, <1>8, TouchPush, OwnFacts
      <3> QED BY <3>1, <1>4, <1>8, <1>9, TouchPush
    <2>3. h \notin Astray /\ ~Touch(R, Astray)
      BY <1>4, <1>17, TouchPush
    <2>4. From(q) \subseteq L
      BY <1>1, <1>3, <1>5, <1>6, <2>3 DEF Astray, StillVisited
    <2>5. q \in From(q) /\ From(next[q]) \subseteq From(q)
      BY FromFacts, KernelAssumption DEF KernelInv, TypeOK, Pointer
    <2>6. q \in L /\ L \cup {q} = L
      BY <2>4, <2>5
    <2>7. Seated(t, called, L)
      <3>1. Seated(t, called, L \cup {q})
        BY <2>2, <1>8, <1>9, <1>11, <1>13, <1>14, <1>17, SeatCall
      <3> QED BY <3>1, <2>6
    <2>8. g \notin Astray /\ f \notin Astray
      BY <2>4, <2>5, <1>3, <1>8 DEF Astray, StillVisited
    <2>9. ~Touch(u, Astray)
      BY <2>3, <2>8, <1>4, <1>9, TouchPush
    <2>10. ~Touch(t, Astray)
      BY <2>8, <2>9, <1>9, <1>11, TouchPush
    <2> QED BY <2>7, <2>10
  <1> QED BY <1>2, <1>3, <1>10, <1>15, <1>16, <1>17

(* The thread of a process returns. *)
LEMMA ReturnedStep ==
    ASSUME KernelInv, NeverRound, Busy(stack, state, From(process_list)), Ridden(stack), Returns
    PROVE  /\ NeverRound' /\ Busy(stack', state', From(process_list)') /\ Ridden(stack')
           /\ Seated(stack, state, From(process_list)) /\ ~Touch(stack, Astray)
                => Seated(stack', state', From(process_list)') /\ ~Touch(stack', Astray')
  <1>1. stack # <<>> /\ Top.at = "thread" /\ UNCHANGED lists
    BY DEF Returns, At
  <1>2. From(process_list)' = From(process_list) /\ Astray' = Astray /\ NeverRound'
    BY <1>1, SameList
  <1>3. PICK L, st, R, h, A : /\ L = From(process_list) /\ st = state /\ R = Rest /\ h = Top
                              /\ A = Astray
    OBVIOUS
  <1>4. stack = <<h>> \o R /\ h \in Frame /\ R \in Seq(Frame) /\ stack' = R
    BY <1>1, <1>3, TopAndRest DEF Returns
  <1>5. h \in ThreadFrame /\ h.p \in Process
    <2>1. h \in ThreadFrame
      BY <1>1, <1>3, <1>4, FrameKinds
    <2> QED BY <2>1 DEF ThreadFrame
  <1>6. Ridden(R) /\ (Touch(R, A) => Touch(stack, A))
    BY <1>4, RidesPush, TouchPush
  <1>7. st \in States
    BY <1>3 DEF KernelInv, TypeOK, States
  <1>8. CASE h.via = "call_process"
    <2>1. PICK q \in Process : q = h.p /\ h \in CallFrame(q)
      BY <1>5, <1>8 DEF CallFrame
    <2>2. PICK running : running = [st EXCEPT ![q] = "running"]
      OBVIOUS
    <2>3. state' = running
      BY <1>3, <1>8, <2>1, <2>2 DEF Returns
    <2>4. /\ Busy(stack, st, L) => Busy(R, running, L)
          /\ Seated(stack, st, L) => Seated(R, running, L)
      BY <1>4, <1>7, <2>1, <2>2, SeatReturn
    <2> QED BY <1>2, <1>3, <1>4, <1>6, <2>3, <2>4
  <1>9. CASE h.via # "call_process"
    <2>1. state' = st
      BY <1>3, <1>9 DEF Returns
    <2>2. h \in Foreign /\ \A p : h \notin Own(p)
      BY <1>5, <1>9 DEF Foreign, Own, CallFrame, EndFrame, ThreadFrame, ExitFrame
    <2>3. Busy(stack, st, L) => Busy(R, st, L)
      BY <1>4, <2>2, OnTop DEF Busy
    <2>4. ~Seated(stack, st, L)
      BY <1>4, <2>2, OnTop
    <2> QED BY <1>2, <1>3, <1>4, <1>6, <2>1, <2>3, <2>4
  <1> QED BY <1>8, <1>9

(* The thread of a process ends. *)
LEMMA EndedStep ==
    ASSUME KernelInv, NeverRound, Busy(stack, state, From(process_list)), Ridden(stack), Ends
    PROVE  /\ NeverRound' /\ Busy(stack', state', From(process_list)') /\ Ridden(stack')
           /\ Seated(stack, state, From(process_list)) /\ ~Touch(stack, Astray)
                => Seated(stack', state', From(process_list)') /\ ~Touch(stack', Astray')
  <1>1. stack # <<>> /\ Top.at = "thread" /\ Top.via = "call_process" /\ UNCHANGED lists
    BY DEF Ends, At
  <1>2. From(process_list)' = From(process_list) /\ Astray' = Astray /\ NeverRound'
    BY <1>1, SameList
  <1>3. PICK L, st, R, h, A : /\ L = From(process_list) /\ st = state /\ R = Rest /\ h = Top
                              /\ A = Astray
    OBVIOUS
  <1>4. stack = <<h>> \o R /\ h \in Frame /\ R \in Seq(Frame)
    BY <1>1, <1>3, TopAndRest
  <1>5. PICK q \in Process : q = h.p /\ h \in CallFrame(q)
    <2>1. h \in ThreadFrame
      BY <1>1, <1>3, <1>4, FrameKinds
    <2> QED BY <2>1, <1>1, <1>3 DEF ThreadFrame, CallFrame
  <1>6. PICK g : g = ExitProcess(q, q)
    OBVIOUS
  <1>7. /\ g \in EndFrame(q) /\ g.step = "begin" /\ g.from = q /\ g.p = q /\ g \in Frame
        /\ g.at = "exit_process" /\ g \notin A
    <2>1. process_current \in Pointer
      BY DEF KernelInv, TypeOK
    <2> QED BY <2>1, <1>3, <1>6
            DEF ExitProcess, EndFrame, ExitFrame, Pointer, Frame, Astray, DoPollFrame
  <1>8. stack' = <<g>> \o R /\ state' = st
    BY <1>3, <1>5, <1>6 DEF Ends
  <1>9. /\ Busy(stack, st, L) => Busy(<<g>> \o R, st, L)
        /\ Seated(stack, st, L) => Seated(<<g>> \o R, st, L)
    BY <1>4, <1>5, <1>7, SeatEnd
  <1>10. Ridden(<<g>> \o R)
    <2>1. Ridden(R) /\ (R # <<>> => Rides(h, Head(R)))
      BY <1>4, RidesPush
    <2>2. R # <<>> => Rides(g, Head(R))
      BY <2>1, <1>5, <1>7 DEF Rides
    <2> QED BY <2>1, <2>2, <1>4, <1>7, RidesPush
  <1>11. Touch(<<g>> \o R, A) => Touch(stack, A)
    BY <1>4, <1>7, TouchPush
  <1> QED BY <1>2, <1>3, <1>8, <1>9, <1>10, <1>11

(* A process makes another one to exit, or is called the last time before. *)
LEMMA ForeignStep ==
    ASSUME KernelInv, NeverRound, Busy(stack, state, From(process_list)), Ridden(stack),
           (exit_thread /\ Top.p # Top.from) \/ \E q \in Process : thread_exit(q)
    PROVE  /\ NeverRound' /\ Busy(stack', state', From(process_list)') /\ Ridden(stack')
           /\ exit_thread => ~Seated(stack, state, From(process_list))
  <1>1. stack # <<>> /\ Top.at \in {"thread", "exit_process"} /\ UNCHANGED <<lists, state>>
    BY DEF exit_thread, thread_exit, CanCall, At
  <1>2. From(process_list)' = From(process_list) /\ NeverRound'
    BY <1>1, SameList
  <1>3. PICK L, st, R, h : L = From(process_list) /\ st = state /\ R = Rest /\ h = Top
    OBVIOUS
  <1>4. stack = <<h>> \o R /\ h \in Frame /\ R \in Seq(Frame)
    BY <1>1, <1>3, TopAndRest
  <1>5. PICK f, g : /\ f \in Frame /\ g \in Frame /\ g.at = h.at /\ g.p = h.p
                    /\ f.at \in {"thread", "exit_process"}
                    /\ Busy(<<g>> \o R, st, L)
                    /\ stack' = <<f, g>> \o R
    <2>1. ASSUME NEW q \in Process, thread_exit(q)
          PROVE  \E f, g : /\ f \in Frame /\ g \in Frame /\ g.at = h.at /\ g.p = h.p
                           /\ f.at \in {"thread", "exit_process"}
                           /\ Busy(<<g>> \o R, st, L)
                           /\ stack' = <<f, g>> \o R
      <3>1. PICK f, g : f = ExitProcess(q, process_current) /\ g = Caller
        OBVIOUS
      <3>2. f \in Frame /\ f.at = "exit_process"
        BY <3>1 DEF KernelInv, TypeOK, ExitProcess, ExitFrame, Frame, Pointer
      <3>3. h \in ThreadFrame
        <4>1. h.at = "thread"
          BY <2>1, <1>3 DEF thread_exit, CanCall, At
        <4> QED BY <4>1, <1>4, FrameKinds
      <3>4. g \in ThreadFrame /\ g.at = "thread" /\ h.at = "thread" /\ g.p = h.p /\ g.via = h.via
        BY <3>1, <3>3, <1>3 DEF Caller, ThreadFrame
      <3>5. g \in Frame /\ Like(h, g)
        BY <3>4 DEF Frame, Like
      <3>6. Busy(<<g>> \o R, st, L)
        BY <3>5, <1>3, <1>4, SeatLike
      <3>7. stack' = <<f, g>> \o R
        BY <2>1, <3>1, <1>3 DEF thread_exit
      <3> QED BY <3>2, <3>4, <3>5, <3>6, <3>7
    <2>2. ASSUME exit_thread, Top.p # Top.from
          PROVE  \E f, g : /\ f \in Frame /\ g \in Frame /\ g.at = h.at /\ g.p = h.p
                           /\ f.at \in {"thread", "exit_process"}
                           /\ Busy(<<g>> \o R, st, L)
                           /\ stack' = <<f, g>> \o R
      <3>1. PICK f, g : f = Thread(h.p, "EXIT", "exit_process") /\ g = [h EXCEPT !.step = "unlink"]
        OBVIOUS
      <3>2. h \in ExitFrame /\ h.step = "tell"
        <4>1. h.at = "exit_process" /\ h.step = "tell"
          BY <2>2, <1>3 DEF exit_thread, At
        <4> QED BY <4>1, <1>4, FrameKinds
      <3>3. f \in Frame /\ f.at = "thread"
        BY <3>1, <3>2 DEF Thread, ThreadFrame, ExitFrame, Frame, Event
      <3>4. /\ g \in ExitFrame /\ g.at = "exit_process" /\ h.at = "exit_process" /\ g.p = h.p
            /\ g.from = h.from /\ g.step # "begin"
        BY <3>1, <3>2 DEF ExitFrame
      <3>5. g \in Frame /\ Like(h, g)
        BY <3>2, <3>4 DEF Frame, Like
      <3>6. Busy(<<g>> \o R, st, L)
        BY <3>5, <1>3, <1>4, SeatLike
      <3>7. stack' = <<f, g>> \o R
        BY <2>2, <3>1, <1>3 DEF exit_thread
      <3> QED BY <3>3, <3>4, <3>5, <3>6, <3>7
    <2> QED BY <2>1, <2>2
  <1>6. PICK u, t : u = <<g>> \o R /\ t = <<f>> \o u
    OBVIOUS
  <1>7. u \in Seq(Frame) /\ Head(u) = g /\ stack' = t
    <2>1. <<f, g>> \o R = <<f>> \o (<<g>> \o R)
      BY <1>4, <1>5, PushTwo
    <2>2. u \in Seq(Frame) /\ Head(u) = g
      BY <1>4, <1>5, <1>6, Push
    <2> QED BY <2>1, <2>2, <1>5, <1>6
  <1>8. Busy(t, st, L)
    <2>1. Busy(<<f>> \o u, st, L)
            <=> \A p \in L : st[p] # "running" => f \in Own(p) \/ Touch(u, Own(p))
      BY <1>5, <1>7, OnTop
    <2> QED BY <2>1, <1>5, <1>6 DEF Busy
  <1>9. Ridden(t)
    <2>1. Ridden(R) /\ (R # <<>> => Rides(h, Head(R)))
      BY <1>4, RidesPush
    <2>2. R # <<>> => Rides(g, Head(R))
      BY <2>1, <1>1, <1>3, <1>5 DEF Rides
    <2>3. Ridden(u)
      BY <2>1, <2>2, <1>4, <1>5, <1>6, RidesPush
    <2>4. Rides(f, g)
      BY <1>1, <1>3, <1>5 DEF Rides
    <2> QED BY <2>3, <2>4, <1>5, <1>6, <1>7, RidesPush
  <1>10. ASSUME exit_thread PROVE ~Seated(stack, st, L)
    <2>1. h.at = "exit_process" /\ h.p # h.from
      <3>1. ~\E q \in Process : thread_exit(q)
        BY <1>10 DEF exit_thread, thread_exit, CanCall, At
      <3> QED BY <3>1, <1>3, <1>10 DEF exit_thread, At
    <2>2. h \in Foreign
      BY <2>1, <1>4, FrameKinds DEF Foreign
    <2> QED BY <2>2, <1>4, OnTop
  <1> QED BY <1>1, <1>2, <1>3, <1>7, <1>8, <1>9, <1>10

(* exit_process begins. *)
LEMMA BeginsStep ==
    ASSUME KernelInv, NeverRound, Busy(stack, state, From(process_list)), Ridden(stack), exit_begin
    PROVE  /\ NeverRound' /\ Busy(stack', state', From(process_list)') /\ Ridden(stack')
           /\ Seated(stack, state, From(process_list)) /\ ~Touch(stack, Astray)
                => Seated(stack', state', From(process_list)') /\ ~Touch(stack', Astray')
  <1>1. stack # <<>> /\ Top.at = "exit_process" /\ Top.step = "begin" /\ UNCHANGED lists
    BY DEF exit_begin, At
  <1>2. From(process_list)' = From(process_list) /\ Astray' = Astray /\ NeverRound'
    BY <1>1, SameList
  <1>3. PICK L, st, R, h, A : /\ L = From(process_list) /\ st = state /\ R = Rest /\ h = Top
                              /\ A = Astray
    OBVIOUS
  <1>4. stack = <<h>> \o R /\ h \in Frame /\ R \in Seq(Frame)
    BY <1>1, <1>3, TopAndRest
  <1>5. PICK q \in Process : q = h.p /\ h \in EndFrame(q) /\ h \in ExitFrame /\ h \in Own(q)
    <2>1. h \in ExitFrame
      BY <1>1, <1>3, <1>4, FrameKinds
    <2> QED BY <2>1 DEF ExitFrame, EndFrame, Own
  <1>6. Ridden(R) /\ (R # <<>> => Rides(h, Head(R))) /\ (Touch(R, A) => Touch(stack, A))
    BY <1>4, RidesPush, TouchPush
  <1>7. CASE q \notin L
    <2>1. stack' = R /\ state' = st
      BY <1>3, <1>5, <1>7 DEF exit_begin, OnList
    <2>2. Busy(stack, st, L) => Busy(R, st, L)
      <3>1. L \ {q} = L
        BY <1>7
      <3>2. Busy(<<h>> \o R, st, L) => Busy(R, st, L \ {q})
        BY <1>4, <1>5, SeatGone
      <3> QED BY <3>1, <3>2, <1>4
    <2>3. ~Seated(stack, st, L)
      BY <1>4, <1>5, <1>7, SeatOwner
    <2> QED BY <2>1, <2>2, <2>3, <1>2, <1>3, <1>6
  <1>8. CASE q \in L
    <2>1. PICK g : g = [h EXCEPT !.q = process_list,
                          !.step = IF state[q] = "none" THEN "unlink" ELSE "tell"]
      OBVIOUS
    <2>2. PICK none : none = [st EXCEPT ![q] = "none"]
      OBVIOUS
    <2>3. stack' = <<g>> \o R /\ state' = none
      BY <1>3, <1>5, <1>8, <2>1, <2>2 DEF exit_begin, OnList
    <2>4. /\ g \in ExitFrame /\ g.p = q /\ g.from = h.from /\ g.step # "begin"
          /\ g.at = "exit_process"
      <3>1. process_list \in Pointer
        BY DEF KernelInv, TypeOK
      <3> QED BY <1>1, <1>3, <1>5, <2>1, <3>1 DEF ExitFrame
    <2>5. g \in EndFrame(q) /\ g \in Frame /\ g \notin A
      BY <1>3, <2>4 DEF EndFrame, Frame, Astray, DoPollFrame
    <2>6. st \in States /\ h.step = "begin"
      BY <1>1, <1>3 DEF KernelInv, TypeOK, States
    <2>7. /\ Busy(stack, st, L) => Busy(<<g>> \o R, none, L)
          /\ Seated(stack, st, L) => Seated(<<g>> \o R, none, L)
      BY <1>4, <1>5, <2>2, <2>4, <2>5, <2>6, SeatBegin
    <2>8. R # <<>> => Rides(g, Head(R))
      BY <1>5, <1>6, <2>4 DEF Rides
    <2>9. Ridden(<<g>> \o R) /\ (Touch(<<g>> \o R, A) => Touch(stack, A))
      BY <1>4, <1>6, <2>5, <2>8, RidesPush, TouchPush
    <2> QED BY <1>2, <1>3, <2>3, <2>7, <2>9
  <1> QED BY <1>7, <1>8

(* exit_process takes its process off the list and returns. *)
LEMMA UnlinkedStep ==
    ASSUME KernelInv, NeverRound, Busy(stack, state, From(process_list)), Ridden(stack), exit_unlink
    PROVE  /\ NeverRound' /\ Busy(stack', state', From(process_list)') /\ Ridden(stack')
           /\ Seated(stack, state, From(process_list)) /\ ~Touch(stack, Astray)
                => Seated(stack', state', From(process_list)') /\ ~Touch(stack', Astray')
  <1>1. stack # <<>> /\ Top.at = "exit_process" /\ Top.step = "unlink" /\ UNCHANGED state
    BY DEF exit_unlink, At
  <1>2. PICK L, st, R, h, hd : /\ L = From(process_list) /\ st = state /\ R = Rest /\ h = Top
                               /\ hd = process_list'
    OBVIOUS
  <1>3. stack = <<h>> \o R /\ h \in Frame /\ R \in Seq(Frame) /\ stack' = R
    BY <1>1, <1>2, TopAndRest DEF exit_unlink
  <1>4. PICK q \in Process : q = h.p /\ h \in EndFrame(q)
    <2>1. h \in ExitFrame
      BY <1>1, <1>2, <1>3, FrameKinds
    <2> QED BY <2>1 DEF ExitFrame, EndFrame
  <1>5. /\ From(hd)' = L \ {q} /\ NeverRound' /\ From(process_list)' = From(hd)'
        /\ \A x \in Pointer : From(x)' \subseteq From(x)
        /\ \A r \in Process : next'[r] = next[r] \/ (next[r] = q /\ next'[r] = next[q])
    <2>1. /\ From(process_list)' = L \ {q} /\ NeverRound'
          /\ \A x \in Pointer : From(x)' \subseteq From(x)
          /\ \A r \in Process : next'[r] = next[r] \/ (next[r] = q /\ next'[r] = next[q])
      BY <1>2, <1>4, UnlinkWays
    <2>2. From(process_list)' = From(hd)'
      BY <1>2
    <2> QED BY <2>1, <2>2
  <1>6. /\ Busy(stack, st, L) => Busy(R, st, L \ {q})
        /\ Seated(stack, st, L) => Seated(R, st, L \ {q})
    BY <1>1, <1>2, <1>3, <1>4, SeatGone
  <1>7. Ridden(R)
    BY <1>3, RidesPush
  <1>8. next \in [Process -> Pointer]
    BY DEF KernelInv, TypeOK
  <1>9. ASSUME Seated(stack, st, L), ~Touch(stack, Astray) PROVE ~Touch(R, Astray')
    <2> SUFFICES ASSUME NEW i \in 1 .. Len(R), R[i] \in DoPollFrame PROVE R[i] \notin Astray'
      BY DEF Touch, Astray
    <2>1. /\ stack \in Seq(Frame) /\ i + 1 \in 1 .. Len(stack) /\ i + 1 # 1
          /\ stack[i + 1] = R[i]
      BY <1>3, Push
    <2>2. PICK g : g = R[i]
      OBVIOUS
    <2>3. g.called /\ g.p \in Process /\ g.p \in L
      BY <2>1, <2>2, <1>9, WalksWait
    <2>4. g \in DoPollFrame /\ g \notin Astray
      BY <2>1, <2>2, <1>9 DEF Touch
    <2>5. From(next[g.p]) \subseteq L
      BY <2>3, <2>4, <1>2 DEF Astray, StillVisited
    <2>6. PICK r, y : r = g.p /\ y = next'[r]
      OBVIOUS
    <2>7. From(y)' \subseteq L \ {q}
      <3>1. CASE r = q
        <4>1. q \notin From(next[q]) /\ next[q] \in Pointer
          BY <1>8 DEF NeverRound
        <4>2. y = next[q]
          BY <2>6, <3>1, <1>5
        <4>3. From(y)' \subseteq From(y)
          BY <4>1, <4>2, <1>5
        <4> QED BY <4>1, <4>2, <4>3, <2>5, <2>6, <3>1
      <3>2. CASE r # q
        <4>1. r \in Process /\ r \in From(hd)'
          BY <2>3, <2>6, <3>2, <1>5
        <4>2. From(next[r])' \subseteq From(hd)'
          BY <4>1, FromClosedAfter
        <4> QED BY <4>2, <2>6, <1>5
      <3> QED BY <3>1, <3>2
    <2>8. StillVisited(g)' \subseteq From(process_list)'
      BY <2>3, <2>6, <2>7, <1>5 DEF StillVisited
    <2> QED BY <2>2, <2>8 DEF Astray
  <1> QED BY <1>1, <1>2, <1>3, <1>5, <1>6, <1>7, <1>9

-----------------------------------------------------------------------------
(* The invariants of the list *)

ListInv ==
    /\ KernelInv
    /\ boot \in Seq(Process)
    /\ NeverRound
    /\ Busy(stack, state, From(process_list))
    /\ Ridden(stack)

SeatInv == Seated(stack, state, From(process_list)) /\ ~Touch(stack, Astray)

(* Nobody calls process_exit: processes end by themselves.                 *)
NoExits == \A p \in Process : "exit" \notin May[p]

LEMMA NoThreadExits ==
    ASSUME NoExits, KernelInv, NEW q PROVE ~thread_exit(q)
  <1> SUFFICES ASSUME thread_exit(q) PROVE FALSE
    OBVIOUS
  <1>1. stack # <<>> /\ Top.at = "thread" /\ "exit" \in May[Top.p]
    BY DEF thread_exit, CanCall, At
  <1>2. Top \in ThreadFrame
    BY <1>1, TopFacts, FrameKinds DEF KernelInv
  <1> QED BY <1>1, <1>2 DEF NoExits, ThreadFrame

(* The list is empty in the beginning, and so is the stack.                *)
LEMMA ListInit == Init => ListInv /\ SeatInv
  <1> SUFFICES ASSUME Init PROVE ListInv /\ SeatInv
    OBVIOUS
  <1>1. KernelInv /\ boot \in Seq(Process)
    BY KernelInit, KernelAssumption DEF Init
  <1>2. next \in [Process -> Pointer] /\ NULL \in Pointer /\ From(NULL) = {}
    <2>1. next \in [Process -> Pointer] /\ NULL \in Pointer
      BY DEF Init, Pointer
    <2> QED BY <2>1, FromFacts
  <1>3. NeverRound /\ From(process_list) = {}
    BY <1>2 DEF Init, NeverRound
  <1>4. \A Q : ~Touch(stack, Q) /\ Once(stack, Q)
    BY DEF Init, Touch, Once
  <1>5. Busy(stack, state, From(process_list)) /\ Seated(stack, state, From(process_list))
    BY <1>3, <1>4 DEF Busy, Seated, Init
  <1>6. Ridden(stack)
    BY DEF Init, Ridden
  <1> QED BY <1>1, <1>3, <1>4, <1>5, <1>6 DEF ListInv, SeatInv

LEMMA MoveStep ==
    ASSUME ListInv, Move
    PROVE  /\ NeverRound' /\ Busy(stack', state', From(process_list)') /\ Ridden(stack')
           /\ NoExits /\ SeatInv
                => Seated(stack', state', From(process_list)') /\ ~Touch(stack', Astray')
  <1>0. KernelInv /\ NeverRound /\ Busy(stack, state, From(process_list)) /\ Ridden(stack)
    BY DEF ListInv
  <1>1. ASSUME NEW s, Kept(s),
               \/ Goes(s)
               \/ /\ s # <<>> => Head(s).at # "do_poll"
                  /\ \E q \in Process : state[q] = "running" /\ Calls(q, s)
                  /\ UNCHANGED lists
               \/ \E q \in Process : Starts(q, s)
        PROVE  /\ NeverRound' /\ Busy(stack', state', From(process_list)') /\ Ridden(stack')
               /\ SeatInv => Seated(stack', state', From(process_list)') /\ ~Touch(stack', Astray')
    <2>1. CASE Goes(s)
      BY <1>0, <1>1, <2>1, KeptStep DEF SeatInv
    <2>2. ASSUME NEW q \in Process, state[q] = "running", Calls(q, s), UNCHANGED lists,
                 s # <<>> => Head(s).at # "do_poll"
          PROVE  /\ NeverRound' /\ Busy(stack', state', From(process_list)') /\ Ridden(stack')
                 /\ SeatInv => Seated(stack', state', From(process_list)') /\ ~Touch(stack', Astray')
      BY <1>0, <1>1, <2>2, CalledStep DEF SeatInv
    <2>3. ASSUME NEW q \in Process, Starts(q, s)
          PROVE  /\ NeverRound' /\ Busy(stack', state', From(process_list)') /\ Ridden(stack')
                 /\ SeatInv => Seated(stack', state', From(process_list)') /\ ~Touch(stack', Astray')
      BY <1>0, <1>1, <2>3, StartedStep DEF SeatInv
    <2> QED BY <1>1, <2>1, <2>2, <2>3
  <1>2. CASE do_poll_call
    BY <1>0, <1>2, PolledCallStep DEF SeatInv
  <1>3. CASE Returns
    BY <1>0, <1>3, ReturnedStep DEF SeatInv
  <1>4. CASE Ends
    BY <1>0, <1>4, EndedStep DEF SeatInv
  <1>5. CASE (exit_thread /\ Top.p # Top.from) \/ \E q \in Process : thread_exit(q)
    <2>1. NoExits => exit_thread
      BY <1>0, <1>5, NoThreadExits
    <2> QED BY <1>0, <1>5, <2>1, ForeignStep DEF SeatInv
  <1>6. CASE exit_begin
    BY <1>0, <1>6, BeginsStep DEF SeatInv
  <1>7. CASE exit_unlink
    BY <1>0, <1>7, UnlinkedStep DEF SeatInv
  <1> QED BY <1>1, <1>2, <1>3, <1>4, <1>5, <1>6, <1>7 DEF Move

LEMMA ListStep == ListInv /\ [Next]_vars => ListInv' /\ (NoExits /\ SeatInv => SeatInv')
  <1> SUFFICES ASSUME ListInv, [Next]_vars PROVE ListInv' /\ (NoExits /\ SeatInv => SeatInv')
    OBVIOUS
  <1>1. KernelInv /\ boot \in Seq(Process)
    BY DEF ListInv
  <1>2. KernelInv' /\ (boot \in Seq(Process))'
    BY <1>1, KernelStep, BootStep
  <1>3. /\ NeverRound' /\ Busy(stack', state', From(process_list)') /\ Ridden(stack')
        /\ NoExits /\ SeatInv
             => Seated(stack', state', From(process_list)') /\ ~Touch(stack', Astray')
    BY <1>1, Moves, MoveStep
  <1>4. Busy(stack', state', From(process_list)') => Busy(stack, state, From(process_list))'
    BY DEF Busy, Touch, Own, CallFrame, EndFrame
  <1>5. Seated(stack', state', From(process_list)') => Seated(stack, state, From(process_list))'
    BY DEF Seated, Once, Touch, Own, Live, Dying, Foreign, CallFrame, EndFrame
  <1>6. Ridden(stack') => Ridden(stack)'
    BY DEF Ridden, Rides
  <1>7. ~Touch(stack', Astray') => (~Touch(stack, Astray))'
    BY DEF Touch
  <1> QED BY <1>2, <1>3, <1>4, <1>5, <1>6, <1>7 DEF ListInv, SeatInv

(* A process has no two threads under way.                                 *)
LEMMA SeatedOnce == ASSUME ListInv, SeatInv PROVE EnteredOnce
  <1> SUFFICES ASSUME NEW p \in Process PROVE Cardinality(Entered(p)) <= 1
    BY DEF EnteredOnce
  <1>1. stack \in Seq(Frame) /\ DOMAIN stack = 1 .. Len(stack)
    BY DEF ListInv, KernelInv, Sound
  <1>2. ASSUME NEW i \in Entered(p) PROVE i \in 1 .. Len(stack) /\ stack[i] \in Own(p)
    <2>1. i \in 1 .. Len(stack) /\ stack[i].at = "thread" /\ stack[i].p = p
      BY <1>1 DEF Entered, Frames
    <2>2. stack[i] \in ThreadFrame /\ stack[i] \notin Foreign
      BY <1>1, <2>1, FrameKinds DEF SeatInv, Seated, Touch
    <2> QED BY <2>1, <2>2 DEF Own, CallFrame, Foreign
  <1>3. \A i, j \in Entered(p) : i = j
    BY <1>2 DEF SeatInv, Seated, Once
  <1>4. CASE Entered(p) = {}
    BY <1>4, FS_EmptySet
  <1>5. CASE Entered(p) # {}
    <2>1. PICK i : Entered(p) = {i}
      BY <1>3, <1>5
    <2> QED BY <2>1, FS_Singleton
  <1> QED BY <1>4, <1>5

LEMMA SeatedRuns == ASSUME ListInv, SeatInv PROVE ListedAreRunning
  <1> SUFFICES ASSUME Frames("exit_process") = {}, NEW p \in Process
               PROVE  state[p] # "none" <=> OnList(p)
    BY DEF ListedAreRunning
  <1>1. state[p] # "none" => OnList(p)
    BY DEF SeatInv, Seated, OnList
  <1>2. ASSUME OnList(p), state[p] = "none" PROVE FALSE
    <2>1. PICK i \in 1 .. Len(stack) : stack[i] \in Own(p)
      BY <1>2 DEF ListInv, Busy, OnList, Touch
    <2>2. DOMAIN stack = 1 .. Len(stack)
      BY DEF ListInv, KernelInv, Sound
    <2>3. stack[i].at # "exit_process"
      BY <2>1, <2>2 DEF Frames
    <2>4. stack[i] \in CallFrame(p)
      BY <2>1, <2>3 DEF Own, EndFrame, ExitFrame
    <2>5. Touch(stack, Live(p))
      BY <2>1, <2>4, OwnFacts DEF Touch
    <2> QED BY <2>5, <1>2 DEF SeatInv, Seated
  <1> QED BY <1>1, <1>2

-----------------------------------------------------------------------------
(* A thread is not entered again before it has returned, when processes    *)
(* only end by themselves, whoever starts them, however often and from     *)
(* wherever.  Whoever has a frame on the stack is in state called or none; *)
(* call_process wants state running, process_start a process that is off   *)
(* the list, and do_poll, which asks for neither, calls only while nobody  *)
(* else has a frame.                                                       *)
THEOREM ThreadsAreEnteredOnce == NoExits /\ Spec => []EnteredOnce
  <1> DEFINE Inv == NoExits /\ ListInv /\ SeatInv
  <1>1. NoExits /\ Init => Inv
    BY ListInit
  <1>2. Inv /\ [Next]_vars => Inv'
    BY ListStep DEF NoExits
  <1>3. Inv => EnteredOnce
    BY SeatedOnce
  <1> HIDE DEF Inv
  <1> QED BY <1>1, <1>2, <1>3, PTL DEF Spec

(* Under the same condition the processes on the list are those that run   *)
(* or are called, while nobody is exiting: none of them stays on the list  *)
(* when it has ended, and none that runs has been taken off it.            *)
THEOREM ListedProcessesRun == NoExits /\ Spec => []ListedAreRunning
  <1> DEFINE Inv == NoExits /\ ListInv /\ SeatInv
  <1>1. NoExits /\ Init => Inv
    BY ListInit
  <1>2. Inv /\ [Next]_vars => Inv'
    BY ListStep DEF NoExits
  <1>3. Inv => ListedAreRunning
    BY SeatedRuns
  <1> HIDE DEF Inv
  <1> QED BY <1>1, <1>2, <1>3, PTL DEF Spec

-----------------------------------------------------------------------------
(* The walk of a broadcast *)

(* The processes a broadcast has still before it *)
ToCall(f) == From(IF f.step = "called" THEN next[f.p] ELSE f.p)

(* Everybody due who is still on the list has been called or is ahead, and *)
(* nobody both.                                                            *)
Served(f) ==
    /\ ~f.twice
    /\ f.got \cap ToCall(f) = {}
    /\ f.due \cap From(process_list) \subseteq f.got \cup ToCall(f)

Lapse == {f \in DoEventFrame : ~Served(f)}

(* Only main starts processes, as often as it may. *)
NoStarts == \A p \in Process : "start" \notin May[p]

(* What runs above a broadcast neither changes it nor begins another one.  *)
LEMMA BroadcastsBelow ==
    ASSUME KernelInv, stack # <<>>, Top.at # "do_event", Move,
           NEW Q \in SUBSET DoEventFrame, Touch(stack', Q)
    PROVE  Touch(Rest, Q)
  <1>1. PICK h, R : h = Top /\ R = Rest
    OBVIOUS
  <1> SUFFICES Touch(R, Q)
    BY <1>1
  <1>2. stack = <<h>> \o R /\ h \in Frame /\ R \in Seq(Frame)
    BY <1>1, TopAndRest
  <1>3. \A f : f.at # "do_event" => f \notin Q
    BY DEF DoEventFrame
  <1>4. \A T, f : \A s \in Seq(T) : /\ Touch(<<f>> \o s, Q) <=> f \in Q \/ Touch(s, Q)
                                    /\ <<f>> \o s \in Seq(T \cup {f})
    BY TouchPush
  <1>5. Touch(stack, Q) => Touch(R, Q)
    BY <1>1, <1>2, <1>3, <1>4
  <1>6. ASSUME NEW s, Kept(s) PROVE s \in Seq(Frame) /\ (Touch(s, Q) => Touch(R, Q))
    <2>0. s \in Seq(Frame)
      BY <1>6, KeptFacts DEF KernelInv
    <2>1. CASE s = stack \/ s = R
      BY <2>0, <2>1, <1>5
    <2>2. ASSUME NEW f, Keeps(f) PROVE f \notin Q /\ f \in Frame
      BY <2>2, <1>3 DEF Keeps, Like
    <2>3. ASSUME NEW f, Keeps(f), s = <<f>> \o R PROVE Touch(s, Q) => Touch(R, Q)
      BY <2>2, <2>3, <1>2, <1>4
    <2>4. ASSUME NEW f, NEW n, Keeps(f), Rides(n, f), s = <<n>> \o (<<f>> \o R)
          PROVE  Touch(s, Q) => Touch(R, Q)
      <3>1. f \notin Q /\ n \notin Q
        BY <2>2, <2>4, <1>3 DEF Rides
      <3>2. PICK t : t = <<f>> \o R /\ t \in Seq(Frame \cup {f})
        BY <1>2, <1>4
      <3>3. Touch(t, Q) => Touch(R, Q)
        BY <3>1, <3>2, <1>2, <1>4
      <3>4. Touch(<<n>> \o t, Q) => Touch(t, Q)
        BY <3>1, <3>2, <1>4
      <3> QED BY <2>4, <3>2, <3>3, <3>4
    <2> QED BY <2>0, <2>1, <2>3, <2>4, <1>1, <1>6 DEF Kept
  <1>7. ASSUME NEW q, NEW s, NEW T, s \in Seq(T), Calls(q, s) PROVE Touch(s, Q)
    <2>1. PICK f \in CallFrame(q) : stack' = <<f>> \o s
      BY <1>7 DEF Calls
    <2>2. f \notin Q
      BY <2>1, <1>3 DEF CallFrame, ThreadFrame
    <2> QED BY <2>1, <2>2, <1>4, <1>7
  <1>8. ASSUME NEW s, Kept(s), Goes(s) PROVE Touch(R, Q)
    BY <1>6, <1>8 DEF Goes
  <1>9. ASSUME NEW s, Kept(s), NEW q, Calls(q, s) PROVE Touch(R, Q)
    BY <1>6, <1>7, <1>9
  <1>10. ASSUME NEW s, Kept(s), NEW q, Starts(q, s) PROVE Touch(R, Q)
    <2>1. PICK n \in SynchFrame : Calls(q, <<n>> \o s)
      BY <1>10 DEF Starts
    <2>2. n \notin Q
      BY <2>1, <1>3 DEF SynchFrame
    <2>3. PICK t : t = <<n>> \o s /\ t \in Seq(Frame \cup {n})
      BY <1>4, <1>6, <1>10
    <2>4. Touch(t, Q)
      BY <2>1, <2>3, <1>7
    <2> QED BY <2>2, <2>3, <2>4, <1>4, <1>6, <1>10
  <1>11. ASSUME NEW f, NEW g, f.at # "do_event", g.at # "do_event", stack' = <<f, g>> \o R
         PROVE  Touch(R, Q)
    BY <1>2, <1>3, <1>11, TouchPushTwo
  <1>12. ASSUME NEW f, f.at # "do_event", stack' = <<f>> \o R PROVE Touch(R, Q)
    BY <1>2, <1>3, <1>4, <1>12
  <1>13. CASE do_poll_call
    <2>1. PICK f, g : /\ f = Thread(h.p, "POLL", "call_process") /\ g = [h EXCEPT !.called = TRUE]
                      /\ stack' = <<f, g>> \o R
      BY <1>1, <1>13 DEF do_poll_call
    <2>2. h \in DoPollFrame
      BY <1>1, <1>2, <1>13, FrameKinds DEF do_poll_call, At
    <2>3. f.at # "do_event" /\ g.at # "do_event"
      BY <2>1, <2>2 DEF Thread, DoPollFrame
    <2> QED BY <2>1, <2>3, <1>11
  <1>14. CASE Returns \/ exit_unlink
    BY <1>1, <1>14 DEF Returns, exit_unlink
  <1>15. CASE Ends
    <2>1. PICK f : f = ExitProcess(h.p, h.p) /\ stack' = <<f>> \o R
      BY <1>1, <1>15 DEF Ends
    <2> QED BY <2>1, <1>12 DEF ExitProcess
  <1>16. ASSUME NEW q \in Process, thread_exit(q) PROVE Touch(R, Q)
    <2>1. PICK f, g : /\ f = ExitProcess(q, process_current) /\ g = [h EXCEPT !.calls = @ + 1]
                      /\ stack' = <<f, g>> \o R
      BY <1>1, <1>16 DEF thread_exit, Caller
    <2>2. h \in ThreadFrame
      BY <1>1, <1>2, <1>16, FrameKinds DEF thread_exit, CanCall, At
    <2>3. f.at # "do_event" /\ g.at # "do_event"
      BY <2>1, <2>2 DEF ExitProcess, ThreadFrame
    <2> QED BY <2>1, <2>3, <1>11
  <1>17. CASE exit_thread /\ Top.p # Top.from
    <2>1. PICK f, g : /\ f = Thread(h.p, "EXIT", "exit_process") /\ g = [h EXCEPT !.step = "unlink"]
                      /\ stack' = <<f, g>> \o R
      BY <1>1, <1>17 DEF exit_thread
    <2>2. h \in ExitFrame
      BY <1>1, <1>2, <1>17, FrameKinds DEF exit_thread, At
    <2>3. f.at # "do_event" /\ g.at # "do_event"
      BY <2>1, <2>2 DEF Thread, ExitFrame
    <2> QED BY <2>1, <2>3, <1>11
  <1>18. CASE exit_begin
    <2>1. CASE stack' = R
      BY <2>1
    <2>2. CASE stack' # R
      <3>1. PICK g : /\ g = [h EXCEPT !.q = process_list,
                               !.step = IF state[h.p] = "none" THEN "unlink" ELSE "tell"]
                     /\ stack' = <<g>> \o R
        BY <2>2, <1>1, <1>18 DEF exit_begin
      <3>2. h \in ExitFrame
        BY <1>1, <1>2, <1>18, FrameKinds DEF exit_begin, At
      <3>3. g.at # "do_event"
        BY <3>1, <3>2 DEF ExitFrame
      <3> QED BY <3>1, <3>3, <1>12
    <2> QED BY <2>1, <2>2
  <1> QED BY <1>1, <1>8, <1>9, <1>10, <1>13, <1>14, <1>15, <1>16, <1>17, <1>18 DEF Move

(* The broadcast goes on: it serves polls, calls who is next, and ends.    *)
LEMMA BroadcastWalks ==
    ASSUME ListInv, ~Touch(stack, Lapse), [Next]_vars, stack # <<>>, Top.at = "do_event"
    PROVE  ~Touch(stack', Lapse')
  <1>1. PICK h, R, L : h = Top /\ R = Rest /\ L = From(process_list)
    OBVIOUS
  <1>2. /\ stack = <<h>> \o R /\ h \in DoEventFrame /\ R \in Seq(Frame)
        /\ next \in [Process -> Pointer] /\ state \in [Process -> {"none", "running", "called"}]
    <2>1. h \in Frame /\ stack = <<h>> \o R /\ R \in Seq(Frame)
      BY <1>1, TopAndRest DEF ListInv
    <2> QED BY <2>1, <1>1, FrameKinds DEF ListInv, KernelInv, TypeOK
  <1>3. \/ UNCHANGED <<lists, stack>>
        \/ broadcast_check \/ broadcast_call \/ broadcast_next \/ broadcast_end
    BY DEF Next, Main, main_start, run_polls, run_event, Walk, do_poll_call, do_poll_next,
           do_poll_end, exit_begin, exit_tell, exit_next, exit_thread, exit_unlink, synch_return,
           Activity, thread_poll, thread_post_synch, thread_start, thread_exit, thread_post,
           thread_wait, thread_end, thread_pause, thread_continue, CanCall, At, isr_poll, vars
  <1>4. UNCHANGED lists
    BY <1>3 DEF broadcast_check, broadcast_call, broadcast_next, broadcast_end
  <1>5. Lapse' = Lapse
    <2>1. \A x : From(x)' = From(x)
      BY <1>4, SameLists
    <2>2. next' = next /\ From(process_list)' = From(process_list)
      BY <1>4, SameList DEF lists
    <2>3. \A f : ToCall(f)' = ToCall(f)
      BY <2>1, <2>2 DEF ToCall
    <2> QED BY <2>2, <2>3 DEF Lapse, Served
  <1>6. /\ Served(h) /\ ~Touch(R, Lapse)
        /\ \A g : g \notin Lapse => ~Touch(<<g>> \o R, Lapse) /\ <<g>> \o R \in Seq(Frame \cup {g})
    <2>1. \A g : /\ Touch(<<g>> \o R, Lapse) <=> g \in Lapse \/ Touch(R, Lapse)
                 /\ <<g>> \o R \in Seq(Frame \cup {g})
      BY <1>2, TouchPush
    <2>2. ~Touch(R, Lapse) /\ h \notin Lapse
      BY <2>1, <1>2
    <2> QED BY <2>1, <2>2, <1>2 DEF Lapse
  <1>7. \A p \in L : state[p] = "running"
    <2>1. \A p : ~Touch(stack, Own(p))
      BY WalkAlone DEF ListInv, KernelInv
    <2> QED BY <2>1, <1>1 DEF ListInv, Busy
  <1>s. SUFFICES ~Touch(stack', Lapse)
    BY <1>5
  <1>8. CASE UNCHANGED <<lists, stack>>
    BY <1>8
  <1>9. CASE broadcast_end
    BY <1>1, <1>6, <1>9 DEF broadcast_end
  <1>10. CASE broadcast_check
    <2>1. PICK d, g : d = DoPoll(process_list) /\ g = [h EXCEPT !.step = "call"]
      OBVIOUS
    <2>2. stack' = ((IF poll_requested THEN <<d>> ELSE <<>>) \o <<g>>) \o R /\ h.step = "check"
      BY <1>1, <1>10, <2>1 DEF broadcast_check
    <2>3. g.step = "call" /\ g.p = h.p /\ g.due = h.due /\ g.got = h.got /\ g.twice = h.twice
      BY <1>2, <2>1 DEF DoEventFrame
    <2>4. g \notin Lapse
      <3>1. ToCall(g) = ToCall(h)
        BY <2>2, <2>3 DEF ToCall
      <3> QED BY <3>1, <2>3, <1>6 DEF Lapse, Served
    <2>5. d \notin Lapse
      BY <2>1 DEF DoPoll, Lapse, DoEventFrame
    <2>6. PICK t : t = <<g>> \o R /\ t \in Seq(Frame \cup {g}) /\ ~Touch(t, Lapse)
      BY <2>4, <1>6
    <2>7. (<<d>> \o <<g>>) \o R = <<d>> \o t /\ <<>> \o <<g>> = <<g>>
      <3>1. PICK S : S = Frame \cup {d, g}
        OBVIOUS
      <3>2. <<d>> \in Seq(S) /\ <<g>> \in Seq(S) /\ R \in Seq(S)
        BY <3>1, <1>2
      <3> QED BY <2>6, <3>2, ConcatAssociative, ConcatEmptySeq
    <2>8. Touch(<<d>> \o t, Lapse) <=> d \in Lapse \/ Touch(t, Lapse)
      BY <2>6, TouchPush
    <2> QED BY <2>2, <2>5, <2>6, <2>7, <2>8
  <1>11. CASE broadcast_next
    <2>1. PICK g : g = [h EXCEPT !.step = "check", !.p = next[h.p]]
      OBVIOUS
    <2>2. stack' = <<g>> \o R /\ h.step = "called"
      BY <1>1, <1>11, <2>1 DEF broadcast_next
    <2>3. g.step = "check" /\ g.p = next[h.p] /\ g.due = h.due /\ g.got = h.got /\ g.twice = h.twice
      BY <1>2, <2>1 DEF DoEventFrame
    <2>4. ToCall(g) = ToCall(h)
      BY <2>2, <2>3 DEF ToCall
    <2>5. g \notin Lapse
      BY <2>3, <2>4, <1>6 DEF Lapse, Served
    <2> QED BY <2>2, <2>5, <1>6
  <1>12. CASE broadcast_call
    <2>1. PICK g : g = IF state[h.p] = "running"
                         THEN [h EXCEPT !.step = "called", !.got = @ \cup {h.p},
                                        !.twice = @ \/ h.p \in h.got]
                         ELSE [h EXCEPT !.step = "called"]
      OBVIOUS
    <2>2. call_process(h.p, h.ev, <<g>> \o R) /\ h.step = "call"
      BY <1>1, <1>12, <2>1 DEF broadcast_call
    <2>3. PICK p \in Process : p = h.p /\ p \in Pointer /\ p # NULL /\ h.twice \in BOOLEAN
      BY <1>2, <2>2, KernelAssumption DEF DoEventFrame, Pointer
    <2>4. /\ ToCall(h) = From(p) /\ p \in From(p) /\ p \notin From(next[p])
          /\ From(next[p]) \subseteq From(p) /\ From(p) \subseteq {p} \cup From(next[p])
      <3>1. ToCall(h) = From(p)
        BY <2>2, <2>3 DEF ToCall
      <3>2. p \in From(p) /\ From(p) \subseteq {p} \cup From(next[p])
        BY <2>3, <1>2, FromFacts
      <3>3. From(next[p]) \subseteq From(p)
        BY <2>3, <3>2, <1>2, FromFacts
      <3> QED BY <3>1, <3>2, <3>3 DEF ListInv, NeverRound
    <2>5. /\ h.got \cap From(p) = {} /\ ~h.twice
          /\ h.due \cap L \subseteq h.got \cup From(p)
      BY <2>4, <1>1, <1>6 DEF Served
    <2>6. g.step = "called" /\ g.p = p /\ g.due = h.due
      BY <1>2, <2>1, <2>3 DEF DoEventFrame
    <2>7. ToCall(g) = From(next[p])
      BY <2>6 DEF ToCall
    <2>8. g \notin Lapse
      <3>1. CASE state[p] = "running"
        <4>1. g.got = h.got \cup {p} /\ g.twice = (h.twice \/ p \in h.got)
          BY <1>2, <2>1, <2>3, <3>1 DEF DoEventFrame
        <4>2. ~g.twice
          BY <4>1, <2>4, <2>5
        <4>3. g.got \cap From(next[p]) = {} /\ g.due \cap L \subseteq g.got \cup From(next[p])
          BY <4>1, <2>4, <2>5, <2>6
        <4> QED BY <4>2, <4>3, <2>7, <1>1 DEF Lapse, Served
      <3>2. CASE state[p] # "running"
        <4>1. g.got = h.got /\ g.twice = h.twice /\ p \notin L
          BY <1>2, <1>7, <2>1, <2>3, <3>2 DEF DoEventFrame
        <4>2. g.got \cap From(next[p]) = {} /\ g.due \cap L \subseteq g.got \cup From(next[p])
          BY <4>1, <2>4, <2>5, <2>6
        <4> QED BY <4>1, <4>2, <2>5, <2>7, <1>1 DEF Lapse, Served
      <3> QED BY <3>1, <3>2
    <2>9. PICK t : t = <<g>> \o R /\ t \in Seq(Frame \cup {g}) /\ ~Touch(t, Lapse)
      BY <2>8, <1>6
    <2>10. stack' = t \/ \E f : f.at # "do_event" /\ stack' = <<f>> \o t
      <3>1. Thread(p, h.ev, "call_process").at # "do_event"
        BY DEF Thread
      <3> QED BY <2>2, <2>3, <2>9, <3>1 DEF call_process
    <2>11. ASSUME NEW f, f.at # "do_event" PROVE ~Touch(<<f>> \o t, Lapse)
      <3>1. f \notin Lapse
        BY <2>11 DEF Lapse, DoEventFrame
      <3>2. Touch(<<f>> \o t, Lapse) <=> f \in Lapse \/ Touch(t, Lapse)
        BY <2>9, TouchPush
      <3> QED BY <2>9, <3>1, <3>2
    <2> QED BY <2>9, <2>10, <2>11
  <1> QED BY <1>3, <1>8, <1>9, <1>10, <1>11, <1>12

(* A process that is taken off the list is due no more.                    *)
LEMMA UnlinkServes ==
    ASSUME KernelInv, NeverRound, exit_unlink, NEW f \in DoEventFrame, Served(f)
    PROVE  Served(f)'
  <1>1. PICK q, L : q = Top.p /\ L = From(process_list)
    OBVIOUS
  <1>2. /\ q \in Process
        /\ From(process_list)' = L \ {q}
        /\ \A x \in Pointer : From(x)' \subseteq From(x) /\ From(x) \ {q} \subseteq From(x)'
        /\ \A r \in Process : next'[r] = next[r] \/ (next[r] = q /\ next'[r] = next[q])
    BY <1>1, UnlinkWays
  <1>3. next \in [Process -> Pointer] /\ q \in Pointer /\ q # NULL
    BY <1>2, KernelAssumption DEF KernelInv, TypeOK, Pointer
  <1>4. PICK x, y : /\ x = IF f.step = "called" THEN next[f.p] ELSE f.p
                    /\ y = IF f.step = "called" THEN next'[f.p] ELSE f.p
    OBVIOUS
  <1>5. /\ y \in Pointer /\ x \in Pointer
        /\ y = x \/ (x = q /\ y = next[q])
    <2>1. f.p \in Pointer /\ (f.step = "called" => f.p \in Process)
      BY DEF DoEventFrame, Pointer
    <2>2. CASE f.step = "called"
      BY <2>1, <2>2, <1>2, <1>3, <1>4
    <2>3. CASE f.step # "called"
      BY <2>1, <2>3, <1>4
    <2> QED BY <2>2, <2>3
  <1>6. From(y)' \subseteq From(x) /\ From(x) \ {q} \subseteq From(y)'
    <2>1. From(y)' \subseteq From(y) /\ From(y) \ {q} \subseteq From(y)'
      BY <1>2, <1>5
    <2>2. CASE y = x
      BY <2>1, <2>2
    <2>3. CASE x = q /\ y = next[q]
      <3>1. From(next[q]) \subseteq From(q) /\ From(q) \subseteq {q} \cup From(next[q])
        BY <1>3, FromFacts
      <3> QED BY <2>1, <2>3, <3>1
    <2> QED BY <2>2, <2>3, <1>5
  <1>7. ToCall(f) = From(x) /\ ToCall(f)' = From(y)'
    BY <1>4 DEF ToCall
  <1> QED BY <1>1, <1>2, <1>6, <1>7 DEF Served

LEMMA BroadcastStep ==
    ASSUME NoStarts, ListInv, ~Touch(stack, Lapse), [Next]_vars
    PROVE  ~Touch(stack', Lapse')
  <1>1. KernelInv /\ boot \in Seq(Process) /\ NeverRound
    BY DEF ListInv
  <1>2. CASE stack # <<>> /\ Top.at = "do_event"
    BY <1>2, BroadcastWalks
  <1>3. CASE stack # <<>> /\ Top.at # "do_event"
    <2>1. PICK R : R = Rest /\ R \in Seq(Frame) /\ (Touch(R, Lapse) => Touch(stack, Lapse))
      BY <1>1, <1>3, TouchTop DEF KernelInv
    <2>2. \A Q \in SUBSET DoEventFrame : Touch(stack', Q) => Touch(R, Q)
      BY <1>1, <1>3, <2>1, Moves, BroadcastsBelow
    <2>3. UNCHANGED lists \/ exit_unlink
      <3>1. ASSUME NEW q \in Process PROVE ~thread_start(q)
        <4> SUFFICES ASSUME thread_start(q) PROVE FALSE
          OBVIOUS
        <4>1. Top.at = "thread" /\ "start" \in May[Top.p]
          BY DEF thread_start, CanCall, At
        <4>2. Top \in ThreadFrame
          BY <4>1, <1>1, <1>3, TopFacts, FrameKinds DEF KernelInv
        <4> QED BY <4>1, <4>2 DEF NoStarts, ThreadFrame
      <3>2. CASE Walk
        BY <3>2 DEF Walk, do_poll_call, do_poll_next, do_poll_end, broadcast_check,
                    broadcast_call, broadcast_next, broadcast_end, exit_begin, exit_tell,
                    exit_next, exit_thread, synch_return
      <3>3. CASE Activity
        BY <3>1, <3>3 DEF Activity, thread_poll, thread_post_synch, thread_exit, thread_post,
                    thread_wait, thread_end, thread_pause, thread_continue
      <3>4. CASE (\E p \in PolledByIsr : isr_poll(p)) \/ UNCHANGED vars
        BY <3>4 DEF isr_poll, vars
      <3> QED BY <1>3, <3>2, <3>3, <3>4 DEF Next, Main, main_start, run_polls, run_event
    <2>4. Lapse' \in SUBSET DoEventFrame
      BY DEF Lapse
    <2>5. Touch(stack', Lapse') => Touch(R, Lapse')
      BY <2>2, <2>4
    <2>6. \A f \in DoEventFrame : Served(f) => Served(f)'
      <3>1. CASE UNCHANGED lists
        <4>1. \A x : From(x)' = From(x)
          BY <3>1, SameLists
        <4>2. next' = next /\ From(process_list)' = From(process_list)
          BY <3>1, SameList DEF lists
        <4>3. \A f : ToCall(f)' = ToCall(f)
          BY <4>1, <4>2 DEF ToCall
        <4> QED BY <4>2, <4>3 DEF Served
      <3>2. CASE exit_unlink
        BY <3>2, <1>1, UnlinkServes
      <3> QED BY <2>3, <3>1, <3>2
    <2>7. Lapse' \subseteq Lapse
      BY <2>6 DEF Lapse
    <2>8. Touch(R, Lapse') => Touch(R, Lapse)
      BY <2>7 DEF Touch
    <2> QED BY <2>1, <2>5, <2>8
  <1>4. CASE stack = <<>>
    <2>1. \/ UNCHANGED lists /\ stack' \in {<<>>, stack, <<DoPoll(process_list)>>}
          \/ run_event \/ main_start
      BY <1>4 DEF Next, Main, Walk, do_poll_call, do_poll_next, do_poll_end, broadcast_check,
           broadcast_call, broadcast_next, broadcast_end, exit_begin, exit_tell, exit_next,
           exit_thread, exit_unlink, synch_return, Activity, thread_poll, thread_post_synch,
           thread_start, thread_exit, thread_post, thread_wait, thread_end, thread_pause,
           thread_continue, CanCall, At, isr_poll, run_polls, vars
    <2>2. ASSUME NEW f, f \notin Lapse', stack' = <<f>> PROVE ~Touch(stack', Lapse')
      BY <2>2 DEF Touch
    <2>3. CASE UNCHANGED lists /\ stack' \in {<<>>, stack, <<DoPoll(process_list)>>}
      <3>1. DoPoll(process_list) \notin Lapse'
        BY DEF DoPoll, Lapse, DoEventFrame
      <3>2. ~Touch(<<>>, Lapse')
        BY DEF Touch
      <3> QED BY <1>4, <2>2, <2>3, <3>1, <3>2
    <2>4. \A f : f.at # "do_event" => f \notin Lapse'
      BY DEF Lapse, DoEventFrame
    <2>5. ASSUME NEW f, f.at # "do_event", stack' = <<f>> \o <<>> PROVE ~Touch(stack', Lapse')
      <3>1. Touch(<<f>> \o <<>>, Lapse') <=> f \in Lapse' \/ Touch(<<>>, Lapse')
        <4>1. <<>> \in Seq({})
          OBVIOUS
        <4> QED BY <4>1, TouchPush
      <3> QED BY <2>4, <2>5, <3>1 DEF Touch
    <2>6. ASSUME stack' = <<>> PROVE ~Touch(stack', Lapse')
      BY <2>6 DEF Touch
    <2>7. CASE run_event
      <3>1. CASE queue = <<>>
        BY <1>4, <2>6, <2>7, <3>1 DEF run_event
      <3>2. CASE queue # <<>> /\ Head(queue).to # NULL
        <4>1. call_process(Head(queue).to, Head(queue).ev, <<>>)
          BY <2>7, <3>2 DEF run_event
        <4>2. Thread(Head(queue).to, Head(queue).ev, "call_process").at # "do_event"
          BY DEF Thread
        <4> QED BY <4>1, <4>2, <2>5, <2>6 DEF call_process
      <3>3. CASE queue # <<>> /\ Head(queue).to = NULL
        <4>1. PICK d : d = DoEvent(Head(queue).ev)
          OBVIOUS
        <4>2. stack' = <<d>> /\ UNCHANGED lists
          BY <2>7, <3>3, <4>1 DEF run_event
        <4>3. /\ d.twice = FALSE /\ d.got = {} /\ d.due = From(process_list)
              /\ d.step = "check" /\ d.p = process_list
          BY <4>1 DEF DoEvent
        <4>4. ToCall(d) = From(process_list)
          BY <4>3 DEF ToCall
        <4>5. Served(d)
          BY <4>3, <4>4 DEF Served
        <4>6. From(process_list)' = From(process_list) /\ ToCall(d)' = ToCall(d)
          <5>1. From(process_list)' = From(process_list) /\ process_list' = process_list
            BY <4>2, SameList DEF lists
          <5>2. ToCall(d)' = From(d.p)'
            BY <4>3 DEF ToCall
          <5>3. From(d.p)' = From(d.p)
            BY <4>2, SameLists
          <5> QED BY <4>3, <4>4, <5>1, <5>2, <5>3
        <4>7. d \notin Lapse'
          BY <4>5, <4>6 DEF Lapse, Served
        <4> QED BY <4>2, <4>7, <2>2
      <3> QED BY <3>1, <3>2, <3>3
    <2>8. CASE main_start
      <3>1. process_start(Head(boot), <<>>)
        BY <2>8 DEF main_start
      <3>2. PICK f, n : f = Thread(Head(boot), "INIT", "call_process") /\ n = PostSynch(process_current)
        OBVIOUS
      <3>3. f \notin Lapse' /\ n \notin Lapse'
        BY <3>2, <2>4 DEF Thread, PostSynch
      <3>4. stack' = <<>> \/ stack' = <<f, n>> \o <<>>
        BY <3>1, <3>2 DEF process_start
      <3>5. Touch(<<f, n>> \o <<>>, Lapse') <=> f \in Lapse' \/ n \in Lapse' \/ Touch(<<>>, Lapse')
        <4>1. <<>> \in Seq({})
          OBVIOUS
        <4> QED BY <4>1, TouchPushTwo
      <3> QED BY <2>6, <3>3, <3>4, <3>5 DEF Touch
    <2> QED BY <2>1, <2>3, <2>7, <2>8
  <1> QED BY <1>2, <1>3, <1>4

(* A broadcast calls nobody twice and, when its walk has ended, has called *)
(* every process that was on the list when it began and still is, however  *)
(* the processes that it calls, and those polled in between, end and make  *)
(* each other exit; only starting processes is left to main.  When the     *)
(* walk stands on a process nobody else has a frame, so that whoever is on *)
(* the list is running and is called.  A process that leaves the list may  *)
(* be the one the walk waits at: its pointer still leads on, since nothing *)
(* is linked again, and never back.                                        *)
THEOREM BroadcastsReachAllOnce == NoStarts /\ Spec => []BroadcastOnce
  <1> DEFINE Inv == NoStarts /\ ListInv /\ ~Touch(stack, Lapse)
  <1>1. NoStarts /\ Init => Inv
    <2>1. Init => ~Touch(stack, Lapse)
      BY DEF Init, Touch
    <2> QED BY <2>1, ListInit
  <1>2. Inv /\ [Next]_vars => Inv'
    <2>1. ~Touch(stack', Lapse') => (~Touch(stack, Lapse))'
      BY DEF Touch
    <2> QED BY <2>1, ListStep, BroadcastStep DEF NoStarts
  <1>3. Inv => BroadcastOnce
    <2> SUFFICES ASSUME ListInv, ~Touch(stack, Lapse), At("do_event") PROVE
                 /\ ~Top.twice
                 /\ Top.p = NULL => Top.due \cap From(process_list) \subseteq Top.got
      BY DEF BroadcastOnce
    <2>1. stack # <<>> /\ Top \in DoEventFrame
      BY TopFacts, FrameKinds DEF At, ListInv, KernelInv
    <2>2. Served(Top)
      BY <2>1, TouchTop DEF Lapse, ListInv, KernelInv
    <2>3. ASSUME Top.p = NULL PROVE ToCall(Top) = {}
      <3>1. Top.step # "called"
        BY <2>1, <2>3, KernelAssumption DEF DoEventFrame
      <3>2. From(NULL) = {}
        <4>1. NULL \in Pointer /\ next \in [Process -> Pointer]
          BY DEF Pointer, ListInv, KernelInv, TypeOK
        <4> QED BY <4>1, FromFacts
      <3> QED BY <2>3, <3>1, <3>2 DEF ToCall
    <2> QED BY <2>2, <2>3 DEF Served
  <1> HIDE DEF Inv
  <1> QED BY <1>1, <1>2, <1>3, PTL DEF Spec
=============================================================================
