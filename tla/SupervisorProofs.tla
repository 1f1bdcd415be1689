-------------------------- MODULE SupervisorProofs --------------------------
(***************************************************************************)
(* What holds of Supervisor for every set of threads, every registry size  *)
(* and every bound.                                                        *)
(***************************************************************************)
EXTENDS Supervisor, FiniteSetTheorems, TLAPS

USE DEF T_FREE, T_NEW, T_RUNNING, ZygoteTrap

LEMMA HandlerInit == Init => HandlerInv
<1> SUFFICES ASSUME Init PROVE HandlerInv
  OBVIOUS
<1> USE KernelAssumption, SupervisorAssumption
<1>1. KernelTypeOK
  BY DEF Init, KernelInit, KernelTypeOK, StopKinds, EventStops, SigsysStops
<1>2. pending \in BOOLEAN /\ leader_done \in BOOLEAN
  BY DEF Init
<1>3. TypeOK
  BY <1>1, <1>2 DEF Init, TypeOK
<1>4. QED
  BY <1>3 DEF Init, KernelInit, HandlerInv, NoTraceeLeftHanging

\* What PTRACE_CONT leaves behind, whatever the stop and the signal.
LEMMA ResumeFacts ==
  ASSUME KernelTypeOK, NEW t \in Tids, NEW how \in {"inject", "suppress", "emulate"},
         \A u \in Tids : stop[u] # "none" <=> kst[u] \in {"waitable", "held"},
         Resume(t, how)
  PROVE  /\ kst' \in [Tids -> {"absent", "running", "waitable", "held", "zombie"}]
         /\ stop' \in [Tids -> StopKinds \cup {"none"}]
         /\ msg' \in [Tids -> Tids \cup {NoTid}]
         /\ jobctl' \subseteq Tids
         /\ wrong' \subseteq (StopKinds \X {"inject", "suppress", "emulate"})
         /\ \A u \in Tids : stop'[u] # "none" <=> kst'[u] \in {"waitable", "held"}
         /\ kst'[t] # "held"
         /\ \A u \in Tids : u # t => kst'[u] = kst[u]
  BY DEF Resume, KernelTypeOK, Members

LEMMA KilledFacts ==
  ASSUME KernelTypeOK, NEW p,
         \A u \in Tids : stop[u] # "none" <=> kst[u] \in {"waitable", "held"},
         Killed(p)
  PROVE  /\ kst' \in [Tids -> {"absent", "running", "waitable", "held", "zombie"}]
         /\ stop' \in [Tids -> StopKinds \cup {"none"}]
         /\ msg' \in [Tids -> Tids \cup {NoTid}]
         /\ jobctl' \subseteq Tids
         /\ \A u \in Tids : stop'[u] # "none" <=> kst'[u] \in {"waitable", "held"}
         /\ \A u \in Tids : kst'[u] = "held" => kst[u] = "held" /\ u \notin Members(p)
  BY DEF Killed, KernelTypeOK, Members, DeadState

LEMMA addType ==
  ASSUME NEW r \in [Tids -> {T_FREE, T_NEW, T_RUNNING}], NEW t, NEW st \in {T_NEW, T_RUNNING}
  PROVE  add(r, t, st) \in [Tids -> {T_FREE, T_NEW, T_RUNNING}]
  BY DEF add

LEMMA DrainFacts ==
  ASSUME KernelTypeOK, drain_pending
  PROVE  pending' \in BOOLEAN /\ inbox' \subseteq Tids
<1>1. pending' \in BOOLEAN
  BY DEF drain_pending
<1>2. inbox' \subseteq Tids
  BY DEF drain_pending, KernelTypeOK
<1>3. QED
  BY <1>1, <1>2

\* What is left to show of a handler once drain_pending is accounted for.
LEMMA HandledOK ==
  ASSUME HandlerInv, Handling,
         kst' \in [Tids -> {"absent", "running", "waitable", "held", "zombie"}],
         stop' \in [Tids -> StopKinds \cup {"none"}],
         msg' \in [Tids -> Tids \cup {NoTid}],
         jobctl' \subseteq Tids,
         wrong' \subseteq (StopKinds \X {"inject", "suppress", "emulate"}),
         \A u \in Tids : stop'[u] # "none" <=> kst'[u] \in {"waitable", "held"},
         \A u \in Tids : kst'[u] = "held" => u # cur /\ kst[u] = "held",
         group' = group, traced' \subseteq Tids,
         reg' \in [Tids -> {T_FREE, T_NEW, T_RUNNING}],
         emulated' \in 0..(RunawayCap + 1),
         leader_done' \in BOOLEAN,
         pc' \in {"loop", "done"}
  PROVE  HandlerInv'
<1>1. pending' \in BOOLEAN /\ inbox' \subseteq Tids
  BY DrainFacts DEF Handling, HandlerInv, TypeOK
<1>2. KernelTypeOK'
  BY <1>1 DEF Handling, HandlerInv, TypeOK, KernelTypeOK
<1>3. TypeOK'
  BY <1>1, <1>2 DEF Handling, TypeOK
<1>4. NoTraceeLeftHanging'
  BY DEF Handling, HandlerInv, NoTraceeLeftHanging
<1>5. QED
  BY <1>3, <1>4 DEF HandlerInv

LEMMA HandlerNext == HandlerInv /\ [Next]_vars => HandlerInv'
<1> SUFFICES ASSUME HandlerInv, [Next]_vars PROVE HandlerInv'
  OBVIOUS
<1> USE KernelAssumption, SupervisorAssumption
<1>1. CASE Launch
  <2>1. Leader \in Tids
    OBVIOUS
  <2>2. CASE kst[Leader] = "waitable" /\ reg' = add(reg, Leader, T_RUNNING) /\ Resume(Leader, "suppress") /\ pc' = "loop"
    BY <1>1, <2>1, <2>2, ResumeFacts, addType
    DEF Launch, HandlerInv, TypeOK, KernelTypeOK, NoTraceeLeftHanging
  <2>3. CASE Reap(Leader) /\ pc' = "done" /\ UNCHANGED reg
    BY <1>1, <2>1, <2>3
    DEF Launch, Reap, HandlerInv, TypeOK, KernelTypeOK, NoTraceeLeftHanging
  <2>4. CASE pc' = "failed"
    BY <1>1, <2>1, <2>4
    DEF Launch, Reap, HandlerInv, TypeOK, KernelTypeOK, NoTraceeLeftHanging
  <2>5. QED
    BY <1>1, <2>2, <2>3, <2>4 DEF Launch
<1>2. CASE Relay
  BY <1>2 DEF Relay, HandlerInv, TypeOK, KernelTypeOK, NoTraceeLeftHanging
<1>3. CASE Wait
  <2> USE DEF HandlerInv, TypeOK, KernelTypeOK, NoTraceeLeftHanging
  <2>1. ASSUME NEW t \in Tids, WaitStop(t) PROVE HandlerInv'
    BY <2>1 DEF WaitStop, StopKinds, EventStops, SigsysStops
  <2>2. ASSUME NEW t \in Tids, WaitExit(t) PROVE HandlerInv'
    BY <2>2 DEF WaitExit, Reap
  <2>3. CASE WaitBlocks
    BY <2>3 DEF WaitBlocks, kvars
  <2>4. CASE WaitNoChild
    BY <2>4 DEF WaitNoChild, kvars
  <2>5. QED
    BY <1>3, <2>1, <2>2, <2>3, <2>4 DEF Wait
<1>4. CASE Interrupted
  <2>1. pending' \in BOOLEAN /\ inbox' \subseteq Tids
    BY <1>4, DrainFacts DEF Interrupted, HandlerInv, TypeOK
  <2>2. QED
    BY <1>4, <2>1 DEF Interrupted, HandlerInv, TypeOK, KernelTypeOK, NoTraceeLeftHanging
<1>5. CASE Handle
  <2>0. Handling /\ cur \in Tids /\ TypeOK /\ KernelTypeOK
        /\ \A u \in Tids : stop[u] # "none" <=> kst[u] \in {"waitable", "held"}
    BY <1>5 DEF Handle, HandleExit, HandleFork, HandleLane, HandleEvent, HandleUnknown,
       HandleStartup, HandleSigsys, HandleGroupStop, HandlePassthrough, Handling,
       HandlerInv, TypeOK
  <2>1. CASE HandleExit
    <3>1. leader_done' \in BOOLEAN
      BY <2>1 DEF HandleExit
    <3>2. pc' \in {"loop", "done"}
      BY <2>1 DEF HandleExit, NextPc
    <3>3. reg' \in [Tids -> {T_FREE, T_NEW, T_RUNNING}]
      BY <2>0, <2>1 DEF HandleExit, drop, TypeOK
    <3>4. \A u \in Tids : kst'[u] = "held" => u # cur /\ kst[u] = "held"
      BY <2>0, <2>1 DEF HandleExit, Handling, HandlerInv
    <3>5. QED
      BY <2>0, <2>1, <3>1, <3>2, <3>3, <3>4, HandledOK DEF HandleExit, TypeOK, KernelTypeOK
  <2>2. CASE HandleFork
    <3>1. Resume(cur, "suppress") /\ pc' = "loop"
      BY <2>2 DEF HandleFork
    <3>2. reg' \in [Tids -> {T_FREE, T_NEW, T_RUNNING}]
      BY <2>0, <2>2, addType DEF HandleFork, TypeOK
    <3>3. QED
      BY <2>0, <2>2, <3>1, <3>2, ResumeFacts, HandledOK DEF HandleFork, TypeOK, KernelTypeOK, HandlerInv, NoTraceeLeftHanging
  <2>3. CASE HandleLane
    <3>1. pc' \in {"loop", "done"}
      BY <2>3 DEF HandleLane, NextPc
    <3>2. reg' \in [Tids -> {T_FREE, T_NEW, T_RUNNING}]
      BY <2>0, <2>3 DEF HandleLane, drop, TypeOK
    <3>3. QED
      BY <2>0, <2>3, <3>1, <3>2, HandledOK DEF HandleLane, TypeOK, KernelTypeOK, HandlerInv, NoTraceeLeftHanging
  <2>4. CASE HandleEvent
    <3>1. Resume(cur, "suppress") /\ pc' = "loop"
      BY <2>4 DEF HandleEvent
    <3>2. reg' \in [Tids -> {T_FREE, T_NEW, T_RUNNING}]
      BY <2>0, <2>4 DEF HandleEvent, TypeOK
    <3>3. QED
      BY <2>0, <2>4, <3>1, <3>2, ResumeFacts, HandledOK DEF HandleEvent, TypeOK, KernelTypeOK, HandlerInv, NoTraceeLeftHanging
  <2>5. CASE HandleUnknown
    <3>1. Resume(cur, "suppress") /\ pc' = "loop"
      BY <2>5 DEF HandleUnknown
    <3>2. reg' \in [Tids -> {T_FREE, T_NEW, T_RUNNING}]
      BY <2>0, <2>5, addType DEF HandleUnknown, TypeOK
    <3>3. QED
      BY <2>0, <2>5, <3>1, <3>2, ResumeFacts, HandledOK DEF HandleUnknown, TypeOK, KernelTypeOK, HandlerInv, NoTraceeLeftHanging
  <2>6. CASE HandleStartup
    <3>1. Resume(cur, "suppress") /\ pc' = "loop"
      BY <2>6 DEF HandleStartup
    <3>2. reg' \in [Tids -> {T_FREE, T_NEW, T_RUNNING}]
      BY <2>0, <2>6 DEF HandleStartup, TypeOK
    <3>3. QED
      BY <2>0, <2>6, <3>1, <3>2, ResumeFacts, HandledOK DEF HandleStartup, TypeOK, KernelTypeOK, HandlerInv, NoTraceeLeftHanging
  <2>7. CASE HandleSigsys
    <3>1. emulated' \in 0..(RunawayCap + 1)
      BY <2>0, <2>7 DEF HandleSigsys, TypeOK
    <3>2. CASE emulated' > RunawayCap
      <4>1. cur \in Members(group[cur])
        BY <2>0, <2>7 DEF HandleSigsys, Members
      <4>2. QED
        BY <2>0, <2>7, <3>1, <3>2, <4>1, KilledFacts, HandledOK DEF HandleSigsys, TypeOK, KernelTypeOK, HandlerInv, NoTraceeLeftHanging
    <3>3. CASE ~(emulated' > RunawayCap)
      BY <2>0, <2>7, <3>1, <3>3, ResumeFacts, HandledOK DEF HandleSigsys, TypeOK, KernelTypeOK, HandlerInv, NoTraceeLeftHanging
    <3>4. QED
      BY <3>2, <3>3
  <2>8. CASE HandleGroupStop
    <3>1. Resume(cur, "suppress") /\ pc' = "loop"
      BY <2>8 DEF HandleGroupStop
    <3>2. reg' \in [Tids -> {T_FREE, T_NEW, T_RUNNING}]
      BY <2>0, <2>8 DEF HandleGroupStop, TypeOK
    <3>3. QED
      BY <2>0, <2>8, <3>1, <3>2, ResumeFacts, HandledOK DEF HandleGroupStop, TypeOK, KernelTypeOK, HandlerInv, NoTraceeLeftHanging
  <2>9. CASE HandlePassthrough
    <3>1. Resume(cur, "inject") /\ pc' = "loop"
      BY <2>9 DEF HandlePassthrough
    <3>2. reg' \in [Tids -> {T_FREE, T_NEW, T_RUNNING}]
      BY <2>0, <2>9 DEF HandlePassthrough, TypeOK
    <3>3. QED
      BY <2>0, <2>9, <3>1, <3>2, ResumeFacts, HandledOK DEF HandlePassthrough, TypeOK, KernelTypeOK, HandlerInv, NoTraceeLeftHanging
  <2>10. QED
    BY <1>5, <2>1, <2>2, <2>3, <2>4, <2>5, <2>6, <2>7, <2>8, <2>9 DEF Handle
<1>6. CASE GuestStep /\ UNCHANGED svars
  <2> USE <1>6 DEF svars, HandlerInv, TypeOK, KernelTypeOK, NoTraceeLeftHanging
  <2>1. ASSUME NEW t \in Tids, NEW c \in Tids, NEW thread \in BOOLEAN, Clone(t, c, thread)
        PROVE  HandlerInv'
    BY <2>1 DEF Clone, StopKinds, EventStops
  <2>2. ASSUME NEW t \in Tids, NEW k \in StopKinds, Stops(t, k),
               UNCHANGED <<msg, group, traced, used, wrong>>,
               inbox' \subseteq inbox, jobctl' \subseteq jobctl, sent' \in 0..MaxSignals
        PROVE  HandlerInv'
    BY <2>2 DEF Stops, StopKinds, EventStops, SigsysStops
  <2>3. ASSUME NEW t \in Tids, \/ \E k \in SigsysStops : Trap(t, k)
                               \/ Deliver(t) \/ StopSignal(t) \/ GroupStop(t) \/ Exit(t)
        PROVE  HandlerInv'
    BY <2>2, <2>3 DEF Trap, Deliver, StopSignal, GroupStop, Exit, SigsysStops, StopKinds, EventStops
  <2>4. ASSUME NEW t \in Tids, NEW k \in {"exec", "exec_lane"}, Exec(t, k)
        PROVE  HandlerInv'
    BY <2>4 DEF Exec, StopKinds, EventStops
  <2>5. ASSUME NEW p \in Tids, Kill(p)
        PROVE  HandlerInv'
    BY <2>5, KilledFacts DEF Kill
  <2>6. QED
    BY <2>1, <2>3, <2>4, <2>5 DEF GuestStep
<1>7. CASE UNCHANGED vars
  BY <1>7 DEF vars, svars, kvars, HandlerInv, TypeOK, KernelTypeOK, NoTraceeLeftHanging
<1>8. QED
  BY <1>1, <1>2, <1>3, <1>4, <1>5, <1>6, <1>7 DEF Next, SupervisorStep

\* alr_supervise's state is always well formed, and whatever branch the loop
\* takes, it continues the thread it took from waitpid: no thread is ever left
\* in a stop that nobody will end.  For every registry size, with or without
\* reuse of thread ids.
THEOREM NoHang == Spec => [](TypeOK /\ NoTraceeLeftHanging)
<1>1. HandlerInv => TypeOK /\ NoTraceeLeftHanging
  BY DEF HandlerInv
<1>2. QED
  BY <1>1, HandlerInit, HandlerNext, PTL DEF Spec
-----------------------------------------------------------------------------
(***************************************************************************)
(* The registry argument.  Reuse of a thread id breaks it (an exec by a    *)
(* thread that is not its group's leader leaves an entry behind), and so   *)
(* does a registry with too few slots; both are assumed away here and      *)
(* exhibited by runs of their own.                                         *)
(***************************************************************************)
Roomy == Cardinality(Tids) <= MaxTracees

LEMMA addRoomy ==
  ASSUME Roomy, NEW r \in [Tids -> {T_FREE, T_NEW, T_RUNNING}], NEW t \in Tids, NEW st,
         r[t] = T_FREE
  PROVE  add(r, t, st) = [r EXCEPT ![t] = st]
<1> DEFINE S == {u \in Tids : r[u] # T_FREE}
<1>1. IsFiniteSet(Tids) /\ MaxTracees \in Nat
  BY SupervisorAssumption
<1>2. IsFiniteSet(Tids \ {t}) /\ Cardinality(Tids \ {t}) = Cardinality(Tids) - 1
  BY <1>1, FS_RemoveElement
<1>3. S \subseteq Tids \ {t}
  OBVIOUS
<1>4. IsFiniteSet(S) /\ Cardinality(S) <= Cardinality(Tids \ {t})
  BY <1>2, <1>3, FS_Subset
<1>5. Cardinality(S) \in Nat /\ Cardinality(Tids) \in Nat
  BY <1>1, <1>4, FS_CardinalityType
<1>6. ~(Cardinality(S) >= MaxTracees)
  BY <1>1, <1>2, <1>4, <1>5 DEF Roomy
<1>7. QED
  BY <1>6 DEF add

LEMMA RegistryInit == Init => RegistryInv
  BY KernelAssumption
  DEF Init, KernelInit, RegistryInv, UnusedInv, StopInv, GroupInv, ReportInv,
      RegistryCoversTracees, EveryStopResumedProperly, Alive

LEMMA RegistryNext ==
  ASSUME Roomy, ~TidReuse
  PROVE  HandlerInv /\ RegistryInv /\ [Next]_vars => RegistryInv'
<1> SUFFICES ASSUME HandlerInv, RegistryInv, [Next]_vars PROVE RegistryInv'
  OBVIOUS
<1> USE KernelAssumption
<1>0. TypeOK /\ KernelTypeOK /\ reg \in [Tids -> {T_FREE, T_NEW, T_RUNNING}]
  BY DEF HandlerInv, TypeOK
<1> USE DEF UnusedInv, StopInv, GroupInv, ReportInv,
      RegistryCoversTracees, EveryStopResumedProperly, Alive
<1>1. CASE Launch
  BY <1>0, <1>1, addRoomy DEF Launch, Resume, Reap, Reportable, Proper, RegistryInv, KernelTypeOK
<1>2. CASE Relay
  BY <1>0, <1>2 DEF Relay, RegistryInv
<1>3. CASE Wait
  <2>1. ASSUME NEW t \in Tids, WaitStop(t) PROVE RegistryInv'
    BY <1>0, <2>1 DEF WaitStop, RegistryInv, KernelTypeOK, StopKinds, EventStops, SigsysStops
  <2>2. ASSUME NEW t \in Tids, WaitExit(t) PROVE RegistryInv'
    BY <1>0, <2>2 DEF WaitExit, Reap, Reportable, Members, RegistryInv, KernelTypeOK
  <2>3. CASE WaitBlocks
    BY <1>0, <2>3 DEF WaitBlocks, kvars, RegistryInv
  <2>4. CASE WaitNoChild
    BY <1>0, <2>4 DEF WaitNoChild, kvars, RegistryInv
  <2>5. QED
    BY <1>3, <2>1, <2>2, <2>3, <2>4 DEF Wait
<1>4. CASE Interrupted
  BY <1>0, <1>4 DEF Interrupted, RegistryInv
<1>5. CASE Handle
  <2>0. Handling /\ cur \in Tids
    BY <1>5 DEF Handle, HandleExit, HandleFork, HandleLane, HandleEvent, HandleUnknown,
       HandleStartup, HandleSigsys, HandleGroupStop, HandlePassthrough, Handling,
       HandlerInv
  <2>1. CASE HandleExit
    BY <1>0, <2>0, <2>1 DEF HandleExit, Handling, drop, NextPc, RegistryInv, KernelTypeOK
  <2>2. CASE HandleFork
    <3>1. CASE reg' = reg
      BY <1>0, <2>0, <2>2, <3>1 DEF HandleFork, Handling, Resume, Proper, EventStops, RegistryInv, KernelTypeOK
    <3>2. CASE msg[cur] \in Tids /\ reg[msg[cur]] = T_FREE /\ reg' = [reg EXCEPT ![msg[cur]] = T_NEW]
      BY <1>0, <2>0, <2>2, <3>2 DEF HandleFork, Handling, Resume, Proper, EventStops, RegistryInv, KernelTypeOK
    <3>3. QED
      BY <1>0, <2>0, <2>2, <3>1, <3>2, addRoomy DEF HandleFork, add, KernelTypeOK
  <2>3. CASE HandleLane
    BY <1>0, <2>0, <2>3 DEF HandleLane, Handling, drop, NextPc, RegistryInv, KernelTypeOK
  <2>4. CASE HandleEvent
    BY <1>0, <2>0, <2>4 DEF HandleEvent, Handling, Resume, Proper, EventStops, RegistryInv, KernelTypeOK
  <2>5. CASE HandleUnknown
    BY <1>0, <2>0, <2>5, addRoomy DEF HandleUnknown, Handling, SignalStop, Resume, Proper, EventStops, RegistryInv, KernelTypeOK
  <2>6. CASE HandleStartup
    BY <1>0, <2>0, <2>6 DEF HandleStartup, Handling, Resume, Proper, EventStops, RegistryInv, KernelTypeOK
  <2>7. CASE HandleSigsys
    <3>1. CASE Killed(group[cur]) /\ UNCHANGED wrong
      BY <1>0, <2>0, <2>7, <3>1 DEF HandleSigsys, Handling, Killed, Members, DeadState, RegistryInv, KernelTypeOK
    <3>2. CASE Resume(cur, "emulate")
      BY <1>0, <2>0, <2>7, <3>2 DEF HandleSigsys, Handling, Resume, Proper, EventStops, RegistryInv, KernelTypeOK
    <3>3. QED
      BY <2>7, <3>1, <3>2 DEF HandleSigsys
  <2>8. CASE HandleGroupStop
    BY <1>0, <2>0, <2>8 DEF HandleGroupStop, Handling, KnownSignal, Resume, Proper, EventStops, RegistryInv, KernelTypeOK
  <2>9. CASE HandlePassthrough
    BY <1>0, <2>0, <2>9 DEF HandlePassthrough, Handling, KnownSignal, SignalStop, Resume, Proper,
       EventStops, SigsysStops, RegistryInv, KernelTypeOK
  <2>10. QED
    BY <1>5, <2>1, <2>2, <2>3, <2>4, <2>5, <2>6, <2>7, <2>8, <2>9 DEF Handle
<1>6. CASE GuestStep /\ UNCHANGED svars
  <2> USE <1>0, <1>6 DEF svars, RegistryInv, KernelTypeOK
  <2>1. ASSUME NEW t \in Tids, NEW c \in Tids, NEW thread \in BOOLEAN, Clone(t, c, thread)
        PROVE  RegistryInv'
    BY <2>1 DEF Clone
  <2>2. ASSUME NEW t \in Tids, NEW k \in SigsysStops \cup {"signal", "stopsig", "group", "exit"}, Stops(t, k),
               UNCHANGED <<msg, group, traced, used, wrong>>
        PROVE  RegistryInv'
    BY <2>2 DEF Stops, SigsysStops
  <2>3. ASSUME NEW t \in Tids, \/ \E k \in SigsysStops : Trap(t, k)
                               \/ Deliver(t) \/ StopSignal(t) \/ GroupStop(t) \/ Exit(t)
        PROVE  RegistryInv'
    BY <2>2, <2>3 DEF Trap, Deliver, StopSignal, GroupStop, Exit
  <2>4. ASSUME NEW t \in Tids, NEW k \in {"exec", "exec_lane"}, Exec(t, k)
        PROVE  RegistryInv'
    BY <2>4 DEF Exec, Members
  <2>5. ASSUME NEW p \in Tids, Kill(p)
        PROVE  RegistryInv'
    BY <2>5 DEF Kill, Killed, Members, DeadState
  <2>6. QED
    BY <2>1, <2>3, <2>4, <2>5 DEF GuestStep
<1>7. CASE UNCHANGED vars
  BY <1>7 DEF vars, svars, kvars, RegistryInv
<1>8. QED
  BY <1>1, <1>2, <1>3, <1>4, <1>5, <1>6, <1>7 DEF Next, SupervisorStep

\* For every number of threads: with thread ids used once and room in the
\* registry, no interleaving of fork events, first stops, kills, execs and
\* relayed signals makes the main loop resume a stop wrongly.
THEOREM StopsResumedProperly ==
  ASSUME Roomy, ~TidReuse
  PROVE  Spec => []EveryStopResumedProperly
<1>1. RegistryInv => EveryStopResumedProperly
  BY DEF RegistryInv
<1>2. HandlerInv /\ RegistryInv /\ [Next]_vars => RegistryInv'
  BY RegistryNext
<1>3. QED
  BY <1>1, <1>2, HandlerInit, HandlerNext, RegistryInit, PTL DEF Spec

\* The registry holds every thread that is past its startup stop and believes
\* it of no other, whichever of the fork event and the child's own first stop
\* waitpid reported first.
THEOREM RegistryFollowsTracees ==
  ASSUME Roomy, ~TidReuse
  PROVE  Spec => []RegistryCoversTracees
<1>1. RegistryInv => RegistryCoversTracees
  BY DEF RegistryInv
<1>2. HandlerInv /\ RegistryInv /\ [Next]_vars => RegistryInv'
  BY RegistryNext
<1>3. QED
  BY <1>1, <1>2, HandlerInit, HandlerNext, RegistryInit, PTL DEF Spec

-----------------------------------------------------------------------------
LEMMA LeaderInit == Init => LeaderInv
  BY KernelAssumption DEF Init, KernelInit, LeaderInv, ReturnsLeaderStatus

LEMMA LeaderNext ==
  HandlerInv /\ RegistryInv /\ RegistryInv' /\ LeaderInv /\ [Next]_vars => LeaderInv'
<1> SUFFICES ASSUME HandlerInv, RegistryInv, RegistryInv', LeaderInv, [Next]_vars PROVE LeaderInv'
  OBVIOUS
<1> USE KernelAssumption
<1>0. TypeOK /\ KernelTypeOK /\ RegistryCoversTracees /\ RegistryCoversTracees' /\ traced \subseteq Tids
  BY DEF HandlerInv, TypeOK, KernelTypeOK, RegistryInv
<1> USE DEF LeaderInv, ReturnsLeaderStatus, KernelTypeOK
<1>1. CASE Launch
  BY <1>0, <1>1 DEF Launch, Resume, Reap, Reportable, RegistryInv, ReportInv, Alive
<1>2. CASE Relay
  BY <1>0, <1>2 DEF Relay
<1>3. CASE Wait
  <2>1. ASSUME NEW t \in Tids, WaitStop(t) PROVE LeaderInv'
    BY <1>0, <2>1 DEF WaitStop
  <2>2. ASSUME NEW t \in Tids, WaitExit(t) PROVE LeaderInv'
    BY <1>0, <2>2 DEF WaitExit, Reap
  <2>3. CASE WaitBlocks
    BY <1>0, <2>3 DEF WaitBlocks, kvars
  <2>4. CASE WaitNoChild
    BY <1>0, <2>4 DEF WaitNoChild, HasChildren, kvars, Alive
  <2>5. QED
    BY <1>3, <2>1, <2>2, <2>3, <2>4 DEF Wait
<1>4. CASE Interrupted
  BY <1>0, <1>4 DEF Interrupted
<1>5. CASE Handle
  <2>1. CASE HandleExit
    <3>1. pc' = "done" => \A t \in Tids : reg'[t] = T_FREE
      BY <2>1 DEF HandleExit, NextPc, live
    <3>2. pc' = "done" => \A t \in traced : Alive(t)' => stop'[t] = "startup"
      BY <1>0, <2>1, <3>1 DEF HandleExit, RegistryCoversTracees
    <3>3. pc' = "done" => leader_done'
      BY <2>1 DEF HandleExit, NextPc
    <3>4. kst'[Leader] = "absent" => leader_done'
      BY <1>0, <2>1 DEF HandleExit, Handling
    <3>5. QED
      BY <1>0, <2>1, <3>2, <3>3, <3>4 DEF HandleExit
  <2>2. CASE HandleLane
    <3>1. pc' = "done" => \A t \in Tids : reg'[t] = T_FREE
      BY <2>2 DEF HandleLane, NextPc, live
    <3>2. pc' = "done" => \A t \in traced' : Alive(t)' => stop'[t] = "startup"
      BY <1>0, <2>2, <3>1 DEF HandleLane, RegistryCoversTracees
    <3>3. pc' = "done" => leader_done'
      BY <2>2 DEF HandleLane, NextPc
    <3>4. QED
      BY <1>0, <2>2, <3>2, <3>3 DEF HandleLane, Handling, RegistryInv, StopInv, HandlerInv
  <2>3. CASE HandleSigsys
    BY <1>0, <2>3 DEF HandleSigsys, Handling, Killed, Members, DeadState, Resume, SigsysStops
  <2>4. CASE HandleFork \/ HandleEvent \/ HandleUnknown \/ HandleStartup
             \/ HandleGroupStop \/ HandlePassthrough
    <3>1. /\ pc' = "loop" /\ group' = group /\ leader_done' = leader_done
          /\ status # "dead" /\ pc = "got"
          /\ Resume(cur, "suppress") \/ Resume(cur, "inject")
      BY <2>4 DEF HandleFork, HandleEvent, HandleUnknown, HandleStartup,
         HandleGroupStop, HandlePassthrough, Handling, SignalStop, KnownSignal,
         StopKinds, EventStops, SigsysStops
    <3>2. kst'[Leader] = "absent" => kst[Leader] = "absent"
      BY <1>0, <3>1 DEF Resume
    <3>3. QED
      BY <3>1, <3>2
  <2>5. QED
    BY <1>5, <2>1, <2>2, <2>3, <2>4 DEF Handle
<1>6. CASE pc \notin {"done", "failed"} /\ GuestStep /\ UNCHANGED svars
  <2>1. group'[Leader] = Leader /\ (kst'[Leader] = "absent" => kst[Leader] = "absent")
    <3>1. ASSUME NEW t \in Tids, NEW c \in Tids, NEW thread \in BOOLEAN, Clone(t, c, thread)
          PROVE  group'[Leader] = Leader /\ (kst'[Leader] = "absent" => kst[Leader] = "absent")
      BY <1>0, <3>1 DEF Clone
    <3>2. ASSUME NEW t \in Tids, \/ \E k \in SigsysStops : Trap(t, k)
                                 \/ Deliver(t) \/ StopSignal(t) \/ GroupStop(t) \/ Exit(t)
          PROVE  group'[Leader] = Leader /\ (kst'[Leader] = "absent" => kst[Leader] = "absent")
      BY <1>0, <3>2 DEF Trap, Deliver, StopSignal, GroupStop, Exit, Stops
    <3>3. ASSUME NEW t \in Tids, NEW k \in {"exec", "exec_lane"}, Exec(t, k)
          PROVE  group'[Leader] = Leader /\ (kst'[Leader] = "absent" => kst[Leader] = "absent")
      BY <1>0, <3>3 DEF Exec
    <3>4. ASSUME NEW p \in Tids, Kill(p)
          PROVE  group'[Leader] = Leader /\ (kst'[Leader] = "absent" => kst[Leader] = "absent")
      BY <1>0, <3>4 DEF Kill, Killed, Members, DeadState
    <3>5. QED
      BY <1>6, <3>1, <3>2, <3>3, <3>4 DEF GuestStep
  <2>2. QED
    BY <1>6, <2>1 DEF svars
<1>7. CASE UNCHANGED vars
  BY <1>7 DEF vars, svars, kvars, Alive
<1>8. QED
  BY <1>1, <1>2, <1>3, <1>4, <1>5, <1>6, <1>7 DEF Next, SupervisorStep

\* When alr_supervise returns it has reaped the leader, so the status it hands
\* back is the leader's, and it leaves no living thread it ever continued.
THEOREM LeaderStatusReturned ==
  ASSUME Roomy, ~TidReuse
  PROVE  Spec => []ReturnsLeaderStatus
<1>1. LeaderInv => ReturnsLeaderStatus
  BY DEF LeaderInv
<1>2. HandlerInv /\ RegistryInv /\ [Next]_vars => RegistryInv'
  BY RegistryNext
<1>3. QED
  BY <1>1, <1>2, HandlerInit, HandlerNext, RegistryInit, LeaderInit, LeaderNext, PTL DEF Spec
==============================================================================
