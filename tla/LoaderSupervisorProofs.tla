------------------------ MODULE LoaderSupervisorProofs ------------------------
(***************************************************************************)
(* No path is rewritten through a stale /proc/<tid>/mem, for every number  *)
(* of guest threads and processes.                                         *)
(***************************************************************************)
EXTENDS LoaderSupervisor, TLAPS

\* What MemFdInv says while no exec stop was lost.
Clean == AttachInv /\ GroupInv /\ ExecStopInv /\ HandledInv /\ FdInv

LEMMA FdInit == Init => MemFdInv
  BY LoaderAssumption
  DEF Init, MemFdInv, LoaderTypes, AttachInv, GroupInv, ExecStopInv, HandledInv, FdInv,
      StopKinds, SignalStops, EventStops

LEMMA FdImplies == MemFdInv => MemFdFresh
  BY LoaderAssumption
  DEF MemFdInv, LoaderTypes, ExecStopInv, HandledInv, FdInv, MemFdFresh

-----------------------------------------------------------------------------
(* Types *)
LEMMA TypesKept == LoaderTypes /\ [Next]_vars => LoaderTypes'
<1> SUFFICES ASSUME LoaderTypes, [Next]_vars PROVE LoaderTypes'
  OBVIOUS
<1> USE LoaderAssumption DEF LoaderTypes
<1>1. CASE Attach
  BY <1>1 DEF Attach, loop
<1>2. CASE Guard
  BY <1>2 DEF Guard, StopKinds, EventStops, loop
<1>3. CASE LoopDone \/ JoinWatchdog \/ JoinReaders
  BY <1>3 DEF LoopDone, JoinWatchdog, JoinReaders, kernel, loop, fixed
<1>4. ASSUME NEW w \in Tids, WaitStop(w) PROVE LoaderTypes'
  BY <1>4 DEF WaitStop, loop
<1>5. ASSUME NEW w \in Tids, WaitExit(w) PROVE LoaderTypes'
  BY <1>5 DEF WaitExit
<1>6. ASSUME NEW w \in Tids, Handle(w) PROVE LoaderTypes'
  <2>1. CASE HandleSeccomp(w)
    BY <2>1 DEF HandleSeccomp, Handling, UseMemFd, Resume, Cont
  <2>2. CASE HandleExec(w)
    BY <2>2 DEF HandleExec, Handling, Cont
  <2>3. CASE HandleEvent(w)
    BY <2>3 DEF HandleEvent, Handling, Resume, Cont, loop
  <2>4. CASE HandleSignal(w)
    BY <2>4 DEF HandleSignal, Handling, Killed, loop
  <2>5. CASE HandleNewTid(w)
    BY <2>5 DEF HandleNewTid, Handling, Resume, Cont
  <2>6. CASE HandleGroupStop(w)
    BY <2>6 DEF HandleGroupStop, Handling, Resume, Cont
  <2>7. CASE HandleEventStop(w)
    BY <2>7 DEF HandleEventStop, Handling, Resume, Cont
  <2>8. QED
    BY <1>6, <2>1, <2>2, <2>3, <2>4, <2>5, <2>6, <2>7 DEF Handle
<1>7. CASE Watchdog
  BY <1>7 DEF Watchdog, Poll, StandDown, Fire, KillStalled, Killed, kernel, loop, fixed
<1>8. CASE Setsid \/ OtherGuestEnds
  BY <1>8 DEF Setsid, OtherGuestEnds, kernel, loop, fixed
<1>9. ASSUME NEW t \in Tids, Guest(t) PROVE LoaderTypes'
  <2>1. CASE Trap(t)
    BY <2>1 DEF Trap, Stopped, StopKinds, loop
  <2>2. CASE ExecStart(t)
    BY <2>2 DEF ExecStart, loop
  <2>3. ASSUME NEW u \in Tids, NEW forks \in BOOLEAN, Spawn(t, u, forks) PROVE LoaderTypes'
    BY <2>3 DEF Spawn, StopKinds, EventStops, loop
  <2>4. ASSUME NEW all \in BOOLEAN, Exit(t, all) PROVE LoaderTypes'
    BY <2>4 DEF Exit, Killed, loop
  <2>5. CASE GroupStop(t) \/ Sigcont(t)
    BY <2>5 DEF GroupStop, Sigcont, loop
  <2>6. QED
    BY <1>9, <2>1, <2>2, <2>3, <2>4, <2>5 DEF Guest
<1>10. ASSUME NEW t \in Tids, Kernel(t) PROVE LoaderTypes'
  BY <1>10 DEF Kernel, EnterGroupStop, Stopped, ExecDone, StopKinds, EventStops, loop
<1>11. CASE UNCHANGED vars
  BY <1>11 DEF vars, kernel, loop
<1>12. QED
  BY <1>1, <1>2, <1>3, <1>4, <1>5, <1>6, <1>7, <1>8, <1>9, <1>10, <1>11
  DEF Next, Supervise

\* An exec stop once lost stays recorded.
LEMMA OddGrows == [Next]_vars /\ "lost" \notin odd' => "lost" \notin odd
<1> SUFFICES ASSUME [Next]_vars, "lost" \in odd PROVE "lost" \in odd'
  OBVIOUS
<1> USE DEF kernel, Lose, Killed, Resume, Cont
<1>1. CASE Supervise
  BY <1>1 DEF Supervise, Attach, Guard, LoopDone, JoinWatchdog, JoinReaders, WaitStop,
     WaitExit, Handle, HandleSeccomp, HandleExec, HandleEvent, HandleSignal, HandleNewTid,
     HandleGroupStop, HandleEventStop
<1>2. CASE Watchdog \/ Setsid \/ OtherGuestEnds
  BY <1>2 DEF Watchdog, Poll, StandDown, Fire, KillStalled, Setsid, OtherGuestEnds
<1>3. ASSUME NEW t \in Tids, Guest(t) \/ Kernel(t) PROVE "lost" \in odd'
  BY <1>3 DEF Guest, Trap, ExecStart, Spawn, Exit, GroupStop, Sigcont, Kernel,
     EnterGroupStop, ExecDone
<1>4. CASE UNCHANGED vars
  BY <1>4 DEF vars
<1>5. QED
  BY <1>1, <1>2, <1>3, <1>4 DEF Next

-----------------------------------------------------------------------------
(* The launch thread *)
LEMMA KeptByAttach == LoaderTypes /\ Clean /\ Attach => Clean'
  BY LoaderAssumption
  DEF LoaderTypes, Clean, AttachInv, GroupInv, ExecStopInv, HandledInv, FdInv, Attach, loop

LEMMA KeptByGuard == LoaderTypes /\ Clean /\ Guard => Clean'
<1> SUFFICES ASSUME LoaderTypes, Clean, Guard PROVE Clean'
  OBVIOUS
<1> USE LoaderAssumption DEF LoaderTypes, Clean, Guard, loop
<1>1. AttachInv' /\ HandledInv'
  BY DEF AttachInv, HandledInv
<1>2. GroupInv' /\ FdInv'
  BY DEF GroupInv, FdInv, ExecStopInv
<1>3. ExecStopInv'
  BY DEF ExecStopInv
<1>4. QED
  BY <1>1, <1>2, <1>3

LEMMA KeptByWait ==
  ASSUME LoaderTypes, Clean, NEW w \in Tids, WaitStop(w) \/ WaitExit(w)
  PROVE  Clean'
<1> USE LoaderAssumption DEF LoaderTypes, Clean
<1>1. CASE WaitStop(w)
  BY <1>1 DEF WaitStop, loop, AttachInv, GroupInv, ExecStopInv, HandledInv, FdInv
<1>2. CASE WaitExit(w)
  <2>1. former[w] = None /\ \A g \in Tids : former[g] # w
    BY <1>2 DEF WaitExit, ExecStopInv
  <2>2. \A t \in Tids : group[t] = w => t = w
    BY <1>2 DEF WaitExit, Reportable, Members, Live, GroupInv
  <2>3. GroupInv'
    BY <1>2, <2>2 DEF WaitExit, GroupInv
  <2>4. ExecStopInv'
    BY <1>2, <2>1, <2>2 DEF WaitExit, ExecStopInv
  <2>5. AttachInv' /\ HandledInv' /\ FdInv'
    BY <1>2, <2>1 DEF WaitExit, AttachInv, HandledInv, FdInv
  <2>6. QED
    BY <2>3, <2>4, <2>5
<1>3. QED
  BY <1>1, <1>2

LEMMA KeptByEnd == LoaderTypes /\ Clean /\ (LoopDone \/ JoinWatchdog \/ JoinReaders) => Clean'
  BY DEF LoaderTypes, Clean, AttachInv, GroupInv, ExecStopInv, HandledInv, FdInv,
     LoopDone, JoinWatchdog, JoinReaders, kernel, loop, fixed

\* A resumed thread has no exec stop to lose.
LEMMA KeptByResume ==
  ASSUME LoaderTypes, Clean, "lost" \notin odd', NEW w \in Tids, NEW kinds,
         Handling(w, kinds), Resume(w),
         \A t \in Tids \ {w} : fd'[t] = fd[t], fd'[w] \in {0, fd[w], mm[w]}
  PROVE  Clean'
<1> USE LoaderAssumption DEF LoaderTypes, Clean
<1>1. former[w] = None
  BY DEF ExecStopInv, Resume, Cont, Lose, Attached
<1>2. former' = former /\ group' = group /\ mm' = mm /\ sup'.at = "guard"
  BY <1>1 DEF Handling
<1>3. /\ \A t \in Tids \ {w} : st'[t] = st[t] /\ stop'[t] = stop[t]
      /\ stop'[w] = "none" /\ st'[w] = IF Attached(w) THEN "running" ELSE st[w]
  BY DEF Resume, Cont
<1>4. GroupInv'
  BY <1>2, <1>3 DEF GroupInv, Attached
<1>5. ExecStopInv'
  BY <1>1, <1>2, <1>3 DEF ExecStopInv, Attached
<1>6. FdInv'
  BY <1>1, <1>2, <1>3 DEF FdInv, Attached
<1>7. QED
  BY <1>2, <1>4, <1>5, <1>6 DEF AttachInv, HandledInv

\* SIGKILL: whoever dies had no exec stop to lose either.
LEMMA KeptByKill ==
  ASSUME LoaderTypes, Clean, "lost" \notin odd', NEW s, NEW ps,
         Killed(s, ps), group' = group, mm' = mm, former' = former, fd' = fd,
         \A t \in Tids : \/ s[t] = st[t]
                         \/ st[t] \in {"running", "untraced", "waitable", "held"}
                            /\ s[t] \in {"running", "zombie"},
         sup' = sup \/ sup'.at = "guard", sup.at # "attach"
  PROVE  Clean'
<1> USE LoaderAssumption DEF LoaderTypes, Clean
<1>1. \A t \in Tids : former[t] # None => st'[t] = st[t] /\ stop'[t] = stop[t]
  BY DEF ExecStopInv, Killed, Lose, Live
<1>2. \A t \in Tids :
        /\ \/ st'[t] = st[t]
           \/ st[t] # "absent" /\ st'[t] = "zombie"
           \/ st[t] \in {"running", "untraced", "waitable", "held"} /\ st'[t] = "running"
        /\ stop'[t] = IF st'[t] \in {"zombie", "running"} THEN "none" ELSE stop[t]
  BY DEF Killed, Live
<1>3. GroupInv'
  BY <1>2 DEF GroupInv
<1>4. ExecStopInv'
  BY <1>1, <1>2, ExecStopInv DEF ExecStopInv
<1>5. FdInv'
  BY <1>1, <1>2 DEF FdInv
<1>6. HandledInv'
  BY <1>1, <1>2 DEF HandledInv, ExecStopInv
<1>7. QED
  BY <1>3, <1>4, <1>5, <1>6 DEF AttachInv

LEMMA KeptByHandle ==
  ASSUME LoaderTypes, Clean, "lost" \notin odd', NEW w \in Tids, Handle(w)
  PROVE  Clean'
<1> USE LoaderAssumption DEF LoaderTypes
<1>1. CASE HandleSeccomp(w)
  <2>1. (\A t \in Tids \ {w} : fd'[t] = fd[t]) /\ fd'[w] \in {0, fd[w], mm[w]}
    BY <1>1 DEF HandleSeccomp, UseMemFd
  <2>2. QED
    BY <1>1, <2>1, KeptByResume DEF HandleSeccomp
<1>2. CASE HandleEvent(w)
  BY <1>2, KeptByResume DEF HandleEvent, loop
<1>3. CASE HandleNewTid(w)
  BY <1>3, KeptByResume DEF HandleNewTid
<1>4. CASE HandleEventStop(w)
  BY <1>4, KeptByResume DEF HandleEventStop
<1>5. CASE HandleGroupStop(w)
  <2>1. CASE w \in listening
    BY <1>5, <2>1, KeptByResume DEF HandleGroupStop
  <2>2. CASE w \notin listening
    <3>1. st[w] = "held" /\ former[w] = None
      BY <1>5 DEF HandleGroupStop, GroupStopped, Handling, Clean, HandledInv, ExecStopInv
    <3>2. former' = former /\ sup'.at = "guard"
      BY <1>5, <3>1 DEF HandleGroupStop, Handling
    <3>3. QED
      BY <1>5, <2>2, <3>1, <3>2
      DEF HandleGroupStop, Handling, Clean, AttachInv, HandledInv, GroupInv, ExecStopInv, FdInv
  <2>3. QED
    BY <2>1, <2>2
<1>6. CASE HandleExec(w)
  <2>1. st[w] = "held" /\ former[w] # None
    BY <1>6 DEF HandleExec, Handling, Clean, HandledInv, ExecStopInv
  <2>2. /\ st' = [st EXCEPT ![w] = "running"] /\ stop' = [stop EXCEPT ![w] = "none"]
        /\ former' = [former EXCEPT ![w] = None] /\ group' = group /\ mm' = mm
        /\ sup'.at = "guard"
    BY <1>6, <2>1 DEF HandleExec, Handling, Cont, Attached
  <2>3. \A t \in Tids : fd'[t] = IF t \in {w, former[w]} THEN 0 ELSE fd[t]
    BY <1>6, <2>1 DEF HandleExec
  <2>4. GroupInv' /\ ExecStopInv'
    BY <2>1, <2>2 DEF Clean, GroupInv, ExecStopInv
  <2>5. FdInv'
    BY <2>1, <2>2, <2>3 DEF Clean, FdInv
  <2>6. QED
    BY <2>2, <2>4, <2>5 DEF Clean, AttachInv, HandledInv
<1>7. CASE HandleSignal(w)
  <2> DEFINE s == [st EXCEPT ![w] = IF Attached(w) THEN "running" ELSE @]
  <2>1. fd' = fd /\ \E ps : Killed(s, ps)
    BY <1>7 DEF HandleSignal, loop
  <2>2. PICK ps : Killed(s, ps)
    BY <2>1
  <2>3. former[w] = None
    BY <2>2 DEF Killed, Lose, Attached, Live, Clean, ExecStopInv
  <2>4. /\ former' = former /\ group' = group /\ mm' = mm /\ sup'.at = "guard"
        /\ sup.at # "attach"
    BY <1>7, <2>3 DEF HandleSignal, Handling
  <2>5. \A t \in Tids :
          \/ s[t] = st[t]
          \/ st[t] \in {"running", "waitable", "held"} /\ s[t] \in {"running", "zombie"}
    BY DEF Attached
  <2> HIDE DEF s
  <2>6. QED
    BY <2>1, <2>2, <2>4, <2>5, KeptByKill
<1>8. QED
  BY <1>1, <1>2, <1>3, <1>4, <1>5, <1>6, <1>7 DEF Handle

-----------------------------------------------------------------------------
(* The guest and the kernel *)
LEMMA KeptByStop ==
  ASSUME LoaderTypes, Clean, NEW t \in Tids,
         Trap(t) \/ EnterGroupStop(t) \/ GroupStop(t) \/ Sigcont(t) \/ Setsid
  PROVE  Clean'
<1> USE LoaderAssumption DEF LoaderTypes, Clean, AttachInv, HandledInv, GroupInv, ExecStopInv,
    FdInv, loop
<1>1. CASE Trap(t)
  BY <1>1 DEF Trap, Stopped, SignalStops
<1>2. CASE EnterGroupStop(t)
  BY <1>2 DEF EnterGroupStop, Stopped
<1>3. CASE GroupStop(t) \/ Setsid
  BY <1>3 DEF GroupStop, Setsid
<1>4. CASE Sigcont(t)
  BY <1>4 DEF Sigcont, Members, Live
<1>5. QED
  BY <1>1, <1>2, <1>3, <1>4

LEMMA KeptBySpawn ==
  ASSUME LoaderTypes, Clean, NEW t \in Tids, NEW u \in Tids, NEW forks \in BOOLEAN,
         Spawn(t, u, forks)
  PROVE  Clean'
<1> USE LoaderAssumption DEF LoaderTypes, Clean
<1>1. /\ st[t] = "running" /\ st[u] = "absent" /\ t # u
      /\ former[t] = None /\ former[u] = None /\ former[group[t]] = None
      /\ \A g \in Tids : former[g] # u
  BY DEF Spawn, ExecStopInv
<1>2. /\ st' = [st EXCEPT ![t] = "waitable", ![u] = "waitable"]
      /\ stop' = [stop EXCEPT ![t] = "event", ![u] = "initial"]
      /\ group' = [group EXCEPT ![u] = IF forks THEN u ELSE group[t]]
      /\ \A x \in Tids \ {u} : mm'[x] = mm[x]
      /\ former' = former /\ fd' = fd /\ sup' = sup /\ dog' = dog
  BY DEF Spawn, loop
<1>3. \A x \in Tids : x # u => group[x] # u
  BY <1>1 DEF GroupInv
<1>4. GroupInv'
  BY <1>1, <1>2, <1>3 DEF GroupInv
<1>5. ExecStopInv'
  BY <1>1, <1>2, <1>3 DEF ExecStopInv
<1>6. fd[u] = 0
  BY <1>1 DEF FdInv, GroupInv
<1>7. FdInv'
  BY <1>1, <1>2, <1>6 DEF FdInv
<1>8. AttachInv' /\ HandledInv'
  BY <1>1, <1>2 DEF AttachInv, HandledInv, ExecStopInv
<1>9. QED
  BY <1>4, <1>5, <1>7, <1>8

LEMMA KeptByExec ==
  ASSUME LoaderTypes, Clean, NEW t \in Tids, ExecStart(t) \/ ExecDone(t)
  PROVE  Clean'
<1> USE LoaderAssumption DEF LoaderTypes, Clean
<1>1. CASE ExecStart(t)
  <2>1. \A u \in Members(group[t]) : former[u] = None
    BY <1>1 DEF ExecStart, ExecStopInv, Members, Live
  <2>2. /\ \A u \in Tids : \/ st'[u] = st[u] /\ u # t /\ (st[u] = "zombie" \/ stop'[u] = stop[u])
                          \/ /\ u \in Members(group[t]) /\ st'[u] \in {"execing", "zombie"}
                             /\ stop'[u] \in {"none", stop[u]}
        /\ \A u \in Tids \ {t} : mm'[u] = mm[u]
        /\ st[t] = "running" /\ st'[t] = "execing"
        /\ group' = group /\ former' = former /\ fd' = fd /\ sup' = sup /\ dog' = dog
    BY <1>1 DEF ExecStart, Members, Live, loop
  <2>3. \A u \in Tids : (stop'[u] = "exec") <=> (stop[u] = "exec")
    BY <1>1, <2>1 DEF ExecStart, ExecStopInv, Members, Live
  <2>4. GroupInv'
    BY <2>2 DEF GroupInv, Members, Live
  <2>5. ExecStopInv'
    BY <2>1, <2>2, <2>3 DEF ExecStopInv, Members, Live
  <2>6. FdInv'
    BY <2>2 DEF FdInv
  <2>7. HandledInv'
    BY <2>1, <2>2, <2>3 DEF HandledInv, ExecStopInv
  <2>8. QED
    BY <2>2, <2>4, <2>5, <2>6, <2>7 DEF AttachInv
<1>2. CASE ExecDone(t)
  <2> DEFINE g == group[t]
  <2>1. /\ st[t] = "execing" /\ g \in Tids /\ group[g] = g /\ former[g] = None /\ former[t] = None
        /\ \A x \in Tids : former[x] # t /\ (group[x] = g /\ st[x] # "absent" => x \in {t, g})
    BY <1>2 DEF ExecDone, ExecStopInv, GroupInv, Members, Live
  <2>2. \A x \in Tids : t # g => group[x] # t
    BY <2>1 DEF GroupInv
  <2>3. /\ \A x \in Tids \ {t, g} : st'[x] = st[x] /\ mm'[x] = mm[x]
        /\ st'[g] = "waitable" /\ mm'[g] = mm[t]
        /\ t # g => st'[t] = "absent" /\ mm'[t] = 0
        /\ stop' = [stop EXCEPT ![g] = "exec"]
        /\ former' = [former EXCEPT ![g] = t]
        /\ group' = [group EXCEPT ![t] = t]
        /\ fd' = fd /\ sup' = sup /\ dog' = dog
    BY <1>2, <2>1 DEF ExecDone, loop
  <2>4. \A x \in Tids : former[x] # None => x \notin {t, g} /\ former[x] # g
    BY <2>1 DEF ExecStopInv, GroupInv
  <2> HIDE DEF g
  <2>5. GroupInv'
    BY <2>1, <2>2, <2>3 DEF GroupInv
  <2>6. ExecStopInv'
    BY <2>1, <2>3, <2>4 DEF ExecStopInv
  <2>7. FdInv'
    BY <2>1, <2>3, <2>4 DEF FdInv
  <2>8. HandledInv'
    BY <2>1, <2>3 DEF HandledInv, ExecStopInv
  <2>9. QED
    BY <2>1, <2>3, <2>5, <2>6, <2>7, <2>8 DEF AttachInv
<1>3. QED
  BY <1>1, <1>2

LEMMA KeptByExit ==
  ASSUME LoaderTypes, Clean, "lost" \notin odd', NEW t \in Tids, NEW all \in BOOLEAN, Exit(t, all)
  PROVE  Clean'
<1> USE LoaderAssumption DEF LoaderTypes
<1>1. /\ st[t] \in {"running", "untraced"} /\ sup.at # "attach"
      /\ group' = group /\ mm' = mm /\ former' = former /\ fd' = fd /\ sup' = sup
  BY DEF Exit, loop, Clean, AttachInv
<1>2. PICK s, ps : Killed(s, ps) /\ (s = st \/ s = [st EXCEPT ![t] = "zombie"])
  BY DEF Exit
<1>3. \A u \in Tids :
        \/ s[u] = st[u]
        \/ st[u] \in {"running", "untraced", "waitable", "held"} /\ s[u] \in {"running", "zombie"}
  BY <1>1, <1>2
<1>4. QED
  BY <1>1, <1>2, <1>3, KeptByKill

LEMMA KeptByWatchdog ==
  ASSUME LoaderTypes, Clean, "lost" \notin odd', Watchdog \/ OtherGuestEnds
  PROVE  Clean'
<1>1. CASE Poll \/ StandDown \/ Fire \/ OtherGuestEnds
  BY <1>1 DEF Poll, StandDown, Fire, OtherGuestEnds, kernel, loop, fixed, Clean, AttachInv,
     GroupInv, ExecStopInv, HandledInv, FdInv
<1>2. CASE KillStalled
  <2>1. /\ sup.at # "attach"
        /\ group' = group /\ mm' = mm /\ former' = former /\ fd' = fd /\ sup' = sup
    BY <1>2 DEF KillStalled, loop, Clean, AttachInv
  <2>2. PICK ps : Killed(st, ps)
    BY <1>2 DEF KillStalled
  <2>3. QED
    BY <2>1, <2>2, KeptByKill
<1>3. QED
  BY <1>1, <1>2 DEF Watchdog

-----------------------------------------------------------------------------
LEMMA CleanKept ==
  ASSUME LoaderTypes, Clean, "lost" \notin odd', [Next]_vars
  PROVE  Clean'
<1>1. CASE Supervise
  BY <1>1, KeptByAttach, KeptByGuard, KeptByEnd, KeptByWait, KeptByHandle DEF Supervise
<1>2. CASE Watchdog \/ OtherGuestEnds
  BY <1>2, KeptByWatchdog
<1>3. CASE Setsid
  BY <1>3, KeptByStop, LoaderAssumption
<1>4. ASSUME NEW t \in Tids, Guest(t) PROVE Clean'
  BY <1>4, KeptByStop, KeptBySpawn, KeptByExec, KeptByExit DEF Guest
<1>5. ASSUME NEW t \in Tids, Kernel(t) PROVE Clean'
  BY <1>5, KeptByStop, KeptByExec DEF Kernel
<1>6. CASE UNCHANGED vars
  BY <1>6 DEF vars, kernel, loop, Clean, AttachInv, GroupInv, ExecStopInv, HandledInv, FdInv
<1>7. QED
  BY <1>1, <1>2, <1>3, <1>4, <1>5, <1>6 DEF Next

LEMMA FdNext == MemFdInv /\ [Next]_vars => MemFdInv'
<1> SUFFICES ASSUME MemFdInv, [Next]_vars PROVE MemFdInv'
  OBVIOUS
<1>1. LoaderTypes /\ ("lost" \notin odd => Clean)
  BY DEF MemFdInv, Clean
<1>2. LoaderTypes'
  BY <1>1, TypesKept
<1>3. "lost" \notin odd' => Clean'
  BY <1>1, OddGrows, CleanKept
<1>4. QED
  BY <1>2, <1>3 DEF MemFdInv, Clean

\* The path of a trapped syscall is never read from or written to the memory of
\* another image than the caller's: the exec event and the exit path evict every
\* cached /proc/<tid>/mem in time, for every number of threads, processes,
\* execve calls and reused tids, unless an exec stop ended unhandled.
THEOREM MemFdsAreFresh == Spec => []MemFdFresh
<1>1. Init => MemFdInv
  BY FdInit
<1>2. MemFdInv /\ [Next]_vars => MemFdInv'
  BY FdNext
<1>3. MemFdInv => MemFdFresh
  BY FdImplies
<1>4. QED
  BY <1>1, <1>2, <1>3, PTL DEF Spec
===============================================================================
