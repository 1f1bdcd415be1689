----------------------------- MODULE GuestKernel -----------------------------
(***************************************************************************)
(* The part of Linux that the alr supervisor stands on, modelled from how  *)
(* runtime/alr/src/supervisor/alr_supervisor.c uses it (external code):    *)
(* traced threads, their ptrace stops, wait(2) reports, thread groups,     *)
(* execve from any thread, SIGKILL and job control.                        *)
(*                                                                         *)
(* A stop is named by what raised it.  The supervisor sees only a wait     *)
(* status; what it can tell apart is stated in module Supervisor.          *)
(***************************************************************************)
EXTENDS Naturals, FiniteSets

CONSTANTS
  Tids,       \* thread ids the kernel hands out
  Leader,     \* the guest's first process, child of the supervisor
  NoTid,      \* no event message
  TidReuse,   \* may a reaped thread id be handed out again?
  MaxSignals  \* bound: signals sent to alr, and stop signals sent to the guest

ASSUME KernelAssumption ==
  /\ Leader \in Tids
  /\ NoTid \notin Tids
  /\ TidReuse \in BOOLEAN
  /\ MaxSignals \in Nat

\* A SIGSYS the zygote filter raised: SYS_SECCOMP, no filter data, arm64.
ZygoteTrap == "sigsys_zygote"

\* A SIGSYS with another si_code, si_errno or si_arch is the guest's own.
SigsysStops == {ZygoteTrap, "sigsys_guest"}

\* fork, exec and exit are PTRACE_EVENT stops; exec_lane is an exec of alr-lane.
EventStops == {"fork", "exec", "exec_lane", "exit"}
StopKinds == EventStops \cup SigsysStops \cup {"startup", "signal", "stopsig", "group"}

VARIABLES
  kst,      \* absent, running, waitable (unreported stop), held (reported), zombie
  stop,     \* the ptrace stop a thread is in, or "none"
  msg,      \* PTRACE_GETEVENTMSG: a fork's child, an exec's former tid
  group,    \* thread group (tgid) of a thread
  traced,   \* threads still traced by the supervisor
  inbox,    \* processes with a relayed signal queued
  jobctl,   \* threads told to enter a group stop
  sent,     \* signals of either kind sent so far
  used,     \* thread ids handed out so far
  wrong     \* history: <<stop, resumption>> pairs that were not proper

kvars == <<kst, stop, msg, group, traced, inbox, jobctl, sent, used, wrong>>

KernelTypeOK ==
  /\ kst \in [Tids -> {"absent", "running", "waitable", "held", "zombie"}]
  /\ stop \in [Tids -> StopKinds \cup {"none"}]
  /\ msg \in [Tids -> Tids \cup {NoTid}]
  /\ group \in [Tids -> Tids]
  /\ traced \subseteq Tids
  /\ inbox \subseteq Tids
  /\ jobctl \subseteq Tids
  /\ sent \in 0..MaxSignals
  /\ used \subseteq Tids
  /\ wrong \subseteq (StopKinds \X {"inject", "suppress", "emulate"})

\* fork() of the leader, PTRACE_TRACEME and raise(SIGSTOP) have happened.
KernelInit ==
  /\ kst = [t \in Tids |-> IF t = Leader THEN "waitable" ELSE "absent"]
  /\ stop = [t \in Tids |-> IF t = Leader THEN "startup" ELSE "none"]
  /\ msg = [t \in Tids |-> NoTid]
  /\ group = [t \in Tids |-> t]
  /\ traced = {Leader}
  /\ inbox = {} /\ jobctl = {} /\ sent = 0
  /\ used = {Leader}
  /\ wrong = {}

-----------------------------------------------------------------------------
Members(p) == {u \in Tids : kst[u] # "absent" /\ group[u] = p}

\* What waitpid may return: a stop, or an exit.  The exit of a group's leader
\* is held back until the other threads of the group are gone.
Reportable(t) ==
  \/ kst[t] = "waitable"
  \/ kst[t] = "zombie" /\ (group[t] # t \/ Members(t) = {t})

HasChildren == \E t \in traced \cup {Leader} : kst[t] # "absent"

\* A thread that dies is a zombie until reaped; a detached one is not ours to
\* reap, unless it is our own child.
DeadState(t) == IF t \in traced \/ t = Leader THEN "zombie" ELSE "absent"

\* SIGKILL to process p takes every thread out of whatever stop it is in.
Killed(p) ==
  /\ kst' = [u \in Tids |-> IF u \in Members(p) /\ kst[u] # "zombie"
                            THEN DeadState(u) ELSE kst[u]]
  /\ stop' = [u \in Tids |-> IF u \in Members(p) THEN "none" ELSE stop[u]]
  /\ msg' = [u \in Tids |-> IF u \in Members(p) THEN NoTid ELSE msg[u]]
  /\ jobctl' = jobctl \ Members(p)

\* The resumption each stop calls for: trace stops and the startup stop take no
\* signal, a zygote trap is emulated, every other signal reaches the guest.
Proper(k, how) ==
  CASE k \in EventStops               -> TRUE   \* the kernel ignores the signal
    [] k \in {"startup", "group"}     -> how = "suppress"
    [] k = ZygoteTrap                 -> how = "emulate"
    [] OTHER                          -> how = "inject"

\* PTRACE_CONT of t.  Injecting a stop signal group-stops the whole group.
Resume(t, how) ==
  IF kst[t] \in {"held", "waitable"}
  THEN /\ kst' = [kst EXCEPT ![t] = IF stop[t] = "exit" THEN "zombie" ELSE "running"]
       /\ stop' = [stop EXCEPT ![t] = "none"]
       /\ msg' = [msg EXCEPT ![t] = NoTid]
       /\ jobctl' = IF how = "inject" /\ stop[t] \in {"startup", "stopsig"}
                    THEN jobctl \cup Members(group[t]) ELSE jobctl
       /\ wrong' = IF Proper(stop[t], how) THEN wrong ELSE wrong \cup {<<stop[t], how>>}
  ELSE UNCHANGED <<kst, stop, msg, jobctl, wrong>>   \* ESRCH: killed meanwhile

\* waitpid reaps a dead thread.
Reap(t) ==
  /\ kst' = [kst EXCEPT ![t] = "absent"]
  /\ group' = [group EXCEPT ![t] = t]
  /\ traced' = traced \ {t}
  /\ jobctl' = jobctl \ {t}
  /\ inbox' = inbox \ {t}
  /\ UNCHANGED <<stop, msg, wrong>>

-----------------------------------------------------------------------------
(***************************************************************************)
(* Steps of the guest.                                                     *)
(***************************************************************************)
Stops(t, k) ==
  /\ kst[t] = "running" /\ t \in traced
  /\ kst' = [kst EXCEPT ![t] = "waitable"]
  /\ stop' = [stop EXCEPT ![t] = k]

\* fork, vfork or clone: the parent's event stop and the child's startup stop
\* are both due and race each other to waitpid.  A thread id that is still the
\* id of the guest's process group is never handed out again.
Clone(t, c, thread) ==
  /\ kst[t] = "running" /\ t \in traced
  /\ kst[c] = "absent" /\ c # Leader
  /\ TidReuse \/ c \notin used
  /\ kst' = [kst EXCEPT ![t] = "waitable", ![c] = "waitable"]
  /\ stop' = [stop EXCEPT ![t] = "fork", ![c] = "startup"]
  /\ msg' = [msg EXCEPT ![t] = c]
  /\ group' = [group EXCEPT ![c] = IF thread THEN group[t] ELSE c]
  /\ traced' = traced \cup {c}
  /\ used' = used \cup {c}
  /\ UNCHANGED <<inbox, jobctl, sent, wrong>>

Trap(t, k) ==
  /\ Stops(t, k)
  /\ UNCHANGED <<msg, group, traced, inbox, jobctl, sent, used, wrong>>

\* A thread of the process takes the relayed signal off the queue.
Deliver(t) ==
  /\ group[t] \in inbox
  /\ Stops(t, "signal")
  /\ inbox' = inbox \ {group[t]}
  /\ UNCHANGED <<msg, group, traced, jobctl, sent, used, wrong>>

StopSignal(t) ==
  /\ sent < MaxSignals
  /\ Stops(t, "stopsig")
  /\ sent' = sent + 1
  /\ UNCHANGED <<msg, group, traced, inbox, jobctl, used, wrong>>

GroupStop(t) ==
  /\ t \in jobctl
  /\ Stops(t, "group")
  /\ jobctl' = jobctl \ {t}
  /\ UNCHANGED <<msg, group, traced, inbox, sent, used, wrong>>

\* execve, once the other threads of the group are gone.  A thread that is not
\* the group's leader takes the leader's id; its own id is never reported again.
Exec(t, k) ==
  LET p == group[t] IN
  /\ kst[t] = "running" /\ t \in traced
  /\ Members(p) \subseteq {t, p}
  /\ kst' = [u \in Tids |-> IF u = p THEN "waitable" ELSE IF u = t THEN "absent" ELSE kst[u]]
  /\ stop' = [stop EXCEPT ![p] = k]
  /\ msg' = [msg EXCEPT ![p] = t]
  /\ group' = [group EXCEPT ![t] = t]
  /\ traced' = (traced \ {t}) \cup {p}
  /\ jobctl' = jobctl \ {t, p}
  /\ UNCHANGED <<inbox, sent, used, wrong>>

Exit(t) ==
  /\ Stops(t, "exit")
  /\ UNCHANGED <<msg, group, traced, inbox, jobctl, sent, used, wrong>>

\* SIGKILL, or exit_group of one thread as the others of the process see it.
Kill(p) ==
  /\ \E u \in Members(p) : kst[u] # "zombie"
  /\ Killed(p)
  /\ inbox' = inbox \ {p}
  /\ UNCHANGED <<group, traced, sent, used, wrong>>

GuestStep ==
  \/ \E t, c \in Tids, thread \in BOOLEAN : Clone(t, c, thread)
  \/ \E t \in Tids, k \in SigsysStops : Trap(t, k)
  \/ \E t \in Tids : Deliver(t)
  \/ \E t \in Tids : StopSignal(t)
  \/ \E t \in Tids : GroupStop(t)
  \/ \E t \in Tids, k \in {"exec", "exec_lane"} : Exec(t, k)
  \/ \E t \in Tids : Exit(t)
  \/ \E p \in Tids : Kill(p)
==============================================================================
