-------------------------- MODULE FakerootDbProofs --------------------------
(***************************************************************************)
(* Proofs about FakerootDb, for every number of processes, files, slots and *)
(* calls and every hash function.                                           *)
(***************************************************************************)
EXTENDS FakerootDb, TLAPS

(* One process maps the table before all others, which are its descendants. *)
OneCreator == \A p, q \in Procs \ Forked : p = q

Holds(p)   == proc[p].at \in {"find", "fill", "unlock"}
Filling(p) == proc[p].at = "fill"
Calling    == {"lock", "futex", "sleep", "find", "fill"}

\* what a stat reports of a slot
Overlay(i, v) == IF v \in table[i].flags THEN table[i].val[v] ELSE 0

\* Nobody gets past the mapping before the creator has filled in the header.
StartInv ==
  \A p \in Procs :
    /\ proc[p].at # "new" => header.magic
    /\ proc[p].at \in {"new", "init", "attach"} => ~proc[p].db
    /\ proc[p].at = "init" => p \notin Forked /\ \A q \in Procs \ {p} : proc[q].at = "new"

\* The lock has at most one holder, dead ones included, and while nobody was
\* killed a taken lock has a holder.
LockInv ==
  /\ \A p \in Procs : Holds(p) => header.lock = 1
  /\ \A p, q \in Procs : Holds(p) /\ Holds(q) => p = q
  /\ (header.lock = 1 /\ \A p \in Procs : ~proc[p].dead) => \E p \in Procs : Holds(p)

\* A call is for a file and has a number.
CallInv ==
  /\ \A n \in 1 .. calls : target[n] \in Files
  /\ \A p \in Procs :
       /\ proc[p].at \in Calling \cup {"load"} => proc[p].file \in Files
       /\ proc[p].at \in Calling =>
            proc[p].call \in 1 .. calls /\ target[proc[p].call] = proc[p].file

\* The slot being filled is the one a probe would find.
FillInv ==
  \A p \in Procs : Filling(p) => Probed(proc[p].file, proc[p].slot)

\* A slot nobody fills shows what was last recorded, or is empty.
RestInv ==
  \A i \in Slots : (\A p \in Procs : Filling(p) => proc[p].slot # i) =>
    IF table[i].key = NoFile THEN table[i] = Empty
    ELSE \A v \in Values : Overlay(i, v) = last[table[i].key][v]

\* A file without an entry has its real metadata.
AbsentInv ==
  \A f \in Files : (\A i \in Slots : table[i].key # f) => \A v \in Values : last[f][v] = 0

\* A slot being filled differs from what was last recorded only in what the
\* call sets, and holds what was stored so far.
PartialInv ==
  \A p \in Procs : Filling(p) =>
    /\ proc[p].todo \subseteq Sets(proc[p].kind) \cup {"flags"}
    /\ \A v \in Values \ Sets(proc[p].kind) :
         Overlay(proc[p].slot, v) = last[proc[p].file][v]
    /\ \A v \in Sets(proc[p].kind) \ proc[p].todo :
         table[proc[p].slot].val[v] = proc[p].call
    /\ "flags" \notin proc[p].todo => Sets(proc[p].kind) \subseteq table[proc[p].slot].flags

\* A value in the table was set by a call for the slot's file.
OwnInv ==
  \A i \in Slots : \A v \in Values : table[i].val[v] # 0 =>
    /\ table[i].val[v] <= calls
    /\ \/ target[table[i].val[v]] = table[i].key
       \/ \E p \in Procs : Filling(p) /\ proc[p].slot = i
                             /\ target[table[i].val[v]] = proc[p].file

\* A stat has met its file's entry, and one that nobody disturbs has read or
\* will read what was last recorded.
LoadInv ==
  \A p \in Procs : proc[p].at = "load" =>
    /\ proc[p].todo \in {{}, Fields}
    /\ proc[p].todo = Fields => table[proc[p].slot].key = proc[p].file
    /\ proc[p].quiet => \A q \in Procs : Filling(q) => proc[q].file # proc[p].file
    /\ \A v \in Values : proc[p].got[v] # 0 => proc[p].got[v] <= calls

FakerootInv ==
  /\ TypeOK /\ StartInv /\ LockInv /\ NoLostWakeup /\ CallInv
  /\ OneEntryPerFile /\ FillInv
  /\ RestInv /\ AbsentInv /\ PartialInv /\ OwnInv
  /\ LoadInv /\ QuietStatIsLatest /\ StatIsOfThatFile

-----------------------------------------------------------------------------
(* Facts about probing *)

\* How far a slot is from a file's hash, without the remainder.
LEMMA DistIs ==
  ASSUME NEW f \in Files, NEW i \in Slots
  PROVE  Dist(f, i) = IF i >= Hash[f] THEN i - Hash[f] ELSE i - Hash[f] + NSlots
<1>1. Hash[f] \in 0 .. NSlots - 1 /\ NSlots \in Nat \ {0} /\ i \in 0 .. NSlots - 1
  BY FakerootAssumption DEF Slots
<1>2. ASSUME NEW k \in 0 .. NSlots - 1 PROVE k % NSlots = k
  BY <1>1
<1>3. ASSUME NEW k \in 0 .. NSlots - 1 PROVE (k - NSlots) % NSlots = k
  BY <1>1
<1>4. QED
  BY <1>1, <1>2, <1>3 DEF Dist

\* Two slots are never equally far.
LEMMA DistInjective ==
  ASSUME NEW f \in Files, NEW i \in Slots, NEW j \in Slots, Dist(f, i) = Dist(f, j)
  PROVE  i = j
  BY DistIs, FakerootAssumption DEF Slots

\* The entry of a file is the one a probe for the file finds.
LEMMA EntryProbed ==
  ASSUME TypeOK, OneEntryPerFile, NEW f \in Files, NEW i \in Slots, table[i].key = f
  PROVE  Probed(f, i)
<1>1. f # NoFile
  BY FakerootAssumption
<1>2. ASSUME NEW j \in Candidates(f) PROVE Dist(f, i) <= Dist(f, j)
  <2>1. Dist(f, i) \in Int /\ Dist(f, j) \in Int
    BY DistIs, FakerootAssumption, <1>2 DEF Slots, Candidates
  <2>2. QED
    BY <1>1, <1>2, <2>1 DEF OneEntryPerFile, Candidates
<1>3. QED
  BY <1>2 DEF Probed, Candidates

\* A probe that ends at an empty slot proves that the file has no entry.
LEMMA EmptyMeansAbsent ==
  ASSUME TypeOK, OneEntryPerFile, NEW f \in Files, NEW i \in Slots,
         Probed(f, i), table[i].key = NoFile
  PROVE  \A j \in Slots : table[j].key # f
<1> SUFFICES ASSUME NEW j \in Slots, table[j].key = f PROVE FALSE
  OBVIOUS
<1>1. f # NoFile /\ i # j
  BY FakerootAssumption
<1>2. Dist(f, i) <= Dist(f, j) /\ Dist(f, j) <= Dist(f, i)
  BY EntryProbed DEF Probed, Candidates
<1>3. Dist(f, i) = Dist(f, j)
  BY <1>2, DistIs, FakerootAssumption DEF Slots
<1>4. QED
  BY <1>1, <1>3, DistInjective

-----------------------------------------------------------------------------
(* Types *)

Places == {"new", "init", "attach", "idle", "lock", "futex",
           "sleep", "find", "fill", "unlock", "wake", "load"}

LEMMA IdleType == Idle \in Process
  BY FakerootAssumption DEF Idle, Process, Real, Slots, Kinds

LEMMA Moved ==
  ASSUME NEW r \in Process, NEW x \in Places PROVE [r EXCEPT !.at = x] \in Process
  BY DEF Process, Places

LEMMA TypeInit == Init => TypeOK
<1>1. [Idle EXCEPT !.at = "new", !.db = FALSE] \in Process
  BY IdleType DEF Process
<1>2. Empty \in Entry
  BY FakerootAssumption DEF Empty, Entry, Real
<1>3. QED
  BY <1>1, <1>2, FakerootAssumption DEF Init, TypeOK, Real

LEMMA TypeKept ==
  ASSUME TypeOK, [Next]_vars PROVE TypeOK'
<1>0. \A p \in Procs : proc[p] \in Process
  BY DEF TypeOK
<1>1. ASSUME NEW p \in Procs, Map(p) PROVE TypeOK'
  <2>1. \A x \in Places : \A t \in {{}, {"slots", "lock"}} :
          [proc[p] EXCEPT !.at = x, !.todo = t] \in Process
    BY <1>0 DEF Process, Places
  <2>2. QED
    BY <1>1, <2>1 DEF TypeOK, shared, ghosts, At, Goto, Map, Places
<1>2. ASSUME NEW p \in Procs, NEW x, InitHeader(p, x) PROVE TypeOK'
  <2>1. \A y \in Places : [proc[p] EXCEPT !.todo = @ \ {x}, !.at = y] \in Process
    BY <1>0 DEF Process, Places
  <2>2. QED
    BY <1>2, <2>1 DEF TypeOK, shared, ghosts, At, Goto, InitHeader, Places
<1>3. ASSUME NEW p \in Procs, Attach(p) PROVE TypeOK'
  <2>1. [proc[p] EXCEPT !.at = "idle", !.db = header.slots # 0] \in Process
    BY <1>0 DEF Process
  <2>2. QED
    BY <1>3, <2>1 DEF TypeOK, shared, ghosts, At, Goto, Attach
<1>4. ASSUME NEW p \in Procs, NEW x \in Places, Goto(p, x) PROVE proc' \in [Procs -> Process]
  <2>1. [proc[p] EXCEPT !.at = x] \in Process
    BY <1>0, Moved
  <2>2. QED
    BY <1>4, <2>1 DEF Goto, TypeOK
<1>5. ASSUME NEW p \in Procs, TakeLock(p) \/ FutexWait(p) \/ Interrupt(p) \/ Unlock(p)
      PROVE  TypeOK'
  <2>1. PICK x \in Places : Goto(p, x)
    BY <1>5 DEF TakeLock, FutexWait, Interrupt, Unlock, Places
  <2>2. proc' \in [Procs -> Process]
    BY <1>4, <2>1
  <2>3. QED
    BY <1>5, <2>2 DEF TypeOK, shared, ghosts, TakeLock, FutexWait, Interrupt, Unlock
<1>6. ASSUME NEW p \in Procs, FutexWake(p) PROVE TypeOK'
  <2>1. ASSUME NEW q \in Procs, proc' = [proc EXCEPT ![p] = Idle, ![q].at = "lock"]
        PROVE  proc' \in [Procs -> Process]
    <3>1. [proc[q] EXCEPT !.at = "lock"] \in Process /\ [Idle EXCEPT !.at = "lock"] \in Process
      BY <1>0, IdleType, Moved DEF Places
    <3>2. QED
      BY <2>1, <3>1, IdleType DEF TypeOK
  <2>2. proc' \in [Procs -> Process]
    BY <1>6, <2>1, IdleType DEF FutexWake, Sleepers, TypeOK
  <2>3. QED
    BY <1>6, <2>2 DEF FutexWake, TypeOK, shared, ghosts
<1>7. ASSUME NEW p \in Procs, NEW kind \in Kinds, NEW f \in Files, Call(p, kind, f)
      PROVE  TypeOK'
  <2>1. calls + 1 \in 1 .. MaxCalls /\ calls + 1 \in 0 .. MaxCalls
    BY <1>7, FakerootAssumption DEF Call, TypeOK
  <2>2. [proc[p] EXCEPT !.at = "lock", !.kind = kind, !.file = f, !.call = calls + 1] \in Process
    BY <1>0, <2>1 DEF Process
  <2>3. proc' \in [Procs -> Process]
    BY <1>7, <2>2 DEF TypeOK, Call
  <2>4. QED
    BY <1>7, <2>1, <2>3 DEF TypeOK, shared, Call
<1>8. ASSUME NEW p \in Procs, Find(p) PROVE TypeOK'
  <2>1. Sets(proc[p].kind) \cup {"flags"} \in SUBSET (Fields \cup {"slots", "lock"})
    BY <1>0 DEF Process, Sets, Fields, Values, Kinds
  <2>2. \A i \in Slots : [proc[p] EXCEPT !.at = "fill", !.slot = i,
                             !.todo = Sets(proc[p].kind) \cup {"flags"}] \in Process
    BY <1>0, <2>1 DEF Process
  <2>3. \A q \in Procs : [proc[q] EXCEPT !.quiet = FALSE] \in Process
    BY <1>0 DEF Process
  <2>4. QED
    BY <1>0, <1>8, <2>2, <2>3, Moved DEF TypeOK, shared, ghosts, At, Goto, Find, Places
<1>9. ASSUME NEW p \in Procs, NEW x \in Fields, Fill(p, x) PROVE TypeOK'
  <2>1. Sets(proc[p].kind) \subseteq Values /\ proc[p].slot \in Slots
          /\ proc[p].call \in 0 .. MaxCalls
    BY <1>0 DEF Process, Sets, Values, Kinds
  <2>2. \A e \in Entry : Store(e, x, proc[p]) \in Entry
    BY <2>1, <1>9 DEF Store, Fields, Entry
  <2>3. [proc[p] EXCEPT !.todo = @ \ {x}] \in Process
    BY <1>0 DEF Process
  <2>4. QED
    BY <1>9, <2>1, <2>2, <2>3 DEF TypeOK, shared, ghosts, At, Goto, Fill
<1>10. ASSUME NEW p \in Procs, Publish(p) PROVE TypeOK'
  <2>1. proc[p].slot \in Slots /\ proc[p].call \in 0 .. MaxCalls
          /\ proc[p].file \in Files \cup {NoFile}
    BY <1>0 DEF Process
  <2>2. \A e \in Entry : [e EXCEPT !.key = proc[p].file] \in Entry
    BY <2>1 DEF Entry
  <2>3. \A g \in [Values -> 0 .. MaxCalls] :
          [v \in Values |-> IF v \in Sets(proc[p].kind) THEN proc[p].call ELSE g[v]]
            \in [Values -> 0 .. MaxCalls]
    BY <2>1
  <2>4. last' \in [Files -> [Values -> 0 .. MaxCalls]]
    BY <1>10, <2>3 DEF TypeOK, shared, ghosts, At, Goto, Publish
  <2>5. proc' \in [Procs -> Process]
    BY <1>4, <1>10 DEF Publish, Places
  <2>6. table' \in [Slots -> Entry]
    BY <1>10, <2>1, <2>2 DEF TypeOK, shared, ghosts, At, Goto, Publish
  <2>7. QED
    BY <1>10, <2>4, <2>5, <2>6 DEF TypeOK, shared, ghosts, At, Goto, Publish
<1>11. ASSUME NEW p \in Procs, NEW f \in Files, Stat(p, f) PROVE TypeOK'
  <2>1. Real \in [Values -> 0 .. MaxCalls] /\ 0 \in Slots
    BY FakerootAssumption DEF Real, Slots
  <2>2. ASSUME NEW i \in Slots, NEW t \in SUBSET Fields, NEW b \in BOOLEAN
        PROVE  [proc[p] EXCEPT !.at = "load", !.file = f, !.slot = i, !.todo = t,
                               !.got = Real, !.quiet = b] \in Process
    BY <1>0, <2>1 DEF Process
  <2>3. PICK i \in Slots, t \in SUBSET Fields, b \in BOOLEAN :
          proc' = [proc EXCEPT ![p].at = "load", ![p].file = f, ![p].slot = i,
                               ![p].todo = t, ![p].got = Real, ![p].quiet = b]
    BY <1>11, <2>1 DEF Stat
  <2>4. proc' \in [Procs -> Process]
    BY <2>2, <2>3 DEF TypeOK
  <2>5. QED
    BY <1>11, <2>4 DEF TypeOK, shared, ghosts, Stat
<1>12. ASSUME NEW p \in Procs, LoadFields(p) PROVE TypeOK'
  <2>1. proc[p].slot \in Slots
    BY <1>0 DEF Process
  <2>2. \A e \in Entry : [v \in Values |-> IF v \in e.flags THEN e.val[v] ELSE 0]
                          \in [Values -> 0 .. MaxCalls]
    BY FakerootAssumption DEF Entry
  <2>3. \A g \in [Values -> 0 .. MaxCalls] :
          [proc[p] EXCEPT !.todo = {}, !.got = g] \in Process
    BY <1>0 DEF Process
  <2>4. QED
    BY <1>12, <2>1, <2>2, <2>3 DEF TypeOK, shared, ghosts, At, Goto, LoadFields
<1>13. ASSUME NEW p \in Procs, StatReturns(p) PROVE TypeOK'
  BY <1>0, <1>13, IdleType DEF TypeOK, shared, ghosts, At, Goto, StatReturns
<1>14. ASSUME NEW p \in Procs, Kill(p) PROVE TypeOK'
  <2>1. [proc[p] EXCEPT !.dead = TRUE] \in Process
    BY <1>0 DEF Process
  <2>2. [Idle EXCEPT !.dead = TRUE, !.db = proc[p].db] \in Process
    BY <1>0, IdleType DEF Process
  <2>3. QED
    BY <1>14, <2>1, <2>2 DEF TypeOK, shared, ghosts, At, Goto, Kill
<1>15. CASE UNCHANGED vars
  BY <1>15 DEF vars, TypeOK, shared, ghosts
<1>16. QED
  BY <1>1, <1>2, <1>3, <1>5, <1>6, <1>7, <1>8, <1>9, <1>10, <1>11, <1>12, <1>13, <1>14, <1>15
  DEF Next, Run

-----------------------------------------------------------------------------
(* What each action does, field by field *)

Others(p)   == \A q \in Procs \ {p} : proc'[q] = proc[q]
SameLife(p) == proc'[p].dead = proc[p].dead /\ proc'[p].db = proc[p].db
SameCall(p) == /\ proc'[p].file = proc[p].file /\ proc'[p].kind = proc[p].kind
               /\ proc'[p].call = proc[p].call /\ proc'[p].slot = proc[p].slot
SameRead(p) == proc'[p].got = proc[p].got /\ proc'[p].quiet = proc[p].quiet
SameTable   == UNCHANGED <<table, calls, target, last>>

LEMMA MapDoes ==
  ASSUME TypeOK, NEW p \in Procs, Map(p)
  PROVE  /\ Others(p) /\ SameLife(p) /\ SameTable
         /\ proc'[p].at = IF header.magic THEN "attach" ELSE "init"
         /\ header'.magic /\ header'.lock = header.lock
<1>1. proc[p] \in Process
  BY DEF TypeOK
<1>2. QED
  BY <1>1 DEF Map, TypeOK, Process, Others, SameLife, SameTable, ghosts

LEMMA InitHeaderDoes ==
  ASSUME TypeOK, NEW p \in Procs, NEW x, InitHeader(p, x)
  PROVE  /\ Others(p) /\ SameLife(p) /\ SameTable
         /\ proc'[p].at \in {"init", "attach"}
         /\ header'.magic = header.magic /\ header'.lock \in {0, header.lock}
<1>1. proc[p] \in Process
  BY DEF TypeOK
<1>2. QED
  BY <1>1 DEF InitHeader, TypeOK, Process, Others, SameLife, SameTable, ghosts

LEMMA AttachDoes ==
  ASSUME TypeOK, NEW p \in Procs, Attach(p)
  PROVE  /\ Others(p) /\ SameTable /\ header' = header
         /\ proc'[p].at = "idle" /\ proc'[p].dead = proc[p].dead
<1>1. proc[p] \in Process
  BY DEF TypeOK
<1>2. QED
  BY <1>1 DEF Attach, TypeOK, Process, Others, SameTable, shared, ghosts

LEMMA GotoDoes ==
  ASSUME TypeOK, NEW p \in Procs, NEW x, Goto(p, x)
  PROVE  /\ Others(p) /\ SameLife(p) /\ SameCall(p) /\ SameRead(p)
         /\ proc'[p].todo = proc[p].todo /\ proc'[p].at = x
<1>1. proc[p] \in Process
  BY DEF TypeOK
<1>2. QED
  BY <1>1 DEF Goto, TypeOK, Process, Others, SameLife, SameCall, SameRead

\* one process is idle again, and one sleeper may have been woken
LEMMA FutexWakeDoes ==
  ASSUME TypeOK, NEW p \in Procs, FutexWake(p)
  PROVE  /\ SameTable /\ header' = header /\ proc'[p] = Idle
         /\ \A q \in Procs \ {p} :
              /\ SameLife(q) /\ SameCall(q)
              /\ proc'[q] = proc[q] \/ (proc[q].at = "sleep" /\ proc'[q].at = "lock")
         /\ Sleepers # {} => \E q \in Procs \ {p} : proc'[q].at = "lock"
<1>1. \A q \in Procs : proc[q] \in Process
  BY DEF TypeOK
<1>2. CASE Sleepers = {}
  BY <1>2 DEF FutexWake, TypeOK, SameTable, SameLife, SameCall, shared, ghosts
<1>3. ASSUME NEW q \in Sleepers, proc' = [proc EXCEPT ![p] = Idle, ![q].at = "lock"]
      PROVE  /\ proc'[p] = Idle /\ q \in Procs \ {p} /\ \A r \in Procs \ {p, q} : proc'[r] = proc[r]
             /\ SameLife(q) /\ SameCall(q) /\ proc[q].at = "sleep" /\ proc'[q].at = "lock"
  <2>1. q \in Procs \ {p} /\ proc[q].at = "sleep"
    BY <1>3 DEF FutexWake, Sleepers, At
  <2>2. proc'[p] = Idle /\ \A r \in Procs \ {p, q} : proc'[r] = proc[r]
    BY <1>3, <2>1 DEF TypeOK
  <2>3. proc'[q] = [proc[q] EXCEPT !.at = "lock"]
    BY <1>3, <2>1 DEF TypeOK
  <2>4. SameLife(q) /\ SameCall(q) /\ proc'[q].at = "lock"
    BY <1>1, <2>1, <2>3 DEF Process, SameLife, SameCall
  <2>5. QED
    BY <2>1, <2>2, <2>4
<1>4. CASE Sleepers # {}
  <2>1. PICK q \in Sleepers : proc' = [proc EXCEPT ![p] = Idle, ![q].at = "lock"]
    BY <1>4 DEF FutexWake
  <2>2. /\ proc'[p] = Idle /\ q \in Procs \ {p} /\ \A r \in Procs \ {p, q} : proc'[r] = proc[r]
        /\ SameLife(q) /\ SameCall(q) /\ proc[q].at = "sleep" /\ proc'[q].at = "lock"
    BY <1>3, <2>1
  <2>3. \A r \in Procs \ {p, q} : SameLife(r) /\ SameCall(r)
    BY <2>2 DEF SameLife, SameCall
  <2>4. SameTable /\ header' = header
    BY DEF FutexWake, SameTable, shared, ghosts
  <2>5. QED
    BY <2>2, <2>3, <2>4
<1>5. QED
  BY <1>2, <1>4

LEMMA CallDoes ==
  ASSUME TypeOK, NEW p \in Procs, NEW kind \in Kinds, NEW f \in Files, Call(p, kind, f)
  PROVE  /\ Others(p) /\ SameLife(p) /\ UNCHANGED <<header, table, last>>
         /\ proc'[p].at = "lock" /\ proc'[p].file = f /\ proc'[p].kind = kind
         /\ proc'[p].call = calls' /\ calls' = calls + 1 /\ calls' \in 1 .. MaxCalls
         /\ target'[calls'] = f /\ \A n \in 1 .. calls : target'[n] = target[n]
<1>1. proc[p] \in Process
  BY DEF TypeOK
<1>2. Others(p) /\ SameLife(p) /\ UNCHANGED <<header, table, last>>
      /\ proc'[p].at = "lock" /\ proc'[p].file = f /\ proc'[p].kind = kind
      /\ proc'[p].call = calls' /\ calls' = calls + 1
  BY <1>1 DEF Call, TypeOK, Process, Others, SameLife, shared
<1>3. calls' \in 1 .. MaxCalls /\ calls \in Nat /\ calls < MaxCalls
  BY FakerootAssumption DEF Call, TypeOK
<1>4. target'[calls'] = f /\ \A n \in 1 .. calls : target'[n] = target[n]
  BY <1>2, <1>3, FakerootAssumption DEF Call, TypeOK
<1>5. QED
  BY <1>2, <1>3, <1>4

\* a stat of the file that is under way is no longer quiet
LEMMA FindDoes ==
  ASSUME TypeOK, NEW p \in Procs, Find(p), Candidates(proc[p].file) # {}
  PROVE  /\ SameTable /\ header' = header
         /\ proc'[p].at = "fill" /\ SameLife(p)
         /\ proc'[p].file = proc[p].file /\ proc'[p].kind = proc[p].kind
         /\ proc'[p].call = proc[p].call
         /\ proc'[p].slot \in Slots /\ Probed(proc[p].file, proc'[p].slot)
         /\ proc'[p].todo = Sets(proc[p].kind) \cup {"flags"}
         /\ \A q \in Procs \ {p} :
              /\ proc'[q].at = proc[q].at /\ SameLife(q) /\ SameCall(q)
              /\ proc'[q].todo = proc[q].todo /\ proc'[q].got = proc[q].got
              /\ proc'[q].quiet => proc[q].quiet
              /\ proc'[q].quiet /\ proc[q].at = "load" => proc[q].file # proc[p].file
<1>1. \A q \in Procs : proc[q] \in Process
  BY DEF TypeOK
<1>2. PICK i \in Slots :
        /\ Probed(proc[p].file, i)
        /\ proc' = [q \in Procs |->
             IF q = p THEN [proc[p] EXCEPT !.at = "fill", !.slot = i,
                                           !.todo = Sets(proc[p].kind) \cup {"flags"}]
             ELSE IF proc[q].at = "load" /\ proc[q].file = proc[p].file
                  THEN [proc[q] EXCEPT !.quiet = FALSE] ELSE proc[q]]
  BY DEF Find
<1>3. proc'[p] = [proc[p] EXCEPT !.at = "fill", !.slot = i,
                                 !.todo = Sets(proc[p].kind) \cup {"flags"}]
  BY <1>2
<1>4. /\ proc'[p].at = "fill" /\ SameLife(p)
      /\ proc'[p].file = proc[p].file /\ proc'[p].kind = proc[p].kind
      /\ proc'[p].call = proc[p].call /\ proc'[p].slot = i
      /\ proc'[p].todo = Sets(proc[p].kind) \cup {"flags"}
  BY <1>1, <1>3 DEF Process, SameLife
<1>5. ASSUME NEW q \in Procs \ {p}
      PROVE  /\ proc'[q].at = proc[q].at /\ SameLife(q) /\ SameCall(q)
             /\ proc'[q].todo = proc[q].todo /\ proc'[q].got = proc[q].got
             /\ proc'[q].quiet => proc[q].quiet
             /\ proc'[q].quiet /\ proc[q].at = "load" => proc[q].file # proc[p].file
  <2>1. CASE proc[q].at = "load" /\ proc[q].file = proc[p].file
    <3>1. proc'[q] = [proc[q] EXCEPT !.quiet = FALSE]
      BY <1>2, <2>1
    <3>2. QED
      BY <1>1, <3>1 DEF Process, SameLife, SameCall
  <2>2. CASE ~(proc[q].at = "load" /\ proc[q].file = proc[p].file)
    <3>1. proc'[q] = proc[q]
      BY <1>2, <2>2
    <3>2. QED
      BY <2>2, <3>1 DEF SameLife, SameCall
  <2>3. QED
    BY <2>1, <2>2
<1>6. SameTable /\ header' = header
  BY DEF Find, SameTable, shared, ghosts
<1>7. QED
  BY <1>2, <1>4, <1>5, <1>6

LEMMA FillDoes ==
  ASSUME TypeOK, NEW p \in Procs, NEW x \in Fields, Fill(p, x)
  PROVE  /\ Others(p) /\ SameLife(p) /\ SameCall(p) /\ proc'[p].at = "fill"
         /\ proc'[p].todo = proc[p].todo \ {x} /\ x \in proc[p].todo
         /\ UNCHANGED <<header, calls, target, last>>
         /\ \A i \in Slots \ {proc[p].slot} : table'[i] = table[i]
         /\ table'[proc[p].slot] = Store(table[proc[p].slot], x, proc[p])
<1>1. proc[p] \in Process /\ proc[p].slot \in Slots
  BY DEF TypeOK, Process
<1>2. Others(p) /\ SameLife(p) /\ SameCall(p) /\ proc'[p].at = "fill"
      /\ proc'[p].todo = proc[p].todo \ {x} /\ x \in proc[p].todo
  BY <1>1 DEF Fill, At, TypeOK, Process, Others, SameLife, SameCall
<1>3. QED
  BY <1>1, <1>2 DEF Fill, TypeOK, ghosts

LEMMA PublishDoes ==
  ASSUME TypeOK, CallInv, NEW p \in Procs, Publish(p)
  PROVE  /\ Goto(p, "unlock") /\ UNCHANGED <<header, calls, target>>
         /\ \A i \in Slots \ {proc[p].slot} : table'[i] = table[i]
         /\ table'[proc[p].slot].key = proc[p].file
         /\ table'[proc[p].slot].val = table[proc[p].slot].val
         /\ table'[proc[p].slot].flags = table[proc[p].slot].flags
         /\ \A g \in Files \ {proc[p].file} : last'[g] = last[g]
         /\ \A v \in Values : last'[proc[p].file][v] =
              IF v \in Sets(proc[p].kind) THEN proc[p].call ELSE last[proc[p].file][v]
<1>1. proc[p] \in Process /\ proc[p].slot \in Slots /\ proc[p].file \in Files
  BY DEF TypeOK, Process, CallInv, Publish, At, Calling
<1>2. table[proc[p].slot] \in Entry
  BY <1>1 DEF TypeOK
<1>3. table'[proc[p].slot] = [table[proc[p].slot] EXCEPT !.key = proc[p].file]
  BY <1>1 DEF Publish, TypeOK
<1>4. /\ table'[proc[p].slot].key = proc[p].file
      /\ table'[proc[p].slot].val = table[proc[p].slot].val
      /\ table'[proc[p].slot].flags = table[proc[p].slot].flags
  BY <1>2, <1>3 DEF Entry
<1>5. QED
  BY <1>1, <1>4 DEF Publish, TypeOK

\* a stat that meets the entry will read it; one that does not reports the real metadata
LEMMA StatDoes ==
  ASSUME TypeOK, NEW p \in Procs, NEW f \in Files, Stat(p, f)
  PROVE  /\ Others(p) /\ SameLife(p) /\ SameTable /\ header' = header
         /\ proc'[p].at = "load" /\ proc'[p].file = f
         /\ proc'[p].got = Real /\ proc'[p].quiet = ~Recording(f)
         /\ \/ proc'[p].todo = Fields /\ proc'[p].slot \in Slots
                 /\ table[proc'[p].slot].key = f
            \/ proc'[p].todo = {} /\ \A i \in Slots : ~(Probed(f, i) /\ table[i].key = f)
<1> DEFINE found == {i \in Slots : Probed(f, i) /\ table[i].key = f}
<1>1. proc[p] \in Process
  BY DEF TypeOK
<1>2. PICK i \in IF found = {} THEN {0} ELSE found :
        proc' = [proc EXCEPT ![p].at = "load", ![p].file = f, ![p].slot = i,
                             ![p].todo = IF found = {} THEN {} ELSE Fields,
                             ![p].got = Real,
                             ![p].quiet = ~Recording(f)]
  BY DEF Stat
<1> HIDE DEF found
<1>3. /\ Others(p) /\ SameLife(p)
      /\ proc'[p].at = "load" /\ proc'[p].file = f /\ proc'[p].slot = i
      /\ proc'[p].got = Real /\ proc'[p].quiet = ~Recording(f)
      /\ proc'[p].todo = IF found = {} THEN {} ELSE Fields
  BY <1>1, <1>2 DEF TypeOK, Process, Others, SameLife
<1>4. SameTable /\ header' = header
  BY DEF Stat, SameTable, shared, ghosts
<1>5. QED
  BY <1>2, <1>3, <1>4 DEF found

LEMMA LoadFieldsDoes ==
  ASSUME TypeOK, NEW p \in Procs, LoadFields(p)
  PROVE  /\ Others(p) /\ SameLife(p) /\ SameCall(p) /\ SameTable /\ header' = header
         /\ proc'[p].at = "load" /\ proc'[p].todo = {} /\ proc'[p].quiet = proc[p].quiet
         /\ \A v \in Values : proc'[p].got[v] = Overlay(proc[p].slot, v)
<1>1. proc[p] \in Process
  BY DEF TypeOK
<1>2. QED
  BY <1>1 DEF LoadFields, At, TypeOK, Process, Others, SameLife, SameCall, SameTable, Overlay,
              shared, ghosts

LEMMA KillDoes ==
  ASSUME TypeOK, NEW p \in Procs, Kill(p)
  PROVE  /\ Others(p) /\ SameTable /\ header' = header
         /\ proc'[p].dead /\ proc'[p].db = proc[p].db /\ proc[p].at # "new"
         /\ \/ proc'[p].at = "idle"
            \/ proc[p].at = "fill" /\ proc'[p].at = "fill" /\ SameCall(p)
                 /\ proc'[p].todo = proc[p].todo
<1>1. proc[p] \in Process /\ Idle \in Process
  BY IdleType DEF TypeOK
<1>2. CASE proc[p].at = "fill"
  BY <1>1, <1>2 DEF Kill, TypeOK, Process, Others, SameCall, SameTable, shared, ghosts
<1>3. CASE proc[p].at # "fill"
  BY <1>1, <1>3 DEF Kill, TypeOK, Process, Idle, Others, SameTable, shared, ghosts
<1>4. QED
  BY <1>2, <1>3

-----------------------------------------------------------------------------
(* Starting, and the lock *)

\* Every action but those of fr_init_db leaves the starting processes alone.
LEMMA StartedSteps ==
  ASSUME TypeOK, StartInv, NEW p \in Procs,
         \/ TakeLock(p) \/ FutexWait(p) \/ Interrupt(p) \/ Unlock(p) \/ FutexWake(p)
         \/ Find(p) \/ Publish(p) \/ StatReturns(p) \/ LoadFields(p)
         \/ \E x \in Fields : Fill(p, x)
         \/ \E f \in Files : Stat(p, f) \/ \E kind \in Kinds : Call(p, kind, f)
  PROVE  /\ header'.magic = header.magic
         /\ \A q \in Procs :
              /\ proc[q].at \in {"new", "init", "attach"} => proc'[q] = proc[q]
              /\ proc[q].at \notin {"new", "init", "attach"} =>
                   proc'[q].at \notin {"new", "init", "attach"}
<1> DEFINE Starting == {"new", "init", "attach"}
<1> DEFINE Goal == /\ header'.magic = header.magic
                   /\ \A q \in Procs :
                        /\ proc[q].at \in Starting => proc'[q] = proc[q]
                        /\ proc[q].at \notin Starting => proc'[q].at \notin Starting
<1>1. CASE TakeLock(p) \/ FutexWait(p) \/ Interrupt(p) \/ Unlock(p)
  <2>1. proc[p].at \notin Starting /\ header'.magic = header.magic
    BY <1>1 DEF TakeLock, FutexWait, Interrupt, Unlock, At, shared, TypeOK
  <2>2. PICK x \in Places \ Starting : Goto(p, x)
    BY <1>1 DEF TakeLock, FutexWait, Interrupt, Unlock, Places
  <2>3. QED
    BY <2>1, <2>2, GotoDoes DEF Others
<1>2. CASE FutexWake(p)
  <2>1. proc[p].at \notin Starting
    BY <1>2 DEF FutexWake, At
  <2>2. QED
    BY <1>2, <2>1, FutexWakeDoes DEF Idle
<1>3. CASE Find(p)
  <2>1. proc[p].at \notin Starting /\ header'.magic = header.magic
    BY <1>3 DEF Find, At, shared
  <2>2. CASE Goto(p, "unlock")
    BY <2>1, <2>2, GotoDoes DEF Others
  <2>3. CASE Candidates(proc[p].file) # {}
    <3>1. \A q \in Procs : proc[q].at \in Starting => proc'[q] = proc[q]
      BY <1>3, <2>1, <2>3 DEF Find
    <3>2. QED
      BY <1>3, <2>1, <2>3, <3>1, FindDoes
  <2>4. QED
    BY <1>3, <2>2, <2>3 DEF Find
<1>4. CASE Publish(p)
  BY <1>4, GotoDoes DEF Publish, At, Others
<1>5. CASE StatReturns(p)
  BY <1>5 DEF StatReturns, At, Idle, shared, TypeOK
<1>6. CASE LoadFields(p)
  BY <1>6, LoadFieldsDoes DEF LoadFields, At, Others
<1>7. ASSUME NEW x \in Fields, Fill(p, x) PROVE Goal
  BY <1>7, FillDoes DEF Fill, At, Others
<1>8. ASSUME NEW f \in Files, Stat(p, f) PROVE Goal
  BY <1>8, StatDoes DEF Stat, At, Others
<1>9. ASSUME NEW f \in Files, NEW kind \in Kinds, Call(p, kind, f) PROVE Goal
  BY <1>9, CallDoes DEF Call, At, Others
<1>10. QED
  BY <1>1, <1>2, <1>3, <1>4, <1>5, <1>6, <1>7, <1>8, <1>9

LEMMA StartKept ==
  ASSUME OneCreator, TypeOK, StartInv, [Next]_vars PROVE StartInv'
<1>1. ASSUME NEW p \in Procs, Map(p) PROVE StartInv'
  <2>1. proc[p].at = "new" /\ ~proc[p].db
    BY <1>1 DEF Map, At, StartInv
  <2>2. CASE header.magic
    <3>1. \A q \in Procs : proc[q].at # "init"
      <4> SUFFICES ASSUME NEW q \in Procs, proc[q].at = "init" PROVE FALSE
        OBVIOUS
      <4>1. q # p /\ q \notin Forked /\ \A r \in Procs : ~proc[r].db
        BY <2>1 DEF StartInv
      <4>2. p \notin Forked
        BY <1>1, <4>1 DEF Map
      <4>3. QED
        BY <4>1, <4>2 DEF OneCreator
    <3>2. QED
      BY <1>1, <2>1, <2>2, <3>1, MapDoes DEF StartInv, Others, SameLife
  <2>3. CASE ~header.magic
    <3>1. \A q \in Procs : proc[q].at = "new" /\ ~proc[q].db
      BY <2>3 DEF StartInv
    <3>2. p \notin Forked
      BY <1>1, <3>1 DEF Map
    <3>3. QED
      BY <1>1, <2>1, <2>3, <3>1, <3>2, MapDoes DEF StartInv, Others, SameLife
  <2>4. QED
    BY <2>2, <2>3
<1>2. ASSUME NEW p \in Procs, NEW x, InitHeader(p, x) PROVE StartInv'
  <2>1. proc[p].at = "init"
    BY <1>2 DEF InitHeader, At
  <2>2. QED
    BY <1>2, <2>1, InitHeaderDoes DEF StartInv, Others, SameLife
<1>3. ASSUME NEW p \in Procs, Attach(p) PROVE StartInv'
  BY <1>3, AttachDoes DEF Attach, At, StartInv, Others
<1>4. ASSUME NEW p \in Procs, Kill(p) PROVE StartInv'
  BY <1>4, KillDoes DEF StartInv, Others
<1>5. ASSUME NEW p \in Procs,
             /\ header'.magic = header.magic
             /\ \A q \in Procs :
                  /\ proc[q].at \in {"new", "init", "attach"} => proc'[q] = proc[q]
                  /\ proc[q].at \notin {"new", "init", "attach"} =>
                       proc'[q].at \notin {"new", "init", "attach"}
      PROVE  StartInv'
  BY <1>5 DEF StartInv
<1>6. CASE UNCHANGED vars
  BY <1>6 DEF vars, shared, StartInv
<1>7. QED
  BY <1>1, <1>2, <1>3, <1>4, <1>5, <1>6, StartedSteps DEF Next, Run

\* The actions that neither take nor clear the lock.
LEMMA LocklessSteps ==
  ASSUME TypeOK, NEW p \in Procs,
         \/ Map(p) \/ Attach(p) \/ FutexWait(p) \/ Interrupt(p) \/ FutexWake(p)
         \/ StatReturns(p) \/ LoadFields(p) \/ Find(p) \/ Publish(p)
         \/ \E x \in Fields : Fill(p, x)
         \/ \E f \in Files : Stat(p, f) \/ \E kind \in Kinds : Call(p, kind, f)
  PROVE  /\ header'.lock = header.lock
         /\ \A q \in Procs : (Holds(q)' <=> Holds(q)) /\ proc'[q].dead = proc[q].dead
<1> DEFINE Goal == /\ header'.lock = header.lock
                   /\ \A q \in Procs : (Holds(q)' <=> Holds(q)) /\ proc'[q].dead = proc[q].dead
<1>1. CASE Map(p)
  <2>1. ~Holds(p)
    BY <1>1 DEF Map, At, Holds
  <2>2. QED
    BY <1>1, <2>1, MapDoes DEF Holds, Others, SameLife
<1>2. CASE Attach(p)
  <2>1. ~Holds(p)
    BY <1>2 DEF Attach, At, Holds
  <2>2. QED
    BY <1>2, <2>1, AttachDoes DEF Holds, Others
<1>3. CASE FutexWait(p) \/ Interrupt(p)
  <2>1. ~Holds(p) /\ header' = header
    BY <1>3 DEF FutexWait, Interrupt, At, Holds, shared
  <2>2. PICK x \in {"sleep", "lock"} : Goto(p, x)
    BY <1>3 DEF FutexWait, Interrupt
  <2>3. QED
    BY <2>1, <2>2, GotoDoes DEF Holds, Others, SameLife
<1>4. CASE FutexWake(p)
  <2>1. ~Holds(p) /\ proc[p].dead = FALSE
    BY <1>4 DEF FutexWake, At, Holds, TypeOK, Process
  <2>2. proc'[p].at = "idle" /\ proc'[p].dead = FALSE
    BY <1>4, FutexWakeDoes DEF Idle
  <2>3. header' = header
        /\ \A q \in Procs \ {p} : (Holds(q)' <=> Holds(q)) /\ proc'[q].dead = proc[q].dead
    BY <1>4, FutexWakeDoes DEF Holds, SameLife
  <2>4. QED
    BY <2>1, <2>2, <2>3 DEF Holds
<1>5. CASE StatReturns(p)
  <2>1. ~Holds(p) /\ proc[p].dead = FALSE
    BY <1>5 DEF StatReturns, At, Holds, TypeOK, Process
  <2>2. Others(p) /\ proc'[p] = Idle /\ header' = header
    BY <1>5 DEF StatReturns, Others, TypeOK, shared
  <2>3. proc'[p].at = "idle" /\ proc'[p].dead = FALSE
    BY <2>2 DEF Idle
  <2>4. QED
    BY <2>1, <2>2, <2>3 DEF Holds, Others
<1>6. CASE LoadFields(p)
  <2>1. ~Holds(p)
    BY <1>6 DEF LoadFields, At, Holds
  <2>2. QED
    BY <1>6, <2>1, LoadFieldsDoes DEF Holds, Others, SameLife
<1>7. CASE Find(p)
  <2>1. Holds(p) /\ header' = header
    BY <1>7 DEF Find, At, Holds, shared
  <2>2. CASE Goto(p, "unlock")
    BY <2>1, <2>2, GotoDoes DEF Holds, Others, SameLife
  <2>3. CASE Candidates(proc[p].file) # {}
    BY <1>7, <2>1, <2>3, FindDoes DEF Holds, SameLife
  <2>4. QED
    BY <1>7, <2>2, <2>3 DEF Find
<1>8. CASE Publish(p)
  <2>1. Holds(p) /\ header' = header
    BY <1>8 DEF Publish, At, Holds
  <2>2. QED
    BY <1>8, <2>1, GotoDoes DEF Publish, Holds, Others, SameLife
<1>9. ASSUME NEW x \in Fields, Fill(p, x) PROVE Goal
  <2>1. Holds(p)
    BY <1>9 DEF Fill, At, Holds
  <2>2. QED
    BY <1>9, <2>1, FillDoes DEF Holds, Others, SameLife
<1>10. ASSUME NEW f \in Files, Stat(p, f) PROVE Goal
  <2>1. ~Holds(p)
    BY <1>10 DEF Stat, At, Holds
  <2>2. QED
    BY <1>10, <2>1, StatDoes DEF Holds, Others, SameLife
<1>11. ASSUME NEW f \in Files, NEW kind \in Kinds, Call(p, kind, f) PROVE Goal
  <2>1. ~Holds(p)
    BY <1>11 DEF Call, At, Holds
  <2>2. QED
    BY <1>11, <2>1, CallDoes DEF Holds, Others, SameLife
<1>12. QED
  BY <1>1, <1>2, <1>3, <1>4, <1>5, <1>6, <1>7, <1>8, <1>9, <1>10, <1>11

LEMMA LockKept ==
  ASSUME TypeOK, StartInv, LockInv, [Next]_vars PROVE LockInv'
<1>1. ASSUME NEW p \in Procs, NEW x, InitHeader(p, x) PROVE LockInv'
  <2>1. proc[p].at = "init"
    BY <1>1 DEF InitHeader, At
  <2>2. \A q \in Procs : ~Holds(q)
    BY <2>1 DEF StartInv, Holds
  <2>3. \A q \in Procs : ~Holds(q)' /\ proc'[q].dead = proc[q].dead
    BY <1>1, <2>2, InitHeaderDoes DEF Holds, Others, SameLife
  <2>4. header'.lock \in {0, header.lock}
    BY <1>1, InitHeaderDoes
  <2>5. QED
    BY <2>2, <2>3, <2>4 DEF LockInv
<1>2. ASSUME NEW p \in Procs, TakeLock(p) PROVE LockInv'
  <2>1. ~Holds(p) /\ header'.lock = 1
    BY <1>2 DEF TakeLock, At, Holds, TypeOK
  <2>2. CASE header.lock = 0
    <3>1. \A q \in Procs : ~Holds(q)
      BY <2>2 DEF LockInv
    <3>2. Goto(p, "find")
      BY <1>2, <2>2 DEF TakeLock
    <3>3. Holds(p)' /\ \A q \in Procs \ {p} : ~Holds(q)'
      BY <3>1, <3>2, GotoDoes DEF Holds, Others
    <3>4. QED
      BY <2>1, <3>3 DEF LockInv
  <2>3. CASE header.lock # 0
    <3>1. header.lock = 1 /\ Goto(p, "futex")
      BY <1>2, <2>3 DEF TakeLock, TypeOK
    <3>2. \A q \in Procs : (Holds(q)' <=> Holds(q)) /\ proc'[q].dead = proc[q].dead
      BY <2>1, <3>1, GotoDoes DEF Holds, Others, SameLife
    <3>3. QED
      BY <2>1, <3>1, <3>2 DEF LockInv
  <2>4. QED
    BY <2>2, <2>3
<1>3. ASSUME NEW p \in Procs, Unlock(p) PROVE LockInv'
  <2>1. Holds(p) /\ header'.lock = 0 /\ Goto(p, "wake")
    BY <1>3 DEF Unlock, At, Holds, TypeOK
  <2>2. \A q \in Procs : ~Holds(q)'
    BY <2>1, GotoDoes DEF LockInv, Holds, Others
  <2>3. QED
    BY <2>1, <2>2 DEF LockInv
<1>4. ASSUME NEW p \in Procs, Kill(p) PROVE LockInv'
  <2>1. proc'[p].dead /\ header' = header /\ \A q \in Procs : Holds(q)' => Holds(q)
    BY <1>4, KillDoes DEF Holds, Others
  <2>2. QED
    BY <2>1 DEF LockInv
<1>5. ASSUME header'.lock = header.lock,
             \A q \in Procs : (Holds(q)' <=> Holds(q)) /\ proc'[q].dead = proc[q].dead
      PROVE  LockInv'
  BY <1>5 DEF LockInv
<1>6. CASE UNCHANGED vars
  BY <1>6 DEF vars, shared, LockInv, Holds
<1>7. QED
  BY <1>1, <1>2, <1>3, <1>4, <1>5, <1>6, LocklessSteps DEF Next, Run

LEMMA WakeupKept ==
  ASSUME TypeOK, StartInv, LockInv, LockInv', NoLostWakeup, [Next]_vars PROVE NoLostWakeup'
<1> DEFINE Coming(q) == proc[q].at \in {"wake", "lock", "futex"}
           Woken == header.lock = 1 \/ Sleepers = {} \/ \E q \in Procs : proc[q].dead \/ Coming(q)
<1>1. Woken
  <2>1. header.lock \in {0, 1}
    BY DEF TypeOK
  <2>2. QED
    BY <2>1 DEF NoLostWakeup
<1>2. ASSUME Woken' PROVE NoLostWakeup'
  BY <1>2 DEF NoLostWakeup, LockInv, Holds
<1>3. ASSUME NEW p \in Procs, Goto(p, "wake") \/ Goto(p, "lock") \/ Goto(p, "futex")
      PROVE  Woken'
  BY <1>3, GotoDoes
<1>4. ASSUME NEW p \in Procs, Others(p), ~Coming(p), proc'[p].at # "sleep", SameLife(p),
             header'.lock = header.lock
      PROVE  Woken'
  <2>1. CASE header.lock = 1
    BY <1>4, <2>1
  <2>2. CASE Sleepers = {}
    BY <1>4, <2>2 DEF Sleepers, At, Others
  <2>3. CASE \E q \in Procs : proc[q].dead \/ Coming(q)
    BY <1>4, <2>3 DEF Others, SameLife
  <2>4. QED
    BY <1>1, <2>1, <2>2, <2>3
<1>5. ASSUME NEW p \in Procs, Map(p) PROVE Woken'
  <2>1. ~Coming(p)
    BY <1>5 DEF Map, At
  <2>2. QED
    BY <1>4, <1>5, <2>1, MapDoes
<1>6. ASSUME NEW p \in Procs, NEW x, InitHeader(p, x) PROVE Woken'
  <2>1. proc[p].at = "init"
    BY <1>6 DEF InitHeader, At
  <2>2. \A q \in Procs : proc'[q].at # "sleep"
    BY <1>6, <2>1, InitHeaderDoes DEF StartInv, Others
  <2>3. QED
    BY <2>2 DEF Sleepers, At
<1>7. ASSUME NEW p \in Procs, Attach(p) PROVE Woken'
  <2>1. ~Coming(p) /\ ~proc[p].dead /\ proc'[p].at = "idle" /\ proc'[p].dead = proc[p].dead
        /\ Others(p) /\ header' = header
    BY <1>7, AttachDoes DEF Attach, At
  <2>2. CASE Sleepers = {}
    BY <2>1, <2>2 DEF Sleepers, At, Others
  <2>3. CASE \E q \in Procs : proc[q].dead \/ Coming(q)
    BY <2>1, <2>3 DEF Others
  <2>4. QED
    BY <1>1, <2>1, <2>2, <2>3
<1>8. ASSUME NEW p \in Procs, TakeLock(p) PROVE Woken'
  BY <1>8 DEF TakeLock, TypeOK
<1>9. ASSUME NEW p \in Procs, FutexWait(p) PROVE Woken'
  <2>1. CASE header.lock = 1
    BY <1>9, <2>1 DEF FutexWait, shared
  <2>2. CASE header.lock # 1
    BY <1>3, <1>9, <2>2 DEF FutexWait
  <2>3. QED
    BY <2>1, <2>2
<1>10. ASSUME NEW p \in Procs, Interrupt(p) \/ Unlock(p) PROVE Woken'
  BY <1>3, <1>10 DEF Interrupt, Unlock
<1>11. ASSUME NEW p \in Procs, FutexWake(p) PROVE Woken'
  <2>1. CASE Sleepers = {}
    <3>1. \A q \in Procs : ~At(q, "sleep")'
      BY <1>11, <2>1, FutexWakeDoes DEF Sleepers, At, Idle
    <3>2. QED
      BY <3>1 DEF Sleepers
  <2>2. CASE Sleepers # {}
    BY <1>11, <2>2, FutexWakeDoes
  <2>3. QED
    BY <2>1, <2>2
<1>12. ASSUME NEW p \in Procs, Find(p) \/ Publish(p) \/ \E x \in Fields : Fill(p, x)
       PROVE  Woken'
  <2>1. Holds(p)
    BY <1>12 DEF Find, Publish, Fill, At, Holds
  <2>2. header'.lock = 1
    BY <1>12, <2>1, LocklessSteps DEF LockInv
  <2>3. QED
    BY <2>2
<1>13. ASSUME NEW p \in Procs, StatReturns(p) PROVE Woken'
  <2>1. ~Coming(p) /\ proc[p].dead = FALSE
    BY <1>13 DEF StatReturns, At, TypeOK, Process
  <2>2. Others(p) /\ proc'[p] = Idle /\ header' = header
    BY <1>13 DEF StatReturns, Others, TypeOK, shared
  <2>3. CASE Sleepers = {}
    BY <2>2, <2>3 DEF Sleepers, At, Others, Idle
  <2>4. CASE \E q \in Procs : proc[q].dead \/ Coming(q)
    BY <2>1, <2>2, <2>4 DEF Others
  <2>5. QED
    BY <1>1, <2>2, <2>3, <2>4
<1>14. ASSUME NEW p \in Procs, LoadFields(p) PROVE Woken'
  <2>1. ~Coming(p)
    BY <1>14 DEF LoadFields, At
  <2>2. QED
    BY <1>4, <1>14, <2>1, LoadFieldsDoes
<1>15. ASSUME NEW p \in Procs, NEW f \in Files, Stat(p, f) PROVE Woken'
  <2>1. ~Coming(p)
    BY <1>15 DEF Stat, At
  <2>2. QED
    BY <1>4, <1>15, <2>1, StatDoes
<1>16. ASSUME NEW p \in Procs, NEW f \in Files, NEW kind \in Kinds, Call(p, kind, f) PROVE Woken'
  BY <1>16, CallDoes
<1>17. ASSUME NEW p \in Procs, Kill(p) PROVE Woken'
  BY <1>17, KillDoes
<1>18. ASSUME UNCHANGED vars PROVE Woken'
  BY <1>1, <1>18 DEF vars, shared, Sleepers, At
<1>19. QED
  BY <1>2, <1>5, <1>6, <1>7, <1>8, <1>9, <1>10, <1>11, <1>12, <1>13, <1>14, <1>15, <1>16, <1>17,
     <1>18
  DEF Next, Run

-----------------------------------------------------------------------------
(* Calls *)

\* What the actions of one process do to the calls and the stats of any other,
\* and to its own if it stays in one: nothing but end a stat's quiet.
StillReads(q) ==
  proc'[q].at = "load" =>
    /\ proc[q].at = "load" /\ SameCall(q) /\ proc'[q].todo = proc[q].todo
    /\ proc'[q].got = proc[q].got /\ (proc'[q].quiet => proc[q].quiet)
Carried(q) ==
  /\ StillReads(q)
  /\ proc'[q].at \in Calling => proc[q].at \in Calling /\ proc'[q].file = proc[q].file
                                  /\ proc'[q].call = proc[q].call
  /\ Filling(q)' /\ Filling(q) => SameCall(q)

LEMMA SameCarried ==
  ASSUME NEW q \in Procs, proc'[q] = proc[q] PROVE Carried(q)
  BY DEF Carried, StillReads, SameCall, Filling

\* The table and the fillers are as before.
Bystander ==
  /\ table' = table /\ last' = last
  /\ \A q \in Procs : /\ Filling(q)' <=> Filling(q)
                      /\ Filling(q) => SameCall(q) /\ proc'[q].todo = proc[q].todo

LEMMA SameBystander ==
  ASSUME TypeOK, NEW p \in Procs, Others(p), ~Filling(p), proc'[p].at # "fill",
         table' = table, last' = last
  PROVE  Bystander
  BY DEF Bystander, Others, Filling, SameCall

\* All actions but Find, Fill, Publish and those that begin a call or begin and
\* make a stat.
LEMMA OtherSteps ==
  ASSUME TypeOK, NEW p \in Procs,
         \/ Map(p) \/ Attach(p) \/ \E x \in {"slots", "lock"} : InitHeader(p, x)
         \/ TakeLock(p) \/ FutexWait(p) \/ Interrupt(p) \/ Unlock(p) \/ FutexWake(p)
         \/ StatReturns(p) \/ Kill(p)
  PROVE  SameTable /\ Bystander /\ \A q \in Procs : Carried(q)
<1> DEFINE Goal == SameTable /\ Bystander /\ \A q \in Procs : Carried(q)
<1>1. ASSUME Others(p), SameTable, ~Filling(p),
             proc'[p].at \in {"init", "attach", "idle", "wake"}
      PROVE  Goal
  <2>1. Carried(p)
    BY <1>1 DEF Carried, StillReads, Filling, Calling
  <2>2. QED
    BY <1>1, <2>1, SameCarried, SameBystander DEF Others, SameTable
<1>2. CASE Map(p)
  <2>1. ~Filling(p)
    BY <1>2 DEF Map, At, Filling
  <2>2. QED
    BY <1>1, <1>2, <2>1, MapDoes
<1>3. CASE Attach(p)
  <2>1. ~Filling(p)
    BY <1>3 DEF Attach, At, Filling
  <2>2. QED
    BY <1>1, <1>3, <2>1, AttachDoes
<1>4. ASSUME NEW x, InitHeader(p, x) PROVE Goal
  <2>1. ~Filling(p)
    BY <1>4 DEF InitHeader, At, Filling
  <2>2. QED
    BY <1>1, <1>4, <2>1, InitHeaderDoes
<1>5. CASE TakeLock(p) \/ FutexWait(p) \/ Interrupt(p)
  <2>1. SameTable /\ proc[p].at \in {"lock", "futex", "sleep"}
    BY <1>5 DEF TakeLock, FutexWait, Interrupt, At, SameTable, shared, ghosts
  <2>2. PICK x \in {"lock", "futex", "sleep", "find"} : Goto(p, x)
    BY <1>5 DEF TakeLock, FutexWait, Interrupt
  <2>3. Carried(p)
    BY <2>1, <2>2, GotoDoes DEF Carried, StillReads, SameCall, Calling, Filling
  <2>4. ~Filling(p) /\ proc'[p].at # "fill" /\ Others(p)
    BY <2>1, <2>2, GotoDoes DEF Filling
  <2>5. QED
    BY <2>1, <2>3, <2>4, SameCarried, SameBystander DEF Others, SameTable
<1>6. CASE Unlock(p)
  <2>1. ~Filling(p) /\ SameTable /\ Goto(p, "wake")
    BY <1>6 DEF Unlock, At, Filling, SameTable, ghosts
  <2>2. QED
    BY <1>1, <2>1, GotoDoes
<1>7. CASE FutexWake(p)
  <2>1. ~Filling(p) /\ proc'[p].at = "idle"
    BY <1>7, FutexWakeDoes DEF FutexWake, At, Filling, Idle
  <2>2. Carried(p)
    BY <2>1 DEF Carried, StillReads, Calling, Filling
  <2>3. ASSUME NEW q \in Procs \ {p}, proc[q].at = "sleep", proc'[q].at = "lock", SameCall(q)
        PROVE  Carried(q)
    BY <2>3 DEF Carried, StillReads, SameCall, Calling, Filling
  <2>4. \A q \in Procs : Carried(q)
    BY <1>7, <2>2, <2>3, SameCarried, FutexWakeDoes
  <2>5. SameTable /\ \A q \in Procs \ {p} :
          (proc'[q] = proc[q] \/ (proc[q].at = "sleep" /\ proc'[q].at = "lock"))
    BY <1>7, FutexWakeDoes
  <2>6. Bystander
    BY <2>1, <2>5 DEF Bystander, SameTable, Filling, SameCall
  <2>7. QED
    BY <2>4, <2>5, <2>6
<1>8. CASE StatReturns(p)
  <2>1. ~Filling(p)
    BY <1>8 DEF StatReturns, At, Filling
  <2>2. Others(p) /\ proc'[p] = Idle /\ SameTable
    BY <1>8 DEF StatReturns, Others, TypeOK, SameTable, shared, ghosts
  <2>3. QED
    BY <1>1, <2>1, <2>2 DEF Idle
<1>9. CASE Kill(p)
  <2>1. CASE proc'[p].at = "idle" /\ ~Filling(p)
    BY <1>1, <1>9, <2>1, KillDoes
  <2>2. CASE Filling(p)
    <3>1. proc'[p].at = "fill" /\ SameCall(p) /\ proc'[p].todo = proc[p].todo
          /\ Others(p) /\ SameTable
      <4>1. proc[p] \in Process /\ proc'[p] = [proc[p] EXCEPT !.dead = TRUE]
        BY <1>9, <2>2 DEF Kill, Filling, TypeOK
      <4>2. QED
        BY <1>9, <2>2, <4>1, KillDoes DEF Process, Filling, SameCall
    <3>2. Carried(p)
      BY <2>2, <3>1 DEF Carried, StillReads, SameCall, Filling, Calling
    <3>3. Bystander
      BY <2>2, <3>1 DEF Bystander, SameTable, Others, Filling, SameCall
    <3>4. QED
      BY <3>1, <3>2, <3>3, SameCarried DEF Others
  <2>3. QED
    BY <1>9, <2>1, <2>2, KillDoes DEF Filling
<1>10. QED
  BY <1>2, <1>3, <1>4, <1>5, <1>6, <1>7, <1>8, <1>9

LEMMA RecordSteps ==
  ASSUME TypeOK, NEW p \in Procs, Find(p) \/ Publish(p) \/ \E x \in Fields : Fill(p, x)
  PROVE  UNCHANGED <<calls, target>> /\ \A q \in Procs : Carried(q)
<1>1. UNCHANGED <<calls, target>> /\ proc[p].at \in {"find", "fill"}
  BY DEF Find, Publish, Fill, At, ghosts
<1>2. ASSUME Goto(p, "unlock") PROVE \A q \in Procs : Carried(q)
  <2>1. Carried(p)
    BY <1>2, GotoDoes DEF Carried, StillReads, Calling, Filling
  <2>2. QED
    BY <1>2, <2>1, GotoDoes, SameCarried DEF Others
<1>3. ASSUME Find(p), Candidates(proc[p].file) # {} PROVE \A q \in Procs : Carried(q)
  <2>1. Carried(p)
    BY <1>3, FindDoes DEF Find, At, Carried, StillReads, Calling, Filling
  <2>2. ASSUME NEW q \in Procs \ {p} PROVE Carried(q)
    BY <1>3, <2>2, FindDoes DEF Carried, StillReads, Calling, Filling, SameCall
  <2>3. QED
    BY <2>1, <2>2
<1>4. ASSUME NEW x \in Fields, Fill(p, x) PROVE \A q \in Procs : Carried(q)
  <2>1. Carried(p)
    BY <1>4, FillDoes DEF Fill, At, Carried, StillReads, Calling, Filling, SameCall
  <2>2. QED
    BY <1>4, <2>1, FillDoes, SameCarried DEF Others
<1>5. QED
  BY <1>1, <1>2, <1>3, <1>4 DEF Find, Publish

LEMMA CallKept ==
  ASSUME TypeOK, CallInv, [Next]_vars PROVE CallInv'
<1>1. ASSUME UNCHANGED <<calls, target>>,
             \A q \in Procs : Carried(q) \/ (proc'[q].at = "load" /\ proc'[q].file \in Files)
      PROVE  CallInv'
  BY <1>1 DEF CallInv, Carried, StillReads, Calling, SameCall
<1>2. ASSUME NEW p \in Procs, NEW f \in Files, Stat(p, f) PROVE CallInv'
  BY <1>1, <1>2, StatDoes, SameCarried DEF Others, SameTable
<1>3. ASSUME NEW p \in Procs, LoadFields(p) PROVE CallInv'
  <2>1. proc[p].at = "load"
    BY <1>3 DEF LoadFields, At
  <2>2. proc'[p].file \in Files
    BY <1>3, <2>1, LoadFieldsDoes DEF CallInv, SameCall
  <2>3. QED
    BY <1>1, <1>3, <2>2, LoadFieldsDoes, SameCarried DEF Others, SameTable
<1>4. ASSUME NEW p \in Procs, NEW kind \in Kinds, NEW f \in Files, Call(p, kind, f) PROVE CallInv'
  <2>1. calls \in Nat
    BY FakerootAssumption DEF TypeOK
  <2>2. \A n \in 1 .. calls' : target'[n] \in Files
    BY <1>4, <2>1, CallDoes DEF CallInv
  <2>3. ASSUME NEW q \in Procs \ {p}
        PROVE  /\ proc'[q].at \in Calling \cup {"load"} => proc'[q].file \in Files
               /\ proc'[q].at \in Calling =>
                    proc'[q].call \in 1 .. calls' /\ target'[proc'[q].call] = proc'[q].file
    <3>1. proc'[q] = proc[q] /\ calls' = calls + 1 /\ \A n \in 1 .. calls : target'[n] = target[n]
      BY <1>4, CallDoes DEF Others
    <3>2. QED
      BY <2>1, <3>1 DEF CallInv
  <2>4. proc'[p].file \in Files /\ proc'[p].call \in 1 .. calls'
        /\ target'[proc'[p].call] = proc'[p].file
    BY <1>4, <2>1, CallDoes
  <2>5. QED
    BY <2>2, <2>3, <2>4 DEF CallInv
<1>5. CASE UNCHANGED vars
  BY <1>1, <1>5, SameCarried DEF vars, ghosts
<1>6. QED
  BY <1>1, <1>2, <1>3, <1>4, <1>5, OtherSteps, RecordSteps DEF Next, Run, SameTable

-----------------------------------------------------------------------------
(* The table *)

LEMMA BystanderSteps ==
  ASSUME TypeOK, [Next]_vars
  PROVE  Bystander \/ \E p \in Procs : Find(p) \/ Publish(p) \/ \E x \in Fields : Fill(p, x)
<1>1. ASSUME NEW p \in Procs, NEW f \in Files, Stat(p, f) PROVE Bystander
  <2>1. ~Filling(p)
    BY <1>1 DEF Stat, At, Filling
  <2>2. QED
    BY <1>1, <2>1, StatDoes, SameBystander DEF SameTable
<1>2. ASSUME NEW p \in Procs, NEW kind \in Kinds, NEW f \in Files, Call(p, kind, f) PROVE Bystander
  <2>1. ~Filling(p)
    BY <1>2 DEF Call, At, Filling
  <2>2. QED
    BY <1>2, <2>1, CallDoes, SameBystander
<1>3. ASSUME NEW p \in Procs, LoadFields(p) PROVE Bystander
  <2>1. ~Filling(p)
    BY <1>3 DEF LoadFields, At, Filling
  <2>2. QED
    BY <1>3, <2>1, LoadFieldsDoes, SameBystander DEF SameTable
<1>4. ASSUME UNCHANGED vars PROVE Bystander
  BY <1>4 DEF vars, shared, ghosts, Bystander, Filling, SameCall
<1>5. QED
  BY <1>1, <1>2, <1>3, <1>4, OtherSteps DEF Next, Run

\* The only filler, while it fills.
LEMMA Alone ==
  ASSUME TypeOK, LockInv, NEW p \in Procs, Holds(p)
  PROVE  \A q \in Procs \ {p} : ~Filling(q)
  BY DEF LockInv, Holds, Filling

\* A file's entry keeps its place; a full table is left as it is.
LEMMA FindFills ==
  ASSUME TypeOK, LockInv, NEW p \in Procs, Find(p)
  PROVE  /\ SameTable /\ \A q \in Procs : ~Filling(q)
         /\ \A q \in Procs \ {p} : ~Filling(q)'
         /\ Filling(p)' => /\ proc'[p].slot \in Slots /\ Probed(proc[p].file, proc'[p].slot)
                           /\ proc'[p].file = proc[p].file /\ proc'[p].kind = proc[p].kind
                           /\ proc'[p].todo = Sets(proc[p].kind) \cup {"flags"}
<1>1. Holds(p) /\ ~Filling(p) /\ SameTable
  BY DEF Find, At, Holds, Filling, SameTable, shared, ghosts
<1>2. \A q \in Procs : ~Filling(q)
  BY <1>1, Alone
<1>3. CASE Candidates(proc[p].file) # {}
  BY <1>1, <1>2, <1>3, FindDoes DEF Filling
<1>4. CASE Goto(p, "unlock")
  BY <1>1, <1>2, <1>4, GotoDoes DEF Filling, Others
<1>5. QED
  BY <1>3, <1>4 DEF Find

LEMMA Stored ==
  ASSUME NEW e \in Entry, NEW x \in Fields, NEW c
  PROVE  /\ Store(e, x, c).key = e.key
         /\ x = "flags" => /\ Store(e, x, c).flags = e.flags \cup Sets(c.kind)
                           /\ Store(e, x, c).val = e.val
         /\ x # "flags" => /\ Store(e, x, c).flags = e.flags
                           /\ Store(e, x, c).val = [e.val EXCEPT ![x] = c.call]
<1>1. CASE x = "flags"
  BY <1>1 DEF Store, Entry
<1>2. CASE x # "flags"
  BY <1>2 DEF Store, Entry
<1>3. QED
  BY <1>1, <1>2

LEMMA FillStores ==
  ASSUME TypeOK, NEW p \in Procs, NEW x \in Fields, Fill(p, x), NEW i, i = proc[p].slot
  PROVE  /\ table'[i].key = table[i].key
         /\ x = "flags" => /\ table'[i].flags = table[i].flags \cup Sets(proc[p].kind)
                           /\ table'[i].val = table[i].val
         /\ x # "flags" => /\ table'[i].flags = table[i].flags
                           /\ table'[i].val = [table[i].val EXCEPT ![x] = proc[p].call]
<1>1. table[i] \in Entry
  BY DEF TypeOK, Process
<1>2. table'[i] = Store(table[i], x, proc[p])
  BY FillDoes
<1>3. QED
  BY <1>1, <1>2, Stored

LEMMA TableKept ==
  ASSUME TypeOK, LockInv, CallInv, OneEntryPerFile, FillInv, [Next]_vars
  PROVE  OneEntryPerFile' /\ FillInv'
<1>1. CASE Bystander
  BY <1>1 DEF Bystander, SameCall, OneEntryPerFile, FillInv, Probed, Candidates, Dist
<1>2. ASSUME NEW p \in Procs, Find(p) PROVE OneEntryPerFile' /\ FillInv'
  <2>1. table' = table
    BY <1>2, FindFills DEF SameTable
  <2>2. QED
    BY <1>2, <2>1, FindFills DEF OneEntryPerFile, FillInv, Probed, Candidates, Dist
<1>3. ASSUME NEW p \in Procs, NEW x \in Fields, Fill(p, x) PROVE OneEntryPerFile' /\ FillInv'
  <2>1. proc[p].slot \in Slots /\ table[proc[p].slot] \in Entry
    BY DEF TypeOK, Process
  <2>2. \A i \in Slots : table'[i].key = table[i].key
    BY <1>3, FillDoes, FillStores
  <2>3. \A q \in Procs : Filling(q)' => Filling(q) /\ SameCall(q)
    BY <1>3, FillDoes DEF Others, SameCall, Filling, Fill, At
  <2>4. QED
    BY <2>2, <2>3 DEF OneEntryPerFile, FillInv, Probed, Candidates, Dist, SameCall
<1>4. ASSUME NEW p \in Procs, Publish(p) PROVE OneEntryPerFile' /\ FillInv'
  <2> DEFINE f == proc[p].file
             s == proc[p].slot
  <2>1. Filling(p) /\ Holds(p) /\ f \in Files /\ s \in Slots /\ f # NoFile /\ Probed(f, s)
    BY <1>4, FakerootAssumption
    DEF Publish, At, Filling, Holds, CallInv, Calling, TypeOK, Process, FillInv
  <2>2. FillInv'
    <3>1. \A q \in Procs : ~Filling(q)'
      BY <1>4, <2>1, Alone, GotoDoes DEF Publish, Filling, Others
    <3>2. QED
      BY <3>1 DEF FillInv
  <2>3. table'[s].key = f /\ \A i \in Slots \ {s} : table'[i] = table[i]
    BY <1>4, PublishDoes
  <2>4. CASE table[s].key = f
    <3>1. \A i \in Slots : table'[i].key = table[i].key
      BY <2>3, <2>4
    <3>2. QED
      BY <2>2, <3>1 DEF OneEntryPerFile, Dist
  <2>5. CASE table[s].key = NoFile
    <3>1. \A j \in Slots : table[j].key # f
      BY <2>1, <2>5, EmptyMeansAbsent
    <3>2. ASSUME NEW j \in Slots \ {s}, Dist(f, j) < Dist(f, s) PROVE table[j].key # NoFile
      <4>1. Dist(f, j) \in Int /\ Dist(f, s) \in Int
        BY <2>1, DistIs, FakerootAssumption DEF Slots
      <4>2. QED
        BY <2>1, <3>2, <4>1 DEF Probed, Candidates
    <3>3. ASSUME NEW i \in Slots \ {s}, table[i].key # NoFile, NEW j \in Slots \ {i}
          PROVE  /\ table'[j].key # table[i].key
                 /\ Dist(table[i].key, j) < Dist(table[i].key, i) => table'[j].key # NoFile
      BY <2>1, <2>3, <3>1, <3>3 DEF OneEntryPerFile
    <3>4. ASSUME NEW i \in Slots, table'[i].key # NoFile, NEW j \in Slots \ {i}
          PROVE  /\ table'[j].key # table'[i].key
                 /\ Dist(table'[i].key, j) < Dist(table'[i].key, i) => table'[j].key # NoFile
      <4>1. CASE i = s
        BY <2>3, <3>1, <3>2, <4>1
      <4>2. CASE i # s
        BY <2>3, <3>3, <3>4, <4>2
      <4>3. QED
        BY <4>1, <4>2
    <3>5. OneEntryPerFile'
      BY <3>4 DEF OneEntryPerFile, Dist
    <3>6. QED
      BY <2>2, <3>5
  <2>6. QED
    BY <2>1, <2>4, <2>5 DEF Probed, Candidates
<1>5. QED
  BY <1>1, <1>2, <1>3, <1>4, BystanderSteps

-----------------------------------------------------------------------------
(* What the slots hold *)

ContentInv == RestInv /\ AbsentInv /\ PartialInv /\ OwnInv

\* A call's number is a number, and kinds set values.
LEMMA Filler ==
  ASSUME TypeOK, CallInv, FillInv, NEW p \in Procs, Filling(p)
  PROVE  /\ proc[p].file \in Files /\ proc[p].file # NoFile /\ proc[p].slot \in Slots
         /\ table[proc[p].slot] \in Entry /\ table[proc[p].slot].key \in {proc[p].file, NoFile}
         /\ Probed(proc[p].file, proc[p].slot)
         /\ proc[p].call \in 1 .. calls /\ target[proc[p].call] = proc[p].file
         /\ Sets(proc[p].kind) \subseteq Values
<1>1. /\ proc[p].file \in Files /\ proc[p].slot \in Slots /\ proc[p].kind \in Kinds
      /\ proc[p].call \in 1 .. calls /\ target[proc[p].call] = proc[p].file
  BY DEF CallInv, Filling, Calling, TypeOK, Process
<1>2. table[proc[p].slot] \in Entry /\ Probed(proc[p].file, proc[p].slot)
  BY <1>1 DEF TypeOK, FillInv
<1>3. Sets(proc[p].kind) \subseteq Values
  BY <1>1 DEF Sets, Kinds, Values
<1>4. QED
  BY <1>1, <1>2, <1>3, FakerootAssumption DEF Probed, Candidates

\* The table as it is, while calls begin.
LEMMA BystanderContent ==
  ASSUME TypeOK, CallInv, FillInv, ContentInv, Bystander,
         calls' \in Nat, calls <= calls', \A n \in 1 .. calls : target'[n] = target[n]
  PROVE  ContentInv'
<1>1. RestInv'
  BY DEF ContentInv, RestInv, Bystander, SameCall, Overlay, Empty, Real
<1>2. AbsentInv'
  BY DEF ContentInv, AbsentInv, Bystander
<1>3. PartialInv'
  <2> SUFFICES ASSUME NEW p \in Procs, Filling(p)'
               PROVE  /\ proc'[p].todo \subseteq Sets(proc'[p].kind) \cup {"flags"}
                      /\ \A v \in Values \ Sets(proc'[p].kind) :
                           Overlay(proc[p].slot, v)' = last'[proc'[p].file][v]
                      /\ \A v \in Sets(proc'[p].kind) \ proc'[p].todo :
                           table'[proc'[p].slot].val[v] = proc'[p].call
                      /\ "flags" \notin proc'[p].todo =>
                           Sets(proc'[p].kind) \subseteq table'[proc'[p].slot].flags
    BY DEF PartialInv, Sets
  <2>1. Filling(p) /\ SameCall(p) /\ proc'[p].todo = proc[p].todo /\ table' = table /\ last' = last
    BY DEF Bystander
  <2>2. QED
    BY <2>1 DEF ContentInv, PartialInv, SameCall, Overlay
<1>4. OwnInv'
  <2> SUFFICES ASSUME NEW i \in Slots, NEW v \in Values, table[i].val[v] # 0
               PROVE  /\ table[i].val[v] <= calls'
                      /\ \/ target'[table[i].val[v]] = table[i].key
                         \/ \E p \in Procs : Filling(p)' /\ proc'[p].slot = i
                                               /\ target'[table[i].val[v]] = proc'[p].file
    BY DEF OwnInv, Bystander
  <2>1. table[i].val[v] \in 1 .. calls
    BY FakerootAssumption DEF ContentInv, OwnInv, TypeOK, Entry
  <2>2. target'[table[i].val[v]] = target[table[i].val[v]]
    BY <2>1
  <2>3. table[i].val[v] <= calls'
    BY <2>1, FakerootAssumption DEF TypeOK
  <2>4. QED
    BY <2>2, <2>3 DEF ContentInv, OwnInv, Bystander, SameCall
<1>5. QED
  BY <1>1, <1>2, <1>3, <1>4 DEF ContentInv

\* A probe for a file ends at its entry, which shows what was last recorded, or
\* at an empty slot, and then the file has its real metadata.
LEMMA ProbedShowsLast ==
  ASSUME TypeOK, OneEntryPerFile, ContentInv, NEW f \in Files, NEW i \in Slots, Probed(f, i),
         \A q \in Procs : ~Filling(q)
  PROVE  \A v \in Values : Overlay(i, v) = last[f][v]
<1>1. CASE table[i].key = f
  BY <1>1, FakerootAssumption DEF ContentInv, RestInv
<1>2. CASE table[i].key = NoFile
  <2>1. \A v \in Values : last[f][v] = 0
    BY <1>2, EmptyMeansAbsent DEF ContentInv, AbsentInv
  <2>2. table[i] = Empty
    BY <1>2 DEF ContentInv, RestInv
  <2>3. \A v \in Values : Overlay(i, v) = 0
    BY <2>2 DEF Overlay, Empty
  <2>4. QED
    BY <2>1, <2>3
<1>3. QED
  BY <1>1, <1>2 DEF Probed, Candidates

LEMMA FindContent ==
  ASSUME TypeOK, LockInv, CallInv, OneEntryPerFile, ContentInv, NEW p \in Procs, Find(p)
  PROVE  ContentInv'
<1>1. table' = table /\ last' = last /\ UNCHANGED <<calls, target>>
  BY FindFills DEF SameTable
<1>2. \A q \in Procs : ~Filling(q)
  BY FindFills
<1>3. RestInv'
  BY <1>1, <1>2 DEF ContentInv, RestInv, Overlay, Empty, Real
<1>4. AbsentInv'
  BY <1>1 DEF ContentInv, AbsentInv
<1>5. OwnInv'
  BY <1>1, <1>2 DEF ContentInv, OwnInv
<1>6. PartialInv'
  <2> SUFFICES ASSUME Filling(p)'
               PROVE  /\ proc'[p].todo \subseteq Sets(proc'[p].kind) \cup {"flags"}
                      /\ \A v \in Values \ Sets(proc'[p].kind) :
                           Overlay(proc[p].slot, v)' = last'[proc'[p].file][v]
                      /\ Sets(proc'[p].kind) \ proc'[p].todo = {}
                      /\ "flags" \in proc'[p].todo
    BY FindFills DEF PartialInv, Sets
  <2>1. proc[p].file \in Files
    BY DEF Find, At, CallInv, Calling
  <2>2. \A v \in Values : Overlay(proc'[p].slot, v) = last[proc[p].file][v]
    BY <1>2, <2>1, FindFills, ProbedShowsLast
  <2>3. QED
    BY <1>1, <2>2, FindFills DEF Overlay
<1>7. QED
  BY <1>3, <1>4, <1>5, <1>6 DEF ContentInv

LEMMA FillContent ==
  ASSUME TypeOK, LockInv, CallInv, FillInv, ContentInv, NEW p \in Procs, NEW x \in Fields, Fill(p, x)
  PROVE  ContentInv'
<1> DEFINE s == proc[p].slot
           S == Sets(proc[p].kind)
<1>1. Filling(p) /\ Filling(p)' /\ \A q \in Procs \ {p} : ~Filling(q) /\ ~Filling(q)'
  <2>1. Filling(p) /\ Holds(p)
    BY DEF Fill, At, Filling, Holds
  <2>2. QED
    BY <2>1, Alone, FillDoes DEF Filling, Others
<1>2. /\ UNCHANGED <<calls, target, last>> /\ SameCall(p) /\ proc'[p].todo = proc[p].todo \ {x}
      /\ x \in proc[p].todo /\ \A i \in Slots \ {s} : table'[i] = table[i]
  BY FillDoes
<1>3. s \in Slots /\ table[s] \in Entry /\ S \subseteq Values
      /\ proc[p].call \in 1 .. calls /\ target[proc[p].call] = proc[p].file
  BY <1>1, Filler
<1>4. /\ table'[s].key = table[s].key
      /\ x = "flags" => table'[s].flags = table[s].flags \cup S /\ table'[s].val = table[s].val
      /\ x # "flags" => /\ table'[s].flags = table[s].flags
                        /\ table'[s].val = [table[s].val EXCEPT ![x] = proc[p].call]
  BY FillStores
<1>5. x # "flags" => x \in S /\ x \in Values
  BY <1>1, <1>2, <1>3 DEF ContentInv, PartialInv
<1>6. DOMAIN table[s].val = Values
  BY <1>3 DEF Entry
<1>7. \A v \in Values : table'[s].val[v] \in {table[s].val[v], proc[p].call}
  BY <1>4, <1>5, <1>6
<1>8. \A v \in Values \ S : Overlay(s, v) = IF v \in table'[s].flags THEN table'[s].val[v] ELSE 0
  BY <1>4, <1>5, <1>6 DEF Overlay
<1> HIDE DEF S
<1>9. RestInv'
  <2> SUFFICES ASSUME NEW i \in Slots \ {s}
               PROVE  IF table'[i].key = NoFile THEN table'[i] = Empty'
                      ELSE \A v \in Values : Overlay(i, v)' = last'[table'[i].key][v]
    BY <1>1, <1>2 DEF RestInv, SameCall
  <2>1. table'[i] = table[i]
    BY <1>2
  <2>2. QED
    BY <1>1, <1>2, <2>1 DEF ContentInv, RestInv, Overlay, Empty, Real
<1>10. AbsentInv'
  BY <1>2, <1>4 DEF ContentInv, AbsentInv
<1>11. OwnInv'
  <2> SUFFICES ASSUME NEW i \in Slots, NEW v \in Values, table'[i].val[v] # 0
               PROVE  /\ table'[i].val[v] <= calls
                      /\ \/ target[table'[i].val[v]] = table'[i].key
                         \/ \E q \in Procs : Filling(q)' /\ proc'[q].slot = i
                                               /\ target[table'[i].val[v]] = proc'[q].file
    BY <1>2 DEF OwnInv
  <2>1. CASE i # s
    <3>1. table'[i] = table[i]
      BY <1>2, <2>1
    <3>2. QED
      BY <1>1, <2>1, <3>1 DEF ContentInv, OwnInv
  <2>2. CASE i = s /\ table'[s].val[v] = table[s].val[v]
    BY <1>1, <1>2, <1>4, <2>2 DEF ContentInv, OwnInv, SameCall
  <2>3. CASE i = s /\ table'[s].val[v] = proc[p].call
    BY <1>1, <1>2, <1>3, <2>3 DEF SameCall
  <2>4. QED
    BY <1>7, <2>1, <2>2, <2>3
<1>12. PartialInv'
  <2> SUFFICES /\ proc'[p].todo \subseteq S \cup {"flags"}
               /\ \A v \in Values \ S : Overlay(proc[p].slot, v)' = last[proc[p].file][v]
               /\ \A v \in S \ proc'[p].todo : table'[s].val[v] = proc[p].call
               /\ "flags" \notin proc'[p].todo => S \subseteq table'[s].flags
    <3>1. Sets(proc'[p].kind) = S
      BY <1>2 DEF SameCall, S
    <3>2. QED
      BY <1>1, <1>2, <3>1 DEF PartialInv, SameCall, Sets
  <2>1. /\ proc[p].todo \subseteq S \cup {"flags"}
        /\ \A v \in Values \ S : Overlay(s, v) = last[proc[p].file][v]
        /\ \A v \in S \ proc[p].todo : table[s].val[v] = proc[p].call
        /\ "flags" \notin proc[p].todo => S \subseteq table[s].flags
    BY <1>1 DEF ContentInv, PartialInv, S
  <2>2. proc'[p].todo \subseteq S \cup {"flags"}
    BY <1>2, <2>1
  <2>3. \A v \in Values \ S : Overlay(proc[p].slot, v)' = last[proc[p].file][v]
    BY <1>2, <1>8, <2>1 DEF Overlay, SameCall
  <2>4. \A v \in S \ proc'[p].todo : table'[s].val[v] = proc[p].call
    <3> SUFFICES ASSUME NEW v \in S \ proc'[p].todo PROVE table'[s].val[v] = proc[p].call
      OBVIOUS
    <3>1. CASE v = x
      <4>1. x # "flags"
        BY <1>3, <3>1 DEF Values
      <4>2. QED
        BY <1>3, <1>4, <1>6, <3>1, <4>1
    <3>2. CASE v # x
      <4>1. table[s].val[v] = proc[p].call
        BY <1>2, <2>1, <3>2
      <4>2. QED
        BY <1>3, <1>4, <1>6, <3>2, <4>1
    <3>3. QED
      BY <3>1, <3>2
  <2>5. "flags" \notin proc'[p].todo => S \subseteq table'[s].flags
    BY <1>2, <1>4, <2>1
  <2>6. QED
    BY <2>2, <2>3, <2>4, <2>5
<1>13. QED
  BY <1>9, <1>10, <1>11, <1>12 DEF ContentInv

LEMMA PublishContent ==
  ASSUME TypeOK, LockInv, CallInv, OneEntryPerFile, FillInv, ContentInv, OneEntryPerFile',
         NEW p \in Procs, Publish(p)
  PROVE  ContentInv'
<1> DEFINE f == proc[p].file
           S == Sets(proc[p].kind)
<1>0. PICK s \in Slots : s = proc[p].slot
  BY DEF TypeOK, Process
<1>1. Filling(p) /\ \A q \in Procs : ~Filling(q)' /\ (Filling(q) => q = p)
  <2>1. Filling(p) /\ Holds(p) /\ Goto(p, "unlock")
    BY DEF Publish, At, Filling, Holds
  <2>2. QED
    BY <2>1, Alone, GotoDoes DEF Filling, Others
<1>2. /\ f \in Files /\ f # NoFile /\ s \in Slots /\ table[s].key \in {f, NoFile}
      /\ proc[p].todo = {} /\ S \subseteq Values
  BY <1>0, <1>1, Filler DEF Publish
<1>3. /\ UNCHANGED <<calls, target>> /\ \A i \in Slots \ {s} : table'[i] = table[i]
      /\ table'[s].key = f /\ table'[s].val = table[s].val /\ table'[s].flags = table[s].flags
      /\ \A g \in Files \ {f} : last'[g] = last[g]
      /\ \A v \in Values : last'[f][v] = IF v \in S THEN proc[p].call ELSE last[f][v]
  BY <1>0, PublishDoes
<1>4. RestInv'
  <2>1. \A v \in Values : Overlay(s, v)' = last'[f][v]
    <3>1. /\ \A v \in Values \ S : Overlay(s, v) = last[f][v]
          /\ \A v \in S : table[s].val[v] = proc[p].call
          /\ S \subseteq table[s].flags
      BY <1>0, <1>1, <1>2 DEF ContentInv, PartialInv
    <3> HIDE DEF S
    <3>2. QED
      BY <1>2, <1>3, <3>1 DEF Overlay
  <2>2. ASSUME NEW i \in Slots \ {s}
        PROVE  IF table'[i].key = NoFile THEN table'[i] = Empty
               ELSE \A v \in Values : Overlay(i, v)' = last'[table'[i].key][v]
    <3>1. table'[i] = table[i] /\ table[i].key # f /\ table[i].key \in Files \cup {NoFile}
      BY <1>2, <1>3 DEF OneEntryPerFile, TypeOK, Entry
    <3>2. IF table[i].key = NoFile THEN table[i] = Empty
          ELSE \A v \in Values : Overlay(i, v) = last[table[i].key][v]
      BY <1>0, <1>1 DEF ContentInv, RestInv
    <3>3. QED
      BY <1>3, <3>1, <3>2 DEF Overlay
  <2>3. ASSUME NEW i \in Slots
        PROVE  IF table'[i].key = NoFile THEN table'[i] = Empty
               ELSE \A v \in Values : Overlay(i, v)' = last'[table'[i].key][v]
    <3>1. CASE i = s
      BY <1>2, <1>3, <2>1, <3>1
    <3>2. QED
      BY <2>2, <3>1
  <2>4. QED
    BY <2>3 DEF RestInv, Empty, Real
<1>5. AbsentInv'
  <2> SUFFICES ASSUME NEW g \in Files, \A i \in Slots : table'[i].key # g
               PROVE  \A v \in Values : last'[g][v] = 0
    BY DEF AbsentInv
  <2>1. g # f /\ \A i \in Slots : table[i].key # g
    BY <1>2, <1>3, FakerootAssumption
  <2>2. QED
    BY <1>3, <2>1 DEF ContentInv, AbsentInv
<1>6. PartialInv'
  BY <1>1 DEF PartialInv
<1>7. OwnInv'
  <2> SUFFICES ASSUME NEW i \in Slots, NEW v \in Values, table'[i].val[v] # 0
               PROVE  table'[i].val[v] <= calls /\ target[table'[i].val[v]] = table'[i].key
    BY <1>3 DEF OwnInv
  <2>1. table'[i].val[v] = table[i].val[v]
    BY <1>3
  <2>2. table[i].val[v] \in 1 .. calls
    BY <2>1, FakerootAssumption DEF ContentInv, OwnInv, TypeOK, Entry
  <2>3. \/ target[table[i].val[v]] = table[i].key
        \/ i = s /\ target[table[i].val[v]] = f
    BY <1>0, <1>1, <2>1 DEF ContentInv, OwnInv
  <2>4. target[table[i].val[v]] \in Files
    BY <2>2 DEF CallInv
  <2>5. QED
    BY <1>2, <1>3, <2>1, <2>2, <2>3, <2>4, FakerootAssumption DEF TypeOK
<1>8. QED
  BY <1>4, <1>5, <1>6, <1>7 DEF ContentInv

LEMMA ContentKept ==
  ASSUME TypeOK, LockInv, CallInv, OneEntryPerFile, FillInv, ContentInv, OneEntryPerFile',
         TypeOK', [Next]_vars
  PROVE  ContentInv'
<1>1. calls \in Nat /\ calls' \in Nat
  BY FakerootAssumption DEF TypeOK
<1>2. ASSUME UNCHANGED <<calls, target>>, Bystander PROVE ContentInv'
  BY <1>1, <1>2, BystanderContent
<1>3. ASSUME Bystander, NEW p \in Procs, NEW f \in Files, NEW kind \in Kinds, Call(p, kind, f)
      PROVE  ContentInv'
  BY <1>1, <1>3, BystanderContent, CallDoes
<1>4. CASE Bystander
  <2>1. UNCHANGED <<calls, target>>
          \/ \E p \in Procs : \E f \in Files : \E kind \in Kinds : Call(p, kind, f)
    <3>1. ASSUME NEW p \in Procs, Run(p) \/ Map(p) \/ Kill(p) \/ \E f \in Files : Stat(p, f)
          PROVE  UNCHANGED <<calls, target>>
      BY <3>1 DEF Run, Map, Kill, Stat, Attach, InitHeader, TakeLock, FutexWait, Interrupt, Unlock,
                  FutexWake, Find, Publish, StatReturns, LoadFields, Fill, ghosts
    <3>2. CASE UNCHANGED vars
      BY <3>2 DEF vars, ghosts
    <3>3. QED
      BY <3>1, <3>2 DEF Next
  <2>2. QED
    BY <1>2, <1>3, <1>4, <2>1
<1>5. QED
  BY <1>4, BystanderSteps, FindContent, FillContent, PublishContent

-----------------------------------------------------------------------------
(* Stats *)

ReadInv == LoadInv /\ QuietStatIsLatest /\ StatIsOfThatFile

\* The entry being filled is that of the filler's file.
LEMMA FillersEntry ==
  ASSUME TypeOK, CallInv, FillInv, NEW q \in Procs, Filling(q), NEW f \in Files,
         table[proc[q].slot].key = f
  PROVE  proc[q].file = f
  BY Filler, FakerootAssumption

\* A step in which no stat makes progress, which keeps the keys and records
\* only for a file that was being filled.
LEMMA ReadCarried ==
  ASSUME TypeOK, CallInv, ReadInv, \A q \in Procs : StillReads(q),
         calls' \in Nat, calls <= calls', \A n \in 1 .. calls : target'[n] = target[n],
         \A i \in Slots : table[i].key # NoFile => table'[i].key = table[i].key,
         \A r, q \in Procs : proc'[r].at = "load" /\ proc'[r].quiet /\ Filling(q)'
                               => proc'[q].file # proc'[r].file,
         \A f \in Files : (\A q \in Procs : Filling(q) => proc[q].file # f) => last'[f] = last[f]
  PROVE  ReadInv'
<1>0. calls \in Nat
  BY FakerootAssumption DEF TypeOK
<1> SUFFICES ASSUME NEW p \in Procs, proc'[p].at = "load"
             PROVE  /\ proc'[p].todo \in {{}, Fields}
                    /\ proc'[p].todo = Fields => table'[proc'[p].slot].key = proc'[p].file
                    /\ \A v \in Values : proc'[p].got[v] # 0 =>
                         /\ proc'[p].got[v] <= calls'
                         /\ target'[proc'[p].got[v]] = proc'[p].file
                    /\ proc'[p].todo = {} /\ proc'[p].quiet => proc'[p].got = last'[proc'[p].file]
  BY DEF ReadInv, LoadInv, QuietStatIsLatest, StatIsOfThatFile, Fields
<1>1. /\ proc[p].at = "load" /\ SameCall(p) /\ proc'[p].todo = proc[p].todo
      /\ proc'[p].got = proc[p].got /\ (proc'[p].quiet => proc[p].quiet)
  BY DEF StillReads
<1>2. proc[p].file \in Files /\ proc[p].file # NoFile /\ proc[p].slot \in Slots
  BY <1>1, FakerootAssumption DEF CallInv, TypeOK, Process
<1>3. /\ proc[p].todo \in {{}, Fields}
      /\ proc[p].todo = Fields => table[proc[p].slot].key = proc[p].file
      /\ proc[p].quiet => \A q \in Procs : Filling(q) => proc[q].file # proc[p].file
      /\ \A v \in Values : proc[p].got[v] # 0 =>
           proc[p].got[v] <= calls /\ target[proc[p].got[v]] = proc[p].file
      /\ proc[p].todo = {} /\ proc[p].quiet => proc[p].got = last[proc[p].file]
  BY <1>1 DEF ReadInv, LoadInv, QuietStatIsLatest, StatIsOfThatFile
<1>4. \A v \in Values : proc[p].got[v] \in Nat
  BY FakerootAssumption DEF TypeOK, Process
<1>5. proc'[p].todo = Fields => table'[proc'[p].slot].key = proc'[p].file
  BY <1>1, <1>2, <1>3 DEF SameCall
<1>6. ASSUME NEW v \in Values, proc[p].got[v] # 0
      PROVE  proc[p].got[v] <= calls' /\ target'[proc[p].got[v]] = proc[p].file
  <2>1. proc[p].got[v] \in 1 .. calls
    BY <1>0, <1>3, <1>4, <1>6
  <2>2. QED
    BY <1>0, <1>3, <1>6, <2>1
<1>7. proc'[p].todo = {} /\ proc'[p].quiet => proc'[p].got = last'[proc'[p].file]
  BY <1>1, <1>2, <1>3 DEF SameCall
<1>8. QED
  BY <1>1, <1>3, <1>5, <1>6, <1>7 DEF SameCall

\* The invariant, for one process.
ReadOf(p) ==
  proc[p].at = "load" =>
    /\ proc[p].todo \in {{}, Fields}
    /\ proc[p].todo = Fields => table[proc[p].slot].key = proc[p].file
    /\ proc[p].quiet => \A q \in Procs : Filling(q) => proc[q].file # proc[p].file
    /\ \A v \in Values : proc[p].got[v] # 0 =>
         proc[p].got[v] <= calls /\ target[proc[p].got[v]] = proc[p].file
    /\ proc[p].todo = {} /\ proc[p].quiet => proc[p].got = last[proc[p].file]

LEMMA ReadInvIs == ReadInv <=> \A p \in Procs : ReadOf(p)
  BY DEF ReadInv, ReadOf, LoadInv, QuietStatIsLatest, StatIsOfThatFile

LEMMA OthersRead ==
  ASSUME ReadInv, NEW p \in Procs, Others(p), SameTable, ~Filling(p)', NEW q \in Procs \ {p}
  PROVE  ReadOf(q)'
<1>1. ReadOf(q)
  BY ReadInvIs
<1>2. proc'[q] = proc[q] /\ \A r \in Procs : Filling(r)' => Filling(r) /\ proc'[r] = proc[r]
  BY DEF Others, Filling
<1>3. QED
  BY <1>1, <1>2 DEF ReadOf, SameTable

LEMMA StatReads ==
  ASSUME TypeOK, OneEntryPerFile, ContentInv, ReadInv, NEW p \in Procs, NEW f \in Files, Stat(p, f)
  PROVE  ReadInv'
<1>1. /\ Others(p) /\ SameTable /\ proc'[p].at = "load" /\ proc'[p].file = f
      /\ proc'[p].got = Real /\ proc'[p].quiet = ~Recording(f)
      /\ \/ proc'[p].todo = Fields /\ table[proc'[p].slot].key = f
         \/ proc'[p].todo = {} /\ \A i \in Slots : ~(Probed(f, i) /\ table[i].key = f)
  BY StatDoes
<1>2. ~Filling(p)'
  BY <1>1 DEF Filling
<1>3. proc'[p].quiet => \A q \in Procs : Filling(q)' => proc'[q].file # f
  <2>1. \A q \in Procs : Filling(q)' => Filling(q) /\ proc'[q].file = proc[q].file
    BY <1>1, <1>2 DEF Others, Filling
  <2>2. QED
    BY <1>1, <2>1 DEF Recording, Filling
<1>4. \A v \in Values : Real[v] = 0
  BY DEF Real
<1>5. proc'[p].todo = {} => Real = last[f]
  <2> SUFFICES ASSUME proc'[p].todo = {} PROVE Real = last[f]
    OBVIOUS
  <2>1. \A i \in Slots : table[i].key # f
    BY <1>1, EntryProbed DEF Fields
  <2>2. \A v \in Values : last[f][v] = 0
    BY <2>1 DEF ContentInv, AbsentInv
  <2>3. last[f] \in [Values -> 0 .. MaxCalls]
    BY DEF TypeOK
  <2>4. QED
    BY <2>2, <2>3 DEF Real
<1>6. ReadOf(p)'
  <2>1. \A v \in Values : proc'[p].got[v] = 0
    BY <1>1, <1>4
  <2>2. proc'[p].todo \in {{}, Fields}
        /\ (proc'[p].todo = Fields => table'[proc'[p].slot].key = proc'[p].file)
    BY <1>1 DEF SameTable, Fields
  <2>3. proc'[p].todo = {} => proc'[p].got = last'[proc'[p].file]
    BY <1>1, <1>5 DEF SameTable
  <2>4. QED
    BY <1>1, <1>3, <2>1, <2>2, <2>3 DEF ReadOf, Fields
<1>7. \A q \in Procs : ReadOf(q)'
  BY <1>1, <1>2, <1>6, OthersRead
<1>8. QED
  BY <1>7 DEF ReadInv, ReadOf, LoadInv, QuietStatIsLatest, StatIsOfThatFile

LEMMA LoadReads ==
  ASSUME TypeOK, CallInv, FillInv, ContentInv, ReadInv, NEW p \in Procs, LoadFields(p)
  PROVE  ReadInv'
<1> DEFINE f == proc[p].file
           s == proc[p].slot
<1>1. /\ Others(p) /\ SameTable /\ proc'[p].at = "load" /\ proc'[p].todo = {}
      /\ proc'[p].file = f /\ proc'[p].slot = s /\ proc'[p].quiet = proc[p].quiet
      /\ \A v \in Values : proc'[p].got[v] = Overlay(s, v)
  BY LoadFieldsDoes DEF SameCall
<1>2. proc[p].at = "load" /\ proc[p].todo = Fields
  BY DEF LoadFields, At
<1>3. f \in Files /\ f # NoFile /\ s \in Slots /\ table[s] \in Entry
  BY <1>2, FakerootAssumption DEF CallInv, TypeOK, Process
<1>4. table[s].key = f /\ (proc[p].quiet => \A q \in Procs : Filling(q) => proc[q].file # f)
  BY <1>2, ReadInvIs DEF ReadOf
<1>5. \A q \in Procs : Filling(q) /\ proc[q].slot = s => proc[q].file = f
  BY <1>3, <1>4, FillersEntry
<1>6. ~Filling(p)' /\ \A q \in Procs : Filling(q)' => Filling(q) /\ proc'[q].file = proc[q].file
  BY <1>1 DEF Others, Filling
<1>7. proc[p].quiet => \A v \in Values : Overlay(s, v) = last[f][v]
  BY <1>3, <1>4, <1>5 DEF ContentInv, RestInv
<1>8. proc[p].quiet => proc'[p].got = last[f]
  <2>1. last[f] \in [Values -> 0 .. MaxCalls]
    BY <1>3 DEF TypeOK
  <2>2. proc'[p].got = [v \in Values |-> Overlay(s, v)]
    <3>1. proc[p] \in Process
      BY DEF TypeOK
    <3>2. QED
      BY <3>1 DEF LoadFields, TypeOK, Process, Overlay
  <2>3. QED
    BY <1>7, <2>1, <2>2
<1>9. ASSUME NEW v \in Values, Overlay(s, v) # 0
      PROVE  Overlay(s, v) <= calls /\ target[Overlay(s, v)] = f
  <2>1. Overlay(s, v) = table[s].val[v]
    BY <1>9 DEF Overlay
  <2>2. QED
    BY <1>3, <1>4, <1>5, <1>9, <2>1 DEF ContentInv, OwnInv
<1>10. ReadOf(p)'
  <2>1. /\ proc'[p].quiet => \A q \in Procs : Filling(q)' => proc'[q].file # proc'[p].file
        /\ \A v \in Values : proc'[p].got[v] # 0 =>
             proc'[p].got[v] <= calls' /\ target'[proc'[p].got[v]] = proc'[p].file
        /\ proc'[p].quiet => proc'[p].got = last'[proc'[p].file]
    BY <1>1, <1>4, <1>6, <1>8, <1>9 DEF SameTable
  <2>2. QED
    BY <1>1, <2>1 DEF ReadOf, Fields
<1>11. \A q \in Procs : ReadOf(q)'
  BY <1>1, <1>6, <1>10, OthersRead
<1>12. QED
  BY <1>11 DEF ReadInv, ReadOf, LoadInv, QuietStatIsLatest, StatIsOfThatFile

LEMMA ReadKept ==
  ASSUME TypeOK, LockInv, CallInv, OneEntryPerFile, FillInv, ContentInv, ReadInv,
         TypeOK', [Next]_vars
  PROVE  ReadInv'
<1>0. calls \in Nat /\ calls' \in Nat
  BY FakerootAssumption DEF TypeOK
<1>1. ASSUME \A q \in Procs : StillReads(q), \A q \in Procs : Filling(q)' => Filling(q) /\ SameCall(q)
      PROVE  \A r, q \in Procs : proc'[r].at = "load" /\ proc'[r].quiet /\ Filling(q)'
                                   => proc'[q].file # proc'[r].file
  BY <1>1 DEF StillReads, SameCall, ReadInv, LoadInv
<1>2. ASSUME \A q \in Procs : Carried(q), SameTable, Bystander PROVE ReadInv'
  BY <1>0, <1>1, <1>2, ReadCarried DEF Carried, SameTable, Bystander
<1>3. ASSUME NEW p \in Procs, NEW f \in Files, NEW kind \in Kinds, Call(p, kind, f) PROVE ReadInv'
  <2>1. \A q \in Procs : StillReads(q)
    BY <1>3, CallDoes DEF StillReads, SameCall, Others
  <2>2. \A q \in Procs : Filling(q)' => Filling(q) /\ SameCall(q)
    BY <1>3, CallDoes DEF Filling, SameCall, Others
  <2>3. table' = table /\ last' = last /\ calls <= calls'
        /\ \A n \in 1 .. calls : target'[n] = target[n]
    BY <1>0, <1>3, CallDoes
  <2>4. QED
    BY <1>0, <1>1, <2>1, <2>2, <2>3, ReadCarried
<1>4. ASSUME NEW p \in Procs, Find(p) PROVE ReadInv'
  <2>1. \A q \in Procs : StillReads(q)
    BY <1>4, RecordSteps DEF Carried
  <2>2. SameTable
    BY <1>4, FindFills
  <2>3. ASSUME NEW r \in Procs, NEW q \in Procs,
               proc'[r].at = "load", proc'[r].quiet, Filling(q)'
        PROVE  proc'[q].file # proc'[r].file
    <3>0. /\ \A u \in Procs \ {p} : ~Filling(u)'
          /\ Filling(p)' => proc'[p].file = proc[p].file
      BY <1>4, FindFills
    <3>1. q = p /\ proc'[p].file = proc[p].file /\ r # p
      BY <2>3, <3>0 DEF Filling
    <3>2. Candidates(proc[p].file) # {}
      <4>1. ~Goto(p, "unlock")
        BY <2>3, <3>1, GotoDoes DEF Filling
      <4>2. QED
        BY <1>4, <4>1 DEF Find
    <3>3. QED
      BY <1>4, <2>3, <3>1, <3>2, FindDoes DEF SameCall
  <2>4. QED
    BY <1>0, <2>1, <2>2, <2>3, ReadCarried DEF SameTable
<1>5. ASSUME NEW p \in Procs, NEW x \in Fields, Fill(p, x) PROVE ReadInv'
  <2>1. \A q \in Procs : StillReads(q)
    BY <1>5, RecordSteps DEF Carried
  <2>2. \A q \in Procs : Filling(q)' => Filling(q) /\ SameCall(q)
    BY <1>5, FillDoes DEF Fill, At, Filling, SameCall, Others
  <2>3. \A i \in Slots : table'[i].key = table[i].key
    BY <1>5, FillDoes, FillStores
  <2>4. UNCHANGED <<calls, target, last>>
    BY <1>5, FillDoes
  <2>5. QED
    BY <1>0, <1>1, <2>1, <2>2, <2>3, <2>4, ReadCarried
<1>6. ASSUME NEW p \in Procs, Publish(p) PROVE ReadInv'
  <2>1. \A q \in Procs : StillReads(q)
    BY <1>6, RecordSteps DEF Carried
  <2>2. Filling(p) /\ Holds(p)
    BY <1>6 DEF Publish, At, Filling, Holds
  <2>3. \A q \in Procs : ~Filling(q)'
    BY <1>6, <2>2, Alone, GotoDoes DEF Publish, Filling, Others
  <2>4. \A i \in Slots : table[i].key # NoFile => table'[i].key = table[i].key
    BY <1>6, <2>2, Filler, PublishDoes
  <2>5. \A f \in Files : (\A q \in Procs : Filling(q) => proc[q].file # f) => last'[f] = last[f]
    BY <1>6, <2>2, PublishDoes
  <2>6. UNCHANGED <<calls, target>>
    BY <1>6, PublishDoes
  <2>7. QED
    BY <1>0, <2>1, <2>3, <2>4, <2>5, <2>6, ReadCarried
<1>7. CASE UNCHANGED vars
  <2>1. SameTable /\ Bystander /\ \A q \in Procs : Carried(q)
    BY <1>7, SameCarried DEF vars, shared, ghosts, SameTable, Bystander, Filling, SameCall
  <2>2. QED
    BY <1>2, <2>1
<1>8. QED
  BY <1>2, <1>3, <1>4, <1>5, <1>6, <1>7, OtherSteps, StatReads, LoadReads DEF Next, Run

-----------------------------------------------------------------------------
LEMMA FakerootInvInit == Init => FakerootInv
<1> SUFFICES ASSUME Init PROVE FakerootInv
  OBVIOUS
<1>1. TypeOK
  BY TypeInit
<1>2. \A p \in Procs : proc[p].at = "new" /\ ~proc[p].db
  BY DEF Init, Idle
<1>3. StartInv /\ LockInv /\ CallInv /\ FillInv /\ PartialInv
  BY <1>2 DEF Init, StartInv, LockInv, CallInv, FillInv, PartialInv, Holds, Filling, Calling
<1>4. LoadInv /\ QuietStatIsLatest /\ StatIsOfThatFile /\ NoLostWakeup
  BY <1>2 DEF LoadInv, QuietStatIsLatest, StatIsOfThatFile, NoLostWakeup, Sleepers, At
<1>5. (\A i \in Slots : table[i] = Empty /\ table[i].key = NoFile
                         /\ \A v \in Values : table[i].val[v] = 0)
      /\ \A f \in Files : \A v \in Values : last[f][v] = 0
  BY DEF Init, Empty, Real
<1>6. OneEntryPerFile /\ RestInv /\ AbsentInv /\ OwnInv
  BY <1>5 DEF OneEntryPerFile, RestInv, AbsentInv, OwnInv
<1>7. QED
  BY <1>1, <1>3, <1>4, <1>6 DEF FakerootInv

LEMMA FakerootInvStep ==
  ASSUME OneCreator, FakerootInv, [Next]_vars PROVE FakerootInv'
<1>1. TypeOK /\ StartInv /\ LockInv /\ CallInv /\ NoLostWakeup /\ OneEntryPerFile /\ FillInv
      /\ ContentInv /\ ReadInv
  BY DEF FakerootInv, ContentInv, ReadInv
<1>2. TypeOK' /\ StartInv' /\ CallInv' /\ OneEntryPerFile' /\ FillInv'
  BY <1>1, TypeKept, StartKept, CallKept, TableKept
<1>3. LockInv'
  BY <1>1, LockKept
<1>4. NoLostWakeup'
  BY <1>1, <1>3, WakeupKept
<1>5. ContentInv' /\ ReadInv'
  BY <1>1, <1>2, ContentKept, ReadKept
<1>6. QED
  BY <1>2, <1>3, <1>4, <1>5 DEF FakerootInv, ContentInv, ReadInv

\* The invariant above holds in every state, whoever is killed and when.
THEOREM FakerootInvariant ==
  ASSUME OneCreator PROVE Spec => []FakerootInv
<1>1. FakerootInv /\ [Next]_vars => FakerootInv'
  BY FakerootInvStep
<1>2. QED
  BY <1>1, FakerootInvInit, PTL DEF Spec

\* A file never gets a second entry and none is hidden behind an empty slot,
\* although processes add entries concurrently and may die holding the lock.
THEOREM OneEntry ==
  ASSUME OneCreator PROVE Spec => []OneEntryPerFile
<1>1. FakerootInv => OneEntryPerFile
  BY DEF FakerootInv
<1>2. QED
  BY <1>1, FakerootInvariant, PTL

\* A stat during which nobody records for the file returns what was last
\* recorded for it, although fr_overlay_stat takes no lock.
THEOREM QuietStat ==
  ASSUME OneCreator PROVE Spec => []QuietStatIsLatest
<1>1. FakerootInv => QuietStatIsLatest
  BY DEF FakerootInv
<1>2. QED
  BY <1>1, FakerootInvariant, PTL

\* A stat, whatever it overlaps, never returns what was set on another file.
THEOREM StatOfThatFile ==
  ASSUME OneCreator PROVE Spec => []StatIsOfThatFile
<1>1. FakerootInv => StatIsOfThatFile
  BY DEF FakerootInv
<1>2. QED
  BY <1>1, FakerootInvariant, PTL

\* While nobody is killed, somebody is about to wake a process that sleeps on
\* the lock of fr_lock.
THEOREM NoSleeperForgotten ==
  ASSUME OneCreator PROVE Spec => []NoLostWakeup
<1>1. FakerootInv => NoLostWakeup
  BY DEF FakerootInv
<1>2. QED
  BY <1>1, FakerootInvariant, PTL
=============================================================================
