----------------------------- MODULE FakerootDb -----------------------------
(***************************************************************************)
(* The metadata table of the fakeroot preload (alr_fakeroot/): a hash table *)
(* in a MAP_SHARED file that every guest process writes under a futex lock  *)
(* in its header and reads without it, so that what a maintainer script     *)
(* sets is what dpkg's stat() returns.                                      *)
(*                                                                         *)
(* A file is its (st_dev, st_ino); an owner (uid and gid), a mode or an     *)
(* rdev is the number of the call that set it, 0 being the real one.  The   *)
(* fields of an entry are plain memory: between the atomic accesses a       *)
(* writer's stores reach it in any order.  The probe is one step, taken at  *)
(* its last load: a key, once stored, stays.  A process may be killed       *)
(* anywhere.                                                                *)
(***************************************************************************)
EXTENDS Integers, FiniteSets

CONSTANTS
    Procs,      \* guest processes that load libalr_fakeroot.so
    Forked,     \* those that are descendants of one that has mapped the table
    Readers,    \* bound: those that call stat
    Files,
    NSlots,     \* capacity of the table
    Hash,       \* alr_fr_hash(dev, ino) & mask
    NoFile,     \* key_ino = 0
    MaxCalls    \* bound on chown, chmod and mknod calls

Slots == 0 .. NSlots - 1

ASSUME FakerootAssumption ==
    /\ NSlots \in Nat \ {0} /\ MaxCalls \in Nat
    /\ Hash \in [Files -> Slots] /\ NoFile \notin Files
    /\ Forked \subseteq Procs /\ Readers \subseteq Procs

VARIABLES
    header,     \* alr_fr_header
    table,      \* the slots
    proc,       \* each process: where it is, and the call it is in
    calls,      \* calls so far
    \* what the properties observe
    target,     \* the file each call was for
    last        \* what was last recorded for each file

shared == <<header, table>>
ghosts == <<calls, target, last>>
vars   == <<shared, proc, ghosts>>

Values == {"owner", "mode", "rdev"}
Kinds  == {"chown", "chmod", "mknod"}
Real   == [v \in Values |-> 0]
Empty  == [key |-> NoFile, val |-> Real, flags |-> {}]
Fields == Values \cup {"flags"}

\* the values a call sets, and the ones its HAVE_ flags make valid
Sets(kind) ==
    CASE kind = "chown" -> {"owner"}
      [] kind = "chmod" -> {"mode"}
      [] kind = "mknod" -> {"mode", "rdev"}

Process ==
    [at : {"new", "init", "attach", "idle", "lock", "futex",
           "sleep", "find", "fill", "unlock", "wake", "load"},
     dead : BOOLEAN, db : BOOLEAN, kind : Kinds, call : 0 .. MaxCalls,
     file : Files \cup {NoFile}, slot : Slots, todo : SUBSET (Fields \cup {"slots", "lock"}),
     got : [Values -> 0 .. MaxCalls], quiet : BOOLEAN]
Entry == [key : Files \cup {NoFile}, val : [Values -> 0 .. MaxCalls], flags : SUBSET Values]

TypeOK ==
    /\ header \in [magic : BOOLEAN, slots : {0, NSlots}, lock : {0, 1}]
    /\ table \in [Slots -> Entry] /\ proc \in [Procs -> Process]
    /\ calls \in 0 .. MaxCalls
    /\ target \in [1 .. MaxCalls -> Files \cup {NoFile}]
    /\ last \in [Files -> [Values -> 0 .. MaxCalls]]

\* a process between two calls
Idle == [at |-> "idle", dead |-> FALSE, db |-> TRUE, kind |-> "chown", call |-> 0,
         file |-> NoFile, slot |-> 0, todo |-> {}, got |-> Real, quiet |-> TRUE]

Init ==
    /\ header = [magic |-> FALSE, slots |-> 0, lock |-> 0]
    /\ table = [i \in Slots |-> Empty]
    /\ proc = [p \in Procs |-> [Idle EXCEPT !.at = "new", !.db = FALSE]]
    /\ calls = 0 /\ target = [n \in 1 .. MaxCalls |-> NoFile]
    /\ last = [f \in Files |-> Real]

-----------------------------------------------------------------------------
At(p, place) == ~proc[p].dead /\ proc[p].at = place
Goto(p, place) == proc' = [proc EXCEPT ![p].at = place]

(* fr_init_db: the file is mapped, the first to set the magic fills in the  *)
(* header with plain stores, everybody else goes by n_slots.                *)
Map(p) ==
    /\ At(p, "new")
    /\ p \in Forked => \E q \in Procs : proc[q].db
    /\ header' = [header EXCEPT !.magic = TRUE]
    /\ proc' = [proc EXCEPT ![p].at = IF header.magic THEN "attach" ELSE "init",
                            ![p].todo = IF header.magic THEN {} ELSE {"slots", "lock"}]
    /\ UNCHANGED <<table, ghosts>>

InitHeader(p, x) ==
    /\ At(p, "init") /\ x \in proc[p].todo
    /\ header' = IF x = "slots" THEN [header EXCEPT !.slots = NSlots]
                                ELSE [header EXCEPT !.lock = 0]
    /\ proc' = [proc EXCEPT ![p].todo = @ \ {x},
                            ![p].at = IF proc[p].todo = {x} THEN "attach" ELSE "init"]
    /\ UNCHANGED <<table, ghosts>>

\* without n_slots the table is unmapped and the process records nothing
Attach(p) ==
    /\ At(p, "attach")
    /\ proc' = [proc EXCEPT ![p].at = "idle", ![p].db = header.slots # 0]
    /\ UNCHANGED <<shared, ghosts>>

-----------------------------------------------------------------------------
(* fr_lock, fr_unlock *)
\* mutant: a plain store takes the lock
TakeLockBlind(p) ==
    /\ At(p, "lock") /\ header' = [header EXCEPT !.lock = 1] /\ Goto(p, "find")
    /\ UNCHANGED <<table, ghosts>>

TakeLock(p) ==
    /\ At(p, "lock") /\ header' = [header EXCEPT !.lock = 1]
    /\ Goto(p, IF header.lock = 0 THEN "find" ELSE "futex")
    /\ UNCHANGED <<table, ghosts>>

\* FUTEX_WAIT sleeps if the word is still 1
FutexWait(p) ==
    /\ At(p, "futex") /\ Goto(p, IF header.lock = 1 THEN "sleep" ELSE "lock")
    /\ UNCHANGED <<shared, ghosts>>

\* a signal ends the wait (EINTR), which the loop takes for a wake
Interrupt(p) == At(p, "sleep") /\ Goto(p, "lock") /\ UNCHANGED <<shared, ghosts>>

Unlock(p) ==
    /\ At(p, "unlock") /\ header' = [header EXCEPT !.lock = 0] /\ Goto(p, "wake")
    /\ UNCHANGED <<table, ghosts>>

Sleepers == {q \in Procs : At(q, "sleep")}

\* mutant: the word is cleared and nobody is woken
FutexWakeNobody(p) ==
    At(p, "wake") /\ proc' = [proc EXCEPT ![p] = Idle] /\ UNCHANGED <<shared, ghosts>>

\* FUTEX_WAKE wakes one sleeper, if there is one
FutexWake(p) ==
    /\ At(p, "wake")
    /\ IF Sleepers = {} THEN proc' = [proc EXCEPT ![p] = Idle]
       ELSE \E q \in Sleepers : proc' = [proc EXCEPT ![p] = Idle, ![q].at = "lock"]
    /\ UNCHANGED <<shared, ghosts>>

-----------------------------------------------------------------------------
(* fr_find: linear probing from the hash, up to the file or an empty slot. *)
Dist(f, i) == (i - Hash[f]) % NSlots
CandidatesFree(f) == {i \in Slots : table[i].key = NoFile}  \* mutant: no entry is found again
CandidatesAny(f) == Slots       \* mutant: the key of a used slot is not compared
Candidates(f) == {i \in Slots : table[i].key \in {f, NoFile}}
Probed(f, i) == i \in Candidates(f) /\ \A j \in Candidates(f) : Dist(f, i) <= Dist(f, j)

(* chown, chmod, mknod and their variants: the file is looked up, then      *)
(* fr_put_owner, fr_put_mode or fr_put_node records what was asked for.     *)
Call(p, kind, f) ==
    /\ At(p, "idle") /\ proc[p].db /\ calls < MaxCalls
    /\ calls' = calls + 1 /\ target' = [target EXCEPT ![calls + 1] = f]
    /\ proc' = [proc EXCEPT ![p].at = "lock", ![p].kind = kind, ![p].file = f,
                            ![p].call = calls + 1]
    /\ UNCHANGED <<shared, last>>

\* a full table records nothing
Find(p) ==
    /\ At(p, "find")
    /\ IF Candidates(proc[p].file) = {} THEN Goto(p, "unlock")
       ELSE \E i \in Slots :
              /\ Probed(proc[p].file, i)
              /\ proc' = [q \in Procs |->
                   IF q = p THEN [proc[p] EXCEPT !.at = "fill", !.slot = i,
                                                 !.todo = Sets(proc[p].kind) \cup {"flags"}]
                   ELSE IF proc[q].at = "load" /\ proc[q].file = proc[p].file
                        THEN [proc[q] EXCEPT !.quiet = FALSE] ELSE proc[q]]
    /\ UNCHANGED <<shared, ghosts>>

Store(e, x, c) ==
    IF x = "flags" THEN [e EXCEPT !.flags = @ \cup Sets(c.kind)]
                   ELSE [e EXCEPT !.val[x] = c.call]

Fill(p, x) ==
    /\ At(p, "fill") /\ x \in proc[p].todo
    /\ table' = [table EXCEPT ![proc[p].slot] = Store(@, x, proc[p])]
    /\ proc' = [proc EXCEPT ![p].todo = @ \ {x}]
    /\ UNCHANGED <<header, ghosts>>

\* the release store of key_ino
Publish(p) ==
    /\ At(p, "fill") /\ proc[p].todo = {}
    /\ table' = [table EXCEPT ![proc[p].slot].key = proc[p].file]
    /\ last' = [last EXCEPT ![proc[p].file] =
                  [v \in Values |-> IF v \in Sets(proc[p].kind) THEN proc[p].call ELSE @[v]]]
    /\ Goto(p, "unlock") /\ UNCHANGED <<header, calls, target>>

-----------------------------------------------------------------------------
(* The stat family: the real stat, then fr_overlay_stat or _statx, which    *)
(* takes no lock.  quiet: no call was recording for the file meanwhile.     *)
Recording(f) == \E q \in Procs : proc[q].at = "fill" /\ proc[q].file = f

Stat(p, f) ==
    /\ p \in Readers /\ At(p, "idle") /\ proc[p].db
    /\ LET found == {i \in Slots : Probed(f, i) /\ table[i].key = f} IN
       \E i \in IF found = {} THEN {0} ELSE found :
         proc' = [proc EXCEPT ![p].at = "load", ![p].file = f, ![p].slot = i,
                              ![p].todo = IF found = {} THEN {} ELSE Fields,
                              ![p].got = Real,
                              ![p].quiet = ~Recording(f)]
    /\ UNCHANGED <<shared, ghosts>>

\* What a stat reports of one field does not depend on when it loads another.
LoadFields(p) ==
    /\ At(p, "load") /\ proc[p].todo = Fields
    /\ LET e == table[proc[p].slot] IN
       proc' = [proc EXCEPT ![p].todo = {}, ![p].got =
                  [v \in Values |-> IF v \in e.flags THEN e.val[v] ELSE 0]]
    /\ UNCHANGED <<shared, ghosts>>

StatReturns(p) ==
    /\ At(p, "load") /\ proc[p].todo = {}
    /\ proc' = [proc EXCEPT ![p] = Idle] /\ UNCHANGED <<shared, ghosts>>

-----------------------------------------------------------------------------
\* What a dead process was doing matters only to what it left in the table.
Kill(p) ==
    /\ ~proc[p].dead /\ proc[p].at # "new"
    /\ proc' = [proc EXCEPT ![p] =
                  IF proc[p].at = "fill" THEN [proc[p] EXCEPT !.dead = TRUE]
                  ELSE [Idle EXCEPT !.dead = TRUE, !.db = proc[p].db]]
    /\ UNCHANGED <<shared, ghosts>>

Run(p) ==
    \/ Attach(p) \/ \E x \in {"slots", "lock"} : InitHeader(p, x)
    \/ TakeLock(p) \/ FutexWait(p) \/ Interrupt(p) \/ Unlock(p) \/ FutexWake(p)
    \/ Find(p) \/ Publish(p) \/ StatReturns(p)
    \/ LoadFields(p) \/ \E x \in Fields : Fill(p, x)

Next == \E p \in Procs :
    \/ Run(p) \/ Map(p) \/ Kill(p)
    \/ \E f \in Files : Stat(p, f) \/ \E kind \in Kinds : Call(p, kind, f)

Spec == Init /\ [][Next]_vars

-----------------------------------------------------------------------------
(* A file has one entry, and probing from its hash meets it before any      *)
(* empty slot: an entry is never shadowed by a second one, although         *)
(* processes add theirs concurrently and may be killed (fr_find, fr_lock).  *)
OneEntryPerFile ==
    \A i \in Slots : table[i].key # NoFile =>
        \A j \in Slots \ {i} :
            /\ table[j].key # table[i].key
            /\ Dist(table[i].key, j) < Dist(table[i].key, i) => table[j].key # NoFile

(* A stat during which nobody records for the file returns what was last    *)
(* recorded for it, by whichever process and through whichever mix of       *)
(* chown, chmod and mknod, or the real metadata (fr_overlay_stat).          *)
QuietStatIsLatest ==
    \A p \in Procs :
        proc[p].at = "load" /\ proc[p].todo = {} /\ proc[p].quiet
            => proc[p].got = last[proc[p].file]

(* Even a stat that overlaps a call never returns metadata that was set on  *)
(* another file: a slot keeps its file for good, and fr_find stops at none  *)
(* but its file's.                                                          *)
StatIsOfThatFile ==
    \A p \in Procs : proc[p].at = "load" =>
        \A v \in Values : proc[p].got[v] # 0 => target[proc[p].got[v]] = proc[p].file

(* While nobody is killed, a process asleep on the lock is woken: somebody  *)
(* holds the lock, or is about to wake a sleeper, or awake and about to     *)
(* take the lock, after which it wakes one (fr_lock, fr_unlock).            *)
NoLostWakeup ==
    (Sleepers # {} /\ \A p \in Procs : ~proc[p].dead) =>
        \E p \in Procs : proc[p].at \in IF header.lock = 1 THEN {"find", "fill", "unlock"}
                                        ELSE {"wake", "lock", "futex"}
=============================================================================
