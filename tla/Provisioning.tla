---------------------------- MODULE Provisioning ----------------------------
(***************************************************************************)
(* `alr install`, `adopt`, `update-components` and `remove`                 *)
(* (runtime/alr/src/cli/alr.c): one command at a time works on the disk in  *)
(* the order of the code, and may be killed inside any of its steps.        *)
(*                                                                         *)
(* A directory tree is a function from the Entries the code tells apart to *)
(* where each came from.  An archive is [ver, has]: has = Members when it   *)
(* is whole, and sha256 matches exactly the whole archive of a version.     *)
(* cmd_list, config and use-gnu-coreutils change nothing of this state.     *)
(***************************************************************************)
EXTENDS Naturals, FiniteSets

CONSTANTS
    Versions,   \* archives a --url may name
    Releases,   \* the ones SHA256SUMS may publish
    Escaping,   \* archives with a symlink that climbs out of the rootfs
    MaxCommands, \* bound: how many commands the user starts
    NoDir,      \* a directory that does not exist
    NoFile      \* a file that does not exist

ASSUME VersionsAssumption ==
    /\ Releases \subseteq Versions /\ Releases # {}
    /\ Escaping \subseteq Versions
    /\ MaxCommands \in Nat

VARIABLES
    rootfs,     \* <R>
    part,       \* <R>.part, the staging directory
    cache,      \* the downloads kept under var/lib/alr/cache
    job,        \* the running command: its options and its place in the code
    \* what the properties observe
    made,       \* of <R>: put there by "install", staged in a "clean" directory,
                \* from an archive whose digest was "verified", its symlinks all
                \* "walked", and "complete": nothing of the archive left out
    halfway,    \* a command was killed, or an rm -rf failed, half way
    started     \* how many commands were started

vars == <<rootfs, part, cache, job, made, halfway, started>>
ghosts == <<made, halfway, started>>

\* verify_rootfs asks for the plain files of "loader" and, through usr/bin/env,
\* for the "hard" link members; "links" are the image's absolute symlinks.
Members  == {"loader", "bulk", "hard", "links"}
Entries  == Members \cup {"etc", "alr", "node"}
Required == {"loader", "hard"}
Absent   == "absent"
NoUrl    == "nourl"
Own      == {"relative", "repaired", "wrappers", "preload", "whole", "damaged", "remnant"}
Tree     == [Entries -> Versions \cup Own \cup {Absent}]
EmptyTree == [e \in Entries |-> Absent]
Archive  == [ver : Versions, has : SUBSET Members]
Whole(v) == [ver |-> v, has |-> Members]
Damaged(v) == {[ver |-> v, has |-> h] : h \in {{"loader"}, {"loader", "bulk", "hard"}}}
Side     == {NoFile, "whole", "damaged"}

ASSUME DistinctAssumption ==
    /\ Versions \cap (Own \cup {Absent, NoUrl}) = {}
    /\ NoDir \notin Tree /\ NoFile \notin Archive \cup {"whole", "damaged"}

\* adopt works on <R> in place, install on the staging directory.
Adopting == job.op = "adopt"
Work == IF Adopting THEN rootfs ELSE part

OnTree   == {"extract", "hard", "relativize", "repair", "preload", "verify"}

Made  == {"install", "clean", "verified", "walked", "complete"}
Cache == [base : Archive \cup {NoFile}, node : Side]
Job   == [pc : {"idle", "install", "stage", "fetch", "check", "extract", "hard",
                "relativize", "repair", "preload", "verify", "rename", "boot", "node",
                "adopt", "update", "remove", "rm_rootfs", "rm_part"},
          op : {"install", "adopt", "update", "remove"}, force : BOOLEAN,
          url : Versions \cup {NoUrl}, with : BOOLEAN,
          want : Versions, attempt : {0, 1}, fresh : BOOLEAN,
          missed : SUBSET {"member", "walk"}]  \* what only a warning was given for

TypeOK ==
    /\ rootfs \in Tree \cup {NoDir} /\ part \in Tree \cup {NoDir}
    /\ cache \in Cache /\ job \in Job
    /\ made \in SUBSET Made /\ halfway \in BOOLEAN
    /\ started \in 0 .. MaxCommands
    /\ job.pc \in {"fetch", "check", "rm_part", "rename"} => part # NoDir
    /\ job.pc \in OnTree => Work # NoDir
    /\ job.pc \in {"boot", "node", "rm_rootfs"} => rootfs # NoDir
    /\ job.pc \in {"check", "extract", "hard"} => cache.base # NoFile

Idle == [pc |-> "idle", op |-> "install", force |-> FALSE, url |-> NoUrl, with |-> FALSE,
         want |-> CHOOSE v \in Releases : TRUE, attempt |-> 0, fresh |-> FALSE,
         missed |-> {}]

Init ==
    /\ rootfs = NoDir /\ part = NoDir
    /\ cache = [base |-> NoFile, node |-> NoFile]
    /\ job = Idle
    /\ made = {} /\ halfway = FALSE /\ started = 0

-----------------------------------------------------------------------------
At(p) == job.pc = p
Goto(p) == job' = [job EXCEPT !.pc = p]
\* A step that could not do all of its work, and goes on.
Warn(p, what) == job' = [job EXCEPT !.pc = p, !.missed = @ \cup {what}]
Exit == job' = Idle

SetWork(t) ==
    IF Adopting THEN rootfs' = t /\ UNCHANGED part ELSE part' = t /\ UNCHANGED rootfs
\* die_staged: install removes the staging directory first, adopt just dies.
DieUnstaged == Exit
Die == IF Adopting THEN Exit ELSE Goto("rm_part")

-----------------------------------------------------------------------------
(* The user starts a command; the host app extracts a tree for `alr adopt`.  *)
Start(op, force, url, with) ==
    /\ At("idle") /\ started < MaxCommands /\ started' = started + 1
    /\ job' = [Idle EXCEPT !.pc = op, !.op = op, !.force = force, !.url = url, !.with = with]
    /\ UNCHANGED <<rootfs, part, cache, made, halfway>>

AppExtract(a) ==
    /\ At("idle") /\ rootfs = NoDir
    /\ rootfs' = [e \in Entries |-> IF e \in a.has THEN a.ver ELSE Absent]
    /\ UNCHANGED <<part, cache, job, ghosts>>

-----------------------------------------------------------------------------
(* cmd_install up to the extraction *)
Recognised == rootfs # NoDir /\ (rootfs["loader"] # Absent \/ rootfs["alr"] # Absent)

CmdInstall ==
    /\ At("install")
    /\ \/ rootfs = NoDir /\ Goto("stage")
       \/ job.force /\ Recognised /\ Goto("rm_rootfs")
       \/ rootfs # NoDir /\ job.force /\ ~Recognised /\ Exit
       \/ rootfs # NoDir /\ ~job.force /\ IF job.with THEN Goto("node") ELSE Exit
    /\ UNCHANGED <<rootfs, part, cache, ghosts>>

\* Without --url the current release and its digest are read from SHA256SUMS.
DigestKnown == job.url = NoUrl
\* mkdir -p of the staging directory, then the digest of the current release.
MakeStaging == IF part = NoDir THEN EmptyTree ELSE part
Stage ==
    /\ At("stage")
    /\ part' = MakeStaging
    /\ \/ \E v \in IF DigestKnown THEN Releases ELSE {job.url} :
            job' = [job EXCEPT !.pc = "fetch", !.want = v, !.fresh = part \in {NoDir, EmptyTree}]
       \/ job.url = NoUrl /\ Exit
    /\ UNCHANGED <<rootfs, cache, ghosts>>

\* curl -o writes into the cache under its final name; a failure may leave a part.
Fetch ==
    /\ At("fetch")
    /\ \/ cache.base # NoFile /\ Goto("check") /\ UNCHANGED cache
       \/ /\ cache.base = NoFile
          /\ \E a \in {Whole(job.want)} \cup Damaged(job.want) : cache' = [cache EXCEPT !.base = a]
          /\ \/ Goto("check")
             \/ cache'.base # Whole(job.want) /\ Exit
       \/ cache.base = NoFile /\ Exit /\ UNCHANGED cache
    /\ UNCHANGED <<rootfs, part, ghosts>>

SameAttempt == Goto("fetch")
NextAttempt == job' = [job EXCEPT !.pc = "fetch", !.attempt = 1]
VerifySha256Once ==
    /\ At("check")
    /\ IF DigestKnown /\ cache.base # Whole(job.want) /\ job.attempt = 0
         THEN cache' = [cache EXCEPT !.base = NoFile] /\ NextAttempt
         ELSE UNCHANGED cache /\ Goto("extract")
    /\ UNCHANGED <<rootfs, part, ghosts>>
VerifySha256 ==
    /\ At("check")
    /\ IF DigestKnown /\ cache.base # Whole(job.want)
         THEN /\ cache' = [cache EXCEPT !.base = NoFile]
              /\ IF job.attempt = 1 THEN Exit ELSE NextAttempt
         ELSE UNCHANGED cache /\ job' = [job EXCEPT !.pc = "extract", !.want = Idle.want]
    /\ UNCHANGED <<rootfs, part, ghosts>>

-----------------------------------------------------------------------------
(* Extraction and repair, shared with cmd_adopt *)

\* tar cannot create hard link members here; everything else overwrites.  Its
\* exit status is not looked at, so any member may be missing afterwards.
Untar(t, has) == [e \in Entries |-> IF e \in has \ {"hard"} THEN cache.base.ver ELSE t[e]]
Extract ==
    /\ At("extract")
    /\ \/ part' = Untar(part, cache.base.has) /\ Goto("hard")
       \/ \E has \in SUBSET cache.base.has : part' = Untar(part, has) /\ Warn("hard", "member")
    /\ UNCHANGED <<rootfs, cache, ghosts>>

\* A listed member that exists is left alone, else it is made from its source,
\* which may be missing or refuse the link and the copy.
FixHardlinks ==
    /\ At("hard")
    /\ \/ /\ "hard" \in cache.base.has => part["hard"] # Absent \/ part["bulk"] # Absent
          /\ part' = IF "hard" \in cache.base.has /\ part["hard"] = Absent
                       THEN [part EXCEPT !["hard"] = part["bulk"]] ELSE part
          /\ Goto("relativize")
       \/ /\ "hard" \in cache.base.has /\ part["hard"] = Absent
          /\ part' = part /\ Warn("relativize", "member")
    /\ UNCHANGED <<rootfs, cache, ghosts>>

CmdAdopt ==
    /\ At("adopt")
    /\ IF rootfs = NoDir THEN Exit ELSE Goto("relativize")
    /\ UNCHANGED <<rootfs, part, cache, ghosts>>

\* An escaping link is rejected, if its directory can be read; a link that cannot
\* be rewritten stays absolute, or is gone when only the unlink succeeded.
RelativizeTree ==
    /\ At("relativize")
    /\ \/ /\ Work["links"] \in Escaping
          /\ \E l \in {Absent, Work["links"]} : SetWork([Work EXCEPT !["links"] = l])
          /\ Die
       \/ /\ Work["links"] \in Versions \ Escaping
          /\ \/ SetWork([Work EXCEPT !["links"] = "relative"]) /\ Goto("repair")
             \/ /\ \E l \in {Absent, Work["links"]} : SetWork([Work EXCEPT !["links"] = l])
                /\ Warn("repair", "member")
       \/ Work["links"] \in Versions /\ SetWork(Work) /\ Warn("repair", "walk")
       \/ Work["links"] \notin Versions /\ SetWork(Work) /\ Goto("repair")
    /\ UNCHANGED <<cache, ghosts>>

\* setuid mask, repair() (which needs the image's directories), install_hostbin
MakeAlrDir(d) == IF d = Absent THEN "wrappers" ELSE d
Repair ==
    /\ At("repair")
    /\ SetWork([Work EXCEPT !["etc"] = IF Work["bulk"] = Absent THEN @ ELSE "repaired",
                            !["alr"] = MakeAlrDir(@)])
    /\ Goto("preload")
    /\ UNCHANGED <<cache, ghosts>>

\* The .so may be missing beside the binary; copy_file renames, so it is whole.
InstallPreloadUnchecked ==
    /\ At("preload") /\ Goto("verify")
    /\ SetWork([Work EXCEPT !["alr"] = "preload"]) \/ SetWork(Work)
    /\ UNCHANGED <<cache, ghosts>>
InstallPreload ==
    /\ At("preload")
    /\ \/ SetWork([Work EXCEPT !["alr"] = "preload"]) /\ Goto("verify")
       \/ SetWork(Work) /\ Die
    /\ UNCHANGED <<cache, ghosts>>

\* verify_rootfs; adopt then also copies alr and checks the preload's libraries.
VerifyRootfs ==
    /\ At("verify")
    /\ \/ /\ \A e \in Required : Work[e] # Absent
          /\ Goto(IF Adopting THEN "boot" ELSE "rename")
       \/ (Adopting \/ \E e \in Required : Work[e] = Absent) /\ Die
    /\ UNCHANGED <<rootfs, part, cache, ghosts>>

Rename ==
    /\ At("rename")
    /\ \/ /\ rootfs' = part /\ part' = NoDir /\ Goto("boot")
          /\ made' = {"install"} \cup (IF job.fresh THEN {"clean"} ELSE {})
                                 \cup (IF DigestKnown THEN {"verified"} ELSE {})
                                 \cup (IF "walk" \in job.missed THEN {} ELSE {"walked"})
                                 \cup (IF job.missed = {} THEN {"complete"} ELSE {})
       \/ Die /\ UNCHANGED <<rootfs, part, made>>
    /\ UNCHANGED <<cache, halfway, started>>

\* divert_ldconfig and install_verify; a rootfs that does not boot stays.
InstallVerify ==
    /\ At("boot")
    /\ \/ rootfs["etc"] = "repaired" /\ IF job.with THEN Goto("node") ELSE Exit
       \/ Exit
    /\ UNCHANGED <<rootfs, part, cache, ghosts>>

\* rm -rf goes directory by directory: lib/, usr/lib/alr, etc/ and the rest, in
\* which it may stop inside opt/node.
Directories == {{"loader"}, {"alr"}, {"etc"}, Entries \ {"loader", "alr", "etc"}}
Remnants(t) ==
    {[e \in Entries |-> IF e \notin UNION keep THEN Absent
                       ELSE IF e = "node" /\ t[e] # Absent THEN n ELSE t[e]] :
        keep \in SUBSET Directories, n \in {t["node"], "remnant"}}

\* die_staged gives a warning when the removal fails, and dies all the same.
RemovePart ==
    /\ At("rm_part") /\ Exit
    /\ \/ part' = NoDir /\ UNCHANGED halfway
       \/ part' \in Remnants(part) /\ halfway' = TRUE
    /\ UNCHANGED <<rootfs, cache, made, started>>

-----------------------------------------------------------------------------
(* with_components: git comes from the guest's apt, codex is not modelled *)
FetchedNode == IF cache.node = NoFile THEN Side ELSE {cache.node}

\* The archive stays cached whatever it is; its digest is checked before the
\* old opt/node is removed and the new one unpacked.
WithNodeUnchecked ==
    /\ At("node") /\ Exit
    /\ \E f \in FetchedNode \ {NoFile} :
         cache' = [cache EXCEPT !.node = f] /\ rootfs' = [rootfs EXCEPT !["node"] = f]
    /\ UNCHANGED <<part, ghosts>>
WithNode ==
    /\ At("node") /\ Exit
    /\ \E f \in FetchedNode :
         /\ cache' = [cache EXCEPT !.node = f]
         /\ \/ /\ f = "whole" /\ UNCHANGED halfway
               /\ \E n \in {f, Absent} : rootfs' = [rootfs EXCEPT !["node"] = n]
            \/ /\ f = "whole" /\ rootfs["node"] # Absent /\ halfway' = TRUE
               /\ rootfs' = [rootfs EXCEPT !["node"] = "remnant"]
            \/ UNCHANGED <<rootfs, halfway>>
    /\ UNCHANGED <<part, made, started>>

-----------------------------------------------------------------------------
\* install_preload makes usr/lib/alr before it looks for the .so
CmdUpdateComponents ==
    /\ At("update") /\ Exit
    /\ IF rootfs = NoDir
         THEN UNCHANGED rootfs
         ELSE \E a \in {"preload", MakeAlrDir(rootfs["alr"])} : rootfs' = [rootfs EXCEPT !["alr"] = a]
    /\ UNCHANGED <<part, cache, ghosts>>

\* Without --force the user may still decline at the prompt.
CmdRemove ==
    /\ At("remove")
    /\ \/ Recognised /\ Goto("rm_rootfs")
       \/ (~Recognised \/ ~job.force) /\ Exit
    /\ UNCHANGED <<rootfs, part, cache, ghosts>>

\* install --force comes here through cmd_remove: remove-failed ends it too.
RemoveRootfs ==
    /\ At("rm_rootfs") /\ made' = {}
    /\ \/ /\ rootfs' = NoDir /\ UNCHANGED halfway
          /\ IF job.op = "remove" THEN Exit ELSE Goto("stage")
       \/ rootfs' \in Remnants(rootfs) /\ halfway' = TRUE /\ Exit
    /\ UNCHANGED <<part, cache, started>>

-----------------------------------------------------------------------------
(* A command killed inside a step leaves what the step had done so far.     *)
Kill ==
    /\ ~At("idle") /\ Exit /\ halfway' = TRUE
    /\ \/ UNCHANGED <<rootfs, part, cache, made>>
       \/ At("fetch") /\ cache.base = NoFile /\ UNCHANGED <<rootfs, part, made>>
          /\ \E a \in Damaged(job.want) : cache' = [cache EXCEPT !.base = a]
       \/ At("extract") /\ UNCHANGED <<rootfs, cache, made>>
          /\ \E has \in SUBSET cache.base.has : part' = Untar(part, has)
       \/ /\ At("relativize") /\ Work["links"] \in Versions
          /\ SetWork([Work EXCEPT !["links"] = Absent]) /\ UNCHANGED <<cache, made>>
       \/ At("rm_part") /\ part' \in Remnants(part) /\ UNCHANGED <<rootfs, cache, made>>
       \/ /\ At("rm_rootfs") /\ rootfs' \in Remnants(rootfs)
          /\ made' = {} /\ UNCHANGED <<part, cache>>
       \/ At("node") /\ cache.node = NoFile /\ UNCHANGED <<rootfs, part, made>>
          /\ cache' = [cache EXCEPT !.node = "damaged"]
       \/ /\ At("node") /\ cache.node \in {NoFile, "whole"}
          /\ cache' = [cache EXCEPT !.node = "whole"]
          /\ \E n \in {Absent} \cup (IF rootfs["node"] = Absent THEN {} ELSE {"remnant"}) :
               rootfs' = [rootfs EXCEPT !["node"] = n]
          /\ UNCHANGED <<part, made>>
    /\ UNCHANGED started

Step ==
    \/ CmdInstall \/ Stage \/ Fetch \/ VerifySha256 \/ Extract \/ FixHardlinks
    \/ CmdAdopt \/ RelativizeTree \/ Repair \/ InstallPreload \/ VerifyRootfs
    \/ Rename \/ InstallVerify \/ RemovePart \/ WithNode
    \/ CmdUpdateComponents \/ CmdRemove \/ RemoveRootfs

Next ==
    \/ \E op \in {"adopt", "update", "remove"} : Start(op, FALSE, NoUrl, FALSE)
    \/ Start("remove", TRUE, NoUrl, FALSE)
    \/ \E f \in BOOLEAN, u \in Versions \cup {NoUrl} : Start("install", f, u, FALSE)
    \/ \E f \in BOOLEAN : Start("install", f, NoUrl, TRUE)
    \/ \E v \in Versions : \E a \in {Whole(v)} \cup Damaged(v) : AppExtract(a)
    \/ Step
    \/ Kill

Spec == Init /\ [][Next]_vars /\ WF_vars(Step)

-----------------------------------------------------------------------------
(* A rootfs that `alr install` put at <R> has the files a guest needs to    *)
(* start and the preload that virtualises its paths, whatever was killed or *)
(* left out before: cmd_install checks them in the staging directory,       *)
(* before the rename.  No symlink of it climbs out, as far as               *)
(* relativize_tree could read the directories.                              *)
InstalledIsUsable ==
    "install" \in made =>
        /\ \A e \in Required : rootfs[e] # Absent
        /\ rootfs["alr"] = "preload"
        /\ "walked" \in made => rootfs["links"] \notin Escaping

FromOne(t, vs) == \E v \in vs : \A m \in {"loader", "bulk", "hard"} : t[m] \in {v, Absent}

(* Staged in an empty directory, the rootfs has files of one archive only;  *)
(* of a published release, when a digest was published, whatever partial or *)
(* outdated download the cache held (cmd_install's two attempts); and it is *)
(* all of that release unless tar, the hard links or the symlinks failed,   *)
(* which install only warns of.                                             *)
CleanInstallIsOneArchive ==
    {"install", "clean"} \subseteq made =>
        /\ FromOne(rootfs, IF "verified" \in made THEN Releases ELSE Versions)
        /\ {"verified", "complete"} \subseteq made =>
             /\ \A m \in {"loader", "bulk", "hard"} : rootfs[m] # Absent
             /\ rootfs["links"] = "relative"

(* As long as nothing is killed and every rm -rf succeeds, a staging        *)
(* directory never outlives the attempt it staged with anything in it,      *)
(* whichever step of the install failed (die_staged): no file of a rejected *)
(* archive reaches a later one.                                             *)
StagingEndsWithItsAttempt == ~halfway /\ job.pc = "idle" => part \in {NoDir, EmptyTree}

(* Node is only ever unpacked from a complete, verified download, although  *)
(* a download may be cut short and its file stays in the cache (with_node). *)
(* Only a kill or a failing rm -rf while it is replaced leaves half of one. *)
NodeIsWhole ==
    rootfs # NoDir =>
        \/ rootfs["node"] \in {Absent, "whole"}
        \/ rootfs["node"] = "remnant" /\ halfway

(* Every command comes to an end: a mirror that keeps serving a damaged     *)
(* archive does not make the download loop run for ever.                    *)
CommandEnds == job.pc # "idle" ~> job.pc = "idle"
=============================================================================
