------------------------- MODULE ProvisioningProofs -------------------------
(***************************************************************************)
(* Proofs about Provisioning, for every set of archives, published and      *)
(* unpublished, and every sequence of commands, wherever they are killed.   *)
(***************************************************************************)
EXTENDS Provisioning, TLAPS

Early == {"fetch", "check", "extract"}
Late  == {"relativize", "repair", "preload", "verify", "rename"}

\* cmd_install runs alone up to the extraction and from the rename on.
OpInv ==
  /\ job.pc \in Early \cup {"install", "stage", "hard", "rename", "rm_part"} => job.op = "install"
  /\ job.pc \in OnTree => job.op \in {"install", "adopt"}
  /\ job.pc = "adopt" => Adopting
  /\ job.pc = "remove" => job.op = "remove"
  /\ job.pc = "rm_rootfs" => job.op \in {"install", "remove"}

\* With a digest the archive that is extracted is all of a release.
SourceInv ==
  DigestKnown =>
    /\ job.pc \in {"fetch", "check"} => job.want \in Releases
    /\ job.pc \in {"extract", "hard"} => \E v \in Releases : cache.base = Whole(v)

Sources == IF DigestKnown THEN Releases ELSE Versions
AllThere(t) == \A m \in {"loader", "bulk", "hard"} : t[m] # Absent

\* What is in a staging directory that was empty when the install began.
FreshInv ==
  ~Adopting /\ job.fresh =>
    /\ job.pc \in Early => part = EmptyTree
    /\ job.pc = "hard" =>
         /\ \A e \in {"loader", "bulk", "links"} : part[e] \in {cache.base.ver, Absent}
         /\ part["hard"] = Absent
         /\ job.missed = {} =>
              \A e \in {"loader", "bulk", "links"} : e \in cache.base.has => part[e] = cache.base.ver
    /\ job.pc \in Late => FromOne(part, Sources)
    /\ job.pc \in Late /\ DigestKnown /\ job.missed = {} =>
         /\ AllThere(part)
         /\ part["links"] \in IF job.pc = "relativize" THEN Versions ELSE {"relative"}

\* What the steps before the rename have established.
ReadyInv ==
  ~Adopting =>
    /\ job.pc \in {"repair", "preload", "verify", "rename"} /\ "walk" \notin job.missed =>
         part["links"] \notin Escaping
    /\ job.pc \in {"verify", "rename"} => part["alr"] = "preload"
    /\ job.pc = "rename" => \A e \in Required : part[e] # Absent

\* Only an install that has begun to extract leaves files in <R>.part.
LeftInv ==
  ~halfway /\ (Adopting \/ job.pc \notin Late \cup {"hard", "rm_part"}) => part \in {NoDir, EmptyTree}

PartInv == part # NoDir => part["node"] = Absent
MadeInv == made # {} => rootfs # NoDir

ProvisioningInv ==
  /\ TypeOK /\ OpInv /\ SourceInv /\ FreshInv /\ ReadyInv /\ LeftInv /\ PartInv /\ MadeInv
  /\ InstalledIsUsable /\ CleanInstallIsOneArchive /\ NodeIsWhole

\* The two halves: what is said of <R>, and of the command that is running.
RootInv == MadeInv /\ InstalledIsUsable /\ CleanInstallIsOneArchive /\ NodeIsWhole
JobInv  == OpInv /\ SourceInv /\ FreshInv /\ ReadyInv /\ LeftInv

-----------------------------------------------------------------------------
(* Jobs, trees and archives *)

Places == {"idle", "install", "stage", "fetch", "check", "extract", "hard",
           "relativize", "repair", "preload", "verify", "rename", "boot", "node",
           "adopt", "update", "remove", "rm_rootfs", "rm_part"}

LEMMA IdleJob ==
  Idle \in Job /\ Idle.pc = "idle" /\ Idle.op = "install" /\ Idle.want \in Releases
<1>1. (CHOOSE v \in Releases : TRUE) \in Releases
  BY VersionsAssumption
<1>2. QED
  BY <1>1, VersionsAssumption DEF Idle, Job

LEMMA GotoDoes ==
  ASSUME job \in Job, NEW x \in Places, Goto(x)
  PROVE  /\ job' \in Job /\ job'.pc = x /\ job'.op = job.op /\ job'.url = job.url
         /\ job'.fresh = job.fresh /\ job'.want = job.want /\ job'.missed = job.missed
  BY DEF Job, Goto, Places

LEMMA WarnDoes ==
  ASSUME job \in Job, NEW x \in Places, NEW w \in {"member", "walk"}, Warn(x, w)
  PROVE  /\ job' \in Job /\ job'.pc = x /\ job'.op = job.op /\ job'.url = job.url
         /\ job'.fresh = job.fresh /\ job'.want = job.want /\ job'.missed = job.missed \cup {w}
  BY DEF Job, Warn, Places

\* The command goes on at x, with or without a warning.
Moved(x) ==
  /\ job' \in Job /\ job'.pc = x /\ job'.op = job.op /\ job'.url = job.url
  /\ job'.fresh = job.fresh /\ job.missed \subseteq job'.missed

LEMMA Moves ==
  ASSUME job \in Job, NEW x \in Places, Goto(x) \/ \E w \in {"member", "walk"} : Warn(x, w)
  PROVE  Moved(x)
  BY GotoDoes, WarnDoes DEF Moved

LEMMA TreeOf == ASSUME NEW t \in Tree, NEW e \in Entries, NEW x \in Versions \cup Own \cup {Absent}
                PROVE  /\ [t EXCEPT ![e] = x] \in Tree /\ [t EXCEPT ![e] = x][e] = x
                       /\ \A d \in Entries \ {e} : [t EXCEPT ![e] = x][d] = t[d]
                       /\ t[e] \in Versions \cup Own \cup {Absent}
  BY DEF Tree

LEMMA EmptyIsTree == EmptyTree \in Tree /\ EmptyTree # NoDir /\ \A e \in Entries : EmptyTree[e] = Absent
  BY DistinctAssumption DEF EmptyTree, Tree

LEMMA UntarIs ==
  ASSUME NEW t \in Tree, cache.base \in Archive, NEW has \in SUBSET cache.base.has
  PROVE  /\ Untar(t, has) \in Tree /\ cache.base.ver \in Versions
         /\ \A e \in Entries : Untar(t, has)[e] = IF e \in has \ {"hard"} THEN cache.base.ver ELSE t[e]
         /\ Untar(t, has)["node"] = t["node"]
<1>1. cache.base.ver \in Versions /\ cache.base.has \subseteq Members
  BY DEF Archive
<1>2. \A e \in Entries : Untar(t, has)[e] = IF e \in has \ {"hard"} THEN cache.base.ver ELSE t[e]
  BY DEF Untar
<1>3. Untar(t, has) \in Tree
  BY <1>1 DEF Untar, Tree
<1>4. "node" \notin has /\ "node" \in Entries
  BY <1>1 DEF Members, Entries
<1>5. QED
  BY <1>1, <1>2, <1>3, <1>4

LEMMA WholeIs ==
  ASSUME NEW v \in Versions
  PROVE  Whole(v) \in Archive /\ Whole(v).ver = v /\ Whole(v).has = Members
  BY DEF Whole, Archive

LEMMA DamagedIs ==
  ASSUME NEW v \in Versions, NEW a \in Damaged(v)
  PROVE  a \in Archive
  BY DEF Damaged, Archive, Members

LEMMA RemnantIs ==
  ASSUME NEW t \in Tree, NEW r \in Remnants(t)
  PROVE  /\ r \in Tree /\ \A e \in Entries \ {"node"} : r[e] \in {t[e], Absent}
         /\ r["node"] \in {t["node"], Absent} \cup (IF t["node"] = Absent THEN {} ELSE {"remnant"})
  BY DEF Remnants, Tree, Entries, Own

LEMMA CacheOf ==
  ASSUME cache \in Cache
  PROVE  /\ cache.base \in Archive \cup {NoFile} /\ cache.node \in Side
         /\ \A a \in Archive \cup {NoFile} : [cache EXCEPT !.base = a] \in Cache
         /\ \A a \in Archive \cup {NoFile} : [cache EXCEPT !.base = a].base = a
         /\ \A f \in Side : [cache EXCEPT !.node = f] \in Cache
  BY DEF Cache

-----------------------------------------------------------------------------
(* The rootfs *)

LEMMA RootSame ==
  ASSUME RootInv, UNCHANGED <<rootfs, made>>, halfway => halfway' PROVE RootInv'
  BY DEF RootInv, MadeInv, InstalledIsUsable, CleanInstallIsOneArchive, NodeIsWhole, FromOne

\* No step changes what the archive put there, nor undoes what install checked.
LEMMA RootRepaired ==
  ASSUME TypeOK, RootInv, rootfs # NoDir, made' = made, halfway => halfway', rootfs' \in Tree,
         \A m \in {"loader", "bulk", "hard"} : rootfs'[m] = rootfs[m],
         rootfs'["node"] = rootfs["node"]
           \/ rootfs'["node"] \in {Absent, "whole"} \/ (rootfs'["node"] = "remnant" /\ halfway'),
         rootfs["alr"] = "preload" => rootfs'["alr"] = "preload",
         \/ rootfs'["links"] = rootfs["links"]
         \/ rootfs["links"] \in Versions /\ rootfs'["links"] \notin Versions
  PROVE  RootInv'
<1>1. "relative" \notin Versions /\ NoDir # rootfs'
  BY DistinctAssumption DEF Own
<1>2. InstalledIsUsable'
  BY VersionsAssumption DEF RootInv, InstalledIsUsable, Required
<1>3. CleanInstallIsOneArchive'
  BY <1>1 DEF RootInv, CleanInstallIsOneArchive, FromOne
<1>4. NodeIsWhole'
  BY DEF RootInv, NodeIsWhole
<1>5. QED
  BY <1>1, <1>2, <1>3, <1>4 DEF RootInv, MadeInv

-----------------------------------------------------------------------------
(* The end of a command, and the steps that only decide where to go *)

\* pc does not matter to these.
Typed == /\ rootfs \in Tree \cup {NoDir} /\ part \in Tree \cup {NoDir} /\ cache \in Cache
         /\ job \in Job /\ started \in 0 .. MaxCommands
         /\ made \in SUBSET Made /\ halfway \in BOOLEAN

LEMMA Exits ==
  ASSUME Exit, (Typed /\ PartInv)', ~halfway' => part' \in {NoDir, EmptyTree}, RootInv'
  PROVE  ProvisioningInv'
<1>1. job'.pc = "idle" /\ job'.op = "install"
  BY IdleJob DEF Exit
<1>2. TypeOK'
  BY <1>1 DEF Typed, TypeOK, OnTree
<1>3. JobInv'
  BY <1>1 DEF JobInv, OpInv, OnTree, SourceInv, FreshInv, ReadyInv, LeftInv, Early, Late, Adopting, EmptyTree,
              Entries, Members, Absent
<1>4. QED
  BY <1>2, <1>3 DEF ProvisioningInv, RootInv, JobInv

\* Nothing changes but the place, and <R>.part is as LeftInv says.
Elsewhere == {"idle", "install", "stage", "boot", "node", "adopt", "update", "remove", "rm_rootfs"}

LEMMA Decides ==
  ASSUME ProvisioningInv, UNCHANGED <<rootfs, part, cache, made, halfway>>,
         job.pc \in Elsewhere, job' \in Job, job'.pc \in Elsewhere,
         started' \in 0 .. MaxCommands,
         job'.pc \in {"install", "stage"} => job'.op = "install",
         job'.pc = "adopt" => job'.op = "adopt",
         job'.pc = "remove" => job'.op = "remove",
         job'.pc = "rm_rootfs" => job'.op \in {"install", "remove"},
         job'.pc \in {"boot", "node", "rm_rootfs"} => rootfs # NoDir
  PROVE  ProvisioningInv'
<1>1. TypeOK /\ RootInv /\ LeftInv /\ PartInv
  BY DEF ProvisioningInv, RootInv
<1>2. TypeOK'
  BY <1>1 DEF TypeOK, Elsewhere, OnTree
<1>3. RootInv' /\ PartInv'
  BY <1>1, RootSame DEF PartInv
<1>4. OpInv' /\ SourceInv' /\ FreshInv' /\ ReadyInv'
  BY DEF OpInv, OnTree, SourceInv, FreshInv, ReadyInv, Early, Late, Elsewhere, Adopting
<1>5. LeftInv'
  <2>1. ~halfway' => part' \in {NoDir, EmptyTree}
    BY <1>1 DEF LeftInv, Elsewhere, Late
  <2>2. QED
    BY <2>1 DEF LeftInv, EmptyTree, Entries, Members, Absent
<1>6. QED
  BY <1>2, <1>3, <1>4, <1>5 DEF ProvisioningInv, RootInv

LEMMA StartStep ==
  ASSUME ProvisioningInv, NEW op \in {"install", "adopt", "update", "remove"}, NEW force \in BOOLEAN,
         NEW url \in Versions \cup {NoUrl}, NEW with \in BOOLEAN, Start(op, force, url, with)
  PROVE  ProvisioningInv'
<1>1. job' \in Job /\ job'.pc = op /\ job'.op = op
  BY IdleJob DEF Start, Job
<1>2. started' \in 0 .. MaxCommands
  BY VersionsAssumption DEF Start, ProvisioningInv, TypeOK
<1>3. QED
  BY <1>1, <1>2, Decides DEF Start, At, Elsewhere

LEMMA DecideSteps ==
  ASSUME ProvisioningInv, CmdInstall \/ InstallVerify \/ CmdRemove
  PROVE  ProvisioningInv'
<1>1. job \in Job /\ started \in 0 .. MaxCommands
  BY DEF ProvisioningInv, TypeOK
<1>2. /\ UNCHANGED <<rootfs, part, cache, made, halfway>> /\ started' = started
      /\ job.pc \in Elsewhere
  BY DEF CmdInstall, InstallVerify, CmdRemove, ghosts, At, Elsewhere
<1>3. CASE Exit
  BY <1>1, <1>2, <1>3, IdleJob, Decides DEF Exit, Elsewhere
<1>4. CASE Goto("stage") /\ job.pc = "install"
  <2>1. job.op = "install"
    BY <1>4 DEF ProvisioningInv, OpInv
  <2>2. job' \in Job /\ job'.pc = "stage" /\ job'.op = job.op
    BY <1>1, <1>4, GotoDoes DEF Places
  <2>3. QED
    BY <1>1, <1>2, <2>1, <2>2, Decides DEF Elsewhere
<1>5. ASSUME NEW x \in {"rm_rootfs", "node"}, Goto(x), rootfs # NoDir,
             x = "rm_rootfs" => job.pc \in {"install", "remove"}
      PROVE  ProvisioningInv'
  <2>1. job' \in Job /\ job'.pc = x /\ job'.op = job.op
    BY <1>1, <1>5, GotoDoes DEF Places
  <2>2. x = "rm_rootfs" => job.op \in {"install", "remove"}
    BY <1>5 DEF ProvisioningInv, OpInv
  <2>3. QED
    BY <1>1, <1>2, <1>5, <2>1, <2>2, Decides DEF Elsewhere
<1>6. CASE CmdInstall
  BY <1>3, <1>4, <1>5, <1>6 DEF CmdInstall, At, Recognised
<1>7. CASE InstallVerify
  <2>1. rootfs # NoDir
    BY <1>7 DEF InstallVerify, At, ProvisioningInv, TypeOK
  <2>2. QED
    BY <1>3, <1>5, <1>7, <2>1 DEF InstallVerify
<1>8. CASE CmdRemove
  BY <1>3, <1>5, <1>8 DEF CmdRemove, At, Recognised
<1>9. QED
  BY <1>6, <1>7, <1>8

-----------------------------------------------------------------------------
(* cmd_install up to the extraction *)

\* The part of the invariant a step of install on <R>.part has to establish.
LEMMA Staged ==
  ASSUME ProvisioningInv, UNCHANGED <<rootfs, ghosts>>, part' \in Tree, cache' \in Cache,
         job' \in Job, job'.op = "install", job'.pc \in Early \cup Late \cup {"hard", "rm_part"},
         part'["node"] = Absent,
         job'.pc \in {"check", "extract", "hard"} => cache'.base # NoFile,
         ~halfway /\ job'.pc \in Early => part' = EmptyTree,
         SourceInv', FreshInv', ReadyInv'
  PROVE  ProvisioningInv'
<1>1. TypeOK /\ RootInv
  BY DEF ProvisioningInv, RootInv
<1>2. part' # NoDir
  BY DistinctAssumption
<1>3. TypeOK'
  BY <1>1, <1>2 DEF TypeOK, ghosts, OnTree, Work, Adopting, Early, Late
<1>4. RootInv' /\ PartInv'
  BY <1>1, RootSame DEF PartInv, ghosts
<1>5. OpInv'
  BY DEF OpInv, OnTree, Adopting, Early, Late
<1>6. LeftInv'
  BY DEF LeftInv, Adopting, Early, Late, EmptyTree, ghosts, Entries, Members, Absent
<1>7. QED
  BY <1>3, <1>4, <1>5, <1>6 DEF ProvisioningInv, RootInv

LEMMA StageStep ==
  ASSUME ProvisioningInv, Stage PROVE ProvisioningInv'
<1>1. /\ TypeOK /\ PartInv /\ RootInv /\ LeftInv /\ job \in Job /\ cache \in Cache
      /\ part \in Tree \cup {NoDir}
  BY DEF ProvisioningInv, RootInv, TypeOK
<1>2. job.pc = "stage" /\ job.op = "install" /\ UNCHANGED <<rootfs, cache, ghosts>>
  BY DEF Stage, At, ProvisioningInv, OpInv
<1>3. ~halfway => part \in {NoDir, EmptyTree}
  BY <1>1, <1>2 DEF LeftInv, Late
<1>4. /\ part' \in Tree /\ part'["node"] = Absent /\ part' # NoDir
      /\ part \in {NoDir, EmptyTree} => part' = EmptyTree
  BY <1>1, EmptyIsTree, DistinctAssumption DEF Stage, MakeStaging, PartInv, Entries
<1>5. CASE Exit
  <2>1. (Typed /\ PartInv)'
    BY <1>1, <1>2, <1>4, <1>5, IdleJob DEF TypeOK, Typed, PartInv, Exit, ghosts
  <2>2. RootInv'
    BY <1>1, <1>2, RootSame DEF ghosts
  <2>3. QED
    BY <1>2, <1>3, <1>4, <1>5, <2>1, <2>2, Exits DEF ghosts
<1>6. ASSUME NEW v \in Versions, DigestKnown => v \in Releases,
             job' = [job EXCEPT !.pc = "fetch", !.want = v, !.fresh = part \in {NoDir, EmptyTree}]
      PROVE  ProvisioningInv'
  <2>1. /\ job' \in Job /\ job'.pc = "fetch" /\ job'.op = "install" /\ job'.want = v
        /\ job'.url = job.url /\ (job'.fresh => part \in {NoDir, EmptyTree})
    <3>1. CASE part \in {NoDir, EmptyTree}
      <4>1. (part \in {NoDir, EmptyTree}) = TRUE
        BY <3>1
      <4>2. job' = [job EXCEPT !.pc = "fetch", !.want = v, !.fresh = TRUE]
        BY <1>6, <4>1, Zenon
      <4>3. QED
        BY <1>1, <1>2, <3>1, <4>2 DEF Job
    <3>2. CASE part \notin {NoDir, EmptyTree}
      <4>1. (part \in {NoDir, EmptyTree}) = FALSE
        BY <3>2
      <4>2. job' = [job EXCEPT !.pc = "fetch", !.want = v, !.fresh = FALSE]
        BY <1>6, <4>1, Zenon
      <4>3. QED
        BY <1>1, <1>2, <4>2 DEF Job
    <3>3. QED
      BY <3>1, <3>2
  <2>2. SourceInv' /\ ReadyInv'
    BY <1>6, <2>1 DEF SourceInv, DigestKnown, ReadyInv
  <2>3. FreshInv'
    BY <1>4, <2>1 DEF FreshInv, Late, EmptyTree, Entries, Members, Absent
  <2>4. QED
    BY <1>1, <1>2, <1>3, <1>4, <2>1, <2>2, <2>3, Staged DEF Early
<1>7. QED
  <2>1. \A v \in IF DigestKnown THEN Releases ELSE {job.url} : v \in Versions
    BY <1>1, VersionsAssumption DEF DigestKnown, Job
  <2>2. QED
    BY <1>5, <1>6, <2>1 DEF Stage

\* Fetching and checking leave <R>.part alone.
LEMMA Downloads ==
  ASSUME ProvisioningInv, job.pc \in Early, UNCHANGED <<rootfs, part, ghosts>>, cache' \in Cache
  PROVE  /\ Exit => ProvisioningInv'
         /\ (/\ job' \in Job /\ job'.op = job.op /\ job'.fresh = job.fresh /\ job'.pc \in Early
             /\ job'.pc \in {"check", "extract"} => cache'.base # NoFile
             /\ SourceInv')
              => ProvisioningInv'
<1>1. TypeOK /\ PartInv /\ RootInv /\ LeftInv /\ FreshInv
  BY DEF ProvisioningInv, RootInv
<1>2. job.op = "install" /\ part # NoDir /\ part \in Tree /\ part["node"] = Absent
  BY <1>1 DEF ProvisioningInv, OpInv, Early, TypeOK, PartInv, OnTree, Work, Adopting
<1>3. ~halfway => part = EmptyTree
  BY <1>1, <1>2 DEF LeftInv, Early, Late
<1>4. ASSUME Exit PROVE ProvisioningInv'
  <2>1. (Typed /\ PartInv)'
    BY <1>1, <1>4, IdleJob DEF TypeOK, Typed, PartInv, Exit, ghosts
  <2>2. RootInv'
    BY <1>1, RootSame DEF ghosts
  <2>3. QED
    BY <1>3, <1>4, <2>1, <2>2, Exits DEF ghosts
<1>5. ASSUME job' \in Job, job'.op = job.op, job'.fresh = job.fresh, job'.pc \in Early,
             job'.pc \in {"check", "extract"} => cache'.base # NoFile, SourceInv'
      PROVE  ProvisioningInv'
  <2>1. FreshInv'
    BY <1>1, <1>2, <1>5 DEF FreshInv, Early, Late, Adopting, EmptyTree, Entries, Members, Absent
  <2>2. ReadyInv'
    BY <1>5 DEF ReadyInv, Early
  <2>3. QED
    BY <1>2, <1>3, <1>5, <2>1, <2>2, Staged DEF Early
<1>6. QED
  BY <1>4, <1>5

LEMMA FetchStep ==
  ASSUME ProvisioningInv, Fetch PROVE ProvisioningInv'
<1>1. job \in Job /\ cache \in Cache /\ job.want \in Versions /\ SourceInv
  BY DEF ProvisioningInv, TypeOK, Job
<1>2. job.pc = "fetch" /\ UNCHANGED <<rootfs, part, ghosts>> /\ (Exit \/ Goto("check"))
  BY DEF Fetch, At
<1>3. cache' \in Cache /\ (Goto("check") => cache'.base # NoFile)
  <2>1. CASE cache' = cache /\ cache.base # NoFile
    BY <1>1, <2>1
  <2>2. ASSUME NEW a \in {Whole(job.want)} \cup Damaged(job.want), cache' = [cache EXCEPT !.base = a]
        PROVE  cache' \in Cache /\ cache'.base # NoFile
    <3>1. a \in Archive /\ a # NoFile
      BY <1>1, <2>2, WholeIs, DamagedIs, DistinctAssumption
    <3>2. QED
      BY <1>1, <2>2, <3>1, CacheOf
  <2>3. CASE Exit /\ UNCHANGED cache
    <3>1. ~Goto("check")
      BY <1>1, <2>3, GotoDoes, IdleJob DEF Exit, Places
    <3>2. QED
      BY <1>1, <2>3, <3>1
  <2>4. QED
    BY <2>1, <2>2, <2>3 DEF Fetch
<1>4. CASE Exit
  BY <1>2, <1>3, <1>4, Downloads DEF Early
<1>5. CASE Goto("check")
  <2>1. job' \in Job /\ job'.pc = "check" /\ job'.op = job.op /\ job'.fresh = job.fresh
        /\ job'.url = job.url /\ job'.want = job.want
    BY <1>1, <1>5, GotoDoes DEF Places
  <2>2. SourceInv'
    BY <1>1, <1>2, <2>1 DEF SourceInv, DigestKnown
  <2>3. QED
    BY <1>2, <1>3, <1>5, <2>1, <2>2, Downloads DEF Early
<1>6. QED
  BY <1>2, <1>4, <1>5

LEMMA VerifySha256Step ==
  ASSUME ProvisioningInv, VerifySha256 PROVE ProvisioningInv'
<1>1. job \in Job /\ cache \in Cache /\ job.want \in Versions /\ SourceInv
  BY DEF ProvisioningInv, TypeOK, Job
<1>2. job.pc = "check" /\ UNCHANGED <<rootfs, part, ghosts>> /\ cache.base # NoFile
  BY DEF VerifySha256, At, ProvisioningInv, TypeOK
<1>3. CASE DigestKnown /\ cache.base # Whole(job.want)
  <2>1. cache' \in Cache
    BY <1>1, <1>3, CacheOf DEF VerifySha256
  <2>2. CASE Exit
    BY <1>2, <2>1, <2>2, Downloads DEF Early
  <2>3. CASE NextAttempt
    <3>1. job' \in Job /\ job'.pc = "fetch" /\ job'.op = job.op /\ job'.fresh = job.fresh
          /\ job'.url = job.url /\ job'.want = job.want
      BY <1>1, <2>3 DEF NextAttempt, Job
    <3>2. SourceInv'
      BY <1>1, <1>2, <3>1 DEF SourceInv, DigestKnown
    <3>3. QED
      BY <1>2, <2>1, <3>1, <3>2, Downloads DEF Early
  <2>4. QED
    BY <1>3, <2>2, <2>3 DEF VerifySha256
<1>4. CASE ~(DigestKnown /\ cache.base # Whole(job.want))
  <2>1. cache' = cache /\ job' = [job EXCEPT !.pc = "extract", !.want = Idle.want]
    BY <1>4 DEF VerifySha256
  <2>2. Idle.want \in Versions
    BY IdleJob, VersionsAssumption
  <2>3. job' \in Job /\ job'.pc = "extract" /\ job'.op = job.op /\ job'.fresh = job.fresh
        /\ job'.url = job.url
    BY <1>1, <2>1, <2>2 DEF Job
  <2>4. SourceInv'
    BY <1>1, <1>2, <1>4, <2>1, <2>3 DEF SourceInv, DigestKnown, Whole, Members
  <2>5. QED
    BY <1>1, <1>2, <2>1, <2>3, <2>4, Downloads DEF Early
<1>5. QED
  BY <1>3, <1>4

-----------------------------------------------------------------------------
(* Extraction *)

\* In the staging directory of an install.
LEMMA InPart ==
  ASSUME ProvisioningInv, ~Adopting, job.pc \in OnTree \cup {"rename", "rm_part"}
  PROVE  /\ part \in Tree /\ part # NoDir /\ part["node"] = Absent /\ Work = part
         /\ job \in Job /\ cache \in Cache
  BY DEF ProvisioningInv, TypeOK, PartInv, OnTree, Work

LEMMA ExtractStep ==
  ASSUME ProvisioningInv, Extract PROVE ProvisioningInv'
<1>1. job.pc = "extract" /\ job.op = "install" /\ SourceInv /\ FreshInv
  BY DEF Extract, At, ProvisioningInv, OpInv, Early
<1>2. part \in Tree /\ part["node"] = Absent /\ job \in Job /\ cache \in Cache /\ cache.base # NoFile
  <2>1. ~Adopting /\ job.pc \in OnTree
    BY <1>1 DEF Adopting, OnTree
  <2>2. cache.base # NoFile
    BY <1>1 DEF ProvisioningInv, TypeOK
  <2>3. QED
    BY <2>1, <2>2, InPart
<1>3. cache.base \in Archive
  BY <1>2, CacheOf
<1>4. UNCHANGED <<rootfs, cache, ghosts>>
  BY DEF Extract
<1>5. PICK has \in SUBSET cache.base.has :
        /\ part' = Untar(part, has)
        /\ (Goto("hard") /\ has = cache.base.has) \/ Warn("hard", "member")
  BY DEF Extract
<1>6. /\ part' \in Tree /\ part'["node"] = Absent
      /\ \A e \in Entries : part'[e] = IF e \in has \ {"hard"} THEN cache.base.ver ELSE part[e]
  BY <1>2, <1>3, <1>5, UntarIs
<1>7. /\ Moved("hard") /\ (job'.missed = {} => has = cache.base.has)
  BY <1>2, <1>5, Moves, GotoDoes, WarnDoes DEF Places
<1>8. job' \in Job /\ job'.pc = "hard" /\ job'.op = job.op /\ job'.fresh = job.fresh
      /\ job'.url = job.url
  BY <1>7 DEF Moved
<1>9. SourceInv'
  BY <1>1, <1>4, <1>8 DEF SourceInv, DigestKnown, Whole, Members
<1>10. FreshInv'
  <2> SUFFICES ASSUME job.fresh
               PROVE  /\ \A e \in {"loader", "bulk", "links"} : part'[e] \in {cache.base.ver, Absent}
                      /\ part'["hard"] = Absent
                      /\ job'.missed = {} =>
                           \A e \in {"loader", "bulk", "links"} :
                             e \in cache.base.has => part'[e] = cache.base.ver
    BY <1>4, <1>8 DEF FreshInv, Early, Late
  <2>1. part = EmptyTree
    BY <1>1 DEF FreshInv, Adopting, Early
  <2>2. \A e \in Entries : part[e] = Absent
    BY <2>1, EmptyIsTree
  <2>3. {"loader", "bulk", "links", "hard"} \subseteq Entries
    BY DEF Entries, Members
  <2>4. QED
    BY <1>6, <1>7, <2>2, <2>3
<1>11. ReadyInv'
  BY <1>8 DEF ReadyInv
<1>12. QED
  BY <1>1, <1>2, <1>4, <1>6, <1>8, <1>9, <1>10, <1>11, Staged DEF Early

LEMMA FixHardlinksStep ==
  ASSUME ProvisioningInv, FixHardlinks PROVE ProvisioningInv'
<1>1. job.pc = "hard" /\ job.op = "install" /\ SourceInv /\ FreshInv
  BY DEF FixHardlinks, At, ProvisioningInv, OpInv
<1>2. /\ part \in Tree /\ part["node"] = Absent /\ job \in Job /\ cache \in Cache
      /\ cache.base \in Archive
  <2>1. ~Adopting /\ job.pc \in OnTree
    BY <1>1 DEF Adopting, OnTree
  <2>2. cache.base # NoFile
    BY <1>1 DEF ProvisioningInv, TypeOK
  <2>3. QED
    BY <2>1, <2>2, InPart, CacheOf
<1>3. UNCHANGED <<rootfs, cache, ghosts>> /\ Moved("relativize")
  BY <1>2, Moves DEF FixHardlinks, Places
<1>4. /\ part' \in Tree /\ \A e \in Entries \ {"hard"} : part'[e] = part[e]
      /\ part'["hard"] \in {part["bulk"], part["hard"]}
      /\ job'.missed = {} /\ "hard" \in cache.base.has => part'["hard"] # Absent
  <2>1. part["bulk"] \in Versions \cup Own \cup {Absent} /\ "hard" \in Entries
    BY <1>2 DEF Tree, Entries, Members
  <2>2. CASE part' = part /\ Warn("relativize", "member")
    BY <1>2, <2>2, WarnDoes DEF Places
  <2>3. CASE /\ "hard" \in cache.base.has => part["hard"] # Absent \/ part["bulk"] # Absent
             /\ part' = IF "hard" \in cache.base.has /\ part["hard"] = Absent
                          THEN [part EXCEPT !["hard"] = part["bulk"]] ELSE part
    BY <1>2, <2>1, <2>3, TreeOf
  <2>4. QED
    BY <2>2, <2>3 DEF FixHardlinks
<1>5. part'["node"] = Absent
  BY <1>2, <1>4 DEF Entries
<1>6. job' \in Job /\ job'.pc = "relativize" /\ job'.op = job.op /\ job'.fresh = job.fresh
      /\ job'.url = job.url /\ (job'.missed = {} => job.missed = {})
  BY <1>3 DEF Moved
<1>7. SourceInv' /\ ReadyInv'
  BY <1>6 DEF SourceInv, ReadyInv
<1>8. FreshInv'
  <2> SUFFICES ASSUME job.fresh
               PROVE  /\ FromOne(part', Sources)
                      /\ DigestKnown /\ job'.missed = {} => AllThere(part') /\ part'["links"] \in Versions
    BY <1>6 DEF FreshInv, DigestKnown, Early, FromOne, AllThere, Sources
  <2>1. /\ \A e \in {"loader", "bulk", "links"} : part[e] \in {cache.base.ver, Absent}
        /\ part["hard"] = Absent
        /\ job.missed = {} =>
             \A e \in {"loader", "bulk", "links"} : e \in cache.base.has => part[e] = cache.base.ver
    BY <1>1 DEF FreshInv, Adopting
  <2>2. cache.base.ver \in Versions /\ {"loader", "bulk", "links"} \subseteq Entries \ {"hard"}
    BY <1>2 DEF Archive, Entries, Members
  <2>3. \A m \in {"loader", "bulk", "hard"} : part'[m] \in {cache.base.ver, Absent}
    BY <1>4, <2>1, <2>2
  <2>4. DigestKnown => cache.base.ver \in Releases /\ cache.base.has = Members
    BY <1>1, WholeIs, VersionsAssumption DEF SourceInv
  <2>5. FromOne(part', Sources)
    BY <2>2, <2>3, <2>4 DEF FromOne, Sources
  <2>6. ASSUME DigestKnown, job'.missed = {} PROVE AllThere(part') /\ part'["links"] \in Versions
    <3>1. {"loader", "bulk", "links", "hard"} \subseteq cache.base.has /\ Absent \notin Versions
      BY <2>4, <2>6, DistinctAssumption DEF Members
    <3>2. \A e \in {"loader", "bulk", "links"} : part'[e] = cache.base.ver
      BY <1>4, <1>6, <2>1, <2>2, <2>6, <3>1
    <3>3. QED
      BY <1>4, <2>2, <2>6, <3>1, <3>2 DEF AllThere
  <2>7. QED
    BY <2>5, <2>6
<1>9. QED
  BY <1>1, <1>2, <1>3, <1>4, <1>5, <1>6, <1>7, <1>8, Staged DEF Early, Late

-----------------------------------------------------------------------------
(* Repair: adopt works on <R>, install on <R>.part *)

OnRootfs == {"relativize", "repair", "preload", "verify"}

\* A step of adopt, which keeps what an earlier install made of <R>.
LEMMA Adopts ==
  ASSUME ProvisioningInv, Adopting, job.pc \in OnRootfs \cup {"adopt"}, rootfs # NoDir,
         UNCHANGED <<part, cache, ghosts>>, rootfs' \in Tree, RootInv',
         Exit \/ \E x \in OnRootfs \cup {"boot"} : Moved(x)
  PROVE  ProvisioningInv'
<1>1. TypeOK /\ PartInv /\ LeftInv /\ job \in Job
  BY DEF ProvisioningInv, TypeOK
<1>2. ~halfway => part \in {NoDir, EmptyTree}
  BY <1>1 DEF LeftInv
<1>3. rootfs' # NoDir /\ PartInv'
  BY <1>1, DistinctAssumption DEF PartInv
<1>4. CASE Exit
  <2>1. (Typed /\ PartInv)'
    BY <1>1, <1>3, <1>4, IdleJob DEF TypeOK, Typed, Exit, ghosts
  <2>2. QED
    BY <1>2, <1>4, <2>1, Exits DEF ghosts
<1>5. ASSUME NEW x \in OnRootfs \cup {"boot"}, Moved(x) PROVE ProvisioningInv'
  <2>1. job' \in Job /\ job'.pc = x /\ job'.op = job.op
    BY <1>5 DEF Moved
  <2>2. job'.op = "adopt" /\ Adopting'
    BY <2>1 DEF Adopting
  <2>3. TypeOK'
    BY <1>1, <1>3, <2>1, <2>2 DEF TypeOK, OnTree, OnRootfs, Work, ghosts
  <2>4. OpInv' /\ SourceInv' /\ FreshInv' /\ ReadyInv'
    BY <2>1, <2>2 DEF OpInv, SourceInv, FreshInv, ReadyInv, Early, OnRootfs
  <2>5. LeftInv'
    <3>1. ~halfway' => part' \in {NoDir, EmptyTree}
      BY <1>2 DEF ghosts
    <3>2. QED
      BY <3>1 DEF LeftInv, EmptyTree, Entries, Members, Absent
  <2>6. QED
    BY <1>3, <2>3, <2>4, <2>5 DEF ProvisioningInv, RootInv
<1>6. QED
  BY <1>4, <1>5

\* A step of install.
LEMMA Repairs ==
  ASSUME ProvisioningInv, ~Adopting, job.pc \in OnRootfs \cup {"rename"},
         UNCHANGED <<rootfs, cache, ghosts>>, part' \in Tree, part'["node"] = part["node"],
         job.op = "install"
  PROVE  /\ Moved("rm_part") => ProvisioningInv'
         /\ \A x \in {"repair", "preload", "verify", "rename"} :
              Moved(x) /\ FreshInv' /\ ReadyInv' => ProvisioningInv'
<1>1. /\ part \in Tree /\ part # NoDir /\ part["node"] = Absent /\ job \in Job /\ cache \in Cache
  BY InPart DEF OnRootfs, OnTree
<1>2. ASSUME NEW x \in {"repair", "preload", "verify", "rename", "rm_part"}, Moved(x),
             FreshInv', ReadyInv'
      PROVE  ProvisioningInv'
  <2>1. job' \in Job /\ job'.pc = x /\ job'.op = "install"
    BY <1>2 DEF Moved
  <2>2. SourceInv'
    BY <2>1 DEF SourceInv
  <2>3. QED
    BY <1>1, <1>2, <2>1, <2>2, Staged DEF Early, Late
<1>3. ASSUME Moved("rm_part") PROVE FreshInv' /\ ReadyInv'
  <2>1. job'.pc = "rm_part"
    BY <1>3 DEF Moved
  <2>2. QED
    BY <2>1 DEF FreshInv, ReadyInv, Early, Late
<1>4. QED
  BY <1>2, <1>3

LEMMA CmdAdoptStep ==
  ASSUME ProvisioningInv, CmdAdopt PROVE ProvisioningInv'
<1>1. /\ job.pc = "adopt" /\ Adopting /\ UNCHANGED <<rootfs, part, cache, ghosts>>
      /\ TypeOK /\ RootInv /\ LeftInv /\ PartInv
  BY DEF CmdAdopt, At, ProvisioningInv, OpInv, RootInv
<1>2. RootInv'
  BY <1>1, RootSame DEF ghosts
<1>3. CASE rootfs = NoDir
  <2>1. Exit
    BY <1>3 DEF CmdAdopt
  <2>2. (Typed /\ PartInv)'
    BY <1>1, <2>1, IdleJob DEF TypeOK, Typed, PartInv, Exit, ghosts
  <2>3. QED
    BY <1>1, <1>2, <2>1, <2>2, Exits DEF LeftInv, ghosts
<1>4. CASE rootfs # NoDir
  <2>1. Moved("relativize") /\ rootfs' \in Tree
    BY <1>1, <1>4, Moves DEF CmdAdopt, TypeOK, Places
  <2>2. QED
    BY <1>1, <1>2, <1>4, <2>1, Adopts DEF OnRootfs
<1>5. QED
  BY <1>3, <1>4

LEMMA WorkIs ==
  ASSUME ProvisioningInv, job.pc \in OnRootfs
  PROVE  /\ Work \in Tree /\ Work # NoDir /\ job.op \in {"install", "adopt"}
         /\ Adopting => Work = rootfs /\ rootfs # NoDir
         /\ ~Adopting => Work = part /\ job.op = "install"
  BY DEF ProvisioningInv, TypeOK, OpInv, OnTree, OnRootfs, Work, Adopting

\* What relativize_tree makes of the tree it works on, and where it goes on.
Relativized(t) ==
  /\ SetWork(t) /\ \A e \in Entries \ {"links"} : t[e] = Work[e]
  /\ \/ t["links"] = Work["links"]
     \/ Work["links"] \in Versions /\ t["links"] \notin Versions
  /\ \/ Die
     \/ /\ Moved("repair")
        /\ "walk" \notin job'.missed => t["links"] \notin Escaping
        /\ job'.missed = {} /\ Work["links"] \in Versions => t["links"] = "relative"

LEMMA RelativizeTreeStep ==
  ASSUME ProvisioningInv, RelativizeTree PROVE ProvisioningInv'
<1>1. job.pc = "relativize" /\ UNCHANGED <<cache, ghosts>> /\ TypeOK /\ RootInv /\ FreshInv
  BY DEF RelativizeTree, At, ProvisioningInv, RootInv
<1>2. /\ Work \in Tree /\ Work # NoDir /\ (Adopting => Work = rootfs /\ rootfs # NoDir)
      /\ ~Adopting => Work = part /\ job.op = "install"
  BY <1>1, WorkIs DEF OnRootfs
<1>3. Absent \notin Versions /\ "relative" \notin Versions
  BY DistinctAssumption DEF Own
<1>4. PICK t \in Tree : Relativized(t)
  <2>1. "links" \in Entries /\ "relative" \in Own /\ job \in Job /\ Escaping \subseteq Versions
    BY <1>1, VersionsAssumption DEF Entries, Members, Own, TypeOK
  <2>2. ASSUME NEW l \in {Absent, Work["links"]}, Work["links"] \in Versions,
               SetWork([Work EXCEPT !["links"] = l])
        PROVE  /\ [Work EXCEPT !["links"] = l] \in Tree
               /\ \A e \in Entries \ {"links"} : [Work EXCEPT !["links"] = l][e] = Work[e]
               /\ [Work EXCEPT !["links"] = l]["links"] = l
    BY <1>2, <2>1, <2>2, TreeOf
  <2>3. ASSUME NEW l \in {Absent, Work["links"]}, Work["links"] \in Escaping,
               SetWork([Work EXCEPT !["links"] = l]), Die
        PROVE  \E t \in Tree : Relativized(t)
    BY <1>3, <2>1, <2>2, <2>3 DEF Relativized
  <2>4. CASE /\ Work["links"] \in Versions \ Escaping
             /\ SetWork([Work EXCEPT !["links"] = "relative"]) /\ Goto("repair")
    BY <1>2, <1>3, <2>1, <2>4, TreeOf, Moves, GotoDoes DEF Places, Relativized
  <2>5. ASSUME NEW l \in {Absent, Work["links"]}, Work["links"] \in Versions \ Escaping,
               SetWork([Work EXCEPT !["links"] = l]), Warn("repair", "member")
        PROVE  \E t \in Tree : Relativized(t)
    BY <1>3, <2>1, <2>2, <2>5, WarnDoes, Moves DEF Places, Relativized
  <2>6. CASE Work["links"] \in Versions /\ SetWork(Work) /\ Warn("repair", "walk")
    BY <1>2, <2>1, <2>6, WarnDoes, Moves DEF Places, Relativized
  <2>7. CASE Work["links"] \notin Versions /\ SetWork(Work) /\ Goto("repair")
    BY <1>2, <2>1, <2>7, Moves DEF Places, Relativized
  <2>8. QED
    BY <2>3, <2>4, <2>5, <2>6, <2>7 DEF RelativizeTree
<1>5. \A m \in {"loader", "bulk", "hard", "node", "alr"} : t[m] = Work[m]
  BY <1>4 DEF Entries, Members, Relativized
<1>6. CASE Adopting
  <2>1. rootfs' = t /\ part' = part /\ Work = rootfs /\ rootfs # NoDir
    BY <1>2, <1>4, <1>6 DEF SetWork, Relativized
  <2>2. RootInv'
    BY <1>1, <1>4, <1>5, <2>1, RootRepaired DEF ghosts, Relativized
  <2>3. QED
    BY <1>1, <1>4, <1>6, <2>1, <2>2, Adopts DEF OnRootfs, Die, Relativized
<1>7. CASE ~Adopting
  <2>1. part' = t /\ rootfs' = rootfs /\ Work = part /\ job.op = "install" /\ job \in Job
    BY <1>1, <1>2, <1>4, <1>7 DEF SetWork, TypeOK, Relativized
  <2>2. CASE Moved("rm_part")
    BY <1>1, <1>4, <1>5, <1>7, <2>1, <2>2, Repairs DEF OnRootfs, Relativized
  <2>3. CASE /\ Moved("repair")
             /\ "walk" \notin job'.missed => t["links"] \notin Escaping
             /\ job'.missed = {} /\ Work["links"] \in Versions => t["links"] = "relative"
    <3>1. /\ job'.pc = "repair" /\ job'.op = "install" /\ job'.fresh = job.fresh /\ job'.url = job.url
          /\ job'.missed = {} => job.missed = {}
      BY <2>1, <2>3 DEF Moved
    <3>2. ReadyInv'
      BY <2>1, <2>3, <3>1 DEF ReadyInv
    <3>3. FreshInv'
      <4> SUFFICES ASSUME job.fresh
                   PROVE  /\ FromOne(t, Sources)
                          /\ DigestKnown /\ job'.missed = {} => AllThere(t) /\ t["links"] = "relative"
        BY <2>1, <3>1 DEF FreshInv, DigestKnown, Early, FromOne, AllThere, Sources
      <4>1. /\ FromOne(part, Sources)
            /\ DigestKnown /\ job.missed = {} => AllThere(part) /\ part["links"] \in Versions
        BY <1>1, <1>7 DEF FreshInv, Late
      <4>2. QED
        BY <1>5, <2>1, <2>3, <3>1, <4>1 DEF FromOne, AllThere
    <3>4. QED
      BY <1>1, <1>4, <1>5, <1>7, <2>1, <2>3, <3>2, <3>3, Repairs DEF OnRootfs, Relativized
  <2>4. Goto("rm_part") => Moved("rm_part")
    BY <2>1, Moves DEF Places
  <2>5. QED
    BY <1>4, <1>7, <2>2, <2>3, <2>4 DEF Die, Relativized
<1>8. QED
  BY <1>6, <1>7

\* Steps that leave the archive's entries of the tree alone.
LEMMA Fixes ==
  ASSUME ProvisioningInv, NEW t \in Tree, SetWork(t), UNCHANGED <<cache, ghosts>>,
         job.pc \in {"repair", "preload", "verify"},
         \A e \in {"loader", "bulk", "hard", "links", "node"} : t[e] = Work[e],
         Work["alr"] = "preload" => t["alr"] = "preload",
         \/ Die
         \/ job.pc = "repair" /\ Goto("preload")
         \/ job.pc = "preload" /\ Goto("verify") /\ t["alr"] = "preload"
         \/ job.pc = "verify" /\ (\A e \in Required : t[e] # Absent)
              /\ Goto(IF Adopting THEN "boot" ELSE "rename")
  PROVE  ProvisioningInv'
<1>1. TypeOK /\ RootInv /\ FreshInv /\ ReadyInv /\ job \in Job
  BY DEF ProvisioningInv, RootInv, TypeOK
<1>2. /\ Work \in Tree /\ Work # NoDir /\ (Adopting => Work = rootfs /\ rootfs # NoDir)
      /\ ~Adopting => Work = part /\ job.op = "install"
  BY WorkIs DEF OnRootfs
<1>3. CASE Adopting
  <2>1. rootfs' = t /\ part' = part /\ Work = rootfs /\ rootfs # NoDir
    BY <1>2, <1>3 DEF SetWork
  <2>2. RootInv'
    BY <1>1, <2>1, RootRepaired DEF ghosts
  <2>3. Exit \/ \E x \in OnRootfs \cup {"boot"} : Moved(x)
    BY <1>1, <1>3, Moves DEF OnRootfs, Die, Places
  <2>4. QED
    BY <1>3, <2>1, <2>2, <2>3, Adopts DEF OnRootfs
<1>4. CASE ~Adopting
  <2>1. part' = t /\ rootfs' = rootfs /\ Work = part /\ job.op = "install"
    BY <1>2, <1>4 DEF SetWork
  <2>2. CASE Moved("rm_part")
    BY <1>4, <2>1, <2>2, Repairs DEF OnRootfs
  <2>3. ASSUME NEW x \in {"preload", "verify", "rename"}, Goto(x),
               x \in {"verify", "rename"} => t["alr"] = "preload",
               x = "rename" => \A e \in Required : t[e] # Absent
        PROVE  ProvisioningInv'
    <3>1. /\ job'.pc = x /\ job'.op = "install" /\ job'.fresh = job.fresh /\ job'.url = job.url
          /\ job'.missed = job.missed /\ Moved(x)
      BY <1>1, <2>1, <2>3, GotoDoes, Moves DEF Places
    <3>2. ReadyInv'
      BY <1>1, <1>4, <2>1, <2>3, <3>1 DEF ReadyInv, Required
    <3>3. FreshInv'
      <4> SUFFICES ASSUME job.fresh
                   PROVE  /\ FromOne(t, Sources)
                          /\ DigestKnown /\ job.missed = {} => AllThere(t) /\ t["links"] = "relative"
        BY <2>1, <3>1 DEF FreshInv, DigestKnown, Early, FromOne, AllThere, Sources
      <4>1. /\ FromOne(part, Sources)
            /\ DigestKnown /\ job.missed = {} => AllThere(part) /\ part["links"] = "relative"
        BY <1>1, <1>4 DEF FreshInv, Late
      <4>2. QED
        BY <2>1, <4>1 DEF FromOne, AllThere
    <3>4. QED
      BY <1>4, <2>1, <2>3, <3>1, <3>2, <3>3, Repairs DEF OnRootfs
  <2>4. job.pc = "verify" => part["alr"] = "preload"
    BY <1>1, <1>4 DEF ReadyInv
  <2>5. Goto("rm_part") => Moved("rm_part")
    BY <1>1, Moves DEF Places
  <2>6. QED
    BY <1>4, <2>1, <2>2, <2>3, <2>4, <2>5 DEF Die
<1>5. QED
  BY <1>3, <1>4

LEMMA RepairStep ==
  ASSUME ProvisioningInv, Repair PROVE ProvisioningInv'
<1>1. job.pc = "repair" /\ Goto("preload") /\ UNCHANGED <<cache, ghosts>>
  BY DEF Repair, At
<1>2. Work \in Tree
  BY <1>1, WorkIs DEF OnRootfs
<1>3. PICK t : /\ SetWork(t)
               /\ t = [Work EXCEPT !["etc"] = IF Work["bulk"] = Absent THEN @ ELSE "repaired",
                                   !["alr"] = MakeAlrDir(@)]
  BY DEF Repair
<1>4. /\ t \in Tree /\ \A e \in {"loader", "bulk", "hard", "links", "node"} : t[e] = Work[e]
      /\ t["alr"] = MakeAlrDir(Work["alr"])
  BY <1>2, <1>3 DEF Tree, Entries, Members, MakeAlrDir, Own
<1>5. Work["alr"] = "preload" => t["alr"] = "preload"
  BY <1>4 DEF MakeAlrDir, Absent
<1>6. QED
  BY <1>1, <1>3, <1>4, <1>5, Fixes

LEMMA InstallPreloadStep ==
  ASSUME ProvisioningInv, InstallPreload PROVE ProvisioningInv'
<1>1. job.pc = "preload" /\ UNCHANGED <<cache, ghosts>>
  BY DEF InstallPreload, At
<1>2. Work \in Tree
  BY <1>1, WorkIs DEF OnRootfs
<1>3. CASE SetWork([Work EXCEPT !["alr"] = "preload"]) /\ Goto("verify")
  <2>1. PICK t : t = [Work EXCEPT !["alr"] = "preload"]
    OBVIOUS
  <2>2. /\ t \in Tree /\ \A e \in {"loader", "bulk", "hard", "links", "node"} : t[e] = Work[e]
        /\ t["alr"] = "preload"
    BY <1>2, <2>1 DEF Tree, Entries, Members, Own
  <2>3. QED
    BY <1>1, <1>3, <2>1, <2>2, Fixes
<1>4. CASE SetWork(Work) /\ Die
  BY <1>1, <1>2, <1>4, Fixes
<1>5. QED
  BY <1>3, <1>4 DEF InstallPreload

LEMMA VerifyRootfsStep ==
  ASSUME ProvisioningInv, VerifyRootfs PROVE ProvisioningInv'
<1>1. job.pc = "verify" /\ UNCHANGED <<rootfs, part, cache, ghosts>>
  BY DEF VerifyRootfs, At
<1>2. Work \in Tree /\ SetWork(Work)
  BY <1>1, WorkIs DEF OnRootfs, SetWork
<1>3. QED
  BY <1>1, <1>2, Fixes DEF VerifyRootfs

-----------------------------------------------------------------------------
(* The rename, and what works on <R> directly *)

LEMMA RenameStep ==
  ASSUME ProvisioningInv, Rename PROVE ProvisioningInv'
<1>1. /\ job.pc = "rename" /\ job.op = "install" /\ ~Adopting /\ UNCHANGED <<cache, halfway, started>>
      /\ TypeOK /\ FreshInv /\ ReadyInv /\ RootInv
  BY DEF Rename, At, ProvisioningInv, OpInv, Adopting, RootInv
<1>2. part \in Tree /\ part # NoDir /\ part["node"] = Absent /\ job \in Job
  BY <1>1, InPart
<1>3. CASE Die /\ UNCHANGED <<rootfs, part, made>>
  <2>1. Moved("rm_part")
    BY <1>1, <1>2, <1>3, Moves DEF Die, Places
  <2>2. QED
    BY <1>1, <1>2, <1>3, <2>1, Repairs DEF OnRootfs, ghosts
<1>4. CASE /\ rootfs' = part /\ part' = NoDir /\ Goto("boot")
           /\ made' = {"install"} \cup (IF job.fresh THEN {"clean"} ELSE {})
                                  \cup (IF DigestKnown THEN {"verified"} ELSE {})
                                  \cup (IF "walk" \in job.missed THEN {} ELSE {"walked"})
                                  \cup (IF job.missed = {} THEN {"complete"} ELSE {})
  <2>1. job' \in Job /\ job'.pc = "boot" /\ job'.op = "install"
    BY <1>1, <1>2, <1>4, GotoDoes DEF Places
  <2>2. made' \in SUBSET Made
        /\ ("clean" \in made' => job.fresh) /\ ("verified" \in made' <=> DigestKnown)
        /\ ("walked" \in made' => "walk" \notin job.missed) /\ ("complete" \in made' => job.missed = {})
    BY <1>4 DEF Made
  <2>3. TypeOK'
    BY <1>1, <1>2, <1>4, <2>1, <2>2 DEF TypeOK, OnTree
  <2>4. InstalledIsUsable'
    BY <1>1, <1>4, <2>2 DEF ReadyInv, InstalledIsUsable, Required
  <2>5. CleanInstallIsOneArchive'
    <3>1. job.fresh => /\ FromOne(part, Sources)
                       /\ DigestKnown /\ job.missed = {} => AllThere(part) /\ part["links"] = "relative"
      BY <1>1 DEF FreshInv, Late
    <3>2. QED
      BY <1>4, <2>2, <3>1 DEF CleanInstallIsOneArchive, FromOne, AllThere, Sources
  <2>6. NodeIsWhole' /\ MadeInv' /\ PartInv'
    BY <1>2, <1>4 DEF NodeIsWhole, MadeInv, PartInv
  <2>7. OpInv' /\ SourceInv' /\ FreshInv' /\ ReadyInv' /\ LeftInv'
    BY <1>4, <2>1 DEF OpInv, OnTree, SourceInv, FreshInv, ReadyInv, LeftInv, Early, Late, Adopting
  <2>8. QED
    BY <2>3, <2>4, <2>5, <2>6, <2>7 DEF ProvisioningInv
<1>5. QED
  BY <1>3, <1>4 DEF Rename

LEMMA RemovePartStep ==
  ASSUME ProvisioningInv, RemovePart PROVE ProvisioningInv'
<1>1. /\ Exit /\ UNCHANGED <<rootfs, cache, made, started>> /\ TypeOK /\ RootInv
      /\ part \in Tree /\ part["node"] = Absent
  BY DEF RemovePart, ProvisioningInv, RootInv, TypeOK, PartInv, At
<1>2. /\ part' \in Tree \cup {NoDir} /\ PartInv' /\ halfway' \in BOOLEAN /\ (halfway => halfway')
      /\ ~halfway' => part' = NoDir
  <2>1. CASE part' = NoDir /\ UNCHANGED halfway
    BY <1>1, <2>1 DEF PartInv, TypeOK
  <2>2. CASE part' \in Remnants(part) /\ halfway' = TRUE
    <3>1. part' \in Tree /\ part'["node"] = Absent
      BY <1>1, <2>2, RemnantIs DEF Entries
    <3>2. QED
      BY <2>2, <3>1 DEF PartInv
  <2>3. QED
    BY <2>1, <2>2 DEF RemovePart
<1>3. Typed'
  BY <1>1, <1>2, IdleJob DEF TypeOK, Typed, Exit
<1>4. RootInv'
  BY <1>1, <1>2, RootSame
<1>5. QED
  BY <1>1, <1>2, <1>3, <1>4, Exits

\* Steps elsewhere that end the command and change <R> or the cache.
LEMMA EndsOnRootfs ==
  ASSUME ProvisioningInv, job.pc \in Elsewhere, Exit, part' = part, cache' \in Cache,
         rootfs' \in Tree \cup {NoDir}, UNCHANGED <<made, started>>, halfway' \in BOOLEAN,
         halfway => halfway', RootInv'
  PROVE  ProvisioningInv'
<1>1. TypeOK /\ PartInv /\ LeftInv
  BY DEF ProvisioningInv
<1>2. (Typed /\ PartInv)'
  BY <1>1, IdleJob DEF TypeOK, Typed, PartInv, Exit
<1>3. ~halfway' => part' \in {NoDir, EmptyTree}
  BY <1>1 DEF LeftInv, Elsewhere, Late
<1>4. QED
  BY <1>2, <1>3, Exits

LEMMA NodeChanged ==
  ASSUME TypeOK, RootInv, rootfs # NoDir, made' = made, halfway => halfway', NEW n \in Own \cup {Absent},
         n \in {Absent, "whole"} \/ (n = "remnant" /\ halfway'),
         rootfs' = [rootfs EXCEPT !["node"] = n]
  PROVE  rootfs' \in Tree /\ RootInv'
<1>1. rootfs \in Tree
  BY DEF TypeOK
<1>2. rootfs' \in Tree /\ rootfs'["node"] = n /\ \A m \in Entries \ {"node"} : rootfs'[m] = rootfs[m]
  BY <1>1 DEF Tree, Entries
<1>3. \A m \in {"loader", "bulk", "hard", "alr", "links"} : rootfs'[m] = rootfs[m]
  BY <1>2 DEF Entries, Members
<1>4. QED
  BY <1>2, <1>3, RootRepaired

LEMMA WithNodeStep ==
  ASSUME ProvisioningInv, WithNode PROVE ProvisioningInv'
<1>1. /\ job.pc = "node" /\ Exit /\ UNCHANGED <<part, made, started>> /\ TypeOK /\ RootInv
      /\ rootfs # NoDir /\ cache \in Cache /\ rootfs \in Tree /\ halfway \in BOOLEAN
  BY DEF WithNode, At, ProvisioningInv, RootInv, TypeOK
<1>2. cache' \in Cache
  BY <1>1, CacheOf DEF WithNode, FetchedNode
<1>3. rootfs' \in Tree /\ RootInv' /\ halfway' \in BOOLEAN /\ (halfway => halfway')
  <2>1. CASE UNCHANGED <<rootfs, halfway>>
    BY <1>1, <2>1, RootSame
  <2>2. ASSUME NEW n \in {"whole", Absent}, rootfs' = [rootfs EXCEPT !["node"] = n], UNCHANGED halfway
        PROVE  rootfs' \in Tree /\ RootInv' /\ halfway' \in BOOLEAN /\ (halfway => halfway')
    BY <1>1, <2>2, NodeChanged DEF Own
  <2>3. CASE rootfs' = [rootfs EXCEPT !["node"] = "remnant"] /\ halfway' = TRUE
    BY <1>1, <2>3, NodeChanged DEF Own
  <2>4. QED
    BY <2>1, <2>2, <2>3 DEF WithNode
<1>4. QED
  BY <1>1, <1>2, <1>3, EndsOnRootfs DEF Elsewhere

LEMMA CmdUpdateComponentsStep ==
  ASSUME ProvisioningInv, CmdUpdateComponents PROVE ProvisioningInv'
<1>1. /\ job.pc = "update" /\ Exit /\ UNCHANGED <<part, cache, ghosts>> /\ TypeOK /\ RootInv
      /\ cache \in Cache /\ rootfs \in Tree \cup {NoDir}
  BY DEF CmdUpdateComponents, At, ProvisioningInv, RootInv, TypeOK
<1>2. CASE rootfs = NoDir
  <2>1. rootfs' = rootfs
    BY <1>2 DEF CmdUpdateComponents
  <2>2. QED
    BY <1>1, <2>1, RootSame, EndsOnRootfs DEF ghosts, Elsewhere, TypeOK
<1>3. ASSUME rootfs # NoDir, NEW a \in {"preload", MakeAlrDir(rootfs["alr"])},
             rootfs' = [rootfs EXCEPT !["alr"] = a]
      PROVE  ProvisioningInv'
  <2>1. rootfs \in Tree /\ rootfs["alr"] \in Versions \cup Own \cup {Absent}
    BY <1>1, <1>3 DEF Tree, Entries
  <2>2. a \in Versions \cup Own \cup {Absent} /\ (rootfs["alr"] = "preload" => a = "preload")
    BY <1>3, <2>1 DEF MakeAlrDir, Own, Absent
  <2>3. rootfs' \in Tree /\ rootfs'["alr"] = a /\ \A m \in Entries \ {"alr"} : rootfs'[m] = rootfs[m]
    <3>1. "alr" \in Entries
      BY DEF Entries
    <3>2. QED
      BY <1>3, <2>1, <2>2, <3>1 DEF Tree
  <2>4. \A m \in {"loader", "bulk", "hard", "node", "links"} : rootfs'[m] = rootfs[m]
    BY <2>3 DEF Entries, Members
  <2>5. RootInv'
    BY <1>1, <1>3, <2>2, <2>3, <2>4, RootRepaired DEF ghosts
  <2>6. QED
    BY <1>1, <2>3, <2>5, EndsOnRootfs DEF Elsewhere, ghosts, TypeOK
<1>4. QED
  BY <1>2, <1>3 DEF CmdUpdateComponents

\* Without a rootfs there is nothing to say of it.
LEMMA NothingMade ==
  ASSUME made' = {}, rootfs' # NoDir => rootfs'["node"] \in {Absent, "whole"}
                       \/ (rootfs'["node"] = "remnant" /\ halfway')
  PROVE  RootInv'
  BY DEF RootInv, MadeInv, InstalledIsUsable, CleanInstallIsOneArchive, NodeIsWhole

\* Whatever rm -rf leaves of <R>, nothing is claimed of it any more.
LEMMA RootRemnant ==
  ASSUME TypeOK, RootInv, rootfs # NoDir, rootfs' \in Remnants(rootfs), made' = {}, halfway' = TRUE
  PROVE  rootfs' \in Tree /\ RootInv'
<1>1. rootfs \in Tree /\ rootfs["node"] \in {Absent, "whole", "remnant"}
  BY DEF TypeOK, RootInv, NodeIsWhole
<1>2. rootfs' \in Tree /\ rootfs'["node"] \in {rootfs["node"], Absent, "remnant"}
  BY <1>1, RemnantIs
<1>3. QED
  BY <1>1, <1>2, NothingMade

LEMMA RemoveRootfsStep ==
  ASSUME ProvisioningInv, RemoveRootfs PROVE ProvisioningInv'
<1>1. /\ job.pc = "rm_rootfs" /\ made' = {} /\ UNCHANGED <<part, cache, started>> /\ rootfs # NoDir
      /\ TypeOK /\ PartInv /\ LeftInv /\ OpInv /\ RootInv /\ job \in Job
  BY DEF RemoveRootfs, At, ProvisioningInv, RootInv, TypeOK
<1>2. ~halfway => part \in {NoDir, EmptyTree}
  BY <1>1 DEF LeftInv, Late
<1>3. CASE rootfs' = NoDir /\ UNCHANGED halfway /\ Exit
  <2>1. (Typed /\ PartInv)'
    BY <1>1, <1>3, IdleJob DEF TypeOK, Typed, PartInv, Exit
  <2>2. QED
    BY <1>1, <1>2, <1>3, <2>1, NothingMade, Exits
<1>4. CASE rootfs' = NoDir /\ UNCHANGED halfway /\ job.op # "remove" /\ Goto("stage")
  <2>1. job' \in Job /\ job'.pc = "stage" /\ job'.op = "install"
    BY <1>1, <1>4, GotoDoes DEF Places, OpInv
  <2>2. TypeOK' /\ PartInv'
    BY <1>1, <1>4, <2>1 DEF TypeOK, PartInv, OnTree
  <2>3. OpInv' /\ SourceInv' /\ FreshInv' /\ ReadyInv'
    BY <2>1 DEF OpInv, OnTree, SourceInv, FreshInv, ReadyInv, Early, Late, Adopting
  <2>4. LeftInv'
    BY <1>1, <1>2, <1>4 DEF LeftInv, EmptyTree, Entries, Members, Absent
  <2>5. RootInv'
    BY <1>1, <1>4, NothingMade
  <2>6. QED
    BY <2>2, <2>3, <2>4, <2>5 DEF ProvisioningInv, RootInv
<1>5. CASE rootfs' \in Remnants(rootfs) /\ halfway' = TRUE /\ Exit
  <2>1. rootfs' \in Tree /\ RootInv'
    BY <1>1, <1>5, RootRemnant
  <2>2. (Typed /\ PartInv)'
    BY <1>1, <1>5, <2>1, IdleJob DEF TypeOK, Typed, PartInv, Exit
  <2>3. QED
    BY <1>5, <2>1, <2>2, Exits
<1>6. QED
  BY <1>3, <1>4, <1>5 DEF RemoveRootfs

LEMMA AppExtractStep ==
  ASSUME ProvisioningInv, NEW a \in Archive, AppExtract(a) PROVE ProvisioningInv'
<1>1. /\ job.pc = "idle" /\ rootfs = NoDir /\ UNCHANGED <<part, cache, job, ghosts>>
      /\ rootfs' = [e \in Entries |-> IF e \in a.has THEN a.ver ELSE Absent]
      /\ TypeOK /\ PartInv /\ LeftInv /\ made = {}
  BY DEF AppExtract, At, ProvisioningInv, MadeInv
<1>2. rootfs' \in Tree /\ rootfs'["node"] = Absent
  <2>1. a.ver \in Versions /\ a.has \subseteq Members
    BY DEF Archive
  <2>2. "node" \in Entries /\ "node" \notin a.has
    BY <2>1 DEF Entries, Members
  <2>3. QED
    BY <1>1, <2>1, <2>2 DEF Tree
<1>3. RootInv'
  BY <1>1, <1>2, NothingMade DEF ghosts
<1>4. TypeOK' /\ PartInv'
  BY <1>1, <1>2 DEF TypeOK, PartInv, OnTree, ghosts
<1>5. OpInv' /\ SourceInv' /\ FreshInv' /\ ReadyInv'
  BY <1>1 DEF OpInv, OnTree, SourceInv, FreshInv, ReadyInv, Early, Late
<1>6. LeftInv'
  <2>1. ~halfway' => part' \in {NoDir, EmptyTree}
    BY <1>1 DEF LeftInv, Late, ghosts
  <2>2. QED
    BY <2>1 DEF LeftInv, EmptyTree, Entries, Members, Absent
<1>7. QED
  BY <1>3, <1>4, <1>5, <1>6 DEF ProvisioningInv, RootInv

-----------------------------------------------------------------------------
(* A command is killed *)

LEMMA KillStep ==
  ASSUME ProvisioningInv, Kill PROVE ProvisioningInv'
<1>1. /\ Exit /\ halfway' = TRUE /\ started' = started
      /\ TypeOK /\ PartInv /\ RootInv /\ cache \in Cache /\ job \in Job
      /\ rootfs \in Tree \cup {NoDir} /\ part \in Tree \cup {NoDir}
  BY DEF Kill, ProvisioningInv, RootInv, TypeOK
<1>2. ASSUME rootfs' \in Tree \cup {NoDir}, part' \in Tree \cup {NoDir}, PartInv', cache' \in Cache,
             made' \in {made, {}}, RootInv'
      PROVE  ProvisioningInv'
  <2>1. Typed'
    BY <1>1, <1>2, IdleJob DEF Typed, TypeOK, Exit
  <2>2. QED
    BY <1>1, <1>2, <2>1, Exits
<1>3. UNCHANGED <<rootfs, made>> => RootInv'
  BY <1>1, RootSame
<1>4. UNCHANGED part => PartInv'
  BY <1>1 DEF PartInv
<1>5. CASE UNCHANGED <<rootfs, part, cache, made>>
  BY <1>1, <1>2, <1>3, <1>4, <1>5
<1>6. CASE /\ At("fetch") /\ cache.base = NoFile /\ UNCHANGED <<rootfs, part, made>>
           /\ \E a \in Damaged(job.want) : cache' = [cache EXCEPT !.base = a]
  <2>1. job.want \in Versions
    BY <1>1 DEF Job
  <2>2. cache' \in Cache
    BY <1>1, <1>6, <2>1, DamagedIs, CacheOf
  <2>3. QED
    BY <1>1, <1>2, <1>3, <1>4, <1>6, <2>2
<1>7. CASE /\ At("extract") /\ UNCHANGED <<rootfs, cache, made>>
           /\ \E has \in SUBSET cache.base.has : part' = Untar(part, has)
  <2>1. ~Adopting /\ job.pc \in OnTree /\ cache.base # NoFile
    BY <1>1, <1>7 DEF At, ProvisioningInv, OpInv, Early, Adopting, OnTree, TypeOK
  <2>2. part \in Tree /\ part["node"] = Absent /\ cache.base \in Archive
    BY <1>1, <2>1, InPart, CacheOf
  <2>3. part' \in Tree /\ part'["node"] = Absent
    BY <1>7, <2>2, UntarIs
  <2>4. QED
    BY <1>1, <1>2, <1>3, <1>7, <2>3 DEF PartInv
<1>8. CASE /\ At("relativize") /\ Work["links"] \in Versions
           /\ SetWork([Work EXCEPT !["links"] = Absent]) /\ UNCHANGED <<cache, made>>
  <2>1. /\ Work \in Tree /\ Work # NoDir /\ (Adopting => Work = rootfs /\ rootfs # NoDir)
        /\ ~Adopting => Work = part /\ job.op = "install"
    BY <1>8, WorkIs DEF At, OnRootfs
  <2>2. PICK t : t = [Work EXCEPT !["links"] = Absent]
    OBVIOUS
  <2>3. /\ t \in Tree /\ t["links"] = Absent
        /\ \A m \in {"loader", "bulk", "hard", "node", "alr"} : t[m] = Work[m]
    BY <2>1, <2>2 DEF Tree, Entries, Members
  <2>4. Absent \notin Versions
    BY DistinctAssumption
  <2>5. CASE Adopting
    <3>1. rootfs' = t /\ part' = part
      BY <1>8, <2>2, <2>5 DEF SetWork
    <3>2. RootInv'
      BY <1>1, <1>8, <2>1, <2>3, <2>4, <2>5, <3>1, RootRepaired
    <3>3. QED
      BY <1>1, <1>2, <1>4, <1>8, <2>3, <3>1, <3>2
  <2>6. CASE ~Adopting
    <3>1. part' = t /\ rootfs' = rootfs
      BY <1>8, <2>2, <2>6 DEF SetWork
    <3>2. PartInv'
      BY <1>1, <2>1, <2>3, <2>6, <3>1 DEF PartInv
    <3>3. QED
      BY <1>1, <1>2, <1>3, <1>8, <2>3, <3>1, <3>2
  <2>7. QED
    BY <2>5, <2>6
<1>9. CASE At("rm_part") /\ part' \in Remnants(part) /\ UNCHANGED <<rootfs, cache, made>>
  <2>1. part \in Tree /\ part["node"] = Absent
    BY <1>1, <1>9 DEF At, TypeOK, PartInv
  <2>2. part' \in Tree /\ part'["node"] = Absent
    BY <1>9, <2>1, RemnantIs
  <2>3. QED
    BY <1>1, <1>2, <1>3, <1>9, <2>2 DEF PartInv
<1>10. CASE /\ At("rm_rootfs") /\ rootfs' \in Remnants(rootfs)
            /\ made' = {} /\ UNCHANGED <<part, cache>>
  <2>1. rootfs \in Tree /\ rootfs # NoDir
    BY <1>1, <1>10 DEF At, TypeOK
  <2>2. rootfs' \in Tree /\ RootInv'
    BY <1>1, <1>10, <2>1, RootRemnant
  <2>3. QED
    BY <1>1, <1>2, <1>4, <1>10, <2>2
<1>11. CASE /\ At("node") /\ cache.node = NoFile /\ UNCHANGED <<rootfs, part, made>>
            /\ cache' = [cache EXCEPT !.node = "damaged"]
  <2>1. cache' \in Cache
    BY <1>1, <1>11, CacheOf DEF Side
  <2>2. QED
    BY <1>1, <1>2, <1>3, <1>4, <1>11, <2>1
<1>12. CASE /\ At("node") /\ cache.node \in {NoFile, "whole"}
            /\ cache' = [cache EXCEPT !.node = "whole"]
            /\ \E n \in {Absent} \cup (IF rootfs["node"] = Absent THEN {} ELSE {"remnant"}) :
                 rootfs' = [rootfs EXCEPT !["node"] = n]
            /\ UNCHANGED <<part, made>>
  <2>1. cache' \in Cache
    BY <1>1, <1>12, CacheOf DEF Side
  <2>2. rootfs # NoDir
    BY <1>1, <1>12 DEF At, TypeOK
  <2>3. PICK n \in {Absent, "remnant"} : rootfs' = [rootfs EXCEPT !["node"] = n]
    BY <1>12
  <2>4. rootfs' \in Tree /\ RootInv'
    BY <1>1, <1>12, <2>2, <2>3, NodeChanged DEF Own
  <2>5. QED
    BY <1>1, <1>2, <1>4, <1>12, <2>1, <2>4
<1>13. QED
  BY <1>5, <1>6, <1>7, <1>8, <1>9, <1>10, <1>11, <1>12 DEF Kill

-----------------------------------------------------------------------------
LEMMA ProvisioningInvInit == Init => ProvisioningInv
<1> SUFFICES ASSUME Init PROVE ProvisioningInv
  OBVIOUS
<1>1. job \in Job /\ job.pc = "idle" /\ job.op = "install"
  BY IdleJob DEF Init
<1>2. TypeOK
  <2>1. cache \in Cache /\ started \in 0 .. MaxCommands
    BY VersionsAssumption DEF Init, Cache, Side
  <2>2. QED
    BY <1>1, <2>1 DEF Init, TypeOK, OnTree
<1>3. OpInv /\ SourceInv /\ FreshInv /\ ReadyInv /\ LeftInv
  BY <1>1 DEF Init, OpInv, OnTree, SourceInv, FreshInv, ReadyInv, LeftInv, Early, Late, Adopting
<1>4. PartInv /\ MadeInv /\ InstalledIsUsable /\ CleanInstallIsOneArchive /\ NodeIsWhole
  BY DEF Init, PartInv, MadeInv, InstalledIsUsable, CleanInstallIsOneArchive, NodeIsWhole
<1>5. QED
  BY <1>2, <1>3, <1>4 DEF ProvisioningInv

LEMMA ProvisioningInvStep ==
  ASSUME ProvisioningInv, [Next]_vars PROVE ProvisioningInv'
<1>1. ASSUME NEW v \in Versions, NEW a \in {Whole(v)} \cup Damaged(v), AppExtract(a)
      PROVE  ProvisioningInv'
  BY <1>1, AppExtractStep, WholeIs, DamagedIs
<1>2. CASE Step
  BY <1>2, DecideSteps, StageStep, FetchStep, VerifySha256Step, ExtractStep, FixHardlinksStep,
     CmdAdoptStep, RelativizeTreeStep, RepairStep, InstallPreloadStep, VerifyRootfsStep, RenameStep,
     RemovePartStep, WithNodeStep, CmdUpdateComponentsStep, RemoveRootfsStep
  DEF Step
<1>3. CASE UNCHANGED vars
  <2>1. TypeOK' /\ OpInv' /\ ReadyInv' /\ PartInv' /\ LeftInv'
    BY <1>3 DEF vars, ProvisioningInv, TypeOK, OpInv, ReadyInv, PartInv, LeftInv, Adopting, Work,
       EmptyTree, Entries, Members, Absent
  <2>2. SourceInv'
    BY <1>3 DEF vars, ProvisioningInv, SourceInv, DigestKnown, Whole, Members
  <2>3. FreshInv'
    BY <1>3 DEF vars, ProvisioningInv, FreshInv, DigestKnown, Adopting, FromOne, AllThere, Sources,
       EmptyTree, Entries, Members, Absent
  <2>4. RootInv'
    BY <1>3, RootSame DEF vars, ProvisioningInv, RootInv
  <2>5. QED
    BY <2>1, <2>2, <2>3, <2>4 DEF ProvisioningInv, RootInv
<1>4. QED
  BY <1>1, <1>2, <1>3, StartStep, KillStep DEF Next

\* The invariant above holds in every state.
THEOREM ProvisioningInvariant == Spec => []ProvisioningInv
<1>1. ProvisioningInv /\ [Next]_vars => ProvisioningInv'
  BY ProvisioningInvStep
<1>2. QED
  BY <1>1, ProvisioningInvInit, PTL DEF Spec

\* A rootfs that `alr install` renamed into place can start a guest and has the
\* preload, and no symlink that relativize_tree could read climbs out of it,
\* whatever was killed or left out before and whatever adopt, update-components
\* and with_node did to it since.
THEOREM InstallUsable == Spec => []InstalledIsUsable
<1>1. ProvisioningInv => InstalledIsUsable
  BY DEF ProvisioningInv
<1>2. QED
  BY <1>1, ProvisioningInvariant, PTL

\* Staged in an empty directory a rootfs has one archive's files, a release's when
\* cmd_install had its digest, and all of it unless a step only gave a warning.
THEOREM CleanInstall == Spec => []CleanInstallIsOneArchive
<1>1. ProvisioningInv => CleanInstallIsOneArchive
  BY DEF ProvisioningInv
<1>2. QED
  BY <1>1, ProvisioningInvariant, PTL

\* No failure of an install, as long as none is killed and every rm -rf succeeds,
\* leaves files in <R>.part for a later one (die_staged).
THEOREM StagingEnds == Spec => []StagingEndsWithItsAttempt
<1>1. ProvisioningInv => StagingEndsWithItsAttempt
  BY DEF ProvisioningInv, LeftInv, Late, StagingEndsWithItsAttempt
<1>2. QED
  BY <1>1, ProvisioningInvariant, PTL

\* opt/node is a whole, verified download, unless a command was killed or an rm -rf
\* failed while it was replaced or removed (with_node, cmd_remove).
THEOREM NodeWhole == Spec => []NodeIsWhole
<1>1. ProvisioningInv => NodeIsWhole
  BY DEF ProvisioningInv
<1>2. QED
  BY <1>1, ProvisioningInvariant, PTL
=============================================================================
