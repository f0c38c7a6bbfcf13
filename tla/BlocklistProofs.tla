--------------------------- MODULE BlocklistProofs ---------------------------
(***************************************************************************)
(* The safety of the blocklists: of the cache on disk, for every number of *)
(* sources, versions, faults and crashes, and of the reloads over it, for  *)
(* every configuration, every number of edits, signals and publications,   *)
(* and every interleaving of the two goroutines that reload; and of what   *)
(* is blocked, for every text of the lists.                                *)
(***************************************************************************)
EXTENDS BlocklistRefresh, TLAPS

\* The provers a leaf is tried with, in this order.
USE ZenonT(40), SMTT(30), Z3

-----------------------------------------------------------------------------
(***************************************************************************)
(* The cache on disk by itself.                                            *)
(*                                                                         *)
(* What a crash may leave is what recoverable holds, so that both          *)
(* properties speak of every directory in it.  They are not inductive:     *)
(* that a rename keeps them depends on what the steps of Write before it   *)
(* have done, which InWrite says.  Nothing that BlocklistRefresh assumes   *)
(* is used here.                                                           *)
(***************************************************************************)

Writing == {"openBody", "fillBody", "renameBody", "openMeta", "fillMeta", "renameMeta", "sync"}

\* A version that is written was accepted; a temporary file that is renamed holds
\* all of it; the sidecar is only written once the body is in place.
InWrite ==
  /\ fetch.stage \in Writing => fetch.version \in Versions \ Unparsable
  /\ At("renameBody") => tmps[fetch.url].body = fetch.version
  /\ At("renameMeta") => tmps[fetch.url].meta = fetch.version
  /\ fetch.stage \in {"openMeta", "fillMeta", "renameMeta", "sync"} =>
       fetch.version \in files[fetch.url].held

StoreInv ==
  /\ StoreTypeOK
  /\ InWrite
  /\ WholeBody
  /\ SidecarNeverAhead

\* What the two properties ask of one directory.
Sound(f) ==
  \A u \in Urls :
    /\ f[u].body \in (Versions \ Unparsable) \cup {Absent}
    /\ f[u].meta # Absent => f[u].meta \in f[u].held

\* The two properties are about one directory at a time.
LEMMA SoundIff == (WholeBody /\ SidecarNeverAhead) <=> \A f \in recoverable : Sound(f)
BY DEF WholeBody, SidecarNeverAhead, Sound

\* The directory is exchanged for one that is as sound, and remembered.
LEMMA ChangedSound ==
  ASSUME StoreInv, NEW f \in Directories, Sound(f), Changed(f)
  PROVE  /\ files' \in recoverable'
         /\ \A g \in recoverable' : g \in Directories
         /\ (WholeBody /\ SidecarNeverAhead)'
<1>1. \A g \in recoverable : Sound(g)
  BY SoundIff DEF StoreInv
<1>2. \A g \in recoverable' : Sound(g)
  BY <1>1 DEF Changed
<1>3. (WholeBody /\ SidecarNeverAhead)'
  BY <1>2 DEF Sound, WholeBody, SidecarNeverAhead
<1>4. QED
  BY <1>3 DEF Changed, StoreInv, StoreTypeOK

\* Idle states are of the right type.
LEMMA IdleType ==
  ASSUME NEW o \in {"none", "success", "not_modified", "failure"}
  PROVE  /\ Idle(o) \in Fetches
         /\ Idle(o).stage = "idle"
         /\ Sweeping \in Fetches
         /\ Sweeping.stage = "sweep"
BY DEF Idle, Sweeping, Fetches, Stages, Contents

-----------------------------------------------------------------------------

\* A new cache is empty.
LEMMA StoreInitInv == StoreInit => StoreInv
<1>. SUFFICES ASSUME StoreInit PROVE StoreInv
  OBVIOUS
<1>. USE StoreAssumption DEF StoreInit
<1>1. files \in Directories /\ Sound(files)
  BY DEF Directories, Contents, NoFile, Sound
<1>2. fetch \in Fetches /\ fetch.stage = "sweep"
  BY IdleType
<1>3. tmps \in [Urls -> [body : Contents, meta : Contents]]
  BY DEF NoTmp, Contents
<1>4. todo \in Seq(Urls)
  BY SMTT(30), Z3
<1>5. StoreTypeOK
  BY SMTT(30), Z3, <1>1, <1>2, <1>3, <1>4 DEF StoreTypeOK
<1>6. InWrite
  BY <1>2 DEF InWrite, Writing, At
<1>7. WholeBody /\ SidecarNeverAhead
  BY <1>1, SoundIff
<1>8. QED
  BY <1>5, <1>6, <1>7 DEF StoreInv

\* A temporary file that is changed still is one.
LEMMA TmpsType ==
  ASSUME NEW t \in [Urls -> [body : Contents, meta : Contents]], NEW u, NEW kind \in Kinds,
         NEW x \in Contents
  PROVE  [t EXCEPT ![u][kind] = x] \in [Urls -> [body : Contents, meta : Contents]]
<1>1. ASSUME NEW r \in [body : Contents, meta : Contents]
      PROVE  [r EXCEPT ![kind] = x] \in [body : Contents, meta : Contents]
  <2>1. CASE kind = "body"
    BY <2>1
  <2>2. CASE kind = "meta"
    BY <2>2
  <2>3. QED
    BY <2>1, <2>2 DEF Kinds
<1>2. QED
  BY <1>1

\* Sweep removes the sidecar before the body.
LEMMA SweepInv ==
  ASSUME StoreInv, SweepSteps
  PROVE  StoreInv'
<1>. USE StoreAssumption DEF StoreInv
<1>1. ASSUME NEW u \in Urls, NEW kind \in Kinds, SweepTmp(u, kind)
      PROVE  StoreInv'
  <2>1. tmps' \in [Urls -> [body : Contents, meta : Contents]]
    BY <1>1, TmpsType DEF SweepTmp, StoreTypeOK, Contents
  <2>2. StoreTypeOK'
    BY <1>1, <2>1 DEF SweepTmp, StoreTypeOK, bounds
  <2>3. InWrite'
    BY <1>1 DEF SweepTmp, InSweep, InWrite, Writing, At
  <2>4. QED
    BY <1>1, <2>2, <2>3 DEF SweepTmp, WholeBody, SidecarNeverAhead
<1>2. ASSUME NEW u \in Urls, SweepMeta(u) \/ SweepBody(u)
      PROVE  StoreInv'
  <2>. files \in Directories /\ Sound(files)
    BY SoundIff DEF StoreTypeOK
  <2>1. PICK f : f \in Directories /\ Sound(f) /\ Changed(f)
    <3>1. CASE SweepMeta(u)
      <4>. DEFINE f == [files EXCEPT ![u].meta = Absent]
      <4>1. f \in Directories
        BY DEF Directories, Contents
      <4>2. Sound(f)
        BY DEF Sound, Directories
      <4>3. QED
        BY <3>1, <4>1, <4>2 DEF SweepMeta
    <3>2. CASE SweepBody(u)
      <4>. DEFINE f == [files EXCEPT ![u].body = Absent, ![u].held = {}]
      <4>1. f \in Directories
        BY DEF Directories, Contents
      <4>2. Sound(f)
        BY SMTT(30), Z3, <3>2 DEF Sound, Directories, SweepBody
      <4>3. QED
        BY <3>2, <4>1, <4>2 DEF SweepBody
    <3>3. QED
      BY <1>2, <3>1, <3>2
  <2>2. /\ UNCHANGED <<remote, tmps, targets, todo, fetch, bounds>>
        /\ fetch.stage = "sweep"
    BY <1>2 DEF SweepMeta, SweepBody, InSweep
  <2>3. StoreTypeOK' /\ (WholeBody /\ SidecarNeverAhead)'
    BY <2>1, <2>2, ChangedSound DEF StoreTypeOK, bounds
  <2>4. InWrite'
    BY <2>2 DEF InWrite, Writing, At
  <2>5. QED
    BY <2>3, <2>4
<1>3. CASE SweepEnds
  <2>1. fetch' \in Fetches /\ fetch'.stage = "idle"
    BY <1>3, IdleType DEF SweepEnds
  <2>2. StoreTypeOK'
    BY SMTT(30), Z3, <1>3, <2>1 DEF SweepEnds, StoreTypeOK, disk, NoFault, Fault
  <2>3. InWrite'
    BY <2>1 DEF InWrite, Writing, At
  <2>4. QED
    BY <1>3, <2>2, <2>3 DEF SweepEnds, disk, WholeBody, SidecarNeverAhead
<1>4. QED
  BY <1>1, <1>2, <1>3 DEF SweepSteps

\* Every way in which FetchOne, a tick or the crash of the process leaves the
\* directory alone and nothing to write.
LEMMA QuietInv ==
  ASSUME StoreInv,
         UNCHANGED <<files, recoverable>>,
         fetch' \in Fetches, fetch'.stage \in {"sweep", "idle", "asked"},
         fetch'.stage = "asked" => fetch'.url \in Urls,
         remote' \in [Urls -> Versions],
         tmps' \in [Urls -> [body : Contents, meta : Contents]],
         targets' \in Configs, todo' \in Seq(Urls),
         {changes', faults', crashes'} \subseteq Nat
  PROVE  StoreInv'
<1>1. StoreTypeOK'
  BY DEF StoreInv, StoreTypeOK
<1>2. InWrite'
  BY DEF InWrite, Writing, At
<1>3. QED
  BY <1>1, <1>2 DEF StoreInv, WholeBody, SidecarNeverAhead

-----------------------------------------------------------------------------

\* The request and its answer.
LEMMA FetchInv ==
  ASSUME StoreInv,
         \/ FetchStarts \/ Tick \/ RequestFails
         \/ NotModified \/ BodyRefused \/ BodyArrives
  PROVE  StoreInv'
<1>. USE StoreAssumption
<1>0. StoreTypeOK
  BY DEF StoreInv
<1>1. CASE FetchStarts
  <2>. USE <1>1 DEF FetchStarts
  <2>1. Head(todo) \in Urls /\ todo' \in Seq(Urls)
    BY SMTT(30), Z3, <1>0 DEF StoreTypeOK
  <2>2. files[Head(todo)].meta \in Contents
    BY <1>0, <2>1 DEF StoreTypeOK, Directories
  <2>3. fetch' \in Fetches /\ fetch'.stage = "asked" /\ fetch'.url \in Urls
    BY <2>1, <2>2 DEF Idle, Fetches, Stages, Contents
  <2>4. QED
    BY <1>0, <2>1, <2>3, QuietInv DEF StoreTypeOK, disk, bounds
<1>2. CASE Tick
  <2>. USE <1>2 DEF Tick
  <2>1. fetch' \in Fetches /\ fetch'.stage = "idle"
    BY IdleType
  <2>2. QED
    BY <1>0, <2>1, QuietInv DEF StoreTypeOK, disk, bounds
<1>3. CASE RequestFails \/ NotModified \/ BodyRefused
  <2>. USE <1>3 DEF RequestFails, NotModified, BodyRefused
  <2>1. fetch' \in Fetches /\ fetch'.stage = "idle"
    BY IdleType DEF Finish
  <2>2. {changes', faults', crashes'} \subseteq Nat
    BY SMTT(30), Z3, <1>0 DEF StoreTypeOK, bounds, Fault
  <2>3. QED
    BY <1>0, <2>1, <2>2, QuietInv DEF StoreTypeOK, disk
<1>4. CASE BodyArrives
  <2>. USE <1>4 DEF BodyArrives
  <2>1. fetch.url \in Urls /\ remote[fetch.url] \in Versions \ Unparsable
    BY <1>0 DEF StoreTypeOK, At
  <2>2. /\ fetch' \in Fetches
        /\ fetch'.stage = "openBody"
        /\ fetch'.url = fetch.url
        /\ fetch'.version = remote[fetch.url]
    BY <1>0, <2>1 DEF StoreTypeOK, Fetches, Stages, Contents
  <2>3. StoreTypeOK'
    BY <1>0, <2>1, <2>2 DEF StoreTypeOK, disk, bounds
  <2>4. InWrite'
    BY <2>1, <2>2 DEF InWrite, Writing, At
  <2>5. QED
    BY <2>3, <2>4 DEF StoreInv, disk, WholeBody, SidecarNeverAhead
<1>5. QED
  BY <1>1, <1>2, <1>3, <1>4

\* Write works on its temporary files only, until it renames them.
LEMMA TmpInv ==
  ASSUME StoreInv,
         \/ OpenTmp("openBody", "body", "fillBody")
         \/ FillTmp("fillBody", "body", "renameBody")
         \/ OpenTmp("openMeta", "meta", "fillMeta")
         \/ FillTmp("fillMeta", "meta", "renameMeta")
  PROVE  StoreInv'
<1>. USE StoreAssumption
<1>0. StoreTypeOK /\ InWrite
  BY DEF StoreInv
<1>1. fetch.url \in Urls /\ fetch.version \in Versions \ Unparsable /\ fetch.stage \in Writing
  BY <1>0 DEF OpenTmp, FillTmp, At, StoreTypeOK, InWrite, Writing
<1>2. /\ fetch' \in Fetches
      /\ fetch'.url = fetch.url
      /\ fetch'.version = fetch.version
      /\ fetch'.stage \in Writing
  <2>1. PICK s \in Writing : fetch' = [fetch EXCEPT !.stage = s]
    BY DEF OpenTmp, FillTmp, Writing
  <2>2. fetch \in Fetches /\ s \in Stages
    BY <1>0 DEF StoreTypeOK, Stages, Writing
  <2>3. QED
    BY <2>1, <2>2 DEF Fetches
<1>3. /\ UNCHANGED <<remote, files, recoverable, targets, todo, bounds>>
      /\ tmps' \in [Urls -> [body : Contents, meta : Contents]]
  <2>1. UNCHANGED <<remote, files, recoverable, targets, todo, bounds>>
    BY DEF OpenTmp, FillTmp
  <2>2. PICK x \in Contents, kind \in Kinds : tmps' = [tmps EXCEPT ![fetch.url][kind] = x]
    BY <1>1 DEF OpenTmp, FillTmp, Contents, Kinds
  <2>3. tmps' \in [Urls -> [body : Contents, meta : Contents]]
    BY <1>0, <2>2, TmpsType DEF StoreTypeOK
  <2>4. QED
    BY <2>1, <2>3
<1>4. StoreTypeOK'
  BY <1>0, <1>1, <1>2, <1>3 DEF StoreTypeOK, bounds
<1>5. InWrite'
  <2>1. fetch'.stage = "renameBody" => tmps'[fetch.url].body = fetch.version
    BY SMTT(30), Z3, <1>0, <1>1 DEF OpenTmp, FillTmp, StoreTypeOK, Fetches
  <2>2. fetch'.stage = "renameMeta" => tmps'[fetch.url].meta = fetch.version
    BY SMTT(30), Z3, <1>0, <1>1 DEF OpenTmp, FillTmp, StoreTypeOK, Fetches
  <2>3. fetch'.stage \in {"openMeta", "fillMeta", "renameMeta", "sync"} =>
          fetch.version \in files[fetch.url].held
    BY <1>0 DEF OpenTmp, FillTmp, StoreTypeOK, Fetches, InWrite, At
  <2>4. QED
    BY <1>1, <1>2, <1>3, <2>1, <2>2, <2>3 DEF InWrite, At
<1>6. QED
  BY <1>3, <1>4, <1>5 DEF StoreInv, WholeBody, SidecarNeverAhead

\* The body is renamed: the whole of a version that has entries.
LEMMA RenameBodyInv ==
  ASSUME StoreInv, Rename("renameBody", "body", "openMeta")
  PROVE  StoreInv'
<1>. USE StoreAssumption DEF Rename
<1>0. StoreTypeOK /\ InWrite /\ files \in Directories /\ Sound(files)
  BY SoundIff DEF StoreInv, StoreTypeOK
<1>. DEFINE u == fetch.url
            v == fetch.version
            f == [files EXCEPT ![u] = Renamed(@, "body", v)]
<1>1. u \in Urls /\ v \in Versions \ Unparsable /\ tmps[u].body = v
  BY <1>0 DEF At, StoreTypeOK, InWrite, Writing
<1>2. f \in Directories /\ Sound(f) /\ v \in f[u].held
  <2>. DEFINE r == Renamed(files[u], "body", v)
  <2>1. files[u] \in [body : Contents, meta : Contents, held : SUBSET Contents] /\ v \in Contents
    BY <1>0, <1>1 DEF Directories, Contents
  <2>2. /\ r \in [body : Contents, meta : Contents, held : SUBSET Contents]
        /\ r.body = v /\ r.meta = files[u].meta
        /\ r.held = files[u].held \cup {v}
    BY <2>1 DEF Renamed
  <2>. HIDE DEF r
  <2>3. f \in Directories /\ f[u] = r /\ \A w \in Urls \ {u} : f[w] = files[w]
    BY <1>0, <1>1, <2>2 DEF Directories, r
  <2>4. Sound(f)
    BY <1>0, <1>1, <2>2, <2>3 DEF Sound
  <2>5. QED
    BY <1>1, <2>2, <2>3, <2>4
<1>3. Changed(f)
  BY <1>1
<1>4. /\ fetch' \in Fetches
      /\ fetch'.url = u
      /\ fetch'.version = v
      /\ fetch'.stage = "openMeta"
  BY <1>0 DEF StoreTypeOK, Fetches, Stages
<1>5. tmps' \in [Urls -> [body : Contents, meta : Contents]]
  BY <1>0, TmpsType DEF StoreTypeOK, Contents, Kinds
<1>6. StoreTypeOK' /\ (WholeBody /\ SidecarNeverAhead)'
  BY <1>0, <1>1, <1>2, <1>3, <1>4, <1>5, ChangedSound DEF StoreTypeOK, bounds
<1>7. InWrite'
  BY <1>1, <1>2, <1>3, <1>4 DEF InWrite, At, Changed
<1>8. QED
  BY <1>6, <1>7 DEF StoreInv

\* The sidecar is renamed: its version has been in the body file.
LEMMA RenameMetaInv ==
  ASSUME StoreInv, Rename("renameMeta", "meta", "sync")
  PROVE  StoreInv'
<1>. USE StoreAssumption DEF Rename
<1>0. StoreTypeOK /\ InWrite /\ files \in Directories /\ Sound(files)
  BY SoundIff DEF StoreInv, StoreTypeOK
<1>. DEFINE u == fetch.url
            v == fetch.version
            f == [files EXCEPT ![u] = Renamed(@, "meta", v)]
<1>1. /\ u \in Urls /\ v \in Versions \ Unparsable
      /\ tmps[u].meta = v
      /\ v \in files[u].held
  BY <1>0 DEF At, StoreTypeOK, InWrite, Writing
<1>2. f \in Directories /\ Sound(f) /\ v \in f[u].held
  <2>. DEFINE r == Renamed(files[u], "meta", v)
  <2>1. files[u] \in [body : Contents, meta : Contents, held : SUBSET Contents] /\ v \in Contents
    BY <1>0, <1>1 DEF Directories, Contents
  <2>2. /\ r \in [body : Contents, meta : Contents, held : SUBSET Contents]
        /\ r.body = files[u].body /\ r.meta = v
        /\ r.held = files[u].held
    BY <2>1 DEF Renamed
  <2>. HIDE DEF r
  <2>3. f \in Directories /\ f[u] = r /\ \A w \in Urls \ {u} : f[w] = files[w]
    BY <1>0, <1>1, <2>2 DEF Directories, r
  <2>4. Sound(f)
    BY <1>0, <1>1, <2>2, <2>3 DEF Sound
  <2>5. QED
    BY <1>1, <2>2, <2>3, <2>4
<1>3. Changed(f)
  BY <1>1
<1>4. /\ fetch' \in Fetches
      /\ fetch'.url = u
      /\ fetch'.version = v
      /\ fetch'.stage = "sync"
  BY <1>0 DEF StoreTypeOK, Fetches, Stages
<1>5. tmps' \in [Urls -> [body : Contents, meta : Contents]]
  BY <1>0, TmpsType DEF StoreTypeOK, Contents, Kinds
<1>6. StoreTypeOK' /\ (WholeBody /\ SidecarNeverAhead)'
  BY <1>0, <1>1, <1>2, <1>3, <1>4, <1>5, ChangedSound DEF StoreTypeOK, bounds
<1>7. InWrite'
  BY <1>1, <1>2, <1>3, <1>4 DEF InWrite, At, Changed
<1>8. QED
  BY <1>6, <1>7 DEF StoreInv

\* Any step of Write fails.
LEMMA WriteFaultInv ==
  ASSUME StoreInv, WriteFaults
  PROVE  StoreInv'
<1>0. StoreTypeOK
  BY DEF StoreInv
<1>1. PICK stage \in Writing, kind \in Kinds : WriteFails(stage, kind)
  BY DEF WriteFaults, Writing, Kinds
<1>2. fetch' \in Fetches /\ fetch'.stage = "idle"
  BY <1>1, IdleType DEF WriteFails, Finish
<1>3. tmps' \in [Urls -> [body : Contents, meta : Contents]]
  BY <1>0, <1>1, TmpsType DEF WriteFails, StoreTypeOK, Contents
<1>4. {changes', faults', crashes'} \subseteq Nat
  BY SMTT(30), Z3, <1>0, <1>1 DEF WriteFails, Fault, StoreTypeOK
<1>5. QED
  BY <1>0, <1>1, <1>2, <1>3, <1>4, QuietInv DEF WriteFails, StoreTypeOK

\* After the fsync only the directory as it is can be recovered.
LEMMA SyncInv ==
  ASSUME StoreInv, SyncDir
  PROVE  StoreInv'
<1>. USE DEF SyncDir
<1>0. StoreTypeOK /\ \A f \in recoverable : Sound(f)
  BY SoundIff DEF StoreInv
<1>1. fetch' \in Fetches /\ fetch'.stage = "idle"
  BY IdleType DEF Finish
<1>2. recoverable' \subseteq recoverable /\ files' \in recoverable'
  BY <1>0 DEF StoreTypeOK
<1>3. StoreTypeOK'
  <2>1. {changes', faults', crashes'} \subseteq Nat
    BY SMTT(30), Z3, <1>0 DEF StoreTypeOK, Fault, NoFault
  <2>2. QED
    BY <1>0, <1>1, <1>2, <2>1 DEF StoreTypeOK
<1>4. InWrite'
  BY <1>1 DEF InWrite, Writing, At
<1>5. (WholeBody /\ SidecarNeverAhead)'
  BY <1>0, <1>2 DEF WholeBody, SidecarNeverAhead, Sound
<1>6. QED
  BY <1>3, <1>4, <1>5 DEF StoreInv

\* The servers, a crash and a loss of power.
LEMMA WorldInv ==
  ASSUME StoreInv,
         \/ \E u \in Urls, v \in Versions : Publish(u, v)
         \/ \E config \in Configs : Crash(config) \/ \E f \in recoverable : PowerLoss(f, config)
  PROVE  StoreInv'
<1>. USE StoreAssumption
<1>0. StoreTypeOK /\ InWrite /\ \A f \in recoverable : Sound(f)
  BY SoundIff DEF StoreInv
<1>1. ASSUME NEW u \in Urls, NEW v \in Versions, Publish(u, v)
      PROVE  StoreInv'
  <2>1. StoreTypeOK'
    <3>1. {changes', faults', crashes'} \subseteq Nat
      BY SMTT(30), Z3, <1>0, <1>1 DEF Publish, StoreTypeOK
    <3>2. remote' \in [Urls -> Versions]
      BY <1>0, <1>1 DEF Publish, StoreTypeOK
    <3>3. QED
      BY <1>0, <1>1, <3>1, <3>2 DEF Publish, StoreTypeOK, disk
  <2>2. QED
    BY <1>0, <1>1, <2>1 DEF Publish, disk, StoreInv, InWrite, At, WholeBody, SidecarNeverAhead
<1>2. ASSUME NEW config \in Configs, NEW f \in recoverable,
             Restart(config), files' = f, f \in recoverable', recoverable' \subseteq recoverable
      PROVE  StoreInv'
  <2>1. fetch' \in Fetches /\ fetch'.stage = "sweep"
    BY <1>2, IdleType DEF Restart
  <2>2. StoreTypeOK'
    BY SMTT(30), Z3, <1>0, <1>2, <2>1 DEF Restart, StoreTypeOK
  <2>3. InWrite'
    BY <2>1 DEF InWrite, Writing, At
  <2>4. (WholeBody /\ SidecarNeverAhead)'
    BY <1>0, <1>2 DEF WholeBody, SidecarNeverAhead, Sound
  <2>5. QED
    BY <2>2, <2>3, <2>4 DEF StoreInv
<1>3. files \in recoverable
  BY <1>0 DEF StoreTypeOK
<1>4. QED
  BY <1>1, <1>2, <1>3 DEF Crash, PowerLoss

\* Every step of the two processes and of the file system keeps the invariant.
LEMMA StoreNextInv == StoreInv /\ [StoreNext]_storeVars => StoreInv'
<1>. SUFFICES ASSUME StoreInv, [StoreNext]_storeVars PROVE StoreInv'
  OBVIOUS
<1>1. CASE StoreNext
  BY <1>1, SweepInv, FetchInv, TmpInv, RenameBodyInv, RenameMetaInv, SyncInv, WriteFaultInv,
     WorldInv
     DEF StoreNext, FetcherSteps, FetchSteps, WriteSteps
<1>2. CASE UNCHANGED storeVars
  BY <1>2 DEF storeVars, disk, bounds, StoreInv, StoreTypeOK, InWrite, At, WholeBody,
              SidecarNeverAhead
<1>3. QED
  BY <1>1, <1>2

\* StoreInv holds whatever fails and whenever the process or the machine stops.
LEMMA StoreSpecInv == StoreSpec => []StoreInv
BY StoreInitInv, StoreNextInv, PTL DEF StoreSpec

-----------------------------------------------------------------------------

\* Every variable of the store has its type, and a fetch under way has a target.
THEOREM StoreTypeCorrect == StoreSpec => []StoreTypeOK
<1>1. StoreInv => StoreTypeOK
  BY DEF StoreInv
<1>2. QED
  BY <1>1, StoreSpecInv, PTL

\* Whenever the process is killed or the machine loses power in FetchOne or Sweep,
\* HTTPSource.Load finds no body, or the whole of one that the server published and
\* FetchOne accepted.
THEOREM BodiesAreWhole == StoreSpec => []WholeBody
<1>1. StoreInv => WholeBody
  BY DEF StoreInv
<1>2. QED
  BY <1>1, StoreSpecInv, PTL

\* No crash, loss of power or failed step of Write leaves a sidecar whose ETag is
\* that of a body that the cache has not stored.
THEOREM SidecarsFollow == StoreSpec => []SidecarNeverAhead
<1>1. StoreInv => SidecarNeverAhead
  BY DEF StoreInv
<1>2. QED
  BY <1>1, StoreSpecInv, PTL

-----------------------------------------------------------------------------
(***************************************************************************)
(* A 304 is right, where no server goes back to an earlier version.  That  *)
(* the sidecar is that of the cached body is not so: a failed write leaves *)
(* an older one.  But an older one no longer matches.                      *)
(***************************************************************************)

\* The body is the newest that was held, and the server has nothing older.
Newest(f, u) ==
  \A v \in f[u].held :
    /\ {v, f[u].body} \subseteq Versions
    /\ v <= f[u].body /\ f[u].body <= remote[u]

\* Nothing newer than what is about to be renamed has been in the cache.
NewerWritten ==
  /\ fetch.stage \in Writing => fetch.version <= remote[fetch.url]
  /\ fetch.stage \in {"openBody", "fillBody", "renameBody"} =>
       \A v \in files[fetch.url].held : v <= fetch.version

\* Nobody changes the sidecar while the request is under way.
EtagRead == At("asked") => fetch.etag = files[fetch.url].meta

FreshInv ==
  /\ \A f \in recoverable, u \in Urls : Newest(f, u)
  /\ NewerWritten
  /\ EtagRead

\* What FetchOne takes a 304 for: the cache holds what the server serves.
NotModifiedIsCurrent ==
  At("asked") /\ fetch.etag = remote[fetch.url] => files[fetch.url].body = remote[fetch.url]

\* The order of the versions.
LEMMA VersionOrder ==
  ASSUME NEW x \in Versions, NEW y \in Versions, NEW z \in Versions
  PROVE  /\ x <= x
         /\ x <= y /\ y <= z => x <= z
         /\ x <= y /\ y <= x => x = y
<1>1. x \in Nat /\ y \in Nat /\ z \in Nat
  BY StoreAssumption
<1>2. QED
  BY SMTT(30), Z3, <1>1

\* Nothing is fetched, and nothing is in the directory that could not have been.
LEMMA QuietFresh ==
  ASSUME FreshInv, UNCHANGED remote, recoverable' \subseteq recoverable,
         fetch'.stage \in {"sweep", "idle"}
  PROVE  FreshInv'
BY DEF FreshInv, Newest, NewerWritten, EtagRead, Writing, At

\* One directory more.
LEMMA ChangedFresh ==
  ASSUME FreshInv, UNCHANGED remote, NEW f, Changed(f), \A u \in Urls : Newest(f, u)
  PROVE  (\A g \in recoverable, u \in Urls : Newest(g, u))'
BY DEF FreshInv, Newest, Changed

LEMMA SweepFresh ==
  ASSUME StoreInv, FreshInv, SweepSteps
  PROVE  FreshInv'
<1>1. CASE (\E u \in Urls, kind \in Kinds : SweepTmp(u, kind)) \/ SweepEnds
  BY <1>1, QuietFresh, IdleType DEF SweepTmp, SweepEnds, InSweep, disk
<1>2. ASSUME NEW u \in Urls, SweepMeta(u) \/ SweepBody(u)
      PROVE  FreshInv'
  <2>1. files \in Directories /\ \A w \in Urls : Newest(files, w)
    BY DEF StoreInv, StoreTypeOK, FreshInv
  <2>2. PICK f : Changed(f) /\ \A w \in Urls : Newest(f, w)
    <3>1. CASE SweepMeta(u)
      <4>. DEFINE f == [files EXCEPT ![u].meta = Absent]
      <4>1. \A w \in Urls : f[w].held = files[w].held /\ f[w].body = files[w].body
        BY <2>1 DEF Directories
      <4>2. \A w \in Urls : Newest(f, w)
        BY <2>1, <4>1 DEF Newest
      <4>3. QED
        BY <3>1, <4>2 DEF SweepMeta
    <3>2. CASE SweepBody(u)
      <4>. DEFINE f == [files EXCEPT ![u].body = Absent, ![u].held = {}]
      <4>1. f[u].held = {} /\ \A w \in Urls \ {u} : f[w] = files[w]
        BY <2>1 DEF Directories
      <4>2. \A w \in Urls : Newest(f, w)
        BY <2>1, <4>1 DEF Newest
      <4>3. QED
        BY <3>2, <4>2 DEF SweepBody
    <3>3. QED
      BY <1>2, <3>1, <3>2
  <2>3. UNCHANGED <<remote, fetch>> /\ fetch.stage = "sweep"
    BY <1>2 DEF SweepMeta, SweepBody, InSweep
  <2>4. (\A g \in recoverable, w \in Urls : Newest(g, w))'
    BY <2>2, <2>3, ChangedFresh
  <2>5. QED
    BY <2>3, <2>4 DEF FreshInv, NewerWritten, EtagRead, Writing, At
<1>3. QED
  BY <1>1, <1>2 DEF SweepSteps

\* The request and its answer.
LEMMA FetchFresh ==
  ASSUME StoreInv, FreshInv,
         FetchStarts \/ Tick \/ RequestFails \/ NotModified \/ BodyRefused \/ BodyArrives
  PROVE  FreshInv'
<1>0. StoreTypeOK /\ UNCHANGED <<remote, files, recoverable>>
  BY DEF StoreInv, FetchStarts, Tick, RequestFails, NotModified, BodyRefused, BodyArrives, disk
<1>1. CASE Tick \/ RequestFails \/ NotModified \/ BodyRefused
  BY <1>0, <1>1, QuietFresh, IdleType DEF Tick, RequestFails, NotModified, BodyRefused, Finish
<1>2. CASE FetchStarts
  <2>1. fetch'.stage = "asked" /\ fetch'.url = Head(todo) /\ fetch'.etag = files[Head(todo)].meta
    BY <1>2 DEF FetchStarts, Idle
  <2>2. QED
    BY <1>0, <2>1 DEF FreshInv, Newest, NewerWritten, EtagRead, Writing, At
<1>3. CASE BodyArrives
  <2>1. /\ fetch.url \in Urls /\ remote[fetch.url] \in Nat
        /\ fetch'.stage = "openBody" /\ fetch'.url = fetch.url
        /\ fetch'.version = remote[fetch.url]
    BY <1>0, <1>3, StoreAssumption DEF BodyArrives, StoreTypeOK, Fetches, At
  <2>2. \A v \in files[fetch.url].held : v <= remote[fetch.url]
    <3>1. Newest(files, fetch.url)
      BY <1>0, <2>1 DEF FreshInv, StoreTypeOK
    <3>2. remote[fetch.url] \in Versions
      BY <1>0, <2>1 DEF StoreTypeOK
    <3>3. QED
      BY SMTT(30), Z3, <3>1, <3>2, VersionOrder DEF Newest
  <2>3. remote[fetch.url] <= remote[fetch.url]
    BY SMTT(30), Z3, <2>1
  <2>4. QED
    BY <1>0, <2>1, <2>2, <2>3 DEF FreshInv, Newest, NewerWritten, EtagRead, At
<1>4. QED
  BY <1>1, <1>2, <1>3

\* The steps of Write.
LEMMA WriteFresh ==
  ASSUME StoreInv, FreshInv, WriteSteps \/ WriteFaults
  PROVE  FreshInv'
<1>0. StoreTypeOK /\ InWrite /\ files \in Directories /\ Versions \subseteq Nat
  BY StoreAssumption DEF StoreInv, StoreTypeOK
<1>1. CASE \/ OpenTmp("openBody", "body", "fillBody")
           \/ FillTmp("fillBody", "body", "renameBody")
           \/ OpenTmp("openMeta", "meta", "fillMeta")
           \/ FillTmp("fillMeta", "meta", "renameMeta")
  <2>1. UNCHANGED <<remote, files, recoverable>>
    BY <1>1 DEF OpenTmp, FillTmp
  <2>2. /\ fetch'.url = fetch.url /\ fetch'.version = fetch.version
        /\ fetch.stage \in Writing /\ fetch'.stage \in Writing
        /\ fetch'.stage \in {"openBody", "fillBody", "renameBody"} =>
             fetch.stage \in {"openBody", "fillBody", "renameBody"}
    BY <1>0, <1>1 DEF OpenTmp, FillTmp, At, StoreTypeOK, Fetches, Writing
  <2>3. QED
    BY <2>1, <2>2 DEF FreshInv, Newest, NewerWritten, EtagRead, Writing, At
<1>2. CASE Rename("renameBody", "body", "openMeta") \/ Rename("renameMeta", "meta", "sync")
  <2>. DEFINE u == fetch.url
              v == fetch.version
              kind == IF At("renameBody") THEN "body" ELSE "meta"
              f == [files EXCEPT ![u] = Renamed(@, kind, tmps[u][kind])]
  <2>1. /\ u \in Urls /\ v \in Versions /\ v <= remote[u]
        /\ At("renameBody") => tmps[u].body = v /\ \A x \in files[u].held : x <= v
    BY <1>0, <1>2 DEF Rename, At, StoreTypeOK, InWrite, Writing, FreshInv, NewerWritten
  <2>2. Changed(f) /\ UNCHANGED remote
    BY <1>2 DEF Rename, At
  <2>3. /\ fetch'.url = u /\ fetch'.version = v
        /\ fetch'.stage \in {"openMeta", "sync"}
    BY <1>0, <1>2 DEF Rename, StoreTypeOK, Fetches
  <2>4. \A w \in Urls : Newest(f, w)
    <3>1. \A w \in Urls : Newest(files, w)
      BY <1>0 DEF FreshInv, StoreTypeOK
    <3>2. \A w \in Urls \ {u} : f[w] = files[w]
      BY <1>0 DEF Directories
    <3>3. Newest(f, u)
      <4>1. CASE kind = "meta"
        <5>1. f[u].held = files[u].held /\ f[u].body = files[u].body
          BY <1>0, <2>1, <4>1 DEF Directories, Renamed
        <5>2. QED
          BY <2>1, <3>1, <5>1 DEF Newest
      <4>2. CASE kind = "body"
        <5>1. At("renameBody") /\ tmps[u][kind] = v
          BY <2>1, <4>2
        <5>2. f[u].held = files[u].held \cup {v} /\ f[u].body = v
          BY <1>0, <2>1, <4>2, <5>1 DEF Directories, Renamed
        <5>3. v <= v
          BY <2>1, VersionOrder
        <5>4. \A x \in files[u].held : x \in Versions
          BY <2>1, <3>1 DEF Newest
        <5>5. QED
          BY <2>1, <5>1, <5>2, <5>3, <5>4 DEF Newest
      <4>3. QED
        BY <4>1, <4>2
    <3>4. QED
      BY <3>1, <3>2, <3>3 DEF Newest
  <2>5. (\A g \in recoverable, w \in Urls : Newest(g, w))'
    BY <2>2, <2>4, ChangedFresh
  <2>6. QED
    BY <2>1, <2>2, <2>3, <2>5 DEF FreshInv, NewerWritten, EtagRead, At
<1>3. CASE SyncDir \/ WriteFaults
  <2>1. UNCHANGED remote /\ recoverable' \subseteq recoverable /\ fetch'.stage = "idle"
    BY <1>0, <1>3, IdleType DEF SyncDir, WriteFaults, WriteFails, Finish, StoreTypeOK
  <2>2. QED
    BY <2>1, QuietFresh
<1>4. QED
  BY <1>1, <1>2, <1>3 DEF WriteSteps

\* The servers go on to later versions.
LEMMA PublishFresh ==
  ASSUME StoreInv, FreshInv, ~MayRevert, NEW u \in Urls, NEW v \in Versions, Publish(u, v)
  PROVE  FreshInv'
<1>0. /\ StoreTypeOK /\ InWrite /\ Versions \subseteq Nat
      /\ UNCHANGED <<files, recoverable, fetch>>
  BY StoreAssumption DEF StoreInv, Publish, disk
<1>1. \A w \in Urls : remote[w] \in Nat /\ remote'[w] \in Nat /\ remote[w] <= remote'[w]
  <2>1. /\ \A w \in Urls : remote[w] \in Nat
        /\ v \in Nat /\ v > remote[u]
        /\ remote' = [remote EXCEPT ![u] = v] /\ DOMAIN remote = Urls
    BY <1>0 DEF Publish, StoreTypeOK
  <2>2. QED
    BY SMTT(30), Z3, <2>1
<1>2. ASSUME NEW x \in Nat, NEW w \in Urls, x <= remote[w]
      PROVE  x <= remote'[w]
  BY SMTT(30), Z3, <1>1, <1>2
<1>3. (\A f \in recoverable, w \in Urls : Newest(f, w))'
  BY <1>0, <1>2 DEF FreshInv, Newest
<1>4. NewerWritten'
  <2>1. fetch.stage \in Writing => fetch.url \in Urls /\ fetch.version \in Nat
    BY <1>0 DEF StoreTypeOK, InWrite, Writing
  <2>2. QED
    BY <1>0, <1>2, <2>1 DEF FreshInv, NewerWritten
<1>5. QED
  BY <1>0, <1>3, <1>4 DEF FreshInv, EtagRead, At

LEMMA FreshNext ==
  ASSUME StoreInv, FreshInv, ~MayRevert, [StoreNext]_storeVars
  PROVE  FreshInv'
<1>1. CASE FetcherSteps \/ RequestFails \/ WriteFaults
  BY <1>1, SweepFresh, FetchFresh, WriteFresh DEF FetcherSteps, FetchSteps
<1>2. CASE \E u \in Urls, v \in Versions : Publish(u, v)
  BY <1>2, PublishFresh
<1>3. CASE \E config \in Configs : Crash(config) \/ \E f \in recoverable : PowerLoss(f, config)
  BY <1>3, QuietFresh, IdleType DEF Crash, PowerLoss, Restart
<1>4. CASE UNCHANGED storeVars
  BY <1>4 DEF storeVars, disk, FreshInv, Newest, NewerWritten, EtagRead, At
<1>5. QED
  BY <1>1, <1>2, <1>3, <1>4 DEF StoreNext

\* Where servers only publish later versions, FetchOne is right to keep the body on a
\* 304, whichever writes failed and whenever the process or the machine stopped: the
\* ETag it sent is that of the body.
THEOREM NotModifiedIsSound == ~MayRevert => (StoreSpec => []NotModifiedIsCurrent)
<1>. SUFFICES ASSUME ~MayRevert PROVE StoreSpec => []NotModifiedIsCurrent
  OBVIOUS
<1>1. StoreInit => FreshInv
  BY SMTT(30), Z3, IdleType DEF StoreInit, FreshInv, Newest, NewerWritten, EtagRead, NoFile, Writing, At
<1>2. StoreInv /\ FreshInv /\ [StoreNext]_storeVars => FreshInv'
  BY FreshNext
<1>3. ASSUME StoreInv, FreshInv
      PROVE  NotModifiedIsCurrent
  <2>. SUFFICES ASSUME At("asked"), fetch.etag = remote[fetch.url]
                PROVE  files[fetch.url].body = remote[fetch.url]
    BY DEF NotModifiedIsCurrent
  <2>1. /\ fetch.url \in Urls /\ files \in recoverable
        /\ remote[fetch.url] \in Versions
        /\ files[fetch.url].meta = remote[fetch.url]
    BY <1>3 DEF StoreInv, StoreTypeOK, FreshInv, EtagRead, At
  <2>2. remote[fetch.url] \in files[fetch.url].held
    BY <1>3, <2>1, StoreAssumption DEF StoreInv, SidecarNeverAhead
  <2>3. Newest(files, fetch.url)
    BY <1>3, <2>1 DEF FreshInv
  <2>4. QED
    BY <2>1, <2>2, <2>3, VersionOrder DEF Newest
<1>4. QED
  BY <1>1, <1>2, <1>3, StoreSpecInv, PTL DEF StoreSpec

-----------------------------------------------------------------------------
(***************************************************************************)
(* The reloads.                                                            *)
(*                                                                         *)
(* The matcher is taken from a load, so that what holds of it must hold of *)
(* every load under way (LoadsComplete, FetcherLoads).  That no new body   *)
(* is forgotten is a matter of what a cycle owes the matcher (NothingOwed),*)
(* where the body that is being written is the one exception.              *)
(***************************************************************************)

\* What a load may find: a body that FetchOne did not refuse, none, or a file that
\* can be read to its end.
Read == (Versions \ Unparsable) \cup {Absent} \cup ReadableFiles

RefreshTypeOK ==
  /\ file \in FileContents \cup {Absent}
  /\ fetcher \in {"cycle", "select", "reload", "load", "gauge", "done"}
  /\ hangup \in {"select", "reload", "load", "gauge", "poke", "done"}
  /\ {changed, signal, stopping} \subseteq BOOLEAN
  /\ load \in [Goroutines -> Seq(Read)]
  /\ matcher \in Seq(Read)
  /\ {edits, signals} \subseteq Nat

\* A load does not go past the file, and does not get past a file that it cannot read.
LoadsComplete ==
  \A g \in Goroutines :
    /\ Len(load[g]) <= Len(sources)
    /\ Len(load[g]) = Len(sources) => load[g][Len(sources)] \in ReadableFiles

\* What the fetcher has read of a target is what is cached.
FetcherLoads ==
  fetcher = "load" =>
    \A i \in DOMAIN targets : i <= Len(load["fetcher"]) =>
      load["fetcher"][i] = files[targets[i]].body

\* The SIGHUP goroutine waits for the first signal.
NotYetSignalled == signals = 0 /\ ~stopping => hangup = "select" /\ ~signal

\* The file is as it was when bns started.
NotYetEdited == edits = 0 => ~FileFails

\* The body of target i is in place, and FetchOne has not returned yet.
BeingStored(i) ==
  /\ fetch.stage \in {"openMeta", "fillMeta", "renameMeta", "sync"}
  /\ fetch.url = targets[i]

\* Unless a reload is due, only the body being stored is not in the matcher.
NothingOwed ==
  faults = 0 /\ signals = 0 /\ edits = 0 /\ ~stopping =>
    /\ fetcher \in {"select", "gauge"} => MatcherCurrent
    /\ fetcher = "cycle" /\ ~changed =>
         \A i \in DOMAIN targets :
           ~BeingStored(i) => matcher[i] = files[targets[i]].body

RefreshInv ==
  /\ StoreInv
  /\ RefreshTypeOK
  /\ LoadsComplete
  /\ MatcherComplete
  /\ FetcherLoads
  /\ NotYetSignalled
  /\ NotYetEdited
  /\ NothingOwed

-----------------------------------------------------------------------------
(***************************************************************************)
(* What the steps of the cache and of the servers leave alone.             *)
(***************************************************************************)

\* The file comes last, and is the only source that is not a target.
LEMMA SourceOrder ==
  ASSUME targets \in Configs
  PROVE  /\ Len(targets) \in Nat /\ DOMAIN targets = 1 .. Len(targets)
         /\ Len(sources) = Len(targets) + 1
         /\ \A i \in DOMAIN targets : sources[i] = targets[i] /\ targets[i] \in Urls
         /\ sources[Len(sources)] = File
<1>1. targets \in Seq(Urls)
  BY StoreAssumption
<1>2. QED
  BY SMTT(30), Z3, <1>1 DEF sources

\* No step of the cache or of a server moves the targets, or takes back a fault.
LEMMA StoreFrame ==
  ASSUME StoreInv,
         \/ SweepSteps \/ FetchStarts \/ FetchSkipped \/ NotModified \/ BodyRefused
         \/ BodyArrives \/ WriteSteps \/ RequestFails \/ RequestCancelled \/ WriteFaults
         \/ \E u \in Urls, v \in Versions : Publish(u, v)
  PROVE  StoreInv' /\ UNCHANGED targets /\ (faults' = 0 => faults = 0)
<1>0. StoreTypeOK /\ faults \in Nat
  BY DEF StoreInv, StoreTypeOK
<1>1. Fault \/ NoFault => (faults' = 0 => faults = 0)
  BY SMTT(30), Z3, <1>0 DEF Fault, NoFault
<1>2. CASE SweepSteps
  BY <1>1, <1>2, SweepInv DEF SweepSteps, SweepTmp, SweepMeta, SweepBody, SweepEnds, bounds, NoFault
<1>3. CASE FetchStarts \/ NotModified \/ BodyRefused \/ BodyArrives \/ RequestFails
  BY <1>1, <1>3, FetchInv DEF FetchStarts, NotModified, BodyRefused, BodyArrives, RequestFails, bounds
<1>4. CASE FetchSkipped \/ RequestCancelled
  <2>1. /\ UNCHANGED <<remote, disk, targets, bounds>>
        /\ \E o \in {"none", "failure"} : fetch' = Idle(o)
        /\ (todo' = todo \/ (todo # << >> /\ todo' = Tail(todo)))
    BY <1>4 DEF FetchSkipped, RequestCancelled
  <2>2. todo' \in Seq(Urls)
    <3>1. todo \in Seq(Urls)
      BY <1>0 DEF StoreTypeOK
    <3>2. CASE todo # << >> /\ todo' = Tail(todo)
      BY SMTT(30), Z3, <3>1, <3>2
    <3>3. QED
      BY <2>1, <3>1, <3>2
  <2>3. StoreInv'
    BY <1>0, <2>1, <2>2, IdleType, QuietInv DEF disk, bounds, StoreTypeOK
  <2>4. QED
    BY <2>1, <2>3 DEF bounds
<1>5. CASE WriteSteps
  BY <1>1, <1>5, TmpInv, RenameBodyInv, RenameMetaInv, SyncInv
     DEF WriteSteps, OpenTmp, FillTmp, Rename, SyncDir, bounds
<1>6. CASE WriteFaults
  BY <1>1, <1>6, WriteFaultInv DEF WriteFaults, WriteFails
<1>7. CASE \E u \in Urls, v \in Versions : Publish(u, v)
  BY <1>7, WorldInv DEF Publish
<1>8. QED
  BY <1>2, <1>3, <1>4, <1>5, <1>6, <1>7

\* The properties that are about the goroutines' own variables.
LEMMA OthersSame ==
  ASSUME RefreshInv, UNCHANGED <<refreshVars, targets>>
  PROVE  (RefreshTypeOK /\ LoadsComplete /\ MatcherComplete /\ NotYetSignalled /\ NotYetEdited)'
<1>. USE DEF RefreshInv, refreshVars
<1>1. RefreshTypeOK'
  BY DEF RefreshTypeOK
<1>2. LoadsComplete' /\ MatcherComplete'
  BY DEF LoadsComplete, MatcherComplete, sources
<1>3. NotYetSignalled' /\ NotYetEdited'
  BY DEF NotYetSignalled, NotYetEdited, FileFails, ReadableFiles
<1>4. QED
  BY <1>1, <1>2, <1>3

-----------------------------------------------------------------------------
(***************************************************************************)
(* A cycle.                                                                *)
(***************************************************************************)

\* A step of a cycle leaves the body of target i as it was, unless the step is one
\* of those between the rename of that body and the end of its fetch.
Accounted(i) ==
  \/ BeingStored(i)'
  \/ ~BeingStored(i) /\ files'[targets[i]].body = files[targets[i]].body

\* No step of the sweep touches the body of a target.
LEMMA SweepAccounted ==
  ASSUME StoreInv, SweepSteps, NEW i \in DOMAIN targets
  PROVE  Accounted(i)
<1>0. files \in Directories /\ targets[i] \in Urls /\ targets[i] \in keep
  BY SourceOrder DEF StoreInv, StoreTypeOK, keep
<1>1. fetch.stage = "sweep"
  BY DEF SweepSteps, SweepTmp, SweepMeta, SweepBody, SweepEnds, InSweep
<1>2. ~BeingStored(i)
  BY <1>1 DEF BeingStored
<1>3. ASSUME NEW u \in Urls, SweepMeta(u)
      PROVE  files'[targets[i]].body = files[targets[i]].body
  BY <1>0, <1>3 DEF SweepMeta, Changed, Directories
<1>4. ASSUME NEW u \in Urls, SweepBody(u)
      PROVE  files'[targets[i]].body = files[targets[i]].body
  BY <1>0, <1>4 DEF SweepBody, Changed, Directories
<1>5. CASE UNCHANGED files
  BY <1>2, <1>5 DEF Accounted
<1>6. QED
  BY <1>2, <1>3, <1>4, <1>5 DEF SweepSteps, SweepTmp, SweepEnds, disk, Accounted

\* Before the body is renamed no body changes; the rename opens the interval in
\* which its target is being stored, and the sync closes it.
LEMMA WriteAccounted ==
  ASSUME StoreInv, WritesBefore, NEW i \in DOMAIN targets
  PROVE  Accounted(i)
<1>0. /\ files \in Directories /\ fetch \in Fetches
      /\ targets[i] \in Urls
      /\ UNCHANGED targets
  BY SourceOrder, StoreFrame DEF StoreInv, StoreTypeOK, WritesBefore
<1>1. ASSUME NEW from, NEW kind, NEW to,
             OpenTmp(from, kind, to) \/ FillTmp(from, kind, to)
      PROVE  /\ UNCHANGED files /\ fetch.stage = from
             /\ fetch'.stage = to /\ fetch'.url = fetch.url
  BY <1>0, <1>1 DEF OpenTmp, FillTmp, At, Fetches
<1>2. CASE OpenTmp("openBody", "body", "fillBody") \/ FillTmp("fillBody", "body", "renameBody")
  BY <1>1, <1>2 DEF Accounted, BeingStored
<1>3. CASE OpenTmp("openMeta", "meta", "fillMeta") \/ FillTmp("fillMeta", "meta", "renameMeta")
  <2>1. UNCHANGED files /\ fetch'.stage \in {"fillMeta", "renameMeta"} /\ fetch'.url = fetch.url
    BY <1>1, <1>3
  <2>2. QED
    BY <1>0, <2>1 DEF Accounted, BeingStored
<1>4. ASSUME NEW from, NEW kind, NEW to, to \in {"openMeta", "sync"}, Rename(from, kind, to)
      PROVE  /\ fetch'.stage = to /\ fetch'.url = fetch.url
             /\ fetch.stage = from
             /\ targets[i] # fetch.url => files'[targets[i]] = files[targets[i]]
  BY <1>0, <1>4 DEF Rename, Changed, At, Fetches, Directories
<1>5. CASE Rename("renameBody", "body", "openMeta") \/ Rename("renameMeta", "meta", "sync")
  <2>1. /\ fetch'.stage \in {"openMeta", "sync"} /\ fetch'.url = fetch.url
        /\ targets[i] # fetch.url => files'[targets[i]] = files[targets[i]]
    BY <1>4, <1>5
  <2>2. QED
    BY <1>0, <2>1 DEF Accounted, BeingStored
<1>6. QED
  BY <1>2, <1>3, <1>5 DEF WritesBefore, WriteSteps, SyncDir

\* A step of a cycle that is no fault, and is not due to the shutdown.
LEMMA CycleAccounted ==
  ASSUME StoreInv,
         \/ SweepSteps \/ FetchStarts \/ FetchSkipped \/ NotModified \/ BodyRefused
         \/ BodyArrives \/ WritesBefore \/ RequestFails \/ RequestCancelled \/ WriteFaults,
         faults' = 0, ~stopping,
         NEW i \in DOMAIN targets
  PROVE  Accounted(i)
<1>0. faults \in Nat
  BY DEF StoreInv, StoreTypeOK
<1>1. ~Fault
  BY SMTT(30), Z3, <1>0 DEF Fault
<1>2. ~RequestFails /\ ~WriteFaults /\ ~RequestCancelled /\ ~FetchSkipped
  BY <1>1 DEF RequestFails, WriteFaults, WriteFails, RequestCancelled, FetchSkipped
<1>3. CASE FetchStarts \/ NotModified \/ BodyRefused \/ BodyArrives
  BY <1>3 DEF FetchStarts, NotModified, BodyRefused, BodyArrives, At, disk, Accounted, BeingStored
<1>4. QED
  BY <1>2, <1>3, SweepAccounted, WriteAccounted

\* Every step of a cycle, and every failure in one, keeps the invariant.
LEMMA CycleInv ==
  ASSUME RefreshInv, FetcherCycle \/ FetcherFaults
  PROVE  RefreshInv'
<1>0. StoreInv /\ fetcher = "cycle" /\ UNCHANGED refreshVars
  BY DEF RefreshInv, FetcherCycle, FetcherFaults, InCycle
<1>1. \/ SweepSteps \/ FetchStarts \/ FetchSkipped \/ NotModified \/ BodyRefused
      \/ BodyArrives \/ WritesBefore \/ RequestFails \/ RequestCancelled \/ WriteFaults
  BY DEF FetcherCycle, FetcherFaults, InCycle
<1>2. StoreInv' /\ UNCHANGED targets /\ (faults' = 0 => faults = 0)
  BY <1>0, <1>1, StoreFrame DEF WritesBefore
<1>3. (RefreshTypeOK /\ LoadsComplete /\ MatcherComplete /\ NotYetSignalled /\ NotYetEdited)'
  BY <1>0, <1>2, OthersSame
<1>4. FetcherLoads'
  BY <1>0 DEF FetcherLoads, refreshVars
<1>5. NothingOwed'
  <2>. SUFFICES ASSUME faults' = 0, signals' = 0, edits' = 0, ~stopping', ~changed',
                       NEW i \in DOMAIN targets', ~BeingStored(i)'
                PROVE  matcher'[i] = files'[targets'[i]].body
    BY <1>0 DEF NothingOwed, refreshVars
  <2>1. Accounted(i)
    BY <1>0, <1>1, <1>2, CycleAccounted DEF refreshVars
  <2>2. ~BeingStored(i) /\ files'[targets[i]].body = files[targets[i]].body
    BY <2>1 DEF Accounted
  <2>3. matcher[i] = files[targets[i]].body
    BY <1>0, <1>2, <2>2 DEF RefreshInv, NothingOwed, refreshVars
  <2>4. QED
    BY <1>0, <1>2, <2>2, <2>3 DEF refreshVars
<1>6. QED
  BY <1>2, <1>3, <1>4, <1>5 DEF RefreshInv

\* The servers change nothing of bns.
LEMMA PublishedInv ==
  ASSUME RefreshInv, Published
  PROVE  RefreshInv'
<1>0. StoreInv /\ UNCHANGED refreshVars /\ UNCHANGED <<files, fetch>>
  BY DEF RefreshInv, Published, Publish, disk
<1>1. StoreInv' /\ UNCHANGED targets /\ (faults' = 0 => faults = 0)
  BY <1>0, StoreFrame DEF Published
<1>2. (RefreshTypeOK /\ LoadsComplete /\ MatcherComplete /\ NotYetSignalled /\ NotYetEdited)'
  BY <1>0, <1>1, OthersSame
<1>3. FetcherLoads'
  BY <1>0, <1>1 DEF RefreshInv, FetcherLoads, refreshVars
<1>4. NothingOwed'
  BY <1>0, <1>1 DEF RefreshInv, NothingOwed, MatcherCurrent, BeingStored, refreshVars
<1>5. QED
  BY <1>1, <1>2, <1>3, <1>4 DEF RefreshInv

\* A goroutine's step outside the fetches leaves the store and what was read alone.
LEMMA ControlFrame ==
  ASSUME RefreshInv, UNCHANGED <<file, load, matcher, targets>>
  PROVE  /\ LoadsComplete' /\ MatcherComplete'
         /\ load' \in [Goroutines -> Seq(Read)]
         /\ matcher' \in Seq(Read)
         /\ file' \in FileContents \cup {Absent}
BY DEF RefreshInv, RefreshTypeOK, LoadsComplete, MatcherComplete, sources

\* A success is what the flag of the cycle is for.
LEMMA SucceedsInv ==
  ASSUME RefreshInv, FetchSucceeds
  PROVE  RefreshInv'
<1>. USE DEF FetchSucceeds
<1>1. StoreInv' /\ UNCHANGED targets
  BY StoreFrame DEF RefreshInv, WriteSteps
<1>2. RefreshTypeOK' /\ LoadsComplete' /\ MatcherComplete'
  BY <1>1, ControlFrame DEF RefreshInv, RefreshTypeOK
<1>3. FetcherLoads' /\ NotYetSignalled' /\ NotYetEdited' /\ NothingOwed'
  BY DEF RefreshInv, FetcherLoads, NotYetSignalled, NotYetEdited, FileFails, ReadableFiles, NothingOwed
<1>4. QED
  BY <1>1, <1>2, <1>3 DEF RefreshInv

\* The cycle ends with the last fetch, when no body is being stored.
LEMMA CycleEndsInv ==
  ASSUME RefreshInv, CycleEnds
  PROVE  RefreshInv'
<1>. USE DEF CycleEnds
<1>1. StoreInv'
  BY StoreNextInv DEF RefreshInv
<1>2. UNCHANGED <<files, targets, fetch, faults>>
  BY DEF storeVars, disk, bounds
<1>3. RefreshTypeOK' /\ LoadsComplete' /\ MatcherComplete'
  BY <1>2, ControlFrame DEF RefreshInv, RefreshTypeOK
<1>4. FetcherLoads' /\ NotYetSignalled' /\ NotYetEdited'
  BY DEF RefreshInv, FetcherLoads, NotYetSignalled, NotYetEdited, FileFails, ReadableFiles
<1>5. \A i \in DOMAIN targets : ~BeingStored(i)
  BY DEF BeingStored, At
<1>6. NothingOwed'
  BY <1>2, <1>5 DEF RefreshInv, NothingOwed, MatcherCurrent
<1>7. QED
  BY <1>1, <1>3, <1>4, <1>6 DEF RefreshInv

\* A cycle begins with a matcher that holds what is cached.
LEMMA CycleBeginsInv ==
  ASSUME RefreshInv, CycleBegins
  PROVE  RefreshInv'
<1>. USE DEF CycleBegins
<1>1. StoreInv'
  <2>1. StoreInv /\ StoreTypeOK /\ fetch' \in Fetches /\ fetch'.stage = "idle"
    BY IdleType DEF RefreshInv, StoreInv
  <2>2. todo' \in Seq(Urls)
    BY <2>1, StoreAssumption DEF StoreTypeOK
  <2>3. QED
    BY <2>1, <2>2, QuietInv DEF StoreTypeOK, disk, bounds
<1>2. UNCHANGED <<files, targets, faults>>
  BY DEF disk, bounds
<1>3. RefreshTypeOK' /\ LoadsComplete' /\ MatcherComplete'
  BY <1>2, ControlFrame DEF RefreshInv, RefreshTypeOK
<1>4. FetcherLoads' /\ NotYetSignalled' /\ NotYetEdited'
  BY DEF RefreshInv, FetcherLoads, NotYetSignalled, NotYetEdited, FileFails, ReadableFiles
<1>5. NothingOwed'
  BY <1>2 DEF RefreshInv, NothingOwed, MatcherCurrent
<1>6. QED
  BY <1>1, <1>3, <1>4, <1>5 DEF RefreshInv

-----------------------------------------------------------------------------
(***************************************************************************)
(* The steps that leave the store alone.                                   *)
(***************************************************************************)

\* The parts of the invariant that a step outside the fetches keeps.
LEMMA StoreSame ==
  ASSUME RefreshInv, UNCHANGED storeVars
  PROVE  StoreInv' /\ targets \in Configs /\ UNCHANGED <<files, targets, fetch, faults>>
BY StoreNextInv DEF RefreshInv, StoreInv, StoreTypeOK, storeVars, disk, bounds

\* Nor does one that only counts a fault.
LEMMA FaultSame ==
  ASSUME RefreshInv, faults' = faults + 1,
         UNCHANGED <<remote, disk, targets, todo, fetch, changes, crashes>>
  PROVE  StoreInv' /\ targets \in Configs /\ UNCHANGED <<files, targets, fetch>>
<1>1. StoreInv /\ UNCHANGED <<remote, files, tmps, recoverable, targets, todo, fetch, changes, crashes>>
  BY DEF RefreshInv, disk
<1>2. StoreTypeOK'
  <2>1. faults' \in Nat
    BY SMTT(30), Z3 DEF RefreshInv, StoreInv, StoreTypeOK
  <2>2. QED
    BY <1>1, <2>1 DEF StoreInv, StoreTypeOK
<1>3. InWrite' /\ WholeBody' /\ SidecarNeverAhead'
  BY <1>1 DEF StoreInv, InWrite, At, WholeBody, SidecarNeverAhead
<1>4. QED
  BY <1>1, <1>2, <1>3 DEF StoreInv, StoreTypeOK

\* The fetcher leaves its select for good, and the SIGHUP goroutine moves on.
LEMMA ControlInv ==
  ASSUME RefreshInv,
         FetcherStops \/ HangupReceived \/ RefreshNow \/ HangupStops \/ Hangup \/ Stop
  PROVE  RefreshInv'
<1>1. UNCHANGED <<storeVars, file, load, matcher, changed, edits>>
  BY DEF FetcherStops, HangupReceived, RefreshNow, HangupStops, Hangup, Stop
<1>2. StoreInv' /\ UNCHANGED <<files, targets, fetch, faults>>
  BY <1>1, StoreSame
<1>3. signals \in Nat /\ signals' \in Nat
  <2>1. signals \in Nat
    BY DEF RefreshInv, RefreshTypeOK
  <2>2. CASE Hangup
    BY SMTT(30), Z3, <2>1, <2>2 DEF Hangup
  <2>3. QED
    BY <2>1, <2>2 DEF FetcherStops, HangupReceived, RefreshNow, HangupStops, Stop
<1>4. signals' = 0 => signals = 0 /\ ~Hangup
  BY SMTT(30), Z3, <1>3 DEF FetcherStops, HangupReceived, RefreshNow, HangupStops, Hangup, Stop
<1>5. RefreshTypeOK' /\ LoadsComplete' /\ MatcherComplete'
  <2>1. LoadsComplete' /\ MatcherComplete'
    BY <1>1, <1>2, ControlFrame
  <2>2. RefreshTypeOK'
    BY <1>1, <1>2, <1>3, ControlFrame
       DEF RefreshInv, RefreshTypeOK, FetcherStops, HangupReceived, RefreshNow, HangupStops,
           Hangup, Stop
  <2>3. QED
    BY <2>1, <2>2
<1>6. FetcherLoads'
  BY <1>1, <1>2 DEF RefreshInv, FetcherLoads, FetcherStops, HangupReceived, RefreshNow,
                    HangupStops, Hangup, Stop
<1>7. NotYetSignalled' /\ NotYetEdited'
  BY <1>1, <1>4 DEF RefreshInv, NotYetSignalled, NotYetEdited, FileFails, ReadableFiles, FetcherStops,
                    HangupReceived, RefreshNow, HangupStops, Stop
<1>8. NothingOwed'
  <2>1. fetcher' = fetcher \/ fetcher' = "done"
    BY DEF FetcherStops, HangupReceived, RefreshNow, HangupStops, Hangup, Stop
  <2>2. ~stopping' => ~stopping
    BY DEF FetcherStops, HangupReceived, RefreshNow, HangupStops, Hangup, Stop
  <2>3. QED
    BY <1>1, <1>2, <1>4, <2>1, <2>2 DEF RefreshInv, NothingOwed, MatcherCurrent, BeingStored
<1>9. QED
  BY <1>2, <1>5, <1>6, <1>7, <1>8 DEF RefreshInv

\* What was read, and what is in the matcher, does not follow an edit of the file.
LEMMA EditInv ==
  ASSUME RefreshInv, NEW c \in FileContents \cup {Absent}, EditFile(c)
  PROVE  RefreshInv'
<1>. USE DEF EditFile
<1>1. StoreInv' /\ UNCHANGED <<files, targets, fetch, faults>>
  BY StoreSame
<1>2. edits \in Nat
  BY DEF RefreshInv, RefreshTypeOK
<1>3. edits' \in Nat /\ edits' # 0
  BY SMTT(30), Z3, <1>2
<1>4. RefreshTypeOK'
  BY <1>3 DEF RefreshInv, RefreshTypeOK
<1>5. LoadsComplete' /\ MatcherComplete'
  BY <1>1 DEF RefreshInv, LoadsComplete, MatcherComplete, sources
<1>6. FetcherLoads' /\ NotYetSignalled'
  BY <1>1 DEF RefreshInv, FetcherLoads, NotYetSignalled
<1>7. NotYetEdited' /\ NothingOwed'
  BY <1>3 DEF NotYetEdited, NothingOwed
<1>8. QED
  BY <1>1, <1>4, <1>5, <1>6, <1>7 DEF RefreshInv

-----------------------------------------------------------------------------
(***************************************************************************)
(* reloadFromDisk.                                                         *)
(***************************************************************************)

\* A reload moves its own goroutine only; the SIGHUP goroutine reloads after a
\* signal only.
LEMMA ReloadFrame ==
  ASSUME RefreshInv, NEW g \in Goroutines, Reload(g)
  PROVE  /\ StoreInv' /\ targets \in Configs
         /\ UNCHANGED <<files, targets, fetch, file, changed, signal, stopping, edits,
                        signals>>
         /\ UNCHANGED faults \/ (LoadFails(g) /\ faults' = faults + 1)
         /\ Where(g) \in {"reload", "load", "gauge"}
         /\ g = "fetcher" => UNCHANGED hangup
         /\ g = "hangup" => UNCHANGED fetcher
         /\ Where(g)' \in {"load", "gauge", Returned(g)}
         /\ signals = 0 /\ ~stopping => g = "fetcher"
         /\ NotYetSignalled' /\ NotYetEdited'
<1>1. /\ UNCHANGED <<remote, disk, targets, todo, fetch, changes, crashes, file, changed,
                     signal, stopping, edits, signals>>
      /\ UNCHANGED faults \/ (LoadFails(g) /\ faults' = faults + 1)
      /\ Where(g) \in {"reload", "load", "gauge"}
  <2>1. CASE ReloadBegins(g) \/ LoadSource(g) \/ SwapMatcher(g) \/ SetGauge(g)
    <3>1. UNCHANGED storeVars
      BY <2>1 DEF ReloadBegins, LoadSource, SwapMatcher, SetGauge
    <3>2. /\ UNCHANGED <<file, changed, signal, stopping, edits, signals>>
          /\ Where(g) \in {"reload", "load", "gauge"}
      BY <2>1 DEF ReloadBegins, LoadSource, SwapMatcher, SetGauge
    <3>3. UNCHANGED <<remote, disk, targets, todo, fetch, changes, crashes>> /\ UNCHANGED faults
      BY <3>1 DEF storeVars, bounds
    <3>4. QED
      BY <3>2, <3>3
  <2>2. CASE LoadFails(g)
    <3>1. UNCHANGED faults \/ faults' = faults + 1
      BY <2>2 DEF LoadFails, Misread, Fault, NoFault
    <3>2. /\ UNCHANGED <<remote, disk, targets, todo, fetch, changes, crashes, file, changed,
                         signal, stopping, edits, signals>>
          /\ Where(g) = "load"
      BY <2>2 DEF LoadFails, Misread
    <3>3. QED
      BY <2>2, <3>1, <3>2
  <2>3. QED
    BY <2>1, <2>2 DEF Reload
<1>2. StoreInv' /\ targets \in Configs /\ UNCHANGED <<files, targets, fetch>>
  <2>1. CASE UNCHANGED faults
    BY <1>1, <2>1, StoreSame DEF storeVars, bounds
  <2>2. CASE faults' = faults + 1
    BY <1>1, <2>2, FaultSame
  <2>3. QED
    BY <1>1, <2>1, <2>2
<1>3. /\ g = "fetcher" => UNCHANGED hangup
      /\ g = "hangup" => UNCHANGED fetcher
      /\ Where(g)' \in {"load", "gauge", Returned(g)}
  BY DEF Reload, ReloadBegins, LoadSource, LoadFails, SwapMatcher, SetGauge, Goto, Where,
         Goroutines
<1>4. signals = 0 /\ ~stopping => g = "fetcher"
  BY <1>1 DEF RefreshInv, NotYetSignalled, Where, Goroutines
<1>5. NotYetSignalled'
  BY <1>1, <1>3, <1>4 DEF RefreshInv, NotYetSignalled
<1>6. NotYetEdited'
  BY <1>1 DEF RefreshInv, NotYetEdited, FileFails, ReadableFiles
<1>7. QED
  BY <1>1, <1>2, <1>3, <1>4, <1>5, <1>6

\* What HTTPSource.Load finds.
LEMMA CachedRead == ASSUME StoreInv, NEW u \in Urls PROVE files[u].body \in Read
<1>1. files \in recoverable
  BY DEF StoreInv, StoreTypeOK
<1>2. QED
  BY <1>1 DEF StoreInv, WholeBody, Read

\* What a Load returns is of its type; without an error it is the file's content, or
\* the body in the cache.
LEMMA ContentRead ==
  ASSUME RefreshInv, NEW n \in Nat, n < Len(sources), sources[n + 1] = File => ~FileFails
  PROVE  /\ Content(sources[n + 1]) \in Read
         /\ n + 1 = Len(sources) => Content(sources[n + 1]) \in ReadableFiles
         /\ \A i \in DOMAIN targets : i = n + 1 => Content(sources[n + 1]) = files[targets[i]].body
<1>0. targets \in Configs /\ files \in Directories
  BY DEF RefreshInv, StoreInv, StoreTypeOK
<1>1. CASE n + 1 = Len(sources)
  <2>1. sources[n + 1] = File /\ file \in ReadableFiles
    BY <1>0, <1>1, SourceOrder DEF FileFails
  <2>2. n + 1 \notin DOMAIN targets
    BY SMTT(30), Z3, <1>0, <1>1, SourceOrder
  <2>3. QED
    BY <2>1, <2>2 DEF Content, Read
<1>2. CASE n + 1 # Len(sources)
  <2>1. n + 1 \in DOMAIN targets
    BY SMTT(30), Z3, <1>0, <1>2, SourceOrder
  <2>2. sources[n + 1] = targets[n + 1] /\ targets[n + 1] \in Urls
    BY <1>0, <2>1, SourceOrder
  <2>3. Content(sources[n + 1]) = files[targets[n + 1]].body
    BY <2>2, RefreshAssumption DEF Content
  <2>4. QED
    BY <1>2, <2>2, <2>3, CachedRead DEF RefreshInv
<1>3. QED
  BY <1>1, <1>2

\* A load that begins, or is over, has read nothing.
LEMMA LoadEmpty ==
  ASSUME RefreshInv, NEW g \in Goroutines, load' = [load EXCEPT ![g] = << >>],
         UNCHANGED <<files, targets>>,
         g = "hangup" => UNCHANGED fetcher
  PROVE  load' \in [Goroutines -> Seq(Read)] /\ LoadsComplete' /\ FetcherLoads'
<1>0. load \in [Goroutines -> Seq(Read)] /\ targets \in Configs
  BY DEF RefreshInv, RefreshTypeOK, StoreInv, StoreTypeOK
<1>1. << >> \in Seq(Read) /\ Len(<< >>) = 0 /\ Len(sources) \in Nat \ {0}
  BY SMTT(30), Z3, <1>0, SourceOrder
<1>2. load' \in [Goroutines -> Seq(Read)]
  BY <1>0, <1>1
<1>3. LoadsComplete'
  <2>. SUFFICES ASSUME NEW h \in Goroutines
                PROVE  /\ Len(load'[h]) <= Len(sources)
                       /\ Len(load'[h]) = Len(sources) => load'[h][Len(sources)] \in ReadableFiles
    BY DEF LoadsComplete, sources, ReadableFiles
  <2>1. CASE h = g
    BY SMTT(30), Z3, <1>0, <1>1, <2>1
  <2>2. CASE h # g
    BY <1>0, <2>2 DEF RefreshInv, LoadsComplete
  <2>3. QED
    BY <2>1, <2>2
<1>4. FetcherLoads'
  <2>1. CASE g = "fetcher"
    <3>1. \A i \in DOMAIN targets : ~(i <= 0)
      BY SMTT(30), Z3, <1>0, SourceOrder
    <3>2. QED
      BY <1>0, <1>1, <2>1, <3>1 DEF FetcherLoads
  <2>2. CASE g = "hangup"
    BY SMTT(30), Z3, <1>0, <2>2 DEF RefreshInv, FetcherLoads
  <2>3. QED
    BY <2>1, <2>2 DEF Goroutines
<1>5. QED
  BY <1>2, <1>3, <1>4

\* One more source is read.
LEMMA LoadGrows ==
  ASSUME RefreshInv, NEW g \in Goroutines, LoadSource(g)
  PROVE  load' \in [Goroutines -> Seq(Read)] /\ LoadsComplete' /\ FetcherLoads'
<1>. DEFINE n == Len(load[g])
            c == Content(sources[n + 1])
<1>0. /\ load \in [Goroutines -> Seq(Read)] /\ targets \in Configs
      /\ UNCHANGED <<files, targets, fetcher>>
  BY StoreSame DEF RefreshInv, RefreshTypeOK, LoadSource
<1>1. n \in Nat /\ n < Len(sources) /\ load' = [load EXCEPT ![g] = Append(@, c)]
  BY <1>0 DEF LoadSource, NextSource
<1>2. /\ c \in Read
      /\ n + 1 = Len(sources) => c \in ReadableFiles
      /\ \A i \in DOMAIN targets : i = n + 1 => c = files[targets[i]].body
  BY <1>1, ContentRead DEF LoadSource, NextSource
<1>. HIDE DEF c
<1>3. /\ load'[g] \in Seq(Read)
      /\ Len(load'[g]) = n + 1
      /\ load'[g][n + 1] = c
      /\ \A i \in 1 .. n : load'[g][i] = load[g][i]
      /\ \A h \in Goroutines \ {g} : load'[h] = load[h]
  <2>1. load'[g] = Append(load[g], c) /\ load[g] \in Seq(Read)
    BY <1>0, <1>1
  <2>2. \A h \in Goroutines \ {g} : load'[h] = load[h]
    BY <1>0, <1>1
  <2>3. QED
    BY SMTT(30), Z3, <1>2, <2>1, <2>2
<1>4. load' \in [Goroutines -> Seq(Read)]
  BY <1>0, <1>1, <1>3
<1>5. LoadsComplete'
  <2>. SUFFICES ASSUME NEW h \in Goroutines
                PROVE  /\ Len(load'[h]) <= Len(sources)
                       /\ Len(load'[h]) = Len(sources) => load'[h][Len(sources)] \in ReadableFiles
    BY <1>0 DEF LoadsComplete, sources, ReadableFiles
  <2>1. CASE h = g
    <3>1. Len(sources) \in Nat
      BY SMTT(30), Z3, <1>0, SourceOrder
    <3>2. n + 1 <= Len(sources)
      BY SMTT(30), Z3, <1>1, <3>1
    <3>3. QED
      BY <1>2, <1>3, <2>1, <3>2
  <2>2. CASE h # g
    BY <1>3, <2>2 DEF RefreshInv, LoadsComplete
  <2>3. QED
    BY <2>1, <2>2
<1>6. FetcherLoads'
  <2>1. CASE g = "fetcher"
    <3>. SUFFICES ASSUME fetcher = "load", NEW i \in DOMAIN targets, i <= n + 1
                  PROVE  load'[g][i] = files[targets[i]].body
      BY <1>0, <1>3, <2>1 DEF FetcherLoads
    <3>1. i = n + 1 \/ (i \in 1 .. n /\ i <= n)
      BY SMTT(30), Z3, <1>0, <1>1, SourceOrder
    <3>2. QED
      BY <1>2, <1>3, <2>1, <3>1 DEF RefreshInv, FetcherLoads
  <2>2. CASE g = "hangup"
    BY SMTT(30), Z3, <1>0, <1>3, <2>2 DEF RefreshInv, FetcherLoads, Goroutines
  <2>3. QED
    BY <2>1, <2>2 DEF Goroutines
<1>7. QED
  BY <1>4, <1>5, <1>6

\* Only a load that has read every source is swapped in; the fetcher's is what is
\* cached.
LEMMA SwapComplete ==
  ASSUME RefreshInv, NEW g \in Goroutines, SwapMatcher(g)
  PROVE  /\ MatcherComplete' /\ matcher' \in Seq(Read)
         /\ g = "fetcher" => MatcherCurrent'
<1>. USE DEF SwapMatcher
<1>0. /\ load \in [Goroutines -> Seq(Read)] /\ targets \in Configs
      /\ UNCHANGED <<files, targets>>
  BY StoreSame DEF RefreshInv, RefreshTypeOK
<1>1. MatcherComplete'
  BY <1>0 DEF RefreshInv, LoadsComplete, MatcherComplete, sources, ReadableFiles
<1>2. ASSUME g = "fetcher"
      PROVE  MatcherCurrent'
  <2>1. \A i \in DOMAIN targets : i <= Len(load[g])
    BY SMTT(30), Z3, <1>0, SourceOrder
  <2>2. QED
    BY <1>0, <1>2, <2>1 DEF RefreshInv, FetcherLoads, MatcherCurrent, Where
<1>3. QED
  BY <1>0, <1>1, <1>2

\* So does every step of a reload, in either goroutine.
LEMMA ReloadInv ==
  ASSUME RefreshInv, NEW g \in Goroutines, Reload(g)
  PROVE  RefreshInv'
<1>1. load' \in [Goroutines -> Seq(Read)] /\ LoadsComplete' /\ FetcherLoads'
  <2>1. CASE ReloadBegins(g) \/ SetGauge(g)
    BY <2>1, ReloadFrame, LoadEmpty DEF ReloadBegins, SetGauge
  <2>2. CASE LoadSource(g)
    BY <2>2, LoadGrows
  <2>3. CASE LoadFails(g) \/ SwapMatcher(g)
    <3>1. UNCHANGED load
      BY <2>3 DEF LoadFails, SwapMatcher
    <3>2. fetcher' = "load" => fetcher = "load"
      BY <2>3 DEF LoadFails, SwapMatcher, Goto, Returned, Where
    <3>3. LoadsComplete'
      BY <3>1, ReloadFrame DEF RefreshInv, LoadsComplete, sources, ReadableFiles
    <3>4. FetcherLoads'
      BY <3>1, <3>2, ReloadFrame DEF RefreshInv, FetcherLoads
    <3>5. QED
      BY <3>1, <3>3, <3>4 DEF RefreshInv, RefreshTypeOK
  <2>4. QED
    BY <2>1, <2>2, <2>3 DEF Reload
<1>2. SwapMatcher(g) \/ UNCHANGED matcher
  BY DEF Reload, ReloadBegins, LoadSource, LoadFails, SetGauge
<1>3. MatcherComplete' /\ matcher' \in Seq(Read)
  <2>1. CASE UNCHANGED matcher
    BY <2>1, ReloadFrame DEF RefreshInv, RefreshTypeOK, MatcherComplete, sources, ReadableFiles
  <2>2. QED
    BY <1>2, <2>1, SwapComplete
<1>4. RefreshTypeOK'
  BY <1>1, <1>3, ReloadFrame DEF RefreshInv, RefreshTypeOK, Where, Returned, Goroutines
<1>5. NothingOwed'
  <2>0. faults \in Nat /\ (faults' = 0 => faults = 0 /\ UNCHANGED faults)
    <3>1. faults \in Nat
      BY DEF RefreshInv, StoreInv, StoreTypeOK
    <3>2. faults + 1 # 0 /\ (faults' = 0 /\ faults' = faults => faults = 0)
      BY SMTT(30), Z3, <3>1
    <3>3. QED
      BY <3>1, <3>2, ReloadFrame
  <2>. SUFFICES ASSUME faults = 0, UNCHANGED faults, signals = 0, edits = 0, ~stopping
                PROVE  fetcher' # "cycle" /\ (fetcher' \in {"select", "gauge"} => MatcherCurrent')
    BY <2>0, ReloadFrame DEF NothingOwed
  <2>1. g = "fetcher" /\ Where(g) = fetcher /\ UNCHANGED <<files, targets>> /\ ~FileFails
    BY ReloadFrame DEF RefreshInv, NotYetEdited, Where
  <2>2. fetcher' # "cycle"
    BY <2>1, ReloadFrame DEF Where, Returned
  <2>3. CASE ReloadBegins(g) \/ LoadSource(g)
    BY <2>1, <2>2, <2>3 DEF ReloadBegins, LoadSource, Goto
  <2>7. ~LoadFails(g)
    <3>1. Misread(g) => faults' = faults + 1
      BY <2>1 DEF Misread, Fault
    <3>2. faults # faults + 1
      BY SMTT(30), Z3, <2>0
    <3>3. QED
      BY <3>1, <3>2 DEF LoadFails
  <2>4. CASE SwapMatcher(g)
    BY <2>1, <2>2, <2>4, SwapComplete
  <2>5. CASE SetGauge(g)
    BY <2>1, <2>2, <2>5 DEF RefreshInv, NothingOwed, MatcherCurrent, SetGauge
  <2>6. QED
    BY <2>3, <2>4, <2>5, <2>7 DEF Reload
<1>6. QED
  BY <1>1, <1>3, <1>4, <1>5, ReloadFrame DEF RefreshInv

-----------------------------------------------------------------------------

\* bns starts with an empty cache and a file that could be read.
LEMMA RefreshInitInv == Init => RefreshInv
<1>. SUFFICES ASSUME Init PROVE RefreshInv
  OBVIOUS
<1>. USE DEF Init
<1>1. StoreInv /\ targets \in Configs /\ files \in Directories
  BY StoreInitInv DEF StoreInv, StoreTypeOK
<1>2. file \in FileContents /\ file \in ReadableFiles /\ file \in Read
  BY DEF Read, FileFails
<1>3. /\ \A i \in DOMAIN targets : matcher[i] = files[targets[i]].body
      /\ Len(matcher) = Len(sources) /\ matcher \in Seq(Read)
      /\ matcher[Len(sources)] = file
  <2>1. DOMAIN sources = 1 .. Len(sources) /\ Len(sources) \in Nat
    BY SMTT(30), Z3, <1>1, SourceOrder DEF sources
  <2>2. \A i \in DOMAIN targets :
          /\ i \in 1 .. Len(sources)
          /\ Content(sources[i]) = files[targets[i]].body
          /\ files[targets[i]].body \in Read
    <3>1. \A i \in DOMAIN targets : i \in 1 .. Len(sources)
      BY SMTT(30), Z3, <1>1, SourceOrder
    <3>2. QED
      BY <1>1, <3>1, SourceOrder, RefreshAssumption, CachedRead DEF Content
  <2>3. Len(sources) \in 1 .. Len(sources) /\ Content(sources[Len(sources)]) = file
    <3>1. Len(sources) \in 1 .. Len(sources)
      BY SMTT(30), Z3, <1>1, SourceOrder
    <3>2. QED
      BY <1>1, <3>1, SourceOrder DEF Content
  <2>4. \A i \in 1 .. Len(sources) : i \in DOMAIN targets \/ i = Len(sources)
    BY SMTT(30), Z3, <1>1, SourceOrder
  <2>5. \A i \in 1 .. Len(sources) : Content(sources[i]) \in Read
    BY <1>2, <2>2, <2>3, <2>4
  <2>6. matcher \in [1 .. Len(sources) -> Read]
    BY <2>1, <2>5
  <2>7. matcher \in Seq(Read) /\ Len(matcher) = Len(sources)
    BY SMTT(30), Z3, <2>1, <2>6
  <2>8. QED
    BY <2>1, <2>2, <2>3, <2>7
<1>4. MatcherComplete
  BY <1>2, <1>3 DEF MatcherComplete
<1>5. load \in [Goroutines -> Seq(Read)] /\ \A g \in Goroutines : Len(load[g]) = 0
  BY SMTT(30), Z3
<1>6. LoadsComplete
  <2>1. Len(sources) \in Nat \ {0}
    BY SMTT(30), Z3, <1>1, SourceOrder
  <2>2. 0 <= Len(sources) /\ 0 # Len(sources)
    BY SMTT(30), Z3, <2>1
  <2>3. QED
    BY <1>5, <2>2 DEF LoadsComplete
<1>7. RefreshTypeOK
  <2>1. {edits, signals} \subseteq Nat
    BY SMTT(30), Z3
  <2>2. QED
    BY <1>2, <1>3, <1>5, <2>1 DEF RefreshTypeOK
<1>8. FetcherLoads /\ NotYetSignalled /\ NotYetEdited
  BY DEF FetcherLoads, NotYetSignalled, NotYetEdited
<1>9. NothingOwed
  BY <1>3 DEF NothingOwed, MatcherCurrent
<1>10. QED
  BY <1>1, <1>4, <1>6, <1>7, <1>8, <1>9 DEF RefreshInv

\* And every step there is.
LEMMA RefreshNextInv == RefreshInv /\ [Next]_vars => RefreshInv'
<1>. SUFFICES ASSUME RefreshInv, [Next]_vars PROVE RefreshInv'
  OBVIOUS
<1>1. CASE FetcherStep
  BY <1>1, CycleInv, SucceedsInv, CycleEndsInv, CycleBeginsInv, ControlInv, ReloadInv
     DEF FetcherStep, TickReceived, PokeReceived, Goroutines
<1>2. CASE HangupStep
  BY <1>2, ControlInv, ReloadInv DEF HangupStep, Goroutines
<1>3. CASE FetcherFaults \/ Hangup \/ Stop \/ Published
  BY <1>3, CycleInv, ControlInv, PublishedInv
<1>4. CASE \E c \in FileContents \cup {Absent} : EditFile(c)
  BY <1>4, EditInv
<1>5. CASE UNCHANGED vars
  <2>1. UNCHANGED storeVars /\ UNCHANGED refreshVars
    BY <1>5 DEF vars
  <2>2. StoreInv' /\ UNCHANGED <<files, targets, fetch, faults>>
    BY <2>1, StoreSame
  <2>3. (RefreshTypeOK /\ LoadsComplete /\ MatcherComplete /\ NotYetSignalled /\ NotYetEdited)'
    BY <2>1, <2>2, OthersSame
  <2>4. FetcherLoads' /\ NothingOwed'
    BY <2>1, <2>2 DEF RefreshInv, FetcherLoads, NothingOwed, MatcherCurrent, BeingStored, refreshVars
  <2>5. QED
    BY <2>2, <2>3, <2>4 DEF RefreshInv
<1>6. QED
  BY <1>1, <1>2, <1>3, <1>4, <1>5 DEF Next

\* The invariant of the reloads holds in every reachable state.
LEMMA RefreshSpecInv == Spec => []RefreshInv
BY RefreshInitInv, RefreshNextInv, PTL DEF Spec

-----------------------------------------------------------------------------

\* Whichever goroutine reloads, and whatever becomes of the file meanwhile, the
\* matcher in use was built from every source, and from a file that could be read to
\* its end (Loader.Load, Holder.Swap).
THEOREM MatcherIsComplete == Spec => []MatcherComplete
<1>1. RefreshInv => MatcherComplete
  BY DEF RefreshInv
<1>2. QED
  BY <1>1, RefreshSpecInv, PTL

\* Without SIGHUP, failure or edit, no end of a cycle of Fetcher.Run leaves a cached
\* body out of the matcher: the flag of the cycle is set by whichever fetch stored it.
THEOREM CyclesReload == Spec => []CycleReloads
<1>1. ASSUME RefreshInv
      PROVE  CycleReloads
  <2>1. {faults, signals, edits} \subseteq Nat
    BY <1>1 DEF RefreshInv, RefreshTypeOK, StoreInv, StoreTypeOK
  <2>2. faults + signals + edits = 0 => faults = 0 /\ signals = 0 /\ edits = 0
    BY SMTT(30), Z3, <2>1
  <2>3. QED
    BY <1>1, <2>2 DEF RefreshInv, NothingOwed, CycleReloads
<1>2. QED
  BY <1>1, RefreshSpecInv, PTL

\* The fetcher's reload installs the bodies that are cached at that moment, since
\* Fetcher.Run does not fetch while it reloads.
THEOREM FetcherSwapsWhatIsCached == Spec => FetcherSwapsCurrent
<1>1. ASSUME RefreshInv, [Next]_vars, fetcher = "load", fetcher' = "gauge"
      PROVE  MatcherCurrent'
  <2>1. Reload("fetcher")
    <3>1. fetcher' # fetcher
      BY <1>1
    <3>2. ~(FetcherCycle \/ FetcherFaults \/ Published \/ UNCHANGED vars)
      BY <3>1 DEF FetcherCycle, FetcherFaults, Published, InCycle, refreshVars, vars
    <3>3. ~(FetchSucceeds \/ CycleEnds \/ TickReceived \/ PokeReceived \/ FetcherStops)
      BY <1>1 DEF FetchSucceeds, CycleEnds, TickReceived, PokeReceived, CycleBegins, FetcherStops
    <3>4. ~HangupStep
      BY <1>1, <3>1, ReloadFrame DEF HangupStep, HangupReceived, RefreshNow, HangupStops, Goroutines
    <3>5. ~(Hangup \/ Stop \/ \E c \in FileContents \cup {Absent} : EditFile(c))
      BY <3>1 DEF Hangup, Stop, EditFile
    <3>6. QED
      BY <1>1, <3>2, <3>3, <3>4, <3>5 DEF Next, FetcherStep
  <2>2. SwapMatcher("fetcher")
    BY <1>1, <2>1 DEF Reload, ReloadBegins, LoadSource, LoadFails, SetGauge, Where, Goto, Returned
  <2>3. QED
    BY <1>1, <2>2, SwapComplete DEF Goroutines
<1>2. RefreshInv /\ [Next]_vars => [fetcher = "load" /\ fetcher' = "gauge" => MatcherCurrent']_vars
  BY <1>1
<1>3. QED
  BY <1>2, RefreshSpecInv, PTL DEF Spec, FetcherSwapsCurrent

\* Where a SIGHUP that no poke has answered is: in the signal channel, with the
\* goroutine that received it, or in the refreshNow channel. Only the end of the
\* SIGHUP goroutine, which the end of the context causes, leaves it nowhere.
SignalHeld ==
  unmet => \/ signal
           \/ refreshNow
           \/ hangup \in {"reload", "load", "gauge", "poke"}
           \/ hangup = "done" /\ stopping

\* The steps of the fetcher that leave the two channels and the SIGHUP goroutine alone.
LEMMA FetcherHolds ==
  ASSUME FetcherStep \/ FetcherFaults \/ Published
  PROVE  \/ UNCHANGED <<unmet, signal, refreshNow, hangup, stopping>>
         \/ ~unmet'
<1>1. CASE FetcherCycle \/ FetcherFaults \/ Published
  BY <1>1 DEF FetcherCycle, FetcherFaults, Published, InCycle, refreshVars
<1>2. CASE FetchSucceeds \/ CycleEnds \/ TickReceived \/ PokeReceived \/ FetcherStops
  BY <1>2 DEF FetchSucceeds, CycleEnds, TickReceived, PokeReceived, CycleBegins, FetcherStops
<1>3. CASE Reload("fetcher")
  BY <1>3 DEF Reload, ReloadBegins, LoadSource, LoadFails, SwapMatcher, SetGauge, Goto
<1>4. QED
  BY <1>1, <1>2, <1>3 DEF FetcherStep

\* No SIGHUP is lost, however it meets a reload, a poke that waits already or a cycle
\* of the fetcher: until a poke starts a cycle, it is in a channel or with the goroutine
\* that will send the poke, unless the process is shutting down (serve.go's SIGHUP
\* goroutine, RefreshNow's buffered channel).
THEOREM SignalsAreHeld == Spec => []SignalHeld
<1>1. Init => SignalHeld
  BY DEF Init, SignalHeld
<1>2. ASSUME SignalHeld, [Next]_vars
      PROVE  SignalHeld'
  <2>1. CASE FetcherStep \/ FetcherFaults \/ Published
    BY <1>2, <2>1, FetcherHolds DEF SignalHeld
  <2>2. CASE HangupReceived \/ RefreshNow \/ HangupStops
    BY <1>2, <2>2 DEF SignalHeld, HangupReceived, RefreshNow, HangupStops
  <2>3. CASE Reload("hangup")
    <3>1. hangup' \in {"reload", "load", "gauge", "poke"}
      BY <2>3 DEF Reload, ReloadBegins, LoadSource, LoadFails, SwapMatcher, SetGauge,
                  Goto, Where, Returned
    <3>2. QED
      BY <3>1 DEF SignalHeld
  <2>4. CASE Hangup \/ Stop \/ \E c \in FileContents \cup {Absent} : EditFile(c)
    BY <1>2, <2>4 DEF SignalHeld, Hangup, Stop, EditFile
  <2>5. CASE UNCHANGED vars
    BY <1>2, <2>5 DEF SignalHeld, vars, refreshVars
  <2>6. QED
    BY <1>2, <2>1, <2>2, <2>3, <2>4, <2>5 DEF Next, HangupStep
<1>3. QED
  BY <1>1, <1>2, PTL DEF Spec

-----------------------------------------------------------------------------
(***************************************************************************)
(* Words: what canonicalise makes of one, label by label.                  *)
(***************************************************************************)

\* The elements of a sequence.
LEMMA ElementOf ==
  ASSUME NEW S, NEW s \in Seq(S), NEW i \in DOMAIN s
  PROVE  s[i] \in S
BY SMTT(30), Z3

\* The last one.
LEMMA LastOf ==
  ASSUME NEW S, NEW s \in Seq(S), Len(s) = 1 \/ Len(s) = 2
  PROVE  Len(s) \in DOMAIN s
BY SMTT(30), Z3

\* The empty label has no valid length.
LEMMA EmptyLabel == NoLabel.text = "" /\ NoLabel.len \notin 1 .. 63 /\ NoWord[1] = NoLabel
<1>1. NoLabel.text = "" /\ NoLabel.len = 0
  BY DEF NoLabel, Label
<1>2. 0 \notin 1 .. 63
  BY SMTT(30)
<1>3. NoWord[1] = NoLabel
  BY SMTT(30), Z3 DEF NoWord
<1>4. QED
  BY <1>1, <1>2, <1>3

\* ToLower keeps a label's text and length, and leaves lower case alone.
LEMMA LoweredLabel ==
  ASSUME NEW l \in Labels
  PROVE  /\ LowerLabel(l) \in Labels
         /\ LowerLabel(l).text = l.text /\ LowerLabel(l).len = l.len
         /\ LowerLabel(l).form = "lower" <=> l.form \in {"lower", "mixed"}
         /\ l.form = "lower" => LowerLabel(l) = l
BY SMTT(30), Z3 DEF LowerLabel, Labels

\* A word has a first label and a last one.
LEMMA WordLength ==
  ASSUME NEW w \in Words
  PROVE  /\ w \in Seq(Labels) /\ Len(w) \in Nat /\ Len(w) >= 1 /\ DOMAIN w = 1 .. Len(w)
         /\ \A i \in 1 .. Len(w) : w[i] \in Labels
BY SMTT(30), Z3 DEF Words

\* Words of a list and names, whose labels are their texts.
LEMMA TextDecides ==
  /\ Texts \subseteq Words
  /\ \A v, w \in Texts : \A i \in 1 .. Len(v), j \in 1 .. Len(w) :
       v[i].text = w[j].text <=> LowerLabel(v[i]) = LowerLabel(w[j])
  /\ \A w \in Texts : \A i \in 1 .. Len(w) : w[i].text = "" <=> LowerLabel(w[i]) = NoLabel
<1>2. ASSUME NEW c \in DOMAIN Body, NEW w \in WordsOf(c)
      PROVE  w \in Words
  <2>1. Body[c].lines \in Seq([comment : BOOLEAN, fields : Seq(Words)])
    BY TextAssumption DEF Bodies
  <2>2. PICK i \in DOMAIN Body[c].lines : w \in Fields(Body[c].lines[i])
    BY <1>2 DEF WordsOf
  <2>. DEFINE line == Body[c].lines[i]
  <2>3. line \in [comment : BOOLEAN, fields : Seq(Words)]
    BY <2>1, <2>2, ElementOf
  <2>4. line.fields \in Seq(Words)
    BY <2>3
  <2>5. PICK j \in DOMAIN line.fields : w = line.fields[j]
    BY <2>2 DEF Fields
  <2>. HIDE DEF line
  <2>6. QED
    BY <2>4, <2>5, ElementOf
<1>3. Texts \subseteq Words
  BY <1>2, TextAssumption DEF Texts
<1>4. ASSUME NEW v \in Texts, NEW w \in Texts, NEW i \in 1 .. Len(v), NEW j \in 1 .. Len(w)
      PROVE  v[i].text = w[j].text <=> LowerLabel(v[i]) = LowerLabel(w[j])
  <2>1. /\ i \in DOMAIN v /\ v[i] \in Labels
        /\ j \in DOMAIN w /\ w[j] \in Labels
    BY <1>3, WordLength
  <2>2. v[i].text = w[j].text => LowerLabel(v[i]) = LowerLabel(w[j])
    BY <2>1, TextAssumption
  <2>3. LowerLabel(v[i]).text = v[i].text /\ LowerLabel(w[j]).text = w[j].text
    BY <2>1, LoweredLabel
  <2>4. QED
    BY <2>2, <2>3
<1>5. ASSUME NEW w \in Texts, NEW i \in 1 .. Len(w)
      PROVE  w[i].text = "" <=> LowerLabel(w[i]) = NoLabel
  <2>1. i \in DOMAIN w /\ w[i] \in Labels
    BY <1>3, WordLength
  <2>2. w[i].text = "" => w[i] = NoLabel
    BY <2>1, TextAssumption
  <2>3. LowerLabel(NoLabel) = NoLabel
    BY DEF LowerLabel, NoLabel, Label
  <2>4. LowerLabel(w[i]).text = w[i].text
    BY <2>1, LoweredLabel
  <2>5. QED
    BY <2>2, <2>3, <2>4, EmptyLabel
<1>6. QED
  BY <1>3, <1>4, <1>5

\* The labels before a final dot.
Extent(w) == IF LowerLabel(w[Len(w)]) = NoLabel THEN Len(w) - 1 ELSE Len(w)

\* It is a number of labels.
LEMMA ExtentType == ASSUME NEW w \in Texts PROVE Extent(w) \in Nat
<1>1. Len(w) \in Nat /\ Len(w) >= 1
  BY TextDecides, WordLength
<1>2. QED
  BY SMTT(30), Z3, <1>1 DEF Extent

\* What its author means by a word, and what canonicalise makes of it, have a label
\* each for every label before the final dot; the root alone keeps an empty one.
LEMMA CanonicalWord ==
  ASSUME NEW w \in Texts
  PROVE  /\ Extent(w) \in 0 .. Len(w)
         /\ Bare(Text(w)) \in Seq(STRING) /\ Len(Bare(Text(w))) = Extent(w)
         /\ \A i \in 1 .. Extent(w) : Bare(Text(w))[i] = w[i].text
         /\ canonicalise(w) \in Words
         /\ Extent(w) > 0 =>
              /\ Len(canonicalise(w)) = Extent(w)
              /\ \A i \in 1 .. Extent(w) : canonicalise(w)[i] = LowerLabel(w[i])
         /\ Extent(w) = 0 => Len(canonicalise(w)) = 1 /\ canonicalise(w)[1] = NoLabel
<1>. DEFINE n == Len(w)
            t == Text(w)
            l == Lower(w)
<1>1. /\ w \in Words /\ n \in Nat /\ n >= 1 /\ DOMAIN w = 1 .. n
      /\ \A i \in 1 .. n : w[i] \in Labels
  BY TextDecides, WordLength
<1>2. \A i \in 1 .. n : w[i].text \in STRING /\ LowerLabel(w[i]) \in Labels
  BY <1>1, LoweredLabel DEF Labels
<1>3. t \in Seq(STRING) /\ Len(t) = n /\ \A i \in 1 .. n : t[i] = w[i].text
  BY SMTT(30), Z3, <1>1, <1>2 DEF Text
<1>4. l \in Seq(Labels) /\ Len(l) = n /\ \A i \in 1 .. n : l[i] = LowerLabel(w[i])
  BY SMTT(30), Z3, <1>1, <1>2 DEF Lower
<1>5. n \in 1 .. n
  BY SMTT(30), <1>1
<1>6. t[n] = "" <=> l[n] = NoLabel
  <2>1. w[n].text = "" <=> LowerLabel(w[n]) = NoLabel
    BY <1>5, TextDecides
  <2>2. QED
    BY <1>3, <1>4, <1>5, <2>1
<1>7. Bare(t) = IF l[n] = NoLabel THEN SubSeq(t, 1, n - 1) ELSE t
  BY <1>3, <1>6 DEF Bare
<1>8. canonicalise(w) = IF n > 1 /\ l[n] = NoLabel THEN SubSeq(l, 1, n - 1) ELSE l
  BY <1>4 DEF canonicalise
<1>9. Extent(w) = IF l[n] = NoLabel THEN n - 1 ELSE n
  BY <1>4, <1>5 DEF Extent
<1>. HIDE DEF n, t, l
<1>10. CASE l[n] # NoLabel
  <2>1. Bare(t) = t /\ canonicalise(w) = l /\ Extent(w) = n
    BY <1>7, <1>8, <1>9, <1>10
  <2>2. l \in Words
    BY SMTT(30), Z3, <1>1, <1>4 DEF Words
  <2>3. n > 0 /\ n # 0 /\ n \in 0 .. n
    BY SMTT(30), <1>1
  <2>4. QED
    BY <1>3, <1>4, <2>1, <2>2, <2>3 DEF n, t
<1>11. CASE l[n] = NoLabel /\ n > 1
  <2>1. Bare(t) = SubSeq(t, 1, n - 1) /\ canonicalise(w) = SubSeq(l, 1, n - 1) /\ Extent(w) = n - 1
    BY <1>7, <1>8, <1>9, <1>11
  <2>2. /\ SubSeq(t, 1, n - 1) \in Seq(STRING) /\ Len(SubSeq(t, 1, n - 1)) = n - 1
        /\ \A i \in 1 .. n - 1 : SubSeq(t, 1, n - 1)[i] = t[i] /\ i \in 1 .. n
    BY SMTT(30), Z3, <1>1, <1>3, <1>11
  <2>3. /\ SubSeq(l, 1, n - 1) \in Words /\ Len(SubSeq(l, 1, n - 1)) = n - 1
        /\ \A i \in 1 .. n - 1 : SubSeq(l, 1, n - 1)[i] = l[i] /\ i \in 1 .. n
    BY SMTT(30), Z3, <1>1, <1>4, <1>11 DEF Words
  <2>4. n - 1 \in 0 .. n /\ n - 1 # 0
    BY SMTT(30), <1>1, <1>11
  <2>5. QED
    BY <1>3, <1>4, <2>1, <2>2, <2>3, <2>4 DEF n, t
<1>12. CASE l[n] = NoLabel /\ n = 1
  <2>1. Bare(t) = SubSeq(t, 1, 0) /\ canonicalise(w) = l /\ Extent(w) = 0
    BY SMTT(30), Z3, <1>7, <1>8, <1>9, <1>12
  <2>2. SubSeq(t, 1, 0) \in Seq(STRING) /\ Len(SubSeq(t, 1, 0)) = 0
    BY SMTT(30), Z3, <1>3, <1>12
  <2>3. l \in Words
    BY SMTT(30), Z3, <1>1, <1>4 DEF Words
  <2>4. 0 \in 0 .. 1 /\ ~(0 > 0) /\ \A i : i \notin 1 .. 0
    BY SMTT(30)
  <2>5. QED
    BY <1>4, <1>12, <2>1, <2>2, <2>3, <2>4 DEF n, t
<1>13. n = 1 \/ n > 1
  BY SMTT(30), Z3, <1>1
<1>14. QED
  BY ZenonT(40), <1>10, <1>11, <1>12, <1>13

\* A name that is kept, of the labels of w before the final dot.
Valid(w) ==
  /\ Extent(w) > 0
  /\ Length(SubSeq(w, 1, Extent(w))) <= 253
  /\ \A i \in 1 .. Extent(w) : w[i].len \in 1 .. 63 /\ w[i].form \in {"lower", "mixed"}

\* isValidFQDN decides that, of the canonical form.
LEMMA ValidCanonical ==
  ASSUME NEW w \in Texts
  PROVE  isValidFQDN(canonicalise(w)) <=> Valid(w)
<1>. DEFINE k == Extent(w)
            e == canonicalise(w)
            part == SubSeq(w, 1, k)
<1>1. /\ w \in Words /\ Len(w) \in Nat /\ DOMAIN w = 1 .. Len(w) /\ w \in Seq(Labels)
      /\ \A i \in 1 .. Len(w) : w[i] \in Labels
  BY TextDecides, WordLength
<1>2. k \in 0 .. Len(w) /\ e \in Words
  BY CanonicalWord
<1>3. CASE k = 0
  <2>1. Len(e) = 1 /\ e[1] = NoLabel /\ DOMAIN e = 1 .. Len(e)
    BY <1>2, <1>3, CanonicalWord, WordLength
  <2>2. 1 \in DOMAIN e /\ NoLabel.len \notin 1 .. 63
    <3>1. 1 \in 1 .. 1
      BY SMTT(30)
    <3>2. QED
      BY <2>1, <3>1, EmptyLabel
  <2>3. ~isValidFQDN(e)
    BY <2>1, <2>2 DEF isValidFQDN
  <2>4. ~Valid(w)
    BY SMTT(30), Z3, <1>3 DEF Valid
  <2>5. QED
    BY <2>3, <2>4
<1>4. CASE k > 0
  <2>1. Len(e) = k /\ \A i \in 1 .. k : e[i] = LowerLabel(w[i])
    BY <1>4, CanonicalWord
  <2>2. DOMAIN e = 1 .. k
    BY <1>2, <2>1, WordLength
  <2>3. \A i \in 1 .. k : w[i] \in Labels
    BY SMTT(30), Z3, <1>1, <1>2
  <2>4. \A i \in 1 .. k : e[i].len = w[i].len /\ (e[i].form = "lower" <=> w[i].form \in {"lower", "mixed"})
    <3>. SUFFICES ASSUME NEW i \in 1 .. k
                  PROVE  /\ e[i].len = w[i].len
                         /\ (e[i].form = "lower" <=> w[i].form \in {"lower", "mixed"})
      OBVIOUS
    <3>1. w[i] \in Labels /\ e[i] = LowerLabel(w[i])
      BY <2>1, <2>3
    <3>2. QED
      BY SMTT(30), Z3, <3>1, LoweredLabel
  <2>5. DOMAIN part = 1 .. k /\ \A i \in 1 .. k : part[i] = w[i]
    BY SMTT(30), Z3, <1>1, <1>2
  <2>. HIDE DEF e, part, k
  <2>6. [i \in DOMAIN e |-> e[i].len] = [i \in DOMAIN part |-> part[i].len]
    BY <2>2, <2>4, <2>5
  <2>7. Length(e) = Length(part)
    BY <2>6 DEF Length
  <2>8. isValidFQDN(e) <=> /\ Length(part) <= 253
                           /\ \A i \in 1 .. k : w[i].len \in 1 .. 63 /\ w[i].form \in {"lower", "mixed"}
    BY <2>2, <2>4, <2>7 DEF isValidFQDN
  <2>9. Valid(w) <=> isValidFQDN(e)
    BY <1>4, <2>8 DEF Valid, part, k
  <2>10. QED
    BY <2>9 DEF e
<1>5. QED
  BY SMTT(30), <1>1, <1>2, <1>3, <1>4

\* NewMatcher keeps a valid entry as it is.
LEMMA ValidKept ==
  ASSUME NEW e \in Words, isValidFQDN(e)
  PROVE  canonicalise(e) = e /\ e # NoWord
<1>1. /\ e \in Seq(Labels) /\ Len(e) \in Nat /\ Len(e) >= 1 /\ DOMAIN e = 1 .. Len(e)
      /\ \A i \in 1 .. Len(e) : e[i] \in Labels
  BY WordLength
<1>2. \A i \in 1 .. Len(e) : e[i].len \in 1 .. 63 /\ LowerLabel(e[i]) = e[i]
  BY <1>1, LoweredLabel DEF isValidFQDN
<1>3. Lower(e) = e
  BY SMTT(30), Z3, <1>1, <1>2 DEF Lower
<1>4. NoLabel.len \notin 1 .. 63
  BY EmptyLabel
<1>5. \A i \in 1 .. Len(e) : e[i] # NoLabel
  BY <1>2, <1>4
<1>6. 1 \in 1 .. Len(e) /\ Len(e) \in 1 .. Len(e)
  BY SMTT(30), <1>1
<1>7. canonicalise(e) = e
  BY <1>3, <1>5, <1>6 DEF canonicalise
<1>8. NoWord[1] = NoLabel
  BY EmptyLabel
<1>9. QED
  BY <1>5, <1>6, <1>7, <1>8

\* A canonical name ends in an entry when what was written says so.
LEMMA SuffixIsBelow ==
  ASSUME NEW w \in Texts, Valid(w), NEW n \in Texts
  PROVE  (\E i \in DOMAIN canonicalise(n) :
            SubSeq(canonicalise(n), i, Len(canonicalise(n))) = canonicalise(w))
           <=> Below(Bare(Text(w)), Bare(Text(n)))
<1>. DEFINE e == canonicalise(w)
            q == canonicalise(n)
            t == Bare(Text(w))
            s == Bare(Text(n))
            k == Extent(w)
            m == Extent(n)
<1>1. /\ k \in Nat /\ k > 0 /\ k \in 0 .. Len(w) /\ e \in Seq(Labels) /\ Len(e) = k /\ t \in Seq(STRING) /\ Len(t) = k
      /\ \A i \in 1 .. k : e[i] = LowerLabel(w[i]) /\ t[i] = w[i].text
  <2>1. k > 0
    BY DEF Valid
  <2>2. k \in Nat /\ Len(w) \in Nat
    BY ExtentType, TextDecides, WordLength
  <2>3. QED
    BY <2>1, <2>2, CanonicalWord, WordLength
<1>2. /\ m \in Nat /\ m \in 0 .. Len(n) /\ q \in Seq(Labels) /\ s \in Seq(STRING) /\ Len(s) = m
      /\ \A i \in 1 .. m : s[i] = n[i].text
  <2>1. m \in Nat
    BY ExtentType
  <2>2. QED
    BY <2>1, CanonicalWord, WordLength
<1>3. Len(w) \in Nat /\ Len(n) \in Nat
  BY TextDecides, WordLength
<1>4. CASE m = 0
  <2>1. Len(q) = 1 /\ q[1] = NoLabel /\ DOMAIN q = 1 .. 1
    BY SMTT(30), Z3, <1>2, <1>4, CanonicalWord
  <2>2. ~Below(t, s)
    BY SMTT(30), Z3, <1>1, <1>2, <1>4 DEF Below
  <2>3. 1 \in 1 .. k /\ w[1] \in Labels
    <3>1. 1 \in 1 .. k /\ 1 \in 1 .. Len(w)
      BY SMTT(30), Z3, <1>1, <1>3
    <3>2. QED
      BY <3>1, TextDecides, WordLength
  <2>4. e[1].len \in 1 .. 63
    <3>1. e[1] = LowerLabel(w[1]) /\ w[1].len \in 1 .. 63
      BY <1>1, <2>3 DEF Valid
    <3>2. e[1].len = w[1].len
      BY <2>3, <3>1, LoweredLabel
    <3>3. QED
      BY <3>1, <3>2
  <2>5. e[1] # NoLabel
    BY <2>4, EmptyLabel
  <2>6. \A i \in DOMAIN q : SubSeq(q, i, Len(q)) # e
    <3>. SUFFICES ASSUME NEW i \in DOMAIN q
                  PROVE  SubSeq(q, i, Len(q)) # e
      OBVIOUS
    <3>1. i = 1
      BY SMTT(30), Z3, <2>1
    <3>2. SubSeq(q, 1, 1)[1] = q[1]
      BY SMTT(30), Z3, <1>2, <2>1
    <3>3. QED
      BY <2>1, <2>5, <3>1, <3>2
  <2>7. QED
    BY <2>2, <2>6
<1>5. CASE m > 0
  <2>1. Len(q) = m /\ \A i \in 1 .. m : q[i] = LowerLabel(n[i])
    BY <1>5, CanonicalWord
  <2>2. \A i \in 1 .. m, j \in 1 .. k : q[i] = e[j] <=> s[i] = t[j]
    <3>. SUFFICES ASSUME NEW i \in 1 .. m, NEW j \in 1 .. k
                  PROVE  q[i] = e[j] <=> s[i] = t[j]
      OBVIOUS
    <3>1. i \in 1 .. Len(n) /\ j \in 1 .. Len(w)
      BY SMTT(30), Z3, <1>1, <1>2, <1>3
    <3>2. n[i].text = w[j].text <=> LowerLabel(n[i]) = LowerLabel(w[j])
      BY <3>1, TextDecides
    <3>3. QED
      BY <1>1, <1>2, <2>1, <3>2
  <2>. HIDE DEF e, q, t, s, k, m
  <2>3. ASSUME NEW i \in 1 .. m
        PROVE  SubSeq(q, i, m) = e <=> k = m - i + 1 /\ \A j \in 1 .. k : q[i + j - 1] = e[j]
    BY SMTT(30), Z3, <1>1, <1>2, <2>1
  <2>4. ASSUME NEW i \in 1 .. m
        PROVE  SubSeq(s, i, m) = t <=> k = m - i + 1 /\ \A j \in 1 .. k : s[i + j - 1] = t[j]
    BY SMTT(30), Z3, <1>1, <1>2
  <2>5. ASSUME NEW i \in 1 .. m
        PROVE  SubSeq(q, i, m) = e <=> i = m - k + 1 /\ SubSeq(s, i, m) = t
    <3>1. k = m - i + 1 <=> i = m - k + 1
      BY SMTT(30), Z3, <1>1, <1>2
    <3>2. ASSUME k = m - i + 1
          PROVE  (\A j \in 1 .. k : q[i + j - 1] = e[j]) <=> \A j \in 1 .. k : s[i + j - 1] = t[j]
      <4>1. \A j \in 1 .. k : i + j - 1 \in 1 .. m
        BY SMTT(30), Z3, <1>1, <1>2, <3>2
      <4>2. QED
        BY <2>2, <4>1
    <3>3. QED
      BY <2>3, <2>4, <3>1, <3>2
  <2>6. k <= m <=> m - k + 1 \in 1 .. m
    BY SMTT(30), Z3, <1>1, <1>2
  <2>7. Below(t, s) <=> k <= m /\ SubSeq(s, m - k + 1, m) = t
    BY <1>1, <1>2 DEF Below
  <2>8. DOMAIN q = 1 .. m
    BY SMTT(30), Z3, <1>2, <2>1
  <2>9. (\E i \in 1 .. m : SubSeq(q, i, m) = e) <=> Below(t, s)
    BY <2>5, <2>6, <2>7
  <2>10. QED
    BY <2>1, <2>8, <2>9 DEF e, q, t, s
<1>6. m = 0 \/ m > 0
  <2>. HIDE DEF m
  <2>1. QED
    BY SMTT(30), <1>2
<1>7. QED
  BY <1>4, <1>5, <1>6

-----------------------------------------------------------------------------
(***************************************************************************)
(* Lines, bodies and the matcher made of them.                             *)
(***************************************************************************)

\* The name n is e, or below it, to Match.
Ends(n, e) == \E i \in DOMAIN canonicalise(n) : SubSeq(canonicalise(n), i, Len(canonicalise(n))) = e

\* What ParseLine makes of a line that it can use.
Entry(line) == canonicalise(line.fields[Len(line.fields)])

\* The word that a line is about.
LEMMA UsableWord ==
  ASSUME NEW c \in DOMAIN Body, NEW i \in DOMAIN Body[c].lines,
         Len(Body[c].lines[i].fields) \in {1, 2}
  PROVE  Body[c].lines[i].fields[Len(Body[c].lines[i].fields)] \in Texts
<1>. DEFINE line == Body[c].lines[i]
            f == Len(line.fields)
<1>1. Body[c].lines \in Seq([comment : BOOLEAN, fields : Seq(Words)])
  BY TextAssumption DEF Bodies
<1>2. line \in [comment : BOOLEAN, fields : Seq(Words)]
  BY <1>1, ElementOf
<1>3. line.fields \in Seq(Words)
  BY <1>2
<1>4. f \in DOMAIN line.fields
  <2>1. f = 1 \/ f = 2
    OBVIOUS
  <2>2. QED
    BY <1>3, <2>1, LastOf
<1>5. line.fields[f] \in WordsOf(c)
  <2>1. line.fields[f] \in Fields(line)
    BY <1>4 DEF Fields
  <2>2. QED
    BY <2>1 DEF WordsOf
<1>6. QED
  BY <1>5 DEF Texts

\* ParseLine takes from a line the one entry that Match needs to block what the line
\* lists, and nothing from one that lists nothing.
LEMMA LineBlocks ==
  ASSUME NEW c \in DOMAIN Body, NEW i \in DOMAIN Body[c].lines, NEW n \in Names
  PROVE  Lists(Body[c].lines[i], n) <=> Usable(Body[c].lines[i]) /\ Ends(n, Entry(Body[c].lines[i]))
<1>. DEFINE line == Body[c].lines[i]
            f == Len(line.fields)
            w == line.fields[f]
            formed == ~line.comment /\ (f = 1 \/ (f = 2 /\ isHostsAnchor(line.fields[1])))
<1>1. Usable(line) <=> formed /\ isValidFQDN(canonicalise(w))
  BY DEF Usable
<1>2. CASE ~formed
  BY <1>1, <1>2 DEF Lists
<1>3. CASE formed
  <2>1. w \in Texts /\ n \in Texts
    <3>1. f \in {1, 2}
      BY <1>3
    <3>2. w \in Texts
      BY <3>1, UsableWord
    <3>3. QED
      BY <3>2 DEF Texts
  <2>. DEFINE t == Bare(Text(w))
  <2>2. Extent(w) \in Nat /\ t \in Seq(STRING) /\ Len(t) = Extent(w)
    BY <2>1, CanonicalWord, ExtentType
  <2>3. (t # << >> <=> Extent(w) > 0) /\ DOMAIN t = 1 .. Extent(w)
    <3>. HIDE DEF t, w
    <3>1. QED
      BY SMTT(30), Z3, <2>2
  <2>4. Lists(line, n) <=> Valid(w) /\ Below(t, Bare(Text(n)))
    BY <1>3, <2>2, <2>3 DEF Lists, Valid
  <2>5. Usable(line) <=> Valid(w)
    BY <1>1, <1>3, <2>1, ValidCanonical
  <2>6. Valid(w) => (Ends(n, canonicalise(w)) <=> Below(t, Bare(Text(n))))
    BY <2>1, SuffixIsBelow DEF Ends
  <2>7. QED
    BY <2>4, <2>5, <2>6 DEF Entry
<1>4. QED
  BY <1>2, <1>3

\* A matcher of bodies that can be read to their end.
AllReadable(m) == \A c \in ReadFrom(m) : c \in DOMAIN Body /\ Readable(Body[c])

\* The entries of a matcher are those of the lines that parse, and no others.
LEMMA LoadedEntries ==
  ASSUME NEW m, AllReadable(m), NEW e
  PROVE  e \in Loaded(m) <=>
           \E c \in ReadFrom(m) : \E i \in DOMAIN Body[c].lines :
                Usable(Body[c].lines[i]) /\ e = Entry(Body[c].lines[i])
<1>1. e \in Loaded(m) <=> \E c \in ReadFrom(m) : e \in parseBody(Body[c])
  BY DEF Loaded
<1>2. ASSUME NEW c \in ReadFrom(m)
      PROVE  e \in parseBody(Body[c]) <=>
               \E i \in DOMAIN Body[c].lines : Usable(Body[c].lines[i]) /\ e = Entry(Body[c].lines[i])
  <2>1. parseBody(Body[c]) = Entries(Body[c].lines)
    BY DEF AllReadable, parseBody, parseReader
  <2>2. QED
    BY <2>1 DEF Entries, ParseLine, Entry
<1>3. QED
  BY <1>1, <1>2

\* NewMatcher neither drops nor changes an entry that ParseLine returned.
LEMMA MatcherKeeps ==
  ASSUME NEW m, AllReadable(m)
  PROVE  NewMatcher(Loaded(m)) = Loaded(m)
<1>1. ASSUME NEW e \in Loaded(m)
      PROVE  canonicalise(e) = e /\ e # NoWord
  <2>1. PICK c \in ReadFrom(m) : \E i \in DOMAIN Body[c].lines :
          Usable(Body[c].lines[i]) /\ e = Entry(Body[c].lines[i])
    BY SMTT(30), Z3, LoadedEntries
  <2>2. PICK i \in DOMAIN Body[c].lines :
          Usable(Body[c].lines[i]) /\ e = Entry(Body[c].lines[i])
    BY <2>1
  <2>3. e \in Words
    <3>1. c \in DOMAIN Body /\ Len(Body[c].lines[i].fields) \in {1, 2}
      BY <2>2 DEF AllReadable, Usable
    <3>2. Body[c].lines[i].fields[Len(Body[c].lines[i].fields)] \in Texts
      BY <3>1, UsableWord
    <3>3. QED
      BY <2>2, <3>2, CanonicalWord DEF Entry
  <2>4. isValidFQDN(e)
    BY <2>2 DEF Usable, Entry
  <2>5. QED
    BY <2>3, <2>4, ValidKept
<1>2. QED
  BY <1>1 DEF NewMatcher

\* Line by line, such a matcher blocks what its sources list.
LEMMA ReadableBlocksListed ==
  ASSUME AllReadable(matcher)
  PROVE  BlocksExactlyListed
<1>. SUFFICES ASSUME NEW n \in Names
              PROVE  Match(NewMatcher(Loaded(matcher)), n)
                       <=> \E c \in ReadFrom(matcher) : n \in ListedBy[c]
  BY DEF BlocksExactlyListed, ListedBy, AllReadable
<1>1. Match(NewMatcher(Loaded(matcher)), n) <=> \E e \in Loaded(matcher) : Ends(n, e)
  BY MatcherKeeps DEF Match, Ends
<1>2. (\E e \in Loaded(matcher) : Ends(n, e)) <=>
        \E c \in ReadFrom(matcher) : \E i \in DOMAIN Body[c].lines :
          Usable(Body[c].lines[i]) /\ Ends(n, Entry(Body[c].lines[i]))
  BY SMTT(30), Z3, LoadedEntries
<1>3. ASSUME NEW c \in ReadFrom(matcher)
      PROVE  n \in ListedBy[c] <=>
               \E i \in DOMAIN Body[c].lines :
                 Usable(Body[c].lines[i]) /\ Ends(n, Entry(Body[c].lines[i]))
  <2>1. c \in DOMAIN Body
    BY DEF AllReadable
  <2>2. n \in ListedBy[c] <=> \E i \in DOMAIN Body[c].lines : Lists(Body[c].lines[i], n)
    BY <2>1 DEF ListedBy
  <2>3. QED
    BY <2>1, <2>2, LineBlocks
<1>4. QED
  BY <1>1, <1>2, <1>3

\* The matcher in use blocks exactly the names that the lines of its sources list:
\* whatever the lists say, whichever goroutine reloads, and whatever is asked for
\* (ParseLine, parseReader, NewMatcher, Match, reloadFromDisk).
THEOREM BlocksWhatIsListed == Spec => []BlocksExactlyListed
<1>1. ASSUME RefreshInv
      PROVE  AllReadable(matcher)
  <2>1. ASSUME NEW c \in ReadFrom(matcher)
        PROVE  c \in Read \ {Absent}
    <3>1. matcher \in Seq(Read)
      BY <1>1 DEF RefreshInv, RefreshTypeOK
    <3>2. QED
      BY SMTT(30), Z3, <3>1, ElementOf DEF ReadFrom
  <2>2. ASSUME NEW c \in Versions \ Unparsable
        PROVE  Readable(Body[c])
    <3>1. CASE Body[c].lines = << >>
      <4>1. Body[c].overlong \in 0 .. Len(Body[c].lines)
        BY StoreAssumption, TextAssumption
      <4>2. QED
        BY SMTT(30), Z3, <3>1, <4>1 DEF Readable
    <3>2. CASE Body[c].lines # << >>
      BY <3>2 DEF Unparsable, parseBody, parseReader
    <3>3. QED
      BY <3>1, <3>2
  <2>3. QED
    BY <2>1, <2>2, StoreAssumption, RefreshAssumption DEF AllReadable, Read, ReadableFiles
<1>2. RefreshInv => BlocksExactlyListed
  BY <1>1, ReadableBlocksListed
<1>3. QED
  BY <1>2, RefreshSpecInv, PTL

\* While the goroutines reload and fetch, too, a cached body is the whole of one that
\* FetchOne accepted.
THEOREM BodiesReadAreWhole == Spec => []WholeBody
<1>1. RefreshInv => WholeBody
  BY DEF RefreshInv, StoreInv
<1>2. QED
  BY <1>1, RefreshSpecInv, PTL

=============================================================================
