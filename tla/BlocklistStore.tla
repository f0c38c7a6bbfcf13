--------------------------- MODULE BlocklistStore ---------------------------
(***************************************************************************)
(* The on-disk cache of HTTP blocklists and the conditional GETs that fill *)
(* it: CacheStore.Write, ReadMeta and Sweep of cache_store.go, and         *)
(* Fetcher.FetchOne of http_fetcher.go.                                    *)
(*                                                                         *)
(* The cache directory holds two files per URL, the body and its sidecar,  *)
(* and the temporary files they are renamed from.  A body is one of        *)
(* Versions; of the sidecar only the ETag matters, and the server's ETag   *)
(* of a version is the version itself, so that a server that goes back to  *)
(* an earlier version goes back to its ETag too.                           *)
(*                                                                         *)
(* The process may crash between any two steps, and the machine may lose   *)
(* power.  Renames and removals are lost from the latest backwards, down   *)
(* to the last fsync of the directory: a file system that journals them in *)
(* order.                                                                  *)
(***************************************************************************)
EXTENDS Naturals, Sequences, FiniteSets, BlocklistParse

CONSTANTS
  Urls,        \* HTTP sources that a configuration may name
  Configs,     \* lists of targets, one for each configuration
  Versions,    \* contents a server may serve, numbered in order of publication
  FirstVersion,\* what every server serves at first
  Body,        \* the text of a version
  MayRevert,   \* whether a server may publish an earlier version again
  MaxChanges,  \* bound: publications
  MaxFaults,   \* bound: failed requests and failed file operations
  MaxCrashes,  \* bound: crashes and restarts
  Absent,      \* no such file
  Torn         \* a file that is partly written

ASSUME StoreAssumption ==
  /\ Configs \subseteq Seq(Urls)
  /\ Versions \subseteq Nat
  /\ Versions \subseteq DOMAIN Body
  /\ FirstVersion \in Versions
  /\ MayRevert \in BOOLEAN
  /\ {MaxChanges, MaxFaults, MaxCrashes} \subseteq Nat
  /\ Absent \notin Versions \cup {Torn}
  /\ Torn \notin Versions

VARIABLES
  remote,       \* what the server of a URL serves
  files,        \* per URL: the body, the ETag in the sidecar and, as history,
                \* every version the body file has held since it was created
  tmps,         \* per URL: the temporary files of the two
  recoverable,  \* the contents of the directory that a loss of power may leave
  targets,      \* the URLs of the configuration, in its order
  todo,         \* those still to be fetched in this cycle
  fetch,        \* the state of FetchOne
  changes, faults, crashes

disk == <<files, tmps, recoverable>>

bounds == <<changes, faults, crashes>>

storeVars == <<remote, disk, targets, todo, fetch, bounds>>

\* Versions that FetchOne refuses: they are not empty, and have no entry, or a line
\* that is too long.  A body of no bytes, which has no line, is taken for a list.
Unparsable == {v \in Versions : Body[v].lines # << >> /\ parseBody(Body[v]) = {}}

Kinds == {"body", "meta"}

NoFile == [body |-> Absent, meta |-> Absent, held |-> {}]

NoTmp == [body |-> Absent, meta |-> Absent]

\* No fetch is under way.
Idle(outcome) == [stage |-> "idle", url |-> Absent, etag |-> Absent,
                  version |-> Absent, outcome |-> outcome]

Sweeping == [Idle("none") EXCEPT !.stage = "sweep"]

StoreInit ==
  /\ remote = [u \in Urls |-> FirstVersion]
  /\ files = [u \in Urls |-> NoFile]
  /\ tmps = [u \in Urls |-> NoTmp]
  /\ recoverable = {files}
  /\ targets \in Configs
  /\ todo = <<>>
  /\ fetch = Sweeping
  /\ changes = 0
  /\ faults = 0
  /\ crashes = 0

-----------------------------------------------------------------------------
(***************************************************************************)
(* Sweep, once when Run starts.  os.ReadDir sorts by name, which puts the  *)
(* sidecar (.meta.json) of a URL before its body (.txt).                   *)
(***************************************************************************)

\* The directory after a rename or a removal.
Changed(f) == files' = f /\ recoverable' = recoverable \cup {f}

keep == {targets[i] : i \in DOMAIN targets}

InSweep == fetch.stage = "sweep"

SweepTmp(u, kind) ==
  /\ InSweep
  /\ tmps[u][kind] # Absent
  /\ tmps' = [tmps EXCEPT ![u][kind] = Absent]
  /\ UNCHANGED <<remote, files, recoverable, targets, todo, fetch, bounds>>

SweepMeta(u) ==
  /\ InSweep
  /\ u \notin keep
  /\ files[u].meta # Absent
  /\ Changed([files EXCEPT ![u].meta = Absent])
  /\ UNCHANGED <<remote, tmps, targets, todo, fetch, bounds>>

\* Variant: the sidecar is looked at after the body.
SweepBodyFirst(u) ==
  /\ InSweep
  /\ u \notin keep
  /\ files[u].body # Absent
  /\ Changed([files EXCEPT ![u].body = Absent, ![u].held = {}])
  /\ UNCHANGED <<remote, tmps, targets, todo, fetch, bounds>>

SweepBody(u) ==
  /\ InSweep
  /\ u \notin keep
  /\ files[u].meta = Absent
  /\ files[u].body # Absent
  /\ Changed([files EXCEPT ![u].body = Absent, ![u].held = {}])
  /\ UNCHANGED <<remote, tmps, targets, todo, fetch, bounds>>

Fault == faults < MaxFaults /\ faults' = faults + 1

NoFault == UNCHANGED faults

Orphans == {u \in Urls \ keep : files[u] # NoFile}

\* The sweep ends when nothing is left to remove, or at the first removal that
\* fails; Run goes on to its first cycle either way.
SweepEnds ==
  /\ InSweep
  /\ IF Orphans = {} /\ \A u \in Urls : tmps[u] = NoTmp THEN NoFault ELSE Fault
  /\ fetch' = Idle("none")
  /\ todo' = targets
  /\ UNCHANGED <<remote, disk, targets, changes, crashes>>

-----------------------------------------------------------------------------
(***************************************************************************)
(* FetchOne.                                                               *)
(***************************************************************************)

At(stage) == fetch.stage = stage

Finish(outcome) == fetch' = Idle(outcome)

\* ReadMeta, and the request with the ETag it found.
FetchStarts ==
  /\ At("idle")
  /\ todo # <<>>
  /\ todo' = Tail(todo)
  /\ fetch' = [Idle("none") EXCEPT !.stage = "asked", !.url = Head(todo),
                                   !.etag = files[Head(todo)].meta]
  /\ UNCHANGED <<remote, disk, targets, bounds>>

\* The transport fails, or the status is neither 200 nor 304.
RequestFails ==
  /\ At("asked")
  /\ Fault
  /\ Finish("failure")
  /\ UNCHANGED <<remote, disk, targets, todo, changes, crashes>>

\* Variant: a 304 is taken for a 200, and there is nothing to write.
NotModifiedFallsThrough ==
  /\ At("asked")
  /\ fetch.etag = remote[fetch.url]
  /\ fetch' = [fetch EXCEPT !.stage = "openBody"]
  /\ UNCHANGED <<remote, disk, targets, todo, bounds>>

NotModified ==
  /\ At("asked")
  /\ fetch.etag = remote[fetch.url]
  /\ Finish("not_modified")
  /\ UNCHANGED <<remote, disk, targets, todo, bounds>>

\* 200, but the body has bytes and no entry: the cache is left alone.
BodyRefused ==
  /\ At("asked")
  /\ fetch.etag # remote[fetch.url]
  /\ remote[fetch.url] \in Unparsable
  /\ Finish("failure")
  /\ UNCHANGED <<remote, disk, targets, todo, bounds>>

BodyArrives ==
  /\ At("asked")
  /\ fetch.etag # remote[fetch.url]
  /\ remote[fetch.url] \notin Unparsable
  /\ fetch' = [fetch EXCEPT !.stage = "openBody", !.version = remote[fetch.url]]
  /\ UNCHANGED <<remote, disk, targets, todo, bounds>>

-----------------------------------------------------------------------------
(***************************************************************************)
(* Write: writeFileAtomic for the body, then for the sidecar, then fsync   *)
(* of the directory.                                                       *)
(***************************************************************************)

\* Variant: the file itself is opened and truncated.
OpenInPlace(from, kind, to) ==
  /\ At(from)
  /\ Changed([files EXCEPT ![fetch.url][kind] = Torn])
  /\ tmps' = [tmps EXCEPT ![fetch.url][kind] = Torn]
  /\ fetch' = [fetch EXCEPT !.stage = to]
  /\ UNCHANGED <<remote, targets, todo, bounds>>

\* OpenFile truncates the temporary file; it is torn until it is synced.
OpenTmp(from, kind, to) ==
  /\ At(from)
  /\ tmps' = [tmps EXCEPT ![fetch.url][kind] = Torn]
  /\ fetch' = [fetch EXCEPT !.stage = to]
  /\ UNCHANGED <<remote, files, recoverable, targets, todo, bounds>>

\* Write, Sync and Close.
FillTmp(from, kind, to) ==
  /\ At(from)
  /\ tmps' = [tmps EXCEPT ![fetch.url][kind] = fetch.version]
  /\ fetch' = [fetch EXCEPT !.stage = to]
  /\ UNCHANGED <<remote, files, recoverable, targets, todo, bounds>>

\* The file of one kind is replaced by its temporary file.
Renamed(f, kind, v) ==
  [f EXCEPT ![kind] = v, !.held = IF kind = "body" THEN @ \cup {v} ELSE @]

Rename(from, kind, to) ==
  /\ At(from)
  /\ Changed([files EXCEPT ![fetch.url] = Renamed(@, kind, tmps[fetch.url][kind])])
  /\ tmps' = [tmps EXCEPT ![fetch.url][kind] = Absent]
  /\ fetch' = [fetch EXCEPT !.stage = to]
  /\ UNCHANGED <<remote, targets, todo, bounds>>

\* Write returns the first error; FetchOne fails, whatever was renamed before.
\* The temporary file is removed unless opening or renaming it was what failed.
WriteFails(stage, kind) ==
  /\ At(stage)
  /\ Fault
  /\ tmps' = IF stage \in {"fillBody", "fillMeta"}
             THEN [tmps EXCEPT ![fetch.url][kind] = Absent] ELSE tmps
  /\ Finish("failure")
  /\ UNCHANGED <<remote, files, recoverable, targets, todo, changes, crashes>>

\* An error of the fsync is ignored, and nothing is durable then.
SyncDir ==
  /\ At("sync")
  /\ \/ recoverable' = {files} /\ NoFault
     \/ UNCHANGED recoverable /\ Fault
  /\ Finish("success")
  /\ UNCHANGED <<remote, files, tmps, targets, todo, changes, crashes>>

\* Variant: the sidecar is written first.
WriteStepsMetaFirst ==
  \/ OpenTmp("openBody", "meta", "fillBody")
  \/ FillTmp("fillBody", "meta", "renameBody")
  \/ Rename("renameBody", "meta", "openMeta")
  \/ OpenTmp("openMeta", "body", "fillMeta")
  \/ FillTmp("fillMeta", "body", "renameMeta")
  \/ Rename("renameMeta", "body", "sync")
  \/ SyncDir

WriteSteps ==
  \/ OpenTmp("openBody", "body", "fillBody")
  \/ FillTmp("fillBody", "body", "renameBody")
  \/ Rename("renameBody", "body", "openMeta")
  \/ OpenTmp("openMeta", "meta", "fillMeta")
  \/ FillTmp("fillMeta", "meta", "renameMeta")
  \/ Rename("renameMeta", "meta", "sync")
  \/ SyncDir

WriteFaults ==
  \/ \E stage \in {"openBody", "fillBody", "renameBody"} : WriteFails(stage, "body")
  \/ \E stage \in {"openMeta", "fillMeta", "renameMeta"} : WriteFails(stage, "meta")

FetchSteps ==
  \/ FetchStarts
  \/ NotModified \/ BodyRefused \/ BodyArrives
  \/ WriteSteps

-----------------------------------------------------------------------------
(***************************************************************************)
(* The servers, and the machine.                                           *)
(***************************************************************************)

Publish(u, v) ==
  /\ changes < MaxChanges
  /\ v # remote[u]
  /\ MayRevert \/ v > remote[u]
  /\ remote' = [remote EXCEPT ![u] = v]
  /\ changes' = changes + 1
  /\ UNCHANGED <<disk, targets, todo, fetch, faults, crashes>>

\* The process starts anew, with a configuration that may be another one.
\* Temporary files are never read, so it does not matter what is left of them.
Restart(config) ==
  /\ crashes < MaxCrashes
  /\ targets' = config
  /\ todo' = <<>>
  /\ fetch' = Sweeping
  /\ crashes' = crashes + 1
  /\ UNCHANGED <<remote, tmps, changes, faults>>

\* The process is killed: what it renamed stays renamed.
Crash(config) ==
  /\ Restart(config)
  /\ UNCHANGED <<files, recoverable>>

\* The machine loses power: what was not synced may be lost.
PowerLoss(f, config) ==
  /\ Restart(config)
  /\ files' = f
  /\ recoverable' = {f}

-----------------------------------------------------------------------------
(***************************************************************************)
(* The fetcher on its own: one cycle after another, as the ticker has it.  *)
(***************************************************************************)

Tick ==
  /\ At("idle")
  /\ todo = <<>>
  /\ todo' = targets
  /\ fetch' = Idle("none")
  /\ UNCHANGED <<remote, disk, targets, bounds>>

SweepSteps ==
  \/ \E u \in Urls, kind \in Kinds : SweepTmp(u, kind)
  \/ \E u \in Urls : SweepMeta(u) \/ SweepBody(u)
  \/ SweepEnds

FetcherSteps == SweepSteps \/ Tick \/ FetchSteps

StoreNext ==
  \/ FetcherSteps
  \/ RequestFails
  \/ WriteFaults
  \/ \E u \in Urls, v \in Versions : Publish(u, v)
  \/ \E config \in Configs : Crash(config) \/ \E f \in recoverable : PowerLoss(f, config)

StoreSpec == StoreInit /\ [][StoreNext]_storeVars

\* Run never stops by itself, every request has a time limit and the file
\* system answers; that they answer well in the end follows from MaxFaults.
StoreFairSpec == StoreSpec /\ WF_storeVars(FetcherSteps)

-----------------------------------------------------------------------------
(***************************************************************************)
(* Properties.                                                             *)
(***************************************************************************)

Stages == {"sweep", "idle", "asked", "openBody", "fillBody", "renameBody",
           "openMeta", "fillMeta", "renameMeta", "sync"}

Contents == Versions \cup {Absent, Torn}

Directories == [Urls -> [body : Contents, meta : Contents, held : SUBSET Contents]]

Fetches ==
  [stage : Stages, url : Urls \cup {Absent}, etag : Contents, version : Contents,
   outcome : {"none", "success", "not_modified", "failure"}]

\* Every variable has the type it is declared with; a fetch has a target
\* whenever it is under way, and a version to write from the 200 onwards.
StoreTypeOK ==
  /\ remote \in [Urls -> Versions]
  /\ files \in recoverable
  /\ \A f \in recoverable : f \in Directories
  /\ tmps \in [Urls -> [body : Contents, meta : Contents]]
  /\ targets \in Configs
  /\ todo \in Seq(Urls)
  /\ fetch \in Fetches
  /\ fetch.stage \notin {"sweep", "idle"} => fetch.url \in Urls
  /\ fetch.stage \notin {"sweep", "idle", "asked"} => fetch.version \in Versions
  /\ {changes, faults, crashes} \subseteq Nat

\* A reader of the cache (HTTPSource.Load), at any time and after any crash or
\* loss of power, finds for a URL either no body or the whole of one that the server
\* published and FetchOne accepted: never a body half written, and no error page in
\* the place of a list.  (A 200 without a byte is accepted, and replaces a list.)
WholeBody ==
  \A f \in recoverable, u \in Urls :
    f[u].body \in (Versions \ Unparsable) \cup {Absent}

\* The ETag in a sidecar, now and after any crash or loss of power, is that of
\* a body the cache has really stored and not removed since.  A sidecar ahead
\* of its body would have the server answer 304 for a body nobody holds, at
\* every fetch from then on.
SidecarNeverAhead ==
  \A f \in recoverable, u \in Urls :
    f[u].meta # Absent => f[u].meta \in f[u].held

\* What a server that does not go back to earlier versions serves in the end
\* becomes the cached body of every configured source, whatever failed and
\* whenever the process crashed before: no file a crash or a failed write
\* leaves behind keeps FetchOne from storing the current body.
Converges ==
  \A u \in Urls :
    <>[](u \in keep /\ remote[u] \notin Unparsable) => <>[](files[u].body = remote[u])

=============================================================================
