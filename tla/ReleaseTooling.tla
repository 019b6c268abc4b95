--------------------------- MODULE ReleaseTooling ---------------------------
(***************************************************************************)
(* The release tools of tools/release and the workflow that runs them: on  *)
(* each native host a runtime is assembled and packaged into an installer, *)
(* from both installers a release bundle is made, and the bundle becomes a *)
(* public release.  Every tool leaves its results in directories that      *)
(* outlive it, may fail or be killed between two of its writes, and can be *)
(* run again over whatever is there.                                       *)
(*                                                                         *)
(* A file is its content, so that equal hashes are equal contents; what    *)
(* was built carries the number of the command that built it, so that no   *)
(* two builds are equal.  A host runs one command at a time.               *)
(***************************************************************************)
EXTENDS Naturals, Sequences

CONSTANTS
  Targets,      \* macos-arm64 and windows-x64, each built on its own host
  TargetOrder,  \* TARGETS as a sequence
  Versions,     \* what VERSION may say
  NoFile,       \* there is no such file or directory
  Torn,         \* a file whose writing was cut short
  MaxCommands,  \* bound: commands run on the host of a target
  MaxBundles,   \* bound: assemblies of a bundle
  MaxReleases,  \* bound: publications
  MaxDeaths     \* bound: commands killed

ASSUME TargetsAssumption ==
  /\ TargetOrder \in Seq(Targets)
  /\ Targets = {TargetOrder[i] : i \in DOMAIN TargetOrder}
ASSUME FileAssumption == NoFile # Torn
ASSUME BoundsAssumption ==
  /\ MaxCommands \in [Targets -> Nat]
  /\ MaxBundles \in Nat /\ MaxReleases \in Nat /\ MaxDeaths \in Nat

VARIABLES
  tree,        \* the version in VERSION, in the application and in the shell
  job,         \* the host works for the workflow, on a checkout that passed check_release
  runtime,     \* dist/desktop-runtime/<target>
  installers,  \* dist/desktop-installers/<target>: three files per version
  step, work,  \* of the command a host runs: where it is, what it is making
  commands,
  bundle,      \* dist/release
  bundling,    \* of create_manifest.py: what it validated, and how far it is
  release,     \* the assets of each public release
  publishing,  \* of the publish job: what it uploads, and how far it is
  listed,      \* the last publication of the version went through
  runs, deaths

hostVars    == <<tree, job, runtime, installers, step, work, commands>>
bundleVars  == <<bundle, bundling>>
releaseVars == <<release, publishing, listed>>
vars == <<hostVars, bundleVars, releaseVars, runs, deaths>>

(* The files that carry a version, in the order bump_version.py writes     *)
(* them; "shell" stands for the five files of desktop/.                    *)
VersionFiles == <<"VERSION", "application", "shell">>
Trees == [{"VERSION", "application", "shell"} -> Versions]
Aligned(files) ==
  /\ files["application"] = files["VERSION"]
  /\ files["shell"] = files["VERSION"]

Kinds  == {"artifact", "checksum", "metadata"}
Empty  == [v \in Versions |-> [k \in Kinds |-> NoFile]]
Exists(f) == f # NoFile
Intact(f) == f # NoFile /\ f # Torn

-----------------------------------------------------------------------------
(* create_manifest.py, its two checks.                                     *)

(* The version is the name's; the three files of a build agree when each   *)
(* holds or names the content of the artifact.                             *)
ValidBuild(files) ==
  /\ Intact(files["metadata"])
  /\ files["artifact"] = files["metadata"]
  /\ files["checksum"] = files["metadata"]

(* Every metadata file found counts, valid or not. *)
MetadataOf(t) == {v \in Versions : Exists(installers[t][v]["metadata"])}
OneBuildEach(v) ==
  \A t \in Targets : MetadataOf(t) = {v} /\ ValidBuild(installers[t][v])

Accepted(b, v) ==
  /\ Intact(b.manifest) /\ b.manifest.version = v
  /\ \A t \in Targets :
       /\ b.files[t][v]["artifact"] = b.manifest.builds[t]
       /\ b.files[t][v]["checksum"] = b.manifest.builds[t]
       /\ ValidBuild(b.files[t][v])
  /\ b.sums = b.manifest.builds

-----------------------------------------------------------------------------
(* What a command makes.  whole: it is what its manifest and the pinned    *)
(* versions say, as verify_runtime() sees it; job: made in a job of the    *)
(* workflow; good: it passes the checks made after bundling.               *)
RuntimeFrom(v, application, fixture, whole, inJob, n) ==
  [version |-> v, application |-> application, fixture |-> fixture, whole |-> whole,
   job |-> inJob, build |-> n]
InstallerOf(r, shell, good) == [runtime |-> r, shell |-> shell, good |-> good]

Idle   == [at |-> 0, version |-> NoFile, content |-> NoFile]
NoFiles == [t \in Targets |-> [k \in Kinds |-> NoFile]]

Steps == {"idle", "bumping", "installing", "installed", "described", "verified", "replacing",
          "staged", "bundled", "cleared", "copied", "emitted", "passed"}

Runtimes == [version : Versions \union {NoFile}, application : Versions, fixture : BOOLEAN,
             whole : BOOLEAN, job : BOOLEAN, build : Nat]
Built == [runtime : Runtimes, shell : Versions, good : BOOLEAN]
Bumps == [version : Versions, next : 1..Len(VersionFiles)]
Files == Built \union {NoFile, Torn}

(* A list of hashes, and one that says which version it is of. *)
Sums      == [Targets -> Files]
Manifests == [version : Versions, builds : Sums]

TypeOK ==
  /\ tree \in [Targets -> Trees] /\ job \in [Targets -> BOOLEAN]
  /\ runtime \in [Targets -> Runtimes \union {NoFile}]
  /\ installers \in [Targets -> [Versions -> [Kinds -> Files]]]
  /\ step \in [Targets -> Steps]
  /\ work \in [Targets -> Bumps \union Runtimes \union Built \union {NoFile}]
  /\ commands \in [Targets -> Nat]
  /\ bundle \in [files : [Targets -> [Versions -> [Kinds -> Files]]],
                 manifest : Manifests \union {NoFile, Torn}, sums : Sums \union {NoFile, Torn}]
  /\ bundling \in [at : Nat, version : Versions \union {NoFile}, content : Sums \union {NoFile}]
  /\ release \in [Versions -> [files : [Targets -> [Kinds -> Files]],
                               manifest : Manifests \union {NoFile, Torn},
                               sums : Sums \union {NoFile, Torn}]]
  /\ publishing.at \in Nat /\ publishing.version \in Versions \union {NoFile}
  /\ listed \in [Versions -> BOOLEAN]
  /\ runs \in [bundles : Nat, releases : Nat]
  /\ deaths \in Nat

(* A host has built nothing yet, or one version earlier; in a job that is  *)
(* the version of its checkout.                                            *)
Earlier(v, inJob) == InstallerOf(RuntimeFrom(v, v, FALSE, TRUE, inJob, 0), v, TRUE)
Before(files, inJob) ==
  {Empty} \union
    {[Empty EXCEPT ![v] = [k \in Kinds |-> Earlier(v, inJob)]]
       : v \in {w \in Versions : inJob => w = files["VERSION"]}}
Init ==
  /\ tree \in [Targets -> {files \in Trees : Aligned(files)}]
  /\ job \in [Targets -> BOOLEAN]
  /\ runtime = [t \in Targets |-> NoFile]
  /\ installers \in [Targets -> UNION {Before(tree[t], job[t]) : t \in Targets}]
  /\ \A t \in Targets : installers[t] \in Before(tree[t], job[t])
  /\ step = [t \in Targets |-> "idle"]
  /\ work = [t \in Targets |-> NoFile]
  /\ commands = [t \in Targets |-> 0]
  /\ bundle = [files |-> [t \in Targets |-> Empty], manifest |-> NoFile, sums |-> NoFile]
  /\ bundling = Idle
  /\ release = [v \in Versions |-> [files |-> NoFiles, manifest |-> NoFile, sums |-> NoFile]]
  /\ publishing = Idle
  /\ listed = [v \in Versions |-> FALSE]
  /\ runs = [bundles |-> 0, releases |-> 0]
  /\ deaths = 0

-----------------------------------------------------------------------------
(* The commands of a host.                                                 *)

Start(t) ==
  /\ step[t] = "idle" /\ commands[t] < MaxCommands[t]
  /\ commands' = [commands EXCEPT ![t] = @ + 1]
At(t, s)  == step[t] = s /\ UNCHANGED commands
Go(t, s)  == step' = [step EXCEPT ![t] = s]
Make(t, w) == work' = [work EXCEPT ![t] = w]
End(t)    == Go(t, "idle") /\ Make(t, NoFile)
Elsewhere == UNCHANGED <<bundleVars, releaseVars, runs, deaths>>

(* A job of release-build.yml: a new machine, a checkout of some commit,   *)
(* and check_release.py, whose refusal ends the job.                       *)
StartJob(t) ==
  /\ Start(t)
  /\ \E files \in Trees : Aligned(files) /\ tree' = [tree EXCEPT ![t] = files]
  /\ job' = [job EXCEPT ![t] = TRUE]
  /\ runtime' = [runtime EXCEPT ![t] = NoFile]
  /\ installers' = [installers EXCEPT ![t] = Empty]
  /\ UNCHANGED <<step, work>> /\ Elsewhere

(* bump_version.py on a developer's machine: one file after the other;     *)
(* what validate_version_alignment() says in the end changes nothing.      *)
StartBump(t) ==
  /\ Start(t) /\ ~job[t]
  /\ \E v \in Versions : Make(t, [version |-> v, next |-> 1])
  /\ Go(t, "bumping")
  /\ UNCHANGED <<tree, job, runtime, installers>> /\ Elsewhere
BumpFile(t) ==
  /\ At(t, "bumping")
  /\ LET n == work[t].next IN
     /\ tree' = [tree EXCEPT ![t][VersionFiles[n]] = work[t].version]
     /\ IF n = Len(VersionFiles) THEN End(t)
        ELSE Make(t, [work[t] EXCEPT !.next = n + 1]) /\ UNCHANGED step
  /\ UNCHANGED <<job, runtime, installers>> /\ Elsewhere

(* build_runtime(): the application is copied into a temporary directory.  *)
StartRuntime(t) ==
  /\ Start(t)
  /\ \E fixture, force \in BOOLEAN :
       /\ Exists(runtime[t]) => force
       /\ Make(t, RuntimeFrom(NoFile, tree[t]["application"], fixture, FALSE, job[t],
                              commands[t] + 1))
  /\ Go(t, "installing")
  /\ UNCHANGED <<tree, job, runtime, installers>> /\ Elsewhere

(* Python, the locked packages and Chromium, or the fixture's files; an    *)
(* error removes the temporary directory.                                  *)
Install(t) ==
  /\ At(t, "installing")
  /\ \/ /\ \E whole \in BOOLEAN : Make(t, [work[t] EXCEPT !.whole = whole])
        /\ Go(t, "installed")
     \/ End(t)
  /\ UNCHANGED <<tree, job, runtime, installers>> /\ Elsewhere

(* VERSION is read for the manifest only now. *)
WriteManifest(t) ==
  /\ At(t, "installed")
  /\ Make(t, [work[t] EXCEPT !.version = tree[t]["VERSION"]])
  /\ Go(t, "described")
  /\ UNCHANGED <<tree, job, runtime, installers>> /\ Elsewhere

(* verify_runtime(), and smoke_runtime() if asked for, which may fail. *)
Verify(t) ==
  /\ At(t, "described")
  /\ \/ work[t].whole /\ Go(t, "verified") /\ UNCHANGED work
     \/ End(t)
  /\ UNCHANGED <<tree, job, runtime, installers>> /\ Elsewhere

Smoke(t) ==
  /\ At(t, "verified") /\ ~work[t].fixture
  /\ End(t)
  /\ UNCHANGED <<tree, job, runtime, installers>> /\ Elsewhere

(* rmtree() of the old runtime, which is not whole while it lasts, and the *)
(* renaming of the temporary directory.                                    *)
UnverifiedReplaces(t) == step[t] \in {"described", "verified"}  \* mutant

MayReplace(t) == step[t] = "verified"

RemoveOld(t) ==
  /\ MayReplace(t) /\ UNCHANGED commands
  /\ Exists(runtime[t])
  /\ runtime' = [runtime EXCEPT ![t].whole = FALSE]
  /\ Go(t, "replacing")
  /\ UNCHANGED <<tree, job, installers, work>> /\ Elsewhere
Replace(t) ==
  /\ (MayReplace(t) /\ ~Exists(runtime[t])) \/ step[t] = "replacing"
  /\ runtime' = [runtime EXCEPT ![t] = work[t]]
  /\ End(t)
  /\ UNCHANGED <<tree, job, installers, commands>> /\ Elsewhere

(* build_installer(): verify_runtime(), and copies of the shell and the    *)
(* runtime in a stage of their own.                                        *)
AnyProduction(r) == Exists(r) /\ ~r.fixture  \* mutant: a torn one too

Distributable(r) == Exists(r) /\ r.whole /\ ~r.fixture

StartInstaller(t) ==
  /\ Start(t)
  /\ Distributable(runtime[t])
  /\ Make(t, InstallerOf(runtime[t], tree[t]["shell"], FALSE))
  /\ Go(t, "staged")
  /\ UNCHANGED <<tree, job, runtime, installers>> /\ Elsewhere

(* npm and Tauri fail, or yield a bundle that is sound or not. *)
TauriBuild(t) ==
  /\ At(t, "staged")
  /\ \/ \E good \in BOOLEAN : Go(t, "bundled") /\ Make(t, [work[t] EXCEPT !.good = good])
     \/ End(t)
  /\ UNCHANGED <<tree, job, runtime, installers>> /\ Elsewhere

(* The files of the installer are written over those of an earlier build   *)
(* of the same version; the artifact is removed before it is copied.       *)
Writes(s) ==
  CASE s = "cleared" -> "artifact" [] s = "copied" -> "checksum" [] s = "passed" -> "metadata"
    [] OTHER -> "none"
Put(t, kind, content) ==
  installers' = [installers EXCEPT ![t][work[t].runtime.version][kind] = content]
Emit(t) ==
  /\ At(t, "bundled")
  /\ Put(t, "artifact", NoFile)
  /\ Go(t, "cleared")
  /\ UNCHANGED <<tree, job, runtime, work>> /\ Elsewhere
Copy(t) ==
  /\ At(t, "cleared")
  /\ Put(t, "artifact", work[t])
  /\ Go(t, "copied")
  /\ UNCHANGED <<tree, job, runtime, work>> /\ Elsewhere
WriteChecksum(t) ==
  /\ At(t, "copied")
  /\ Put(t, "checksum", work[t])
  /\ Go(t, "emitted")
  /\ UNCHANGED <<tree, job, runtime, work>> /\ Elsewhere

(* _verify_emitted_artifacts(): an artifact that fails stays where it is.  *)
Passes(artifact) == artifact.good
VerifyEmitted(t) ==
  /\ At(t, "emitted")
  /\ IF Passes(work[t]) THEN Go(t, "passed") /\ UNCHANGED work ELSE End(t)
  /\ UNCHANGED <<tree, job, runtime, installers>> /\ Elsewhere
WriteMetadata(t) ==
  /\ At(t, "passed")
  /\ Put(t, "metadata", work[t])
  /\ End(t)
  /\ UNCHANGED <<tree, job, runtime>> /\ Elsewhere

(* The command is killed, its handlers with it. *)
Killed == deaths < MaxDeaths /\ deaths' = deaths + 1
Kill(t) ==
  /\ Killed /\ step[t] # "idle"
  /\ End(t)
  /\ \/ UNCHANGED installers
     \/ Writes(step[t]) \in Kinds /\ Put(t, Writes(step[t]), Torn)
  /\ UNCHANGED <<tree, job, runtime, commands, bundleVars, releaseVars, runs>>

Host(t) ==
  \/ StartJob(t) \/ StartBump(t) \/ BumpFile(t)
  \/ StartRuntime(t) \/ Install(t) \/ WriteManifest(t) \/ Verify(t) \/ Smoke(t)
  \/ RemoveOld(t) \/ Replace(t)
  \/ StartInstaller(t) \/ TauriBuild(t) \/ Emit(t) \/ Copy(t) \/ WriteChecksum(t)
  \/ VerifyEmitted(t) \/ WriteMetadata(t)
  \/ Kill(t)

-----------------------------------------------------------------------------
(* create_release_bundle().                                                *)

KindOrder == <<"artifact", "checksum", "metadata">>
Count == Len(KindOrder) * Len(TargetOrder)

(* Every build that is found is valid, and there is one for each target,   *)
(* all of one version.                                                     *)
Validate ==
  /\ bundling.at = 0 /\ runs.bundles < MaxBundles
  /\ runs' = [runs EXCEPT !.bundles = @ + 1]
  /\ \E v \in Versions :
       /\ OneBuildEach(v)
       /\ bundling' = [at |-> 1, version |-> v,
                       content |-> [t \in Targets |-> installers[t][v]["metadata"]]]
  /\ UNCHANGED <<hostVars, bundle, releaseVars, deaths>>

Advanced(b) == [b EXCEPT !.at = @ + 1]

(* The files of one target after those of another, from where they are:    *)
(* one that is gone by now is an error.                                    *)
TargetCopied(n) == TargetOrder[(n - 1) \div Len(KindOrder) + 1]
KindCopied(n)   == KindOrder[((n - 1) % Len(KindOrder)) + 1]
Source == installers[TargetCopied(bundling.at)][bundling.version][KindCopied(bundling.at)]
BundleWith(file) ==
  [bundle EXCEPT
     !.files[TargetCopied(bundling.at)][bundling.version][KindCopied(bundling.at)] = file]

CopyFile ==
  /\ bundling.at \in 1..Count
  /\ \/ Exists(Source) /\ bundle' = BundleWith(Source) /\ bundling' = Advanced(bundling)
     \/ ~Exists(Source) /\ bundling' = Idle /\ UNCHANGED bundle
  /\ UNCHANGED <<hostVars, releaseVars, runs, deaths>>
WriteReleaseManifest ==
  /\ bundling.at = Count + 1
  /\ bundle' = [bundle EXCEPT !.manifest = [version |-> bundling.version,
                                            builds |-> bundling.content]]
  /\ bundling' = Advanced(bundling)
  /\ UNCHANGED <<hostVars, releaseVars, runs, deaths>>

(* verify_release_bundle() only reads what is there then. *)
WriteSums ==
  /\ bundling.at = Count + 2
  /\ bundle' = [bundle EXCEPT !.sums = bundling.content]
  /\ bundling' = Idle
  /\ UNCHANGED <<hostVars, releaseVars, runs, deaths>>

(* The file that was being copied or written may be there in part. *)
KillBundling ==
  /\ Killed /\ bundling.at # 0
  /\ bundling' = Idle
  /\ \/ UNCHANGED bundle
     \/ bundling.at \in 1..Count /\ Exists(Source) /\ bundle' = BundleWith(Torn)
     \/ bundling.at = Count + 1 /\ bundle' = [bundle EXCEPT !.manifest = Torn]
     \/ bundling.at = Count + 2 /\ bundle' = [bundle EXCEPT !.sums = Torn]
  /\ UNCHANGED <<hostVars, releaseVars, runs>>

-----------------------------------------------------------------------------
(* The publish job of release-publish.yml: the bundle of the same run of   *)
(* the workflow, verified once more, asset by asset in the order of its    *)
(* list; gh may upload several at a time.                                  *)

Publish(v) ==
  /\ publishing.at = 0 /\ runs.releases < MaxReleases
  /\ bundling.at = 0 /\ Accepted(bundle, v)
  /\ \A t \in Targets : bundle.manifest.builds[t].runtime.job
  /\ publishing' = [at |-> 1, version |-> v,
                    content |-> [bundle EXCEPT !.files = [t \in Targets |-> @[t][v]]]]
  /\ listed' = [listed EXCEPT ![v] = FALSE]
  /\ runs' = [runs EXCEPT !.releases = @ + 1]
  /\ UNCHANGED <<hostVars, bundleVars, release, deaths>>

(* --clobber: an asset of this name is replaced. *)
(* Mutant: without it. *)
AssetKept(b, n, from) ==
  LET t == TargetOrder[((n - 1) % Len(TargetOrder)) + 1]
      k == KindOrder[(n - 1) \div Len(TargetOrder) + 1]
  IN CASE n = Count + 1 -> IF Exists(b.sums) THEN b ELSE [b EXCEPT !.sums = from.sums]
       [] n = Count + 2 -> IF Exists(b.manifest) THEN b
                           ELSE [b EXCEPT !.manifest = from.manifest]
       [] OTHER -> IF Exists(b.files[t][k]) THEN b
                   ELSE [b EXCEPT !.files[t][k] = from.files[t][k]]

AssetWith(b, n, from) ==
  LET t == TargetOrder[((n - 1) % Len(TargetOrder)) + 1]
      k == KindOrder[(n - 1) \div Len(TargetOrder) + 1]
  IN CASE n = Count + 1 -> [b EXCEPT !.sums = from.sums]
       [] n = Count + 2 -> [b EXCEPT !.manifest = from.manifest]
       [] OTHER -> [b EXCEPT !.files[t][k] = from.files[t][k]]
Upload ==
  /\ publishing.at \in 1..(Count + 2)
  /\ LET v == publishing.version IN
     /\ release' = [release EXCEPT ![v] = AssetWith(@, publishing.at, publishing.content)]
     /\ IF publishing.at = Count + 2
        THEN publishing' = Idle /\ listed' = [listed EXCEPT ![v] = TRUE]
        ELSE publishing' = Advanced(publishing) /\ UNCHANGED listed
  /\ UNCHANGED <<hostVars, bundleVars, runs, deaths>>

(* The asset that was being replaced may be gone. *)
NoAssets == [files |-> NoFiles, manifest |-> NoFile, sums |-> NoFile]
KillPublishing ==
  /\ Killed /\ publishing.at # 0
  /\ publishing' = Idle
  /\ \/ UNCHANGED release
     \/ release' = [release EXCEPT ![publishing.version] =
                      AssetWith(@, publishing.at, NoAssets)]
  /\ UNCHANGED <<hostVars, bundleVars, listed, runs>>

Next ==
  \/ \E t \in Targets : Host(t)
  \/ Validate \/ CopyFile \/ WriteReleaseManifest \/ WriteSums \/ KillBundling
  \/ \E v \in Versions : Publish(v)
  \/ Upload \/ KillPublishing

Spec == Init /\ [][Next]_vars

-----------------------------------------------------------------------------
(* A bundle that verify_release_bundle() accepts, whenever it is asked and *)
(* whatever was killed, repeated or overwritten before, holds for each     *)
(* target an installer that passed the checks after bundling, made of a    *)
(* complete runtime that is no fixture and has the version of the bundle   *)
(* (create_manifest.py:123-158, build_installer.py:284-315).               *)
AcceptedVerified ==
  \A v \in Versions : Accepted(bundle, v) =>
    \A t \in Targets :
      LET a == bundle.manifest.builds[t] IN
      /\ a.good
      /\ a.runtime.whole /\ ~a.runtime.fixture
      /\ a.runtime.version = v

(* A runtime that is in place is given up only for another that is what    *)
(* its manifest says, or with its whole machine: a build that fails or is  *)
(* killed before that leaves it usable (build_runtime.py:717-735).         *)
OldRuntimeKept ==
  [][\A t \in Targets :
       Distributable(runtime[t]) /\ runtime'[t] # runtime[t] =>
         \/ step[t] # "idle" /\ work[t].whole
         \/ runtime'[t] = NoFile /\ job'[t]]_vars

(* A release whose last publication went through consists of the files of  *)
(* one bundle, of the release's version in the name, the application and   *)
(* the shell, though it may have been published before, in part or from    *)
(* other builds (release-publish.yml:59-68, versioning.py:61-68).          *)
PublishedWhole ==
  \A v \in Versions : listed[v] =>
    /\ release[v].manifest.version = v
    /\ release[v].sums = release[v].manifest.builds
    /\ \A t \in Targets :
         LET a == release[v].manifest.builds[t] IN
         /\ \A k \in Kinds : release[v].files[t][k] = a
         /\ a.runtime.application = v /\ a.shell = v
=============================================================================
