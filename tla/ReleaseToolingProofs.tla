------------------------ MODULE ReleaseToolingProofs ------------------------
(***************************************************************************)
(* Proofs about ReleaseTooling, for any targets, versions and bounds.      *)
(*                                                                         *)
(* The invariant follows an installer from the runtime it is made of to a  *)
(* public release.  On a host (HostOK) a runtime gets a version before it  *)
(* is verified, only a verified one is put in place, only a complete one   *)
(* is packaged, and metadata is only written for an installer that passed; *)
(* in a job all of it has the version of the checkout.  What a bundle is   *)
(* made of was described by metadata when it was validated (BundleOK).  A  *)
(* release under publication has the assets up to the one that is next,    *)
(* and one that is listed has them all (ReleaseOK).                        *)
(***************************************************************************)
EXTENDS ReleaseTooling, TLAPS

RuntimeSteps   == {"installing", "installed", "described", "verified", "replacing"}
InstallerSteps == {"staged", "bundled", "cleared", "copied", "emitted", "passed"}

(* A runtime that VERSION was read for, on host t. *)
Described(r, t) ==
  /\ r \in Runtimes /\ r.version \in Versions
  /\ r.job => /\ job[t]
              /\ r.application = r.version /\ r.version = tree[t]["VERSION"]

(* An installer of version v that passed. *)
Sound(a, v) ==
  /\ a \in Built /\ a.good
  /\ a.runtime.whole /\ ~a.runtime.fixture /\ a.runtime.version = v
  /\ a.runtime.job => a.runtime.application = v /\ a.shell = v

WorkOK(t) ==
  /\ step[t] = "bumping" => work[t] \in Bumps /\ ~job[t]
  /\ step[t] \in RuntimeSteps =>
       /\ work[t] \in Runtimes
       /\ work[t].job => job[t] /\ work[t].application = tree[t]["VERSION"]
  /\ step[t] \in {"described", "verified", "replacing"} => Described(work[t], t)
  /\ step[t] \in {"verified", "replacing"} => work[t].whole
  /\ step[t] \in InstallerSteps =>
       /\ work[t] \in Built /\ Described(work[t].runtime, t)
       /\ work[t].runtime.whole /\ ~work[t].runtime.fixture
       /\ work[t].runtime.job => work[t].shell = work[t].runtime.version
  /\ step[t] = "passed" => work[t].good

InstallersOK(t) ==
  \A v \in Versions : Intact(installers[t][v]["metadata"])
                        => Sound(installers[t][v]["metadata"], v)

HostOK(t) ==
  /\ job[t] => Aligned(tree[t])
  /\ Exists(runtime[t]) => Described(runtime[t], t)
  /\ WorkOK(t)
  /\ InstallersOK(t)

BundleOK ==
  /\ bundling.at # 0 =>
       /\ bundling.version \in Versions /\ bundling.content \in Sums
       /\ \A t \in Targets : Sound(bundling.content[t], bundling.version)
  /\ Intact(bundle.manifest) =>
       \A t \in Targets : Sound(bundle.manifest.builds[t], bundle.manifest.version)

Contents == [files : [Targets -> [Kinds -> Files]], manifest : Manifests \union {NoFile, Torn},
             sums : Sums \union {NoFile, Torn}]

(* The assets of a release of version v, made in jobs. *)
Complete(b, v) ==
  /\ b \in Contents
  /\ b.manifest \in Manifests /\ b.manifest.version = v
  /\ b.sums = b.manifest.builds
  /\ \A t \in Targets :
       /\ \A k \in Kinds : b.files[t][k] = b.manifest.builds[t]
       /\ Sound(b.manifest.builds[t], v) /\ b.manifest.builds[t].runtime.job

(* What is uploaded n-th. *)
TargetAt(n) == TargetOrder[((n - 1) % Len(TargetOrder)) + 1]
KindAt(n)   == KindOrder[(n - 1) \div Len(TargetOrder) + 1]

(* The assets before the n-th are the new ones. *)
Uploaded(b, n, from) ==
  /\ \A i \in 1..Count : i < n => b.files[TargetAt(i)][KindAt(i)] = from.files[TargetAt(i)][KindAt(i)]
  /\ n > Count + 1 => b.sums = from.sums

ReleaseOK ==
  /\ publishing.at # 0 =>
       /\ publishing.version \in Versions /\ publishing.at <= Count + 2
       /\ publishing = [at |-> publishing.at, version |-> publishing.version,
                        content |-> publishing.content]
       /\ ~listed[publishing.version]
       /\ Complete(publishing.content, publishing.version)
       /\ Uploaded(release[publishing.version], publishing.at, publishing.content)
  /\ \A v \in Versions : listed[v] => Complete(release[v], v)

HostsOK == \A t \in Targets : HostOK(t)
IInv == TypeOK /\ HostsOK /\ BundleOK /\ ReleaseOK

-----------------------------------------------------------------------------
(* The lists.                                                              *)

LEMMA Orders ==
  /\ Len(VersionFiles) = 3 /\ Len(KindOrder) = 3 /\ Len(TargetOrder) \in Nat
  /\ Count \in Nat
  /\ \A n \in 1..3 : VersionFiles[n] \in {"VERSION", "application", "shell"}
BY TargetsAssumption DEF VersionFiles, KindOrder, Count

(* What create_release_bundle() copies n-th.                               *)
LEMMA CopiedOnes ==
  \A n \in 1..Count : TargetCopied(n) \in Targets /\ KindCopied(n) \in Kinds
<1> SUFFICES ASSUME NEW n \in 1..Count PROVE TargetCopied(n) \in Targets /\ KindCopied(n) \in Kinds
  OBVIOUS
<1>1. Count = 3 * Len(TargetOrder) /\ Len(KindOrder) = 3 /\ Len(TargetOrder) \in Nat
  BY Orders DEF Count
<1>2. (n - 1) \div 3 + 1 \in 1..Len(TargetOrder) /\ ((n - 1) % 3) + 1 \in 1..3
  BY <1>1
<1>3. \A i \in 1..3 : KindOrder[i] \in Kinds
  BY DEF KindOrder, Kinds
<1> QED BY <1>1, <1>2, <1>3, TargetsAssumption DEF TargetCopied, KindCopied

(* Every kind of every target has its place in the order of the uploads.   *)
LEMMA EveryAsset ==
  ASSUME NEW t \in Targets, NEW k \in Kinds
  PROVE  \E n \in 1..Count : TargetAt(n) = t /\ KindAt(n) = k
<1> DEFINE L == Len(TargetOrder)
<1>1. PICK j \in 1..L : TargetOrder[j] = t
  BY TargetsAssumption
<1>2. PICK r \in 0..2 : KindOrder[r + 1] = k
  <2>1. KindOrder[0 + 1] = "artifact" /\ KindOrder[1 + 1] = "checksum" /\ KindOrder[2 + 1] = "metadata"
    BY DEF KindOrder
  <2> QED BY <2>1 DEF Kinds
<1>3. L \in Nat \ {0} /\ Count = 3 * L
  BY <1>1, Orders DEF Count
<1> HIDE DEF L
<1>4. CASE r = 0
  <2>1. (j - 1) % L = j - 1 /\ (j - 1) \div L = 0 /\ j \in 1..Count
    BY <1>3
  <2> QED BY <1>1, <1>2, <1>4, <2>1 DEF TargetAt, KindAt, L
<1>5. CASE r = 1
  <2>1. (L + j - 1) % L = j - 1 /\ (L + j - 1) \div L = 1 /\ L + j \in 1..Count
    BY <1>3
  <2> QED BY <1>1, <1>2, <1>5, <2>1 DEF TargetAt, KindAt, L
<1>6. CASE r = 2
  <2>1. (2 * L + j - 1) % L = j - 1 /\ (2 * L + j - 1) \div L = 2 /\ 2 * L + j \in 1..Count
    BY <1>3
  <2> QED BY <1>1, <1>2, <1>6, <2>1 DEF TargetAt, KindAt, L
<1> QED BY <1>4, <1>5, <1>6

-----------------------------------------------------------------------------
(* The commands of a host keep to that host.                               *)
Frame(t) ==
  \A s \in Targets \ {t} :
    /\ tree'[s] = tree[s] /\ job'[s] = job[s] /\ runtime'[s] = runtime[s]
    /\ installers'[s] = installers[s] /\ step'[s] = step[s] /\ work'[s] = work[s]

LEMMA HostsElsewhere ==
  ASSUME HostsOK, NEW t \in Targets, Frame(t), HostOK(t)'
  PROVE  HostsOK'
<1> SUFFICES ASSUME NEW s \in Targets, s # t PROVE HostOK(s)'
  BY DEF HostsOK
<1>1. HostOK(s)
  BY DEF HostsOK
<1>2. /\ tree'[s] = tree[s] /\ job'[s] = job[s] /\ runtime'[s] = runtime[s]
      /\ installers'[s] = installers[s] /\ step'[s] = step[s] /\ work'[s] = work[s]
  BY DEF Frame
<1>3. WorkOK(s)'
  BY <1>1, <1>2 DEF HostOK, WorkOK, Described
<1>4. InstallersOK(s)'
  BY <1>1, <1>2 DEF HostOK, InstallersOK
<1> QED BY <1>1, <1>2, <1>3, <1>4 DEF HostOK, Described

LEMMA HostFrame ==
  ASSUME TypeOK, NEW t \in Targets, Host(t)
  PROVE  Frame(t)
<1>1. CASE StartJob(t)
  BY <1>1 DEF StartJob, Start, At, Go, Make, End, Put, MayReplace, Frame, TypeOK
<1>2. CASE StartBump(t)
  BY <1>2 DEF StartBump, Start, At, Go, Make, End, Put, MayReplace, Frame, TypeOK
<1>3. CASE BumpFile(t)
  BY <1>3 DEF BumpFile, Start, At, Go, Make, End, Put, MayReplace, Frame, TypeOK
<1>4. CASE StartRuntime(t)
  BY <1>4 DEF StartRuntime, Start, At, Go, Make, End, Put, MayReplace, Frame, TypeOK
<1>5. CASE Install(t)
  BY <1>5 DEF Install, Start, At, Go, Make, End, Put, MayReplace, Frame, TypeOK
<1>6. CASE WriteManifest(t)
  BY <1>6 DEF WriteManifest, Start, At, Go, Make, End, Put, MayReplace, Frame, TypeOK
<1>7. CASE Verify(t)
  BY <1>7 DEF Verify, Start, At, Go, Make, End, Put, MayReplace, Frame, TypeOK
<1>8. CASE Smoke(t)
  BY <1>8 DEF Smoke, Start, At, Go, Make, End, Put, MayReplace, Frame, TypeOK
<1>9. CASE RemoveOld(t)
  BY <1>9 DEF RemoveOld, Start, At, Go, Make, End, Put, MayReplace, Frame, TypeOK
<1>10. CASE Replace(t)
  BY <1>10 DEF Replace, Start, At, Go, Make, End, Put, MayReplace, Frame, TypeOK
<1>11. CASE StartInstaller(t)
  BY <1>11 DEF StartInstaller, Start, At, Go, Make, End, Put, MayReplace, Frame, TypeOK
<1>12. CASE TauriBuild(t)
  BY <1>12 DEF TauriBuild, Start, At, Go, Make, End, Put, MayReplace, Frame, TypeOK
<1>13. CASE Emit(t)
  BY <1>13 DEF Emit, Start, At, Go, Make, End, Put, MayReplace, Frame, TypeOK
<1>14. CASE Copy(t)
  BY <1>14 DEF Copy, Start, At, Go, Make, End, Put, MayReplace, Frame, TypeOK
<1>15. CASE WriteChecksum(t)
  BY <1>15 DEF WriteChecksum, Start, At, Go, Make, End, Put, MayReplace, Frame, TypeOK
<1>16. CASE VerifyEmitted(t)
  BY <1>16 DEF VerifyEmitted, Start, At, Go, Make, End, Put, MayReplace, Frame, TypeOK
<1>17. CASE WriteMetadata(t)
  BY <1>17 DEF WriteMetadata, Start, At, Go, Make, End, Put, MayReplace, Frame, TypeOK
<1>18. CASE Kill(t)
  BY <1>18 DEF Kill, Start, At, Go, Make, End, Put, MayReplace, Frame, TypeOK
<1> QED BY <1>1, <1>2, <1>3, <1>4, <1>5, <1>6, <1>7, <1>8, <1>9, <1>10, <1>11, <1>12, <1>13, <1>14, <1>15, <1>16, <1>17, <1>18 DEF Host

(* What a command changes of its host, variable by variable.               *)
Works == Bumps \union Runtimes \union Built \union {NoFile}

HostTypes ==
  /\ tree \in [Targets -> Trees] /\ job \in [Targets -> BOOLEAN]
  /\ runtime \in [Targets -> Runtimes \union {NoFile}]
  /\ installers \in [Targets -> [Versions -> [Kinds -> Files]]]
  /\ step \in [Targets -> Steps] /\ work \in [Targets -> Works]
  /\ commands \in [Targets -> Nat]

LEMMA Typed == TypeOK => HostTypes
BY DEF TypeOK, HostTypes, Works

LEMMA StepChange ==
  ASSUME HostTypes, NEW t \in Targets, Host(t)
  PROVE  step' \in [Targets -> Steps] /\ commands' \in [Targets -> Nat] /\ job' \in [Targets -> BOOLEAN]
<1>0. step \in [Targets -> Steps] /\ commands \in [Targets -> Nat] /\ job \in [Targets -> BOOLEAN]
  BY DEF HostTypes
<1> USE <1>0 DEF At, Go, End, Start, Steps
<1>1. CASE StartJob(t)
  BY <1>1 DEF StartJob
<1>2. CASE StartBump(t)
  BY <1>2 DEF StartBump
<1>3. CASE BumpFile(t)
  BY <1>3 DEF BumpFile
<1>4. CASE StartRuntime(t)
  BY <1>4 DEF StartRuntime
<1>5. CASE Install(t)
  BY <1>5 DEF Install
<1>6. CASE WriteManifest(t)
  BY <1>6 DEF WriteManifest
<1>7. CASE Verify(t)
  BY <1>7 DEF Verify
<1>8. CASE Smoke(t)
  BY <1>8 DEF Smoke
<1>9. CASE RemoveOld(t)
  BY <1>9 DEF RemoveOld, MayReplace
<1>10. CASE Replace(t)
  BY <1>10 DEF Replace
<1>11. CASE StartInstaller(t)
  BY <1>11 DEF StartInstaller
<1>12. CASE TauriBuild(t)
  BY <1>12 DEF TauriBuild
<1>13. CASE Emit(t)
  BY <1>13 DEF Emit
<1>14. CASE Copy(t)
  BY <1>14 DEF Copy
<1>15. CASE WriteChecksum(t)
  BY <1>15 DEF WriteChecksum
<1>16. CASE VerifyEmitted(t)
  BY <1>16 DEF VerifyEmitted
<1>17. CASE WriteMetadata(t)
  BY <1>17 DEF WriteMetadata
<1>18. CASE Kill(t)
  BY <1>18 DEF Kill
<1> QED BY <1>1, <1>2, <1>3, <1>4, <1>5, <1>6, <1>7, <1>8, <1>9, <1>10, <1>11, <1>12, <1>13, <1>14, <1>15, <1>16, <1>17, <1>18 DEF Host

LEMMA TreeChange ==
  ASSUME HostTypes, NEW t \in Targets, HostOK(t), Host(t)
  PROVE  /\ tree' \in [Targets -> Trees]
         /\ job'[t] => Aligned(tree'[t])
         /\ tree'[t] # tree[t] => StartJob(t) \/ BumpFile(t)
<1>0. tree \in [Targets -> Trees] /\ job \in [Targets -> BOOLEAN] /\ (job[t] => Aligned(tree[t]))
  BY DEF HostTypes, HostOK
<1>1. CASE tree' = tree /\ job' = job
  BY <1>0, <1>1
<1>2. CASE StartJob(t)
  BY <1>0, <1>2 DEF StartJob
<1>3. CASE BumpFile(t)
  <2>1. work[t] \in Bumps /\ ~job[t] /\ job' = job
    BY <1>3 DEF BumpFile, At, HostOK, WorkOK
  <2>2. work[t].version \in Versions /\ work[t].next \in 1..3
    BY <2>1, Orders DEF Bumps
  <2>3. VersionFiles[work[t].next] \in {"VERSION", "application", "shell"}
    BY <2>2, Orders
  <2>4. tree' = [tree EXCEPT ![t][VersionFiles[work[t].next]] = work[t].version]
    BY <1>3 DEF BumpFile
  <2>5. tree' \in [Targets -> Trees]
    BY <1>0, <2>2, <2>3, <2>4 DEF Trees
  <2> QED BY <1>3, <2>1, <2>5
<1>4. (tree' = tree /\ job' = job) \/ StartJob(t) \/ BumpFile(t)
  BY DEF Host, StartBump, StartRuntime, Install, WriteManifest, Verify, Smoke, RemoveOld, Replace,
         StartInstaller, TauriBuild, Emit, Copy, WriteChecksum, VerifyEmitted, WriteMetadata, Kill
<1> QED BY <1>1, <1>2, <1>3, <1>4

LEMMA RuntimeChange ==
  ASSUME HostTypes, NEW t \in Targets, HostOK(t), Host(t)
  PROVE  /\ runtime' \in [Targets -> Runtimes \union {NoFile}]
         /\ Exists(runtime'[t]) => Described(runtime[t], t)'
<1>0. /\ runtime \in [Targets -> Runtimes \union {NoFile}]
      /\ Exists(runtime[t]) => Described(runtime[t], t)
  BY DEF HostTypes, HostOK
<1>1. CASE runtime' = runtime /\ job' = job /\ tree' = tree
  BY <1>0, <1>1 DEF Described
<1>2. CASE StartJob(t)
  BY <1>0, <1>2 DEF StartJob, Exists
<1>3. CASE BumpFile(t)
  <2>1. ~job[t] /\ job' = job /\ runtime' = runtime
    BY <1>3 DEF BumpFile, At, HostOK, WorkOK
  <2> QED BY <1>0, <2>1 DEF Described
<1>4. CASE RemoveOld(t)
  <2>1. /\ Exists(runtime[t]) /\ runtime' = [runtime EXCEPT ![t].whole = FALSE]
        /\ tree' = tree /\ job' = job
    BY <1>4 DEF RemoveOld
  <2>2. runtime[t] \in Runtimes /\ runtime'[t] = [runtime[t] EXCEPT !.whole = FALSE]
    BY <1>0, <2>1 DEF Exists
  <2>3. runtime'[t] \in Runtimes /\ runtime'[t].version = runtime[t].version
        /\ runtime'[t].job = runtime[t].job /\ runtime'[t].application = runtime[t].application
    BY <2>2 DEF Runtimes
  <2>4. runtime' \in [Targets -> Runtimes \union {NoFile}]
    BY <1>0, <2>1, <2>2, <2>3
  <2> QED BY <1>0, <2>1, <2>3, <2>4 DEF Described
<1>5. CASE Replace(t)
  <2>1. /\ runtime' = [runtime EXCEPT ![t] = work[t]] /\ tree' = tree /\ job' = job
        /\ Described(work[t], t)
    BY <1>5 DEF Replace, MayReplace, HostOK, WorkOK
  <2>2. work[t] \in Runtimes /\ runtime'[t] = work[t]
    BY <1>0, <2>1 DEF Described
  <2> QED BY <1>0, <2>1, <2>2 DEF Described
<1>6. \/ (runtime' = runtime /\ job' = job /\ tree' = tree)
      \/ StartJob(t) \/ BumpFile(t) \/ RemoveOld(t) \/ Replace(t)
  BY DEF Host, StartBump, StartRuntime, Install, WriteManifest, Verify, Smoke,
         StartInstaller, TauriBuild, Emit, Copy, WriteChecksum, VerifyEmitted, WriteMetadata, Kill
<1> QED BY <1>1, <1>2, <1>3, <1>4, <1>5, <1>6

LEMMA InstallersChange ==
  ASSUME HostTypes, NEW t \in Targets, HostOK(t), Host(t)
  PROVE  /\ installers' \in [Targets -> [Versions -> [Kinds -> Files]]]
         /\ InstallersOK(t)'
<1>0. installers \in [Targets -> [Versions -> [Kinds -> Files]]] /\ InstallersOK(t)
  BY DEF HostTypes, HostOK
<1>1. CASE installers' = installers
  BY <1>0, <1>1 DEF InstallersOK
<1>2. CASE StartJob(t)
  BY <1>0, <1>2 DEF StartJob, InstallersOK, Empty, Files, Kinds, Intact
<1>3. ASSUME NEW kind \in Kinds, NEW content \in Files, Put(t, kind, content),
             kind = "metadata" /\ Intact(content) => Sound(content, work[t].runtime.version)
      PROVE  /\ installers' \in [Targets -> [Versions -> [Kinds -> Files]]]
             /\ InstallersOK(t)'
  <2> DEFINE x == work[t].runtime.version
  <2>0. installers' = [installers EXCEPT ![t][x][kind] = content]
    BY <1>3 DEF Put
  <2>1. installers' \in [Targets -> [Versions -> [Kinds -> Files]]]
    BY <1>0, <2>0
  <2>2. ASSUME NEW v \in Versions, Intact(installers'[t][v]["metadata"])
        PROVE  Sound(installers'[t][v]["metadata"], v)
    <3>1. CASE v = x /\ kind = "metadata"
      <4>1. installers'[t][v]["metadata"] = content
        BY <1>0, <2>0, <3>1 DEF Kinds
      <4> QED BY <1>3, <2>2, <3>1, <4>1
    <3>2. CASE ~(v = x /\ kind = "metadata")
      <4>1. installers'[t][v]["metadata"] = installers[t][v]["metadata"]
        BY <1>0, <2>0, <3>2 DEF Kinds
      <4> QED BY <1>0, <2>2, <4>1 DEF InstallersOK
    <3> QED BY <3>1, <3>2
  <2> QED BY <2>1, <2>2 DEF InstallersOK
<1>4. step[t] \in InstallerSteps => work[t] \in Files
  BY DEF HostOK, WorkOK, Files
<1>5. CASE Emit(t) \/ Copy(t) \/ WriteChecksum(t)
  BY <1>3, <1>4, <1>5 DEF Emit, Copy, WriteChecksum, At, Kinds, Files, InstallerSteps
<1>6. CASE WriteMetadata(t)
  <2>1. /\ work[t] \in Built /\ work[t].good /\ Described(work[t].runtime, t)
        /\ work[t].runtime.whole /\ ~work[t].runtime.fixture
        /\ work[t].runtime.job => work[t].shell = work[t].runtime.version
        /\ Put(t, "metadata", work[t])
    BY <1>6 DEF WriteMetadata, At, HostOK, WorkOK, InstallerSteps
  <2>2. Sound(work[t], work[t].runtime.version)
    BY <2>1 DEF Sound, Described
  <2> QED BY <1>3, <2>1, <2>2 DEF Kinds, Files
<1>7. CASE Kill(t)
  <2>1. installers' = installers \/ (Writes(step[t]) \in Kinds /\ Put(t, Writes(step[t]), Torn))
    BY <1>7 DEF Kill
  <2> QED BY <1>1, <1>3, <2>1 DEF Files, Intact
<1>8. \/ installers' = installers
      \/ StartJob(t) \/ Emit(t) \/ Copy(t) \/ WriteChecksum(t) \/ WriteMetadata(t) \/ Kill(t)
  BY DEF Host, StartBump, BumpFile, StartRuntime, Install, WriteManifest, Verify, Smoke,
         RemoveOld, Replace, StartInstaller, TauriBuild, VerifyEmitted
<1> QED BY <1>1, <1>2, <1>5, <1>6, <1>7, <1>8

LEMMA WorkChange ==
  ASSUME HostTypes, NEW t \in Targets, HostOK(t), Host(t)
  PROVE  work' \in [Targets -> Works] /\ WorkOK(t)'
<1>0. /\ work \in [Targets -> Works] /\ step \in [Targets -> Steps]
      /\ job \in [Targets -> BOOLEAN] /\ tree \in [Targets -> Trees]
      /\ runtime \in [Targets -> Runtimes \union {NoFile}] /\ commands \in [Targets -> Nat]
      /\ WorkOK(t)
  BY DEF HostTypes, HostOK
<1>1. NoFile \in Works
  BY DEF Works
<1>2. ASSUME work' = [work EXCEPT ![t] = NoFile] \/ work' = work, step'[t] = "idle"
      PROVE  work' \in [Targets -> Works] /\ WorkOK(t)'
  BY <1>0, <1>1, <1>2 DEF WorkOK, RuntimeSteps, InstallerSteps
<1>3. ASSUME End(t)
      PROVE  work' \in [Targets -> Works] /\ WorkOK(t)'
  BY <1>0, <1>2, <1>3 DEF End, Go, Make
<1>4. CASE StartJob(t)
  BY <1>0, <1>2, <1>4 DEF StartJob, Start
<1>5. CASE StartBump(t)
  <2>1. PICK v \in Versions : work' = [work EXCEPT ![t] = [version |-> v, next |-> 1]]
    BY <1>5 DEF StartBump, Make
  <2>2. [version |-> v, next |-> 1] \in Bumps
    BY Orders DEF Bumps
  <2>3. step'[t] = "bumping" /\ ~job'[t] /\ work'[t] = [version |-> v, next |-> 1]
    BY <1>0, <1>5, <2>1 DEF StartBump, Go
  <2> QED BY <1>0, <2>1, <2>2, <2>3 DEF WorkOK, RuntimeSteps, InstallerSteps, Works
<1>6. CASE BumpFile(t)
  <2>1. CASE End(t)
    BY <1>3, <2>1
  <2>2. CASE work[t].next # Len(VersionFiles)
    <3>1. work[t] \in Bumps /\ ~job[t] /\ step[t] = "bumping" /\ step' = step /\ job' = job
      BY <1>0, <1>6, <2>2 DEF BumpFile, At, WorkOK
    <3>2. work' = [work EXCEPT ![t] = [work[t] EXCEPT !.next = work[t].next + 1]]
      BY <1>6, <2>2 DEF BumpFile, Make
    <3>3. [work[t] EXCEPT !.next = work[t].next + 1] \in Bumps
      BY <2>2, <3>1, Orders DEF Bumps
    <3>4. work'[t] \in Bumps
      BY <1>0, <3>2, <3>3
    <3> QED BY <1>0, <3>1, <3>2, <3>3, <3>4 DEF WorkOK, RuntimeSteps, InstallerSteps, Works
  <2> QED BY <1>6, <2>1, <2>2 DEF BumpFile
<1>7. CASE StartRuntime(t)
  <2>1. PICK fixture \in BOOLEAN :
          work' = [work EXCEPT ![t] = RuntimeFrom(NoFile, tree[t]["application"], fixture, FALSE,
                                                  job[t], commands[t] + 1)]
    BY <1>7 DEF StartRuntime, Make
  <2> DEFINE r == RuntimeFrom(NoFile, tree[t]["application"], fixture, FALSE, job[t], commands[t] + 1)
  <2>2. r \in Runtimes /\ r.job = job[t] /\ r.application = tree[t]["application"]
    BY <1>0 DEF RuntimeFrom, Runtimes, Trees
  <2>3. step'[t] = "installing" /\ job' = job /\ tree' = tree
    BY <1>0, <1>7 DEF StartRuntime, Go
  <2>4. job[t] => tree[t]["application"] = tree[t]["VERSION"]
    BY DEF HostOK, Aligned
  <2> HIDE DEF r
  <2>5. work'[t] = r /\ work' \in [Targets -> Works]
    BY <1>0, <2>1, <2>2 DEF Works, r
  <2> QED BY <2>2, <2>3, <2>4, <2>5 DEF WorkOK, RuntimeSteps, InstallerSteps
<1>8. CASE Install(t)
  <2>1. CASE End(t)
    BY <1>3, <2>1
  <2>2. ASSUME NEW whole \in BOOLEAN, Make(t, [work[t] EXCEPT !.whole = whole]), Go(t, "installed")
        PROVE  work' \in [Targets -> Works] /\ WorkOK(t)'
    <3> DEFINE r == [work[t] EXCEPT !.whole = whole]
    <3>1. work[t] \in Runtimes /\ (work[t].job => job[t] /\ work[t].application = tree[t]["VERSION"])
      BY <1>0, <1>8 DEF Install, At, WorkOK, RuntimeSteps
    <3>2. r \in Runtimes /\ r.job = work[t].job /\ r.application = work[t].application
      BY <3>1 DEF Runtimes
    <3>3. step'[t] = "installed" /\ job' = job /\ tree' = tree
      BY <1>0, <1>8, <2>2 DEF Install, Go
    <3> HIDE DEF r
    <3>4. work'[t] = r /\ work' \in [Targets -> Works]
      BY <1>0, <2>2, <3>2 DEF Works, r, Make
    <3> QED BY <3>1, <3>2, <3>3, <3>4 DEF WorkOK, RuntimeSteps, InstallerSteps
  <2> QED BY <1>8, <2>1, <2>2 DEF Install
<1>9. CASE WriteManifest(t)
  <2> DEFINE r == [work[t] EXCEPT !.version = tree[t]["VERSION"]]
  <2>1. work[t] \in Runtimes /\ (work[t].job => job[t] /\ work[t].application = tree[t]["VERSION"])
    BY <1>0, <1>9 DEF WriteManifest, At, WorkOK, RuntimeSteps
  <2>2. /\ r \in Runtimes /\ r.job = work[t].job /\ r.application = work[t].application
        /\ r.version = tree[t]["VERSION"] /\ r.version \in Versions
    BY <1>0, <2>1 DEF Runtimes, Trees
  <2>3. step'[t] = "described" /\ job' = job /\ tree' = tree
    BY <1>0, <1>9 DEF WriteManifest, Go
  <2> HIDE DEF r
  <2>4. work'[t] = r /\ work' \in [Targets -> Works]
    BY <1>0, <1>9, <2>2 DEF WriteManifest, Works, r, Make
  <2> QED BY <2>1, <2>2, <2>3, <2>4 DEF WorkOK, Described, RuntimeSteps, InstallerSteps
<1>10. CASE Verify(t)
  <2>1. CASE End(t)
    BY <1>3, <2>1
  <2>2. CASE work[t].whole /\ Go(t, "verified") /\ work' = work
    <3>1. step[t] = "described" /\ step'[t] = "verified" /\ job' = job /\ tree' = tree
      BY <1>0, <1>10, <2>2 DEF Verify, At, Go
    <3> QED BY <1>0, <2>2, <3>1 DEF WorkOK, Described, RuntimeSteps, InstallerSteps
  <2> QED BY <1>10, <2>1, <2>2 DEF Verify
<1>11. CASE RemoveOld(t)
  <2>1. step[t] = "verified" /\ step'[t] = "replacing" /\ job' = job /\ tree' = tree /\ work' = work
    BY <1>0, <1>11 DEF RemoveOld, MayReplace, Go
  <2> QED BY <1>0, <2>1 DEF WorkOK, Described, RuntimeSteps, InstallerSteps
<1>12. CASE StartInstaller(t)
  <2> DEFINE a == InstallerOf(runtime[t], tree[t]["shell"], FALSE)
  <2>1. /\ Described(runtime[t], t) /\ runtime[t].whole /\ ~runtime[t].fixture
        /\ step'[t] = "staged" /\ job' = job /\ tree' = tree /\ work' = [work EXCEPT ![t] = a]
    BY <1>0, <1>12 DEF StartInstaller, Distributable, HostOK, Go, Make
  <2>2. /\ a \in Built /\ a.runtime = runtime[t] /\ a.shell = tree[t]["shell"]
    BY <1>0, <2>1 DEF InstallerOf, Built, Described, Trees
  <2>3. job[t] => tree[t]["shell"] = tree[t]["VERSION"]
    BY DEF HostOK, Aligned
  <2> HIDE DEF a
  <2>4. work'[t] = a /\ work' \in [Targets -> Works]
    BY <1>0, <2>1, <2>2 DEF Works
  <2> QED BY <2>1, <2>2, <2>3, <2>4 DEF WorkOK, Described, RuntimeSteps, InstallerSteps
<1>13. CASE TauriBuild(t)
  <2>1. CASE End(t)
    BY <1>3, <2>1
  <2>2. ASSUME NEW good \in BOOLEAN, Go(t, "bundled"), Make(t, [work[t] EXCEPT !.good = good])
        PROVE  work' \in [Targets -> Works] /\ WorkOK(t)'
    <3> DEFINE a == [work[t] EXCEPT !.good = good]
    <3>1. /\ work[t] \in Built /\ Described(work[t].runtime, t)
          /\ work[t].runtime.whole /\ ~work[t].runtime.fixture
          /\ work[t].runtime.job => work[t].shell = work[t].runtime.version
      BY <1>0, <1>13 DEF TauriBuild, At, WorkOK, InstallerSteps
    <3>2. a \in Built /\ a.runtime = work[t].runtime /\ a.shell = work[t].shell
      BY <3>1 DEF Built
    <3>3. step'[t] = "bundled" /\ job' = job /\ tree' = tree
      BY <1>0, <1>13, <2>2 DEF TauriBuild, Go
    <3> HIDE DEF a
    <3>4. work'[t] = a /\ work' \in [Targets -> Works]
      BY <1>0, <2>2, <3>2 DEF Works, a, Make
    <3> QED BY <3>1, <3>2, <3>3, <3>4 DEF WorkOK, Described, RuntimeSteps, InstallerSteps
  <2> QED BY <1>13, <2>1, <2>2 DEF TauriBuild
<1>14. CASE Emit(t) \/ Copy(t) \/ WriteChecksum(t)
  <2>1. /\ step[t] \in InstallerSteps /\ step'[t] \in {"cleared", "copied", "emitted"}
        /\ work' = work /\ job' = job /\ tree' = tree
    BY <1>0, <1>14 DEF Emit, Copy, WriteChecksum, At, Go, InstallerSteps
  <2> QED BY <1>0, <2>1 DEF WorkOK, Described, RuntimeSteps, InstallerSteps
<1>15. CASE VerifyEmitted(t)
  <2>1. CASE End(t)
    BY <1>3, <2>1
  <2>2. CASE ~End(t)
    <3>1. /\ step[t] \in InstallerSteps /\ step'[t] = "passed" /\ work[t].good
          /\ work' = work /\ job' = job /\ tree' = tree
      BY <1>0, <1>15, <2>2 DEF VerifyEmitted, At, Go, InstallerSteps, Passes
    <3> QED BY <1>0, <3>1 DEF WorkOK, Described, RuntimeSteps, InstallerSteps
  <2> QED BY <2>1, <2>2
<1>16. CASE Smoke(t) \/ Replace(t) \/ WriteMetadata(t) \/ Kill(t)
  BY <1>3, <1>16 DEF Smoke, Replace, WriteMetadata, Kill
<1> QED BY <1>4, <1>5, <1>6, <1>7, <1>8, <1>9, <1>10, <1>11, <1>12, <1>13, <1>14, <1>15, <1>16 DEF Host

(* What a command of a host leaves.                                        *)
LEMMA HostStep ==
  ASSUME HostTypes, HostsOK, NEW t \in Targets, Host(t), TypeOK
  PROVE  HostTypes' /\ HostsOK'
<1>1. HostOK(t)
  BY DEF HostsOK
<1>2. HostTypes'
  BY <1>1, StepChange, TreeChange, RuntimeChange, InstallersChange, WorkChange DEF HostTypes
<1>3. HostOK(t)'
  BY <1>1, TreeChange, RuntimeChange, InstallersChange, WorkChange DEF HostOK
<1> QED BY <1>2, <1>3, HostFrame, HostsElsewhere

(* The commands of the hosts touch neither the bundle nor a release.       *)
LEMMA HostLeaves ==
  ASSUME NEW t \in Targets, Host(t)
  PROVE  UNCHANGED <<bundleVars, releaseVars, runs>> /\ (deaths' = deaths \/ Killed)
BY DEF Host, StartJob, StartBump, BumpFile, StartRuntime, Install, WriteManifest, Verify, Smoke,
       RemoveOld, Replace, StartInstaller, TauriBuild, Emit, Copy, WriteChecksum, VerifyEmitted,
       WriteMetadata, Kill, Elsewhere

-----------------------------------------------------------------------------
(* The bundle.                                                             *)

Progress == [at : Nat, version : Versions \union {NoFile}, content : Sums \union {NoFile}]

BundleTypes ==
  /\ bundle \in [files : [Targets -> [Versions -> [Kinds -> Files]]],
                 manifest : Manifests \union {NoFile, Torn}, sums : Sums \union {NoFile, Torn}]
  /\ bundling \in Progress
  /\ runs \in [bundles : Nat, releases : Nat]

LEMMA Advance ==
  ASSUME NEW b \in Progress
  PROVE  /\ Advanced(b) \in Progress
         /\ Advanced(b).at = b.at + 1 /\ Advanced(b).version = b.version
         /\ Advanced(b).content = b.content
BY DEF Advanced, Progress

(* The file that is copied, and one file more or less of the bundle.       *)
LEMMA SourceTypes ==
  ASSUME HostTypes, BundleOK, bundling.at \in 1..Count
  PROVE  bundling.version \in Versions /\ Source \in Files
<1>1. TargetCopied(bundling.at) \in Targets /\ KindCopied(bundling.at) \in Kinds
  BY CopiedOnes
<1>2. bundling.version \in Versions
  BY DEF BundleOK
<1> QED BY <1>1, <1>2 DEF Source, HostTypes

LEMMA FileReplaced ==
  ASSUME HostTypes, BundleTypes, BundleOK, bundling.at \in 1..Count, NEW file \in Files,
         bundle' = BundleWith(file)
  PROVE  /\ bundle'.manifest = bundle.manifest /\ bundle'.sums = bundle.sums
         /\ bundle' \in [files : [Targets -> [Versions -> [Kinds -> Files]]],
                        manifest : Manifests \union {NoFile, Torn}, sums : Sums \union {NoFile, Torn}]
<1> DEFINE t == TargetCopied(bundling.at)
           k == KindCopied(bundling.at)
           v == bundling.version
           files == [bundle.files EXCEPT ![t][v][k] = file]
<1>1. t \in Targets /\ k \in Kinds /\ v \in Versions
  BY CopiedOnes, SourceTypes
<1>2. bundle' = [bundle EXCEPT !.files = files]
  BY DEF BundleWith, BundleTypes
<1> HIDE DEF t, k, v
<1>3. bundle.files \in [Targets -> [Versions -> [Kinds -> Files]]]
  BY DEF BundleTypes
<1>4. files \in [Targets -> [Versions -> [Kinds -> Files]]]
  BY <1>1, <1>3
<1> HIDE DEF files
<1> QED BY <1>2, <1>4 DEF BundleTypes

Bundling == Validate \/ CopyFile \/ WriteReleaseManifest \/ WriteSums \/ KillBundling

LEMMA BundleStep ==
  ASSUME HostTypes, HostsOK, BundleTypes, BundleOK, Bundling
  PROVE  BundleTypes' /\ BundleOK'
<1>0. Idle \in Progress
      /\ Idle.at = 0
  BY DEF Idle, Progress
<1>1. CASE Validate
  <2>1. PICK v \in Versions :
          /\ OneBuildEach(v)
          /\ bundling' = [at |-> 1, version |-> v,
                          content |-> [t \in Targets |-> installers[t][v]["metadata"]]]
    BY <1>1 DEF Validate
  <2> DEFINE content == [t \in Targets |-> installers[t][v]["metadata"]]
  <2>2. \A t \in Targets : installers[t][v]["metadata"] \in Files /\ Sound(installers[t][v]["metadata"], v)
    BY <2>1 DEF OneBuildEach, ValidBuild, HostsOK, HostOK, InstallersOK, HostTypes, Kinds
  <2>3. /\ content \in Sums /\ \A t \in Targets : Sound(content[t], v)
        /\ bundling' = [at |-> 1, version |-> v, content |-> content]
    BY <2>1, <2>2 DEF Sums
  <2> HIDE DEF content
  <2>4. bundle' = bundle /\ runs' \in [bundles : Nat, releases : Nat]
    BY <1>1 DEF Validate, BundleTypes
  <2>5. BundleTypes'
    BY <2>3, <2>4 DEF BundleTypes, Progress
  <2>6. BundleOK'
    BY <2>3, <2>4 DEF BundleOK
  <2> QED BY <2>5, <2>6
<1>2. CASE bundling' = Idle /\ bundle' = bundle /\ runs' = runs
  BY <1>0, <1>2 DEF BundleTypes, BundleOK
<1>3. CASE CopyFile
  <2>1. CASE bundling' = Idle /\ bundle' = bundle
    BY <1>2, <1>3, <2>1 DEF CopyFile
  <2>2. CASE ~(bundling' = Idle /\ bundle' = bundle)
    <3>1. /\ bundle' = BundleWith(Source) /\ bundling' = Advanced(bundling) /\ runs' = runs
          /\ bundling.at \in 1..Count
      BY <1>3, <2>2 DEF CopyFile
    <3>2. Source \in Files
      BY <3>1, SourceTypes
    <3>3. bundling'.at = bundling.at + 1 /\ bundling'.version = bundling.version
          /\ bundling'.content = bundling.content
          /\ bundling' \in Progress
      BY <3>1, Advance DEF BundleTypes
    <3>4. /\ bundle'.manifest = bundle.manifest /\ bundle'.sums = bundle.sums
          /\ bundle' \in [files : [Targets -> [Versions -> [Kinds -> Files]]],
                         manifest : Manifests \union {NoFile, Torn}, sums : Sums \union {NoFile, Torn}]
      BY <3>1, <3>2, FileReplaced
    <3>5. BundleTypes'
      BY <3>1, <3>3, <3>4 DEF BundleTypes
    <3>6. BundleOK'
      BY <3>1, <3>3, <3>4 DEF BundleOK
    <3> QED BY <3>5, <3>6
  <2> QED BY <2>1, <2>2
<1>4. CASE WriteReleaseManifest
  <2> DEFINE m == [version |-> bundling.version, builds |-> bundling.content]
  <2>1. /\ bundle' = [bundle EXCEPT !.manifest = m] /\ bundling' = Advanced(bundling) /\ runs' = runs
        /\ bundling.at # 0
    BY <1>4, Orders DEF WriteReleaseManifest
  <2>2. m \in Manifests /\ \A t \in Targets : Sound(m.builds[t], m.version)
    BY <2>1 DEF BundleOK, Manifests
  <2>3. bundling'.at = bundling.at + 1 /\ bundling'.version = bundling.version
        /\ bundling'.content = bundling.content
        /\ bundling' \in Progress
    BY <2>1, Advance DEF BundleTypes
  <2> HIDE DEF m
  <2> QED BY <2>1, <2>2, <2>3 DEF BundleTypes, BundleOK
<1>5. CASE WriteSums
  <2>1. /\ bundle' = [bundle EXCEPT !.sums = bundling.content] /\ bundling' = Idle /\ runs' = runs
        /\ bundling.at # 0
    BY <1>5, Orders DEF WriteSums
  <2>2. bundling.content \in Sums
    BY <2>1 DEF BundleOK
  <2> QED BY <1>0, <2>1, <2>2 DEF BundleTypes, BundleOK
<1>6. CASE KillBundling
  <2>1. bundling' = Idle /\ runs' = runs
    BY <1>6 DEF KillBundling
  <2>2. CASE \/ bundle' = bundle \/ bundle' = [bundle EXCEPT !.manifest = Torn]
             \/ bundle' = [bundle EXCEPT !.sums = Torn]
    BY <1>0, <2>1, <2>2 DEF BundleTypes, BundleOK, Intact
  <2>3. CASE bundling.at \in 1..Count /\ bundle' = BundleWith(Torn)
    <3>1. /\ bundle'.manifest = bundle.manifest /\ bundle'.sums = bundle.sums
          /\ bundle' \in [files : [Targets -> [Versions -> [Kinds -> Files]]],
                         manifest : Manifests \union {NoFile, Torn}, sums : Sums \union {NoFile, Torn}]
      BY <2>3, FileReplaced DEF Files
    <3> QED BY <1>0, <2>1, <3>1 DEF BundleTypes, BundleOK, Intact
  <2> QED BY <1>6, <2>2, <2>3 DEF KillBundling
<1> QED BY <1>1, <1>3, <1>4, <1>5, <1>6 DEF Bundling

-----------------------------------------------------------------------------
(* The release.                                                            *)

ReleaseTypes ==
  /\ release \in [Versions -> Contents]
  /\ publishing.at \in Nat /\ publishing.version \in Versions \union {NoFile}
  /\ listed \in [Versions -> BOOLEAN]

LEMMA UploadedOnes == \A n \in 1..Count : TargetAt(n) \in Targets /\ KindAt(n) \in Kinds
<1> SUFFICES ASSUME NEW n \in 1..Count PROVE TargetAt(n) \in Targets /\ KindAt(n) \in Kinds
  OBVIOUS
<1> DEFINE L == Len(TargetOrder)
<1>1. Count = 3 * L /\ L \in Nat
  BY Orders DEF Count
<1> HIDE DEF L
<1>2. ((n - 1) % L) + 1 \in 1..L
  BY <1>1
<1>3. (n - 1) \div L \in 0..2
  BY <1>1
<1>4. \A i \in 1..3 : KindOrder[i] \in Kinds
  BY DEF KindOrder, Kinds
<1> QED BY <1>2, <1>3, <1>4, TargetsAssumption DEF TargetAt, KindAt, L

(* An asset more. *)
LEMMA AssetAdded ==
  ASSUME NEW b \in Contents, NEW from \in Contents, NEW n \in 1..(Count + 2)
  PROVE  /\ AssetWith(b, n, from) \in Contents
         /\ Uploaded(b, n, from) => Uploaded(AssetWith(b, n, from), n + 1, from)
         /\ n = Count + 2 => AssetWith(b, n, from).manifest = from.manifest
<1> DEFINE t == TargetAt(n)
           k == KindAt(n)
           c == AssetWith(b, n, from)
<1>0. Count \in Nat
  BY Orders
<1>1. CASE n = Count + 1
  <2>1. c = [b EXCEPT !.sums = from.sums]
    BY <1>0, <1>1 DEF AssetWith
  <2>2. c \in Contents /\ c.files = b.files /\ c.sums = from.sums
    BY <2>1 DEF Contents
  <2> QED BY <1>0, <1>1, <2>2 DEF Uploaded
<1>2. CASE n = Count + 2
  <2>1. c = [b EXCEPT !.manifest = from.manifest]
    BY <1>0, <1>2 DEF AssetWith
  <2>2. c \in Contents /\ c.files = b.files /\ c.sums = b.sums /\ c.manifest = from.manifest
    BY <2>1 DEF Contents
  <2> QED BY <1>0, <1>2, <2>2 DEF Uploaded
<1>3. CASE n \in 1..Count
  <2>1. c = [b EXCEPT !.files[t][k] = from.files[t][k]]
    BY <1>0, <1>3 DEF AssetWith, TargetAt, KindAt
  <2>2. t \in Targets /\ k \in Kinds
    BY <1>3, UploadedOnes
  <2> HIDE DEF t, k, c
  <2> DEFINE files == [b.files EXCEPT ![t][k] = from.files[t][k]]
  <2>3. b.files \in [Targets -> [Kinds -> Files]] /\ from.files \in [Targets -> [Kinds -> Files]]
    BY DEF Contents
  <2>4. files \in [Targets -> [Kinds -> Files]]
    BY <2>2, <2>3
  <2>5. \A s \in Targets, q \in Kinds :
          files[s][q] = IF s = t /\ q = k THEN from.files[s][q] ELSE b.files[s][q]
    BY <2>2, <2>3
  <2>6. c = [b EXCEPT !.files = files]
    BY <2>1 DEF Contents
  <2> HIDE DEF files
  <2>7. c \in Contents /\ c.files = files
    BY <2>4, <2>6 DEF Contents
  <2>8. ASSUME Uploaded(b, n, from), NEW i \in 1..Count, i < n + 1
        PROVE  c.files[TargetAt(i)][KindAt(i)] = from.files[TargetAt(i)][KindAt(i)]
    <3>1. CASE i = n
      BY <2>2, <2>5, <2>7, <3>1 DEF t, k
    <3>2. CASE i < n
      <4>1. b.files[TargetAt(i)][KindAt(i)] = from.files[TargetAt(i)][KindAt(i)]
        BY <2>8, <3>2 DEF Uploaded
      <4> QED BY <2>5, <2>7, <4>1, UploadedOnes
    <3> QED BY <2>8, <3>1, <3>2
  <2> QED BY <1>0, <1>3, <2>7, <2>8 DEF Uploaded, c
<1> QED BY <1>0, <1>1, <1>2, <1>3

Releasing == (\E v \in Versions : Publish(v)) \/ Upload \/ KillPublishing

LEMMA ReleaseStep ==
  ASSUME BundleTypes, BundleOK, ReleaseTypes, ReleaseOK, Releasing
  PROVE  ReleaseTypes' /\ ReleaseOK'
<1>0. Count \in Nat /\ Idle.at = 0 /\ Idle.version = NoFile
  BY Orders DEF Idle
<1>1. ASSUME NEW v \in Versions, Publish(v)
      PROVE  ReleaseTypes' /\ ReleaseOK'
  <2> DEFINE content == [bundle EXCEPT !.files = [t \in Targets |-> bundle.files[t][v]]]
  <2>1. /\ publishing' = [at |-> 1, version |-> v, content |-> content]
        /\ listed' = [listed EXCEPT ![v] = FALSE] /\ release' = release
    BY <1>1 DEF Publish
  <2>2. Accepted(bundle, v) /\ \A t \in Targets : bundle.manifest.builds[t].runtime.job
    BY <1>1 DEF Publish
  <2>3. /\ content \in Contents /\ content.manifest = bundle.manifest /\ content.sums = bundle.sums
        /\ \A t \in Targets : content.files[t] = bundle.files[t][v]
    BY DEF BundleTypes, Contents
  <2> HIDE DEF content
  <2>4. /\ bundle.manifest \in Manifests /\ bundle.manifest.version = v
        /\ bundle.sums = bundle.manifest.builds
        /\ \A t \in Targets : Sound(bundle.manifest.builds[t], v)
    BY <2>2 DEF Accepted, BundleOK, BundleTypes, Intact
  <2>5. \A t \in Targets, k \in Kinds : bundle.files[t][v][k] = bundle.manifest.builds[t]
    BY <2>2 DEF Accepted, ValidBuild, Kinds
  <2>6. Complete(content, v)
    BY <2>2, <2>3, <2>4, <2>5 DEF Complete
  <2>7. Uploaded(release[v], 1, content)
    BY <1>0 DEF Uploaded
  <2>8. ReleaseTypes'
    BY <2>1 DEF ReleaseTypes
  <2>9. ReleaseOK'
    BY <1>0, <2>1, <2>6, <2>7 DEF ReleaseOK, ReleaseTypes
  <2> QED BY <2>8, <2>9
<1>2. CASE Upload
  <2> DEFINE n == publishing.at
             v == publishing.version
             from == publishing.content
             b == AssetWith(release[v], n, from)
  <2>1. /\ n \in 1..(Count + 2) /\ n # 0
        /\ release' = [release EXCEPT ![v] = b]
    BY <1>0, <1>2 DEF Upload
  <2>2. /\ v \in Versions /\ ~listed[v] /\ Complete(from, v) /\ Uploaded(release[v], n, from)
        /\ publishing = [at |-> n, version |-> v, content |-> from]
    BY <2>1 DEF ReleaseOK
  <2>3. release[v] \in Contents /\ from \in Contents
    BY <2>2 DEF ReleaseTypes, Complete
  <2>4. /\ b \in Contents /\ Uploaded(b, n + 1, from)
        /\ n = Count + 2 => b.manifest = from.manifest
    BY <2>1, <2>2, <2>3, AssetAdded
  <2>5. /\ n = Count + 2 => publishing' = Idle /\ listed' = [listed EXCEPT ![v] = TRUE]
        /\ n # Count + 2 => publishing' = Advanced(publishing) /\ listed' = listed
    BY <1>2 DEF Upload
  <2>6. Advanced(publishing) = [at |-> n + 1, version |-> v, content |-> from]
    BY <2>2 DEF Advanced
  <2> HIDE DEF n, v, from, b
  <2>7. /\ release' \in [Versions -> Contents] /\ release'[v] = b
        /\ \A w \in Versions : w # v => release'[w] = release[w]
    BY <2>1, <2>2, <2>4 DEF ReleaseTypes
  <2>8. CASE n = Count + 2
    <3>1. /\ b.manifest = from.manifest /\ b.sums = from.sums
          /\ \A i \in 1..Count : b.files[TargetAt(i)][KindAt(i)] = from.files[TargetAt(i)][KindAt(i)]
      BY <1>0, <2>4, <2>8 DEF Uploaded
    <3>2. \A t \in Targets, k \in Kinds : b.files[t][k] = from.files[t][k]
      <4> TAKE t \in Targets, k \in Kinds
      <4>1. PICK i \in 1..Count : TargetAt(i) = t /\ KindAt(i) = k
        BY EveryAsset
      <4> QED BY <3>1, <4>1
    <3>3. Complete(b, v)
      BY <2>2, <2>4, <3>1, <3>2 DEF Complete
    <3>4. \A w \in Versions : listed'[w] => Complete(release'[w], w)
      BY <2>2, <2>5, <2>7, <2>8, <3>3 DEF ReleaseOK, ReleaseTypes
    <3>5. ReleaseTypes'
      <4>1. listed' \in [Versions -> BOOLEAN]
        BY <2>5, <2>8 DEF ReleaseTypes
      <4>2. publishing'.at = 0 /\ publishing'.version = NoFile
        BY <1>0, <2>5, <2>8
      <4> QED BY <2>7, <4>1, <4>2 DEF ReleaseTypes
    <3> QED BY <1>0, <2>5, <2>8, <3>4, <3>5 DEF ReleaseOK
  <2>9. CASE n # Count + 2
    <3>1. publishing' = [at |-> n + 1, version |-> v, content |-> from] /\ listed' = listed
      BY <2>5, <2>6, <2>9
    <3>2. n \in 1..(Count + 1)
      BY <1>0, <2>1, <2>9
    <3>3. \A w \in Versions : listed'[w] => Complete(release'[w], w)
      BY <2>2, <2>7, <3>1 DEF ReleaseOK
    <3>4. ReleaseTypes'
      BY <1>0, <2>2, <2>7, <3>1, <3>2 DEF ReleaseTypes
    <3>5. Uploaded(release'[v], n + 1, from)
      BY <2>4, <2>7
    <3> QED BY <1>0, <2>2, <3>1, <3>2, <3>3, <3>4, <3>5 DEF ReleaseOK
  <2> QED BY <2>8, <2>9
<1>3. CASE KillPublishing
  <2> DEFINE v == publishing.version
             b == AssetWith(release[v], publishing.at, NoAssets)
  <2>1. publishing' = Idle /\ listed' = listed /\ publishing.at # 0
    BY <1>3 DEF KillPublishing
  <2>2. release' = release \/ release' = [release EXCEPT ![v] = b]
    BY <1>3 DEF KillPublishing
  <2>3. v \in Versions /\ ~listed[v] /\ publishing.at \in 1..(Count + 2)
    BY <1>0, <2>1 DEF ReleaseOK, ReleaseTypes
  <2>4. NoAssets \in Contents
    BY DEF NoAssets, NoFiles, Contents, Files
  <2>5. b \in Contents
    BY <2>3, <2>4, AssetAdded DEF ReleaseTypes
  <2> HIDE DEF b, v
  <2>6. /\ release' \in [Versions -> Contents]
        /\ \A w \in Versions : w # v => release'[w] = release[w]
    BY <2>2, <2>3, <2>5 DEF ReleaseTypes
  <2>7. ReleaseTypes'
    BY <1>0, <2>1, <2>6 DEF ReleaseTypes
  <2>8. ReleaseOK'
    BY <1>0, <2>1, <2>3, <2>6 DEF ReleaseOK
  <2> QED BY <2>7, <2>8
<1> QED BY <1>1, <1>2, <1>3 DEF Releasing

-----------------------------------------------------------------------------
(* The invariant.                                                          *)

LEMMA TypeParts ==
  TypeOK <=> HostTypes /\ BundleTypes /\ ReleaseTypes /\ deaths \in Nat
BY DEF TypeOK, HostTypes, Works, BundleTypes, Progress, ReleaseTypes, Contents

(* What a host may have built earlier.                                     *)
LEMMA EarlierSound ==
  ASSUME NEW v \in Versions, NEW inJob \in BOOLEAN
  PROVE  Earlier(v, inJob) \in Files /\ Sound(Earlier(v, inJob), v)
BY DEF Earlier, InstallerOf, RuntimeFrom, Built, Runtimes, Files, Sound

LEMMA BeforeSound ==
  ASSUME NEW files \in Trees, NEW inJob \in BOOLEAN, NEW old \in Before(files, inJob)
  PROVE  /\ old \in [Versions -> [Kinds -> Files]]
         /\ \A v \in Versions : Intact(old[v]["metadata"]) => Sound(old[v]["metadata"], v)
<1>1. Empty \in [Versions -> [Kinds -> Files]]
      /\ \A v \in Versions, k \in Kinds : Empty[v][k] = NoFile
  BY DEF Empty, Files
<1>2. CASE old = Empty
  BY <1>1, <1>2 DEF Intact, Kinds
<1>3. CASE old # Empty
  <2>1. PICK w \in Versions : old = [Empty EXCEPT ![w] = [k \in Kinds |-> Earlier(w, inJob)]]
    BY <1>3 DEF Before
  <2> DEFINE a == Earlier(w, inJob)
  <2>2. a \in Files /\ Sound(a, w)
    BY EarlierSound
  <2> HIDE DEF a
  <2>3. old \in [Versions -> [Kinds -> Files]]
    BY <1>1, <2>1, <2>2 DEF a
  <2>4. ASSUME NEW v \in Versions, Intact(old[v]["metadata"])
        PROVE  Sound(old[v]["metadata"], v)
    <3>1. CASE v = w
      BY <1>1, <2>1, <2>2, <3>1 DEF a, Kinds
    <3>2. CASE v # w
      <4>1. old[v]["metadata"] = NoFile
        BY <1>1, <2>1, <3>2 DEF Kinds
      <4> QED BY <2>4, <4>1 DEF Intact
    <3> QED BY <3>1, <3>2
  <2> QED BY <2>3, <2>4
<1> QED BY <1>2, <1>3

LEMMA Initial == Init => IInv
<1> SUFFICES ASSUME Init PROVE IInv
  OBVIOUS
<1>0. Idle.at = 0 /\ Idle \in Progress /\ Idle.version = NoFile
  BY DEF Idle, Progress
<1>1. /\ tree \in [Targets -> Trees] /\ job \in [Targets -> BOOLEAN]
      /\ \A t \in Targets : Aligned(tree[t])
  BY DEF Init
<1>2. \A t \in Targets : installers[t] \in [Versions -> [Kinds -> Files]] /\ InstallersOK(t)
  <2> TAKE t \in Targets
  <2>1. installers[t] \in Before(tree[t], job[t])
    BY DEF Init
  <2> QED BY <1>1, <2>1, BeforeSound DEF InstallersOK
<1>3. HostTypes
  <2>1. installers \in [Targets -> [Versions -> [Kinds -> Files]]]
    <3>1. installers \in [Targets -> UNION {Before(tree[t], job[t]) : t \in Targets}]
      BY DEF Init
    <3> QED BY <1>2, <3>1
  <2>2. /\ runtime \in [Targets -> Runtimes \union {NoFile}] /\ step \in [Targets -> Steps]
        /\ work \in [Targets -> Works] /\ commands \in [Targets -> Nat]
    BY DEF Init, Steps, Works
  <2> QED BY <1>1, <2>1, <2>2 DEF HostTypes
<1>4. HostsOK
  BY <1>1, <1>2 DEF Init, HostsOK, HostOK, WorkOK, Exists, RuntimeSteps, InstallerSteps
<1>5. BundleTypes /\ BundleOK
  <2>1. bundle = [files |-> [t \in Targets |-> Empty], manifest |-> NoFile, sums |-> NoFile]
        /\ bundling = Idle /\ runs = [bundles |-> 0, releases |-> 0]
    BY DEF Init
  <2>2. Empty \in [Versions -> [Kinds -> Files]]
    BY DEF Empty, Files
  <2>3. BundleTypes
    BY <1>0, <2>1, <2>2 DEF BundleTypes
  <2> QED BY <1>0, <2>1, <2>3 DEF BundleOK, Intact
<1>6. ReleaseTypes /\ ReleaseOK
  <2>1. release = [v \in Versions |-> NoAssets] /\ publishing = Idle /\ listed = [v \in Versions |-> FALSE]
    BY DEF Init, NoAssets
  <2>2. NoAssets \in Contents
    BY DEF NoAssets, NoFiles, Contents, Files
  <2> QED BY <1>0, <2>1, <2>2 DEF ReleaseTypes, ReleaseOK
<1>7. deaths \in Nat
  BY DEF Init
<1> QED BY <1>3, <1>4, <1>5, <1>6, <1>7, TypeParts DEF IInv

LEMMA Inductive == IInv /\ [Next]_vars => IInv'
<1> SUFFICES ASSUME IInv, [Next]_vars PROVE IInv'
  OBVIOUS
<1>0. HostTypes /\ BundleTypes /\ ReleaseTypes /\ deaths \in Nat /\ TypeOK
      /\ HostsOK /\ BundleOK /\ ReleaseOK
  BY TypeParts DEF IInv
<1>1. HostTypes' /\ BundleTypes' /\ ReleaseTypes' /\ deaths' \in Nat => TypeOK'
  BY DEF TypeOK, HostTypes, Works, BundleTypes, Progress, ReleaseTypes, Contents
<1>2. UNCHANGED hostVars => HostTypes' /\ HostsOK'
  BY <1>0 DEF hostVars, HostTypes, HostsOK, HostOK, WorkOK, InstallersOK, Described
<1>3. UNCHANGED bundleVars /\ UNCHANGED runs => BundleTypes' /\ BundleOK'
  BY <1>0 DEF bundleVars, BundleTypes, BundleOK
<1>4. UNCHANGED releaseVars => ReleaseTypes' /\ ReleaseOK'
  BY <1>0 DEF releaseVars, ReleaseTypes, ReleaseOK
<1>5. deaths' = deaths \/ Killed => deaths' \in Nat
  BY <1>0 DEF Killed
<1>6. ASSUME NEW t \in Targets, Host(t) PROVE IInv'
  <2>1. HostTypes' /\ HostsOK'
    BY <1>0, <1>6, HostStep
  <2>2. BundleTypes' /\ BundleOK' /\ ReleaseTypes' /\ ReleaseOK' /\ deaths' \in Nat
    BY <1>3, <1>4, <1>5, <1>6, HostLeaves
  <2> QED BY <2>1, <2>2, <1>1 DEF IInv
<1>7. CASE Bundling
  <2>1. UNCHANGED hostVars /\ UNCHANGED releaseVars /\ (deaths' = deaths \/ Killed)
    BY <1>7 DEF Bundling, Validate, CopyFile, WriteReleaseManifest, WriteSums, KillBundling
  <2>2. BundleTypes' /\ BundleOK'
    BY <1>0, <1>7, BundleStep
  <2> QED BY <1>2, <1>4, <1>5, <2>1, <2>2, <1>1 DEF IInv
<1>8. CASE Releasing
  <2>1. UNCHANGED hostVars /\ UNCHANGED bundleVars /\ (deaths' = deaths \/ Killed)
        /\ (runs' = runs \/ runs' = [runs EXCEPT !.releases = runs.releases + 1])
    BY <1>8 DEF Releasing, Publish, Upload, KillPublishing
  <2>2. ReleaseTypes' /\ ReleaseOK'
    BY <1>0, <1>8, ReleaseStep
  <2>3. BundleTypes' /\ BundleOK'
    BY <1>0, <2>1 DEF bundleVars, BundleTypes, BundleOK
  <2> QED BY <1>2, <1>5, <2>1, <2>2, <2>3, <1>1 DEF IInv
<1>9. CASE UNCHANGED vars
  BY <1>0, <1>2, <1>3, <1>4, <1>9, <1>1 DEF vars, IInv
<1> QED BY <1>6, <1>7, <1>8, <1>9 DEF Next, Bundling, Releasing

LEMMA Invariance == Spec => []IInv
BY Initial, Inductive, PTL DEF Spec

-----------------------------------------------------------------------------
(* Every variable keeps its type. *)
THEOREM TypeCorrect == Spec => []TypeOK
<1>1. IInv => TypeOK
  BY DEF IInv
<1> QED BY <1>1, Invariance, PTL

(* Whatever the tools were run on, and whenever they were killed: a bundle *)
(* that verify_release_bundle() accepts holds for each target an installer *)
(* that passed the checks after bundling, of a complete runtime that is no *)
(* fixture and has the version of the bundle.                              *)
THEOREM AcceptedIsVerified == Spec => []AcceptedVerified
<1>1. IInv => AcceptedVerified
  <2> SUFFICES ASSUME IInv, NEW v \in Versions, Accepted(bundle, v), NEW t \in Targets
               PROVE  LET a == bundle.manifest.builds[t] IN
                      /\ a.good
                      /\ a.runtime.whole /\ ~a.runtime.fixture
                      /\ a.runtime.version = v
    BY DEF AcceptedVerified
  <2>1. Intact(bundle.manifest) /\ bundle.manifest.version = v
    BY DEF Accepted
  <2>2. Sound(bundle.manifest.builds[t], v)
    BY <2>1 DEF IInv, BundleOK
  <2> QED BY <2>2 DEF Sound
<1> QED BY <1>1, Invariance, PTL

(* A runtime in place that can be distributed is given up only by a        *)
(* command that has a verified one in hand, or with its machine.           *)
THEOREM RuntimeKept == Spec => OldRuntimeKept
<1> DEFINE Keeps == \A t \in Targets :
             Distributable(runtime[t]) /\ runtime'[t] # runtime[t] =>
               \/ step[t] # "idle" /\ work[t].whole
               \/ runtime'[t] = NoFile /\ job'[t]
<1>1. IInv /\ [Next]_vars => [Keeps]_vars
  <2> SUFFICES ASSUME IInv, Next, NEW t \in Targets,
                      Distributable(runtime[t]), runtime'[t] # runtime[t]
               PROVE  \/ step[t] # "idle" /\ work[t].whole
                      \/ runtime'[t] = NoFile /\ job'[t]
    BY DEF Keeps
  <2>0. HostTypes /\ HostsOK /\ HostOK(t)
    BY TypeParts DEF IInv, HostsOK
  <2>1. PICK s \in Targets : Host(s)
    BY DEF Next, Validate, CopyFile, WriteReleaseManifest, WriteSums, KillBundling, Publish, Upload,
           KillPublishing, hostVars
  <2>2. s = t
    BY <2>1, HostFrame DEF IInv, Frame
  <2>3. CASE StartJob(t)
    BY <2>0, <2>3 DEF StartJob, HostTypes
  <2>4. CASE RemoveOld(t) \/ Replace(t)
    <3>1. step[t] \in {"verified", "replacing"}
      BY <2>4 DEF RemoveOld, Replace, MayReplace
    <3> QED BY <2>0, <3>1 DEF HostOK, WorkOK
  <2>5. StartJob(t) \/ RemoveOld(t) \/ Replace(t)
    BY <2>1, <2>2 DEF Host, StartBump, BumpFile, StartRuntime, Install, WriteManifest, Verify, Smoke,
         StartInstaller, TauriBuild, Emit, Copy, WriteChecksum, VerifyEmitted, WriteMetadata, Kill
  <2> QED BY <2>3, <2>4, <2>5
<1> QED BY <1>1, Invariance, PTL DEF Spec, OldRuntimeKept

(* A release whose last publication went through is one bundle's files, of *)
(* the release's version throughout, whatever was published before.        *)
THEOREM PublishedIsWhole == Spec => []PublishedWhole
<1>1. IInv => PublishedWhole
  BY DEF IInv, ReleaseOK, Complete, Sound, PublishedWhole
<1> QED BY <1>1, Invariance, PTL
=============================================================================
