-------------------------- MODULE MCReleaseTooling --------------------------
(***************************************************************************)
(* An instance of ReleaseTooling for TLC: both targets, two versions.      *)
(***************************************************************************)
EXTENDS ReleaseTooling, TLC

BothTargets == {"macos-arm64", "windows-x64"}
BothInOrder == <<"macos-arm64", "windows-x64">>
TwoVersions == {1, 2}
Commands    == ("macos-arm64" :> 3) @@ ("windows-x64" :> 0)
=============================================================================
