---------------------------- MODULE MCAssetStore ----------------------------
(* Small instances of AssetStore: the branch main and perhaps a second one. *)
EXTENDS AssetStore, TLC

CONSTANTS Other, Fam

OnMain   == Object("branch", Main)
OnFirst  == Object("commit", First)

OnTag    == Object("tag", <<Fam, 1>>)

\* Snapshots of both branches, tags of a branch and of the commit it may head,
\* and a second branch off the first one or off a tag.
EveryKind == {SnapshotOf(Main), SnapshotOf(Other), TagOf(OnMain, Fam), TagOf(OnFirst, Fam),
              BranchOff(OnMain, Other), BranchOff(OnTag, Other)}

\* A branch and its commit are tagged.
Tagging == {SnapshotOf(Main), TagOf(OnMain, Fam), TagOf(OnFirst, Fam)}

Symmetry == Permutations(Proc) \cup Permutations(CommitId \ {First}) \cup Permutations(File)
=============================================================================
