-------------------------- MODULE MCVerthashDataset --------------------------
(* Small instances of VerthashDataset for TLC: two files of different     *)
(* sizes (so their bitmasks differ too) and the configs Vh::init is given. *)
EXTENDS VerthashDataset

CONSTANTS fa, fb

MCFiles == {fa, fb}
MCOneFile == {fa}
MCFileSize == [f \in MCFiles |-> IF f = fa THEN 2 ELSE 3]
MCOneFileSize == [f \in MCOneFile |-> 3]
MCNoFiles == {}
MCOnDiskA == {fa}
(* Load the default file, or generate it first.                            *)
MCConfigsOne == {[gen |-> NoFile, data |-> NoFile], [gen |-> fa, data |-> NoFile]}
(* Load either file, generate fb and load it, or generate fb and load fa. *)
MCConfigsTwo == {[gen |-> NoFile, data |-> fa], [gen |-> NoFile, data |-> fb],
                 [gen |-> fb, data |-> NoFile], [gen |-> fb, data |-> fa]}
MCOpsNoDestroy == {"init", "hash"}
MCOpsAll == {"init", "destroy", "hash"}
====
