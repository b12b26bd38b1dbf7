-------------------------- MODULE MCImagePipeline --------------------------
(* Small instances of ImagePipeline: the runs of each configuration are    *)
(* model values of its cfg.                                                *)
EXTENDS ImagePipeline, TLC

CONSTANTS Os, Java   \* one fixable finding in an OS package, one in a jar

\* Every rebuild has the same suffix, as when GitLab's CI_PIPELINE_IID has met
\* Jenkins' BUILD_NUMBER.
SameSuffix == [r \in Rebuilds |-> 1]

BothFindings == {Os, Java}
OsOnly == {Os}

\* Nothing tells two rebuilds apart but their names, nor two patches.
Symmetry == Permutations(Rebuilds) \union Permutations(Patches)
=============================================================================
