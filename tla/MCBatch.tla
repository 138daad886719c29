------------------------------ MODULE MCBatch ------------------------------
(* Small instances of BatchDownload.                                       *)
EXTENDS BatchDownload, TLC

CONSTANTS c1, c2, v1, v2, w1, w2

OneClient   == {c1}
TwoClients  == {c1, c2}
TwoVideos   == {v1, v2}
OneVideo    == {v1}
OneWorker   == {w1}
TwoWorkers  == {w1, w2}
\* Every video has a file name of its own; all of them have the same.
OwnName     == [v \in Videos |-> v]
SameName    == [v \in Videos |-> v1]
OneList     == {<<v1, v2>>}
ShrinkLists == {<<v1, v2>>, <<v2>>}
SingleList  == {<<v1>>}
NotForced   == {FALSE}
ResumeOn    == {TRUE}
EitherMode  == BOOLEAN
WorkerSymmetry == Permutations(Workers)
============================================================================
