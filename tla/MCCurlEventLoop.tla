--------------------------- MODULE MCCurlEventLoop ---------------------------
(* CurlEventLoop with a few delegate requests. *)
EXTENDS CurlEventLoop, TLC

CONSTANTS j1, j2, j3
TwoJobs == {j1, j2}
ThreeJobs == {j1, j2, j3}
=============================================================================
