---------------------------- MODULE MCAsyncWorker ----------------------------
(* Two tasks share a pool of one or two threads.                              *)
EXTENDS AsyncWorker
=============================================================================
