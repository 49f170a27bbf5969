----------------------------- MODULE MCThreadPool -----------------------------
(* ThreadPool for TLC: MCThreadPool.cfg and MCThreadPoolCreateFails.cfg give *)
(* the bounds.                                                               *)
EXTENDS ThreadPool
===============================================================================
