---------------------------- MODULE MCRestServer ----------------------------
(* Two threads, dom0 and one more container, two releases.                 *)
EXTENDS RestServer, TLC

CONSTANTS dom0, desktop

\* Of dom0, the routes that treat it apart; its deletion is left out.
MCRequests ==
  (Routes \ {"update", "list"}) \X {desktop}
    \cup {"update", "list", "upgrade_image", "start", "stop"} \X {dom0}

PullOrder == <<dom0, desktop>>
WorkerSymmetry == Permutations(Workers)
=============================================================================
