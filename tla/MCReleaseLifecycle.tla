------------------------- MODULE MCReleaseLifecycle -------------------------
(* One release in several versions: edits of its mode, status, configuration *)
(* and devices, each a different document with a different hash.             *)
EXTENDS ReleaseLifecycle

CONSTANTS d1, d2, bound, alice

Base == [releaseId |-> "r", content |-> "v1", config |-> bound,
         status |-> "approved", mode |-> "canary", devices |-> {d1},
         expiresAt |-> 2]

AllSpecs ==
    {Base, [Base EXCEPT !.mode = "released"], [Base EXCEPT !.mode = "shadow"],
     [Base EXCEPT !.status = "tested"], [Base EXCEPT !.status = "revoked"],
     [Base EXCEPT !.config = Unset], [Base EXCEPT !.devices = {d1, d2}],
     [Base EXCEPT !.content = "v2"], [Base EXCEPT !.releaseId = "s"]}
=============================================================================
