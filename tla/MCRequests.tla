------------------------------ MODULE MCRequests ------------------------------
(***************************************************************************)
(* Two components that share no state, one at a time, without symmetry:    *)
(* liveness is checked of one, and the ids of the other are compared.      *)
(*                                                                         *)
(* Sessions: two handlers on one name.  Every statement names its user,    *)
(* and what the purge does to other names is what it does to this one.     *)
(* Two failures lock, a lock lasts two ticks and failures are purged after *)
(* three.                                                                  *)
(***************************************************************************)
EXTENDS Sessions, AssetLinks, TLC

CONSTANTS u1, w1, w2, j1, j2, p1, p2

VARIABLE part

MCName == {u1}
MCWord == {w1, w2}
MCJti == {j1, j2}
MCProc == {p1, p2}

\* Software clears and leaves what an invoice does, and takes an id only once.
MCAsset == 1..4
MCKindOf == 1 :> "item" @@ 2 :> "item" @@ 3 :> "invoice" @@ 4 :> "contract"

-----------------------------------------------------------------------------
RequestsInit ==
    /\ part \in {"sessions", "links"}
    /\ SessionsInit /\ Init
    /\ part = "links" =>
          /\ account = [u \in Name |-> "enabled"]
          /\ pass = [u \in Name |-> [word |-> w1, legacy |-> FALSE]]

RequestsNext ==
    /\ UNCHANGED part
    /\ \/ part = "sessions" /\ SessionsNext /\ UNCHANGED vars
       \/ part = "links" /\ Next /\ UNCHANGED sessionsVars

\* Where sessions stand still nobody has failed, and time has nothing to change.
RequestsSpec ==
    RequestsInit
    /\ [][RequestsNext]_<<part, sessionsVars, vars>>
    /\ WF_sessionsVars(Tick)
=============================================================================
