---------------------------- MODULE AtomicRelease ----------------------------
(* What a site promises its visitors while releases of it are deployed: they  *)
(* see one release at a time, the last one that was deployed or, once it has  *)
(* shown that it can start, the one that is being deployed.  A deployment     *)
(* that fails takes them back to where they were.                             *)
CONSTANTS Releases, Broken, None

VARIABLES
    served,     \* the release visitors are answered by, None if by nothing
    stable,     \* the release deployed last
    candidate   \* the release being deployed, None between deployments

vars == <<served, stable, candidate>>

Init == served = None /\ stable = None /\ candidate = None

(* A deployment begins, and changes nothing for visitors.                     *)
Propose(n) ==
    /\ candidate = None
    /\ candidate' = n
    /\ UNCHANGED <<served, stable>>

(* Only a release that can start takes over.                                  *)
Switch ==
    /\ candidate \notin Broken \cup {None}
    /\ served' = candidate
    /\ UNCHANGED <<stable, candidate>>

(* A deployment that goes wrong takes visitors back.                          *)
Withdraw ==
    /\ candidate # None
    /\ served' = stable
    /\ UNCHANGED <<stable, candidate>>

(* A deployment ends well when visitors are served the new release, and ends  *)
(* badly when they are served the old one.                                    *)
Settle ==
    /\ candidate # None /\ served = candidate
    /\ stable' = candidate
    /\ candidate' = None
    /\ UNCHANGED served

Abandon ==
    /\ candidate # None /\ served = stable
    /\ candidate' = None
    /\ UNCHANGED <<served, stable>>

Next ==
    \/ \E n \in Releases : Propose(n)
    \/ Switch
    \/ Withdraw
    \/ Settle
    \/ Abandon

Spec == Init /\ [][Next]_vars
==============================================================================
