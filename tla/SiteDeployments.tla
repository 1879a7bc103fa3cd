--------------------------- MODULE SiteDeployments ---------------------------
(* Deploying a site again and again.  The template is what SiteResources says  *)
(* the construct declares; CloudFormation brings one resource after the other  *)
(* to the release it is told to deploy, in any order the template's            *)
(* dependencies leave open, and takes all of them back when one fails.  In the *)
(* meantime visitors come, and CloudFront remembers what they were answered.   *)
(*                                                                             *)
(* A release is what one synthesis puts into every resource: the code of the   *)
(* function, the container image, the files of the bucket.                     *)
EXTENDS SiteResources

CONSTANTS
    Releases,   \* the releases there may be
    Broken,     \* those whose code does not start
    None,       \* no release
    Sites       \* the properties of the sites considered

ASSUME ReleasesAssumption == Broken \subseteq Releases /\ None \notin Releases
ASSUME SitesAssumption ==
    Sites \subseteq [backend : {"lambda", "ecs", "static"},
                     alias : STRING, pc : {"none", "alias", "version"},
                     buckets : {"existing", "retain", "destroy"},
                     invalidates : BOOLEAN]

VARIABLES
    site,       \* the properties of the site
    phase,      \* of its stack: "idle", "deploying" or "rollingBack"
    target,     \* the release of the last deployment
    released,   \* the release the stack was last left at, None if there is no stack
    done,       \* the resources that are at target, the others are at released
    outcome,    \* "ok", or why the last deployment failed
    versions,   \* the releases of which the function has a published version
    weighted,   \* whether the alias was left with routing weights
    left,       \* the buckets that a stack which is gone left behind
    cache,      \* the release CloudFront remembers, None if it remembers none
    pending     \* whether a build is on its way to invalidate the cache

vars == <<site, phase, target, released, done, outcome, versions, weighted, left,
          cache, pending>>

Outcomes == {"ok", "fault", "initFailed", "aliasConfig", "noAlias", "bucketExists"}

(* The release a resource is at, None if it does not exist.                    *)
At(r) == IF r \in done THEN target ELSE released

IsCreation == released = None

(* What the origin of the distribution answers with.                           *)
Serving ==
    CASE site.backend = "lambda" ->
           IF At("url") = None THEN None
           ELSE At(IF UrlIsOnAlias(site) THEN "alias" ELSE "function")
      [] site.backend = "ecs" -> At("service")
      [] OTHER -> At("assets")

(* Files do not start, so they cannot fail to.                                 *)
Cacheable(n) == n # None /\ (n \notin Broken \/ site.backend = "static")

(***************************************************************************)
(* Deploying.                                                              *)
(***************************************************************************)
Init ==
    /\ site \in Sites
    /\ phase = "idle"
    /\ target = None
    /\ released = None
    /\ done = {}
    /\ outcome = "ok"
    /\ versions = {}
    /\ weighted = FALSE
    /\ left = {}
    /\ cache = None
    /\ pending = FALSE

(* Nothing changes in a stack that is at the release already.                  *)
Deploy(n) ==
    /\ phase = "idle"
    /\ n # released
    /\ phase' = "deploying"
    /\ target' = n
    /\ outcome' = "ok"
    /\ UNCHANGED <<site, released, done, versions, weighted, left, cache, pending>>

Ready(r) ==
    /\ phase = "deploying"
    /\ r \in Resources(site) \ done
    /\ Dependencies(site, r) \subseteq done

(* Why the service refuses a resource.  Provisioned concurrency is allocated   *)
(* before a version counts as published, and before an alias that has some     *)
(* takes its new version; while Lambda tries, the alias has routing weights,   *)
(* and an alias with both is refused.                                          *)
Obstacle(r) ==
    CASE r = "version" /\ WarmsVersion(site) /\ target \in Broken -> "initFailed"
      [] r = "alias" /\ weighted -> "aliasConfig"
      [] r = "alias" /\ WarmsAlias(site) /\ ~IsCreation /\ target \in Broken ->
           "initFailed"
      [] r = "url" /\ UrlIsOnAlias(site) /\ At("alias") = None -> "noAlias"
      [] r = "service" /\ target \in Broken -> "initFailed"
      [] r \in left -> "bucketExists"
      [] OTHER -> "ok"

Apply(r) ==
    /\ Ready(r)
    /\ Obstacle(r) = "ok"
    /\ done' = done \cup {r}
    /\ versions' = IF r = "version" THEN versions \cup {target} ELSE versions
    /\ cache' = IF r = "assets" THEN None ELSE cache
    /\ pending' = (pending \/ r = "invalidation")
    /\ UNCHANGED <<site, phase, target, released, outcome, weighted, left>>

RollBack(why) ==
    /\ phase' = "rollingBack"
    /\ outcome' = why
    /\ UNCHANGED <<site, target, released, done, versions, left, cache, pending>>

(* An alias that did not get its new version keeps the weights.                *)
Refuse(r) ==
    /\ Ready(r)
    /\ Obstacle(r) # "ok"
    /\ weighted' = (weighted \/ r = "alias")
    /\ RollBack(Obstacle(r))

(* A resource fails for reasons of its own, or somebody cancels the deployment. *)
Fault ==
    /\ phase = "deploying"
    /\ RollBack("fault")
    /\ UNCHANGED weighted

Finish ==
    /\ phase = "deploying"
    /\ Resources(site) \subseteq done
    /\ phase' = "idle"
    /\ released' = target
    /\ done' = {}
    /\ versions' = versions \cap {target}
    /\ UNCHANGED <<site, target, outcome, weighted, left, cache, pending>>

(***************************************************************************)
(* Rolling back.                                                           *)
(***************************************************************************)

(* A resource is deleted before those it depends on, and it is taken back to   *)
(* an earlier release after them.                                              *)
Undoable(r) ==
    IF IsCreation
    THEN \A d \in done : r \notin Dependencies(site, d)
    ELSE Dependencies(site, r) \cap done = {}

Undo(r) ==
    /\ phase = "rollingBack"
    /\ r \in done
    /\ Undoable(r)
    /\ done' = done \ {r}
    /\ versions' =
         IF r = "version" /\ IsCreation THEN versions \ {target} ELSE versions
    /\ left' =
         IF IsCreation /\ Retained(site, r) THEN left \cup {r} ELSE left
    /\ cache' =
         IF r = "assets" \/ (r = "distribution" /\ IsCreation) THEN None ELSE cache
    /\ UNCHANGED <<site, phase, target, released, outcome, weighted, pending>>

EndRollback ==
    /\ phase = "rollingBack"
    /\ done = {}
    /\ phase' = "idle"
    /\ versions' = versions \cap {released}
    /\ UNCHANGED <<site, target, released, done, outcome, weighted, left, cache,
                   pending>>

(***************************************************************************)
(* Visitors, and the build that invalidates the cache.                     *)
(***************************************************************************)
View ==
    /\ At("record") # None
    /\ cache = None
    /\ Cacheable(Serving)
    /\ cache' = Serving
    /\ UNCHANGED <<site, phase, target, released, done, outcome, versions, weighted,
                   left, pending>>

Expire ==
    /\ cache # None
    /\ cache' = None
    /\ UNCHANGED <<site, phase, target, released, done, outcome, versions, weighted,
                   left, pending>>

Build ==
    /\ pending
    /\ pending' = FALSE
    /\ cache' = None
    /\ UNCHANGED <<site, phase, target, released, done, outcome, versions, weighted,
                   left>>

Provider ==
    \/ \E r \in AllResources : Apply(r)
    \/ \E r \in AllResources : Refuse(r)
    \/ Finish
    \/ \E r \in AllResources : Undo(r)
    \/ EndRollback

Next ==
    \/ \E n \in Releases : Deploy(n)
    \/ Provider
    \/ Fault
    \/ View
    \/ Expire
    \/ Build

(* CloudFormation goes on with a deployment until it has ended one way or the  *)
(* other.  Nobody has to deploy, visit or build.                               *)
Spec == Init /\ [][Next]_vars /\ WF_vars(Provider)

(***************************************************************************)
(* Properties.                                                             *)
(***************************************************************************)
TypeOK ==
    /\ site \in Sites
    /\ phase \in {"idle", "deploying", "rollingBack"}
    /\ target \in Releases \cup {None}
    /\ released \in Releases \cup {None}
    /\ done \subseteq Resources(site)
    /\ outcome \in Outcomes
    /\ versions \subseteq Releases
    /\ weighted \in BOOLEAN
    /\ left \subseteq Buckets
    /\ cache \in Releases \cup {None}
    /\ pending \in BOOLEAN

(* The alias never points at a version that is not published, not while a      *)
(* deployment moves it forward and not while a rollback moves it back.  With   *)
(* onVersion a version is published when it is warm, so no visitor of the      *)
(* alias waits for a cold start (lambda/types.ts: "warmed by PC before the     *)
(* alias points at it").                                                       *)
AliasIsPublished ==
    "alias" \in Resources(site) /\ At("alias") # None => At("alias") \in versions

(* Once the domain name of a site with a Lambda backend resolves there is a    *)
(* function behind it, from the first deployment on and through its rollback.  *)
ReachableWhenRecorded ==
    site.backend = "lambda" /\ At("record") # None => Serving # None

(* A release that starts is refused only for what an earlier deployment that   *)
(* failed has left behind: the routing weights of an alias with provisioned    *)
(* concurrency, or buckets the template retains.  It is not refused because    *)
(* of the order in which its resources were created.                           *)
HealthyIsDeployed ==
    phase = "rollingBack" /\ outcome # "fault" =>
        target \in Broken \/ weighted \/ left # {}

(* After a deployment that invalidates the cache, and once the invalidation is *)
(* through, CloudFront does not answer with the release before.                *)
InvalidatedAfterDeployment ==
    /\ phase = "idle" /\ outcome = "ok" /\ ~pending
    /\ site.invalidates \/ site.backend = "static"
    => cache \in {None, released}

(* A function with provisioned concurrency on its versions, and its URL on the *)
(* alias, keeps the promise of AtomicRelease.  Other sites do not: the URL of  *)
(* a function without the alias follows whatever code was uploaded last, and a *)
(* service replaces its tasks one by one.                                      *)
Guarded == site.backend = "lambda" /\ UrlIsOnAlias(site) /\ site.pc = "version"

Promise ==
    INSTANCE AtomicRelease
    WITH served <- IF Guarded THEN Serving ELSE None,
         stable <- IF Guarded THEN released ELSE None,
         candidate <- IF Guarded /\ phase # "idle" THEN target ELSE None

ImplementsAtomicRelease == Promise!Spec

(* Every deployment ends: no resource waits for one that waits for it.         *)
DeploymentsEnd == phase = "deploying" ~> phase = "idle"
==============================================================================
