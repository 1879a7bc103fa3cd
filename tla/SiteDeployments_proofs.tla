----------------------- MODULE SiteDeployments_proofs -----------------------
(* What TLC finds in MCSiteDeployments for three releases holds for any number *)
(* of them and for any set of sites.                                           *)
EXTENDS SiteDeployments, TLAPS

(***************************************************************************)
(* The edges of the template that the properties rest on.                  *)
(***************************************************************************)

(* What a part of the template declares is in the template.                *)
LEMMA DeclaredIsInTemplate ==
    ASSUME NEW p, NEW d \in Declared(p)
    PROVE  d.resources \subseteq Resources(p) /\ d.edges \subseteq Edges(p)
BY DEF Resources, Edges

(* The alias waits for the version it is to point at.                      *)
LEMMA AliasNeedsVersion ==
    ASSUME NEW p, "alias" \in Resources(p)
    PROVE  /\ p.backend = "lambda" /\ HasAlias(p)
           /\ "version" \in Dependencies(p, "alias")
<1>1. p.backend = "lambda" /\ HasAlias(p)
  BY DEF Resources, Declared, BackendOf, CreateLambdaFunction,
         AttachProvisionedConcurrency, CreateSiteLambdaUrl, CreateEcsService,
         CreateSiteBucket, CreateS3Bucket, DeploySite, CreateDistribution,
         DistributionOver, CreateNetworkMappings, InvalidateDistributionCache,
         Declare, Nothing
<1>2. CreateLambdaFunction(p) \in Declared(p)
  BY <1>1 DEF Declared, BackendOf
<1> QED
  BY <1>1, <1>2, DeclaredIsInTemplate
  DEF CreateLambdaFunction, Declare, Dependencies

(* With a Lambda backend: the record waits for the distribution, that for the *)
(* URL, that for the function and, if it is on the alias, for the alias.      *)
LEMMA LambdaSiteEdges ==
    ASSUME NEW p, p.backend = "lambda"
    PROVE  /\ {"function", "url", "distribution", "record"} \subseteq Resources(p)
           /\ "distribution" \in Dependencies(p, "record")
           /\ "url" \in Dependencies(p, "distribution")
           /\ "function" \in Dependencies(p, "url")
           /\ UrlIsOnAlias(p) =>
                "alias" \in Resources(p) /\ "alias" \in Dependencies(p, "url")
<1>1. {CreateLambdaFunction(p), CreateSiteLambdaUrl(p), CreateDistribution(p),
       CreateNetworkMappings(p)} \subseteq Declared(p)
  BY DEF Declared, BackendOf
<1>2. "function" \in CreateLambdaFunction(p).resources
  BY DEF CreateLambdaFunction, Declare
<1>3. /\ "url" \in CreateSiteLambdaUrl(p).resources
      /\ <<"url", "function">> \in CreateSiteLambdaUrl(p).edges
  BY <1>2 DEF CreateSiteLambdaUrl, FunctionConstruct, Declare, On
<1>4. /\ "distribution" \in CreateDistribution(p).resources
      /\ <<"distribution", "url">> \in CreateDistribution(p).edges
  BY DEF CreateDistribution, DistributionOver, Declare, On
<1>5. /\ "record" \in CreateNetworkMappings(p).resources
      /\ <<"record", "distribution">> \in CreateNetworkMappings(p).edges
  BY DEF CreateNetworkMappings, Declare
<1>6. ASSUME UrlIsOnAlias(p)
      PROVE  /\ "alias" \in CreateLambdaFunction(p).resources
             /\ <<"url", "alias">> \in CreateSiteLambdaUrl(p).edges
  <2>1. HasAlias(p)
    BY <1>6 DEF UrlIsOnAlias, HasAlias, NoAlias, AliasNameCurrent
  <2> QED
    BY <1>6, <2>1
    DEF CreateLambdaFunction, CreateSiteLambdaUrl, AliasConstruct, Declare, On
<1> QED
  BY <1>1, <1>2, <1>3, <1>4, <1>5, <1>6, DeclaredIsInTemplate DEF Dependencies

(* The URL is only declared with a Lambda backend.                         *)
LEMMA UrlIsOfLambdaSite ==
    ASSUME NEW p, "url" \in Resources(p)
    PROVE  p.backend = "lambda"
BY DEF Resources, Declared, BackendOf, CreateEcsService, CreateSiteBucket,
       CreateS3Bucket, DeploySite, CreateDistribution, DistributionOver,
       CreateNetworkMappings, InvalidateDistributionCache, Declare, Nothing

(* The invalidation waits for the distribution.                            *)
LEMMA InvalidationNeedsDistribution ==
    ASSUME NEW p, p.invalidates
    PROVE  /\ "invalidation" \in Resources(p)
           /\ "distribution" \in Dependencies(p, "invalidation")
<1>1. CreateDistribution(p) \in Declared(p) /\ InvalidateDistributionCache(p) \in Declared(p)
  BY DEF Declared
<1>2. "distribution" \in CreateDistribution(p).resources
  BY DEF CreateDistribution, DistributionOver, Declare
<1>3. /\ "invalidation" \in InvalidateDistributionCache(p).resources
      /\ <<"invalidation", "distribution">> \in InvalidateDistributionCache(p).edges
  BY DEF InvalidateDistributionCache, Declare
<1> QED
  BY <1>1, <1>2, <1>3, DeclaredIsInTemplate DEF Dependencies

(* A static site has its files copied.                                     *)
LEMMA StaticSiteHasAssets ==
    ASSUME NEW p, p.backend = "static"
    PROVE  "assets" \in Resources(p)
<1>1. DeploySite(p) \in Declared(p)
  BY DEF Declared, BackendOf
<1> QED
  BY <1>1, DeclaredIsInTemplate DEF DeploySite, Declare

(***************************************************************************)
(* Type correctness.  A version is published of the target, so there has to be *)
(* one while a deployment is under way.                                        *)
(***************************************************************************)
Underway == IF phase = "idle" THEN done = {} ELSE target \in Releases

(* The first part of the inductive invariant.                              *)
Typed == TypeOK /\ Underway

(* Every step keeps it: a deployment only ever applies the resources of the    *)
(* template, and only buckets are left behind.                                 *)
LEMMA TypedStep == Typed /\ [Next]_vars => Typed'
<1> SUFFICES ASSUME Typed, [Next]_vars PROVE Typed'
  OBVIOUS
<1> USE DEF Typed, TypeOK, Underway
<1>1. ASSUME NEW n \in Releases, Deploy(n) PROVE Typed'
  BY <1>1 DEF Deploy, Outcomes
<1>2. ASSUME NEW r \in AllResources, Apply(r) PROVE Typed'
  <2>1. pending' \in BOOLEAN
    BY <1>2 DEF Apply
  <2> QED
    BY <1>2, <2>1 DEF Apply, Ready
<1>3. ASSUME NEW r \in AllResources, Refuse(r) PROVE Typed'
  <2>1. Obstacle(r) \in Outcomes
    BY DEF Obstacle, Outcomes
  <2>2. weighted' \in BOOLEAN
    BY <1>3 DEF Refuse
  <2> QED
    BY <1>3, <2>1, <2>2 DEF Refuse, Ready, RollBack
<1>4. CASE Finish
  BY <1>4 DEF Finish
<1>5. ASSUME NEW r \in AllResources, Undo(r) PROVE Typed'
  BY <1>5 DEF Undo, Retained
<1>6. CASE EndRollback
  BY <1>6 DEF EndRollback
<1>7. CASE Fault
  BY <1>7 DEF Fault, RollBack, Outcomes
<1>8. CASE View
  <2>1. Serving \in Releases \cup {None}
    BY DEF Serving, At
  <2> QED
    BY <1>8, <2>1 DEF View
<1>9. CASE Expire
  BY <1>9 DEF Expire
<1>10. CASE Build
  BY <1>10 DEF Build
<1>11. CASE UNCHANGED vars
  BY <1>11 DEF vars
<1> QED
  BY <1>1, <1>2, <1>3, <1>4, <1>5, <1>6, <1>7, <1>8, <1>9, <1>10, <1>11
  DEF Next, Provider

LEMMA TypedAlways == Spec => []Typed
<1>1. Init => Typed
  BY DEF Init, Typed, TypeOK, Underway, Outcomes
<1> QED
  BY <1>1, TypedStep, PTL DEF Spec

(* Every variable keeps its type, whatever the sites and the releases.         *)
THEOREM TypeCorrect == Spec => []TypeOK
<1>1. Typed => TypeOK
  BY DEF Typed
<1> QED
  BY <1>1, TypedAlways, PTL

(***************************************************************************)
(* What is there has what it depends on.  A rollback of an update takes the    *)
(* resources back in the order in which it brought them forward, so there it   *)
(* does not hold.                                                              *)
(***************************************************************************)
Closed ==
    phase = "deploying" \/ IsCreation =>
        \A r \in done : Dependencies(site, r) \subseteq done

LEMMA ClosedStep == Typed /\ Closed /\ [Next]_vars => Closed'
<1> SUFFICES ASSUME Typed, Closed, [Next]_vars PROVE Closed'
  OBVIOUS
<1> USE DEF Closed, IsCreation
<1>1. ASSUME NEW n \in Releases, Deploy(n) PROVE Closed'
  BY <1>1 DEF Deploy, Typed, Underway
<1>2. ASSUME NEW r \in AllResources, Apply(r) PROVE Closed'
  BY <1>2 DEF Apply, Ready
<1>3. ASSUME NEW r \in AllResources, Refuse(r) PROVE Closed'
  BY <1>3 DEF Refuse, Ready, RollBack
<1>4. CASE Finish
  BY <1>4 DEF Finish
<1>5. ASSUME NEW r \in AllResources, Undo(r) PROVE Closed'
  BY <1>5 DEF Undo, Undoable
<1>6. CASE EndRollback
  BY <1>6 DEF EndRollback
<1>7. CASE Fault
  BY <1>7 DEF Fault, RollBack
<1>8. CASE View \/ Expire \/ Build \/ UNCHANGED vars
  BY <1>8 DEF View, Expire, Build, vars
<1> QED
  BY <1>1, <1>2, <1>3, <1>4, <1>5, <1>6, <1>7, <1>8 DEF Next, Provider

LEMMA ClosedAlways == Spec => [](Typed /\ Closed)
<1>1. Init => Closed
  BY DEF Init, Closed
<1> QED
  BY <1>1, ClosedStep, TypedAlways, PTL DEF Spec

(* Of a stack that is being created, the record is the last to come and the     *)
(* first to go: with it there are the URL and what it is on.                    *)
LEMMA RecordImpliesServing ==
    ASSUME Typed, Closed
    PROVE  ReachableWhenRecorded
<1> SUFFICES ASSUME site.backend = "lambda", At("record") # None
             PROVE  Serving # None
  BY DEF ReachableWhenRecorded
<1> DEFINE origin == IF UrlIsOnAlias(site) THEN "alias" ELSE "function"
<1>1. Serving = IF At("url") = None THEN None ELSE At(origin)
  BY DEF Serving
<1>2. CASE ~IsCreation
  <2>1. released # None /\ (done # {} => target # None)
    BY <1>2, ReleasesAssumption DEF IsCreation, Typed, Underway
  <2> QED
    BY <1>1, <2>1 DEF At
<1>3. CASE IsCreation
  <2>1. "record" \in done
    BY <1>3 DEF At, IsCreation
  <2>2. {"url", origin} \subseteq done
    BY <1>3, <2>1, LambdaSiteEdges DEF Closed
  <2>3. target # None
    BY <2>1, ReleasesAssumption DEF Typed, Underway
  <2> QED
    BY <1>1, <2>2, <2>3 DEF At
<1> QED
  BY <1>2, <1>3

(* The name of a site with a Lambda backend resolves only while there is a     *)
(* function behind it, in deployments, rollbacks and between them.             *)
THEOREM Reachable == Spec => []ReachableWhenRecorded
<1>1. Typed /\ Closed => ReachableWhenRecorded
  BY RecordImpliesServing
<1> QED
  BY <1>1, ClosedAlways, PTL


(***************************************************************************)
(* The version of the target is published, and warm if it has provisioned      *)
(* concurrency, from before the alias is moved to it until the alias has been  *)
(* moved away.                                                                 *)
(***************************************************************************)
Published ==
    /\ "alias" \in Resources(site) /\ released # None => released \in versions
    /\ {"alias", "version"} \cap done # {} =>
         target \in versions /\ (WarmsVersion(site) => target \notin Broken)

LEMMA PublishedStep == Typed /\ Closed /\ Published /\ [Next]_vars => Published'
<1> SUFFICES ASSUME Typed, Closed, Published, [Next]_vars PROVE Published'
  OBVIOUS
<1> USE DEF Published
<1>1. ASSUME NEW n \in Releases, Deploy(n) PROVE Published'
  BY <1>1 DEF Deploy, Typed, Underway
<1>2. ASSUME NEW r \in AllResources, Apply(r) PROVE Published'
  <2>1. r \in Resources(site) /\ Dependencies(site, r) \subseteq done
    BY <1>2 DEF Apply, Ready
  <2>2. CASE r = "version"
    <3>1. WarmsVersion(site) => target \notin Broken
      BY <1>2, <2>2 DEF Apply, Obstacle
    <3> QED
      BY <1>2, <2>2, <3>1 DEF Apply
  <2>3. CASE r = "alias"
    <3>1. "version" \in done
      BY <2>1, <2>3, AliasNeedsVersion
    <3> QED
      BY <1>2, <2>3, <3>1 DEF Apply
  <2>4. CASE r \notin {"alias", "version"}
    BY <1>2, <2>4 DEF Apply
  <2> QED
    BY <2>2, <2>3, <2>4
<1>3. ASSUME NEW r \in AllResources, Refuse(r) PROVE Published'
  BY <1>3 DEF Refuse, RollBack
<1>4. CASE Finish
  BY <1>4 DEF Finish
<1>5. ASSUME NEW r \in AllResources, Undo(r) PROVE Published'
  <2>1. CASE r = "version" /\ IsCreation
    <3>1. ASSUME "alias" \in done PROVE FALSE
      <4>1. "version" \in Dependencies(site, "alias")
        BY <3>1, AliasNeedsVersion DEF Typed, TypeOK
      <4> QED
        BY <1>5, <2>1, <3>1, <4>1 DEF Undo, Undoable
    <3> QED
      BY <1>5, <2>1, <3>1 DEF Undo, IsCreation
  <2>2. CASE ~(r = "version" /\ IsCreation)
    BY <1>5, <2>2 DEF Undo
  <2> QED
    BY <2>1, <2>2
<1>6. CASE EndRollback
  BY <1>6 DEF EndRollback
<1>7. CASE Fault
  BY <1>7 DEF Fault, RollBack
<1>8. CASE View \/ Expire \/ Build \/ UNCHANGED vars
  BY <1>8 DEF View, Expire, Build, vars
<1> QED
  BY <1>1, <1>2, <1>3, <1>4, <1>5, <1>6, <1>7, <1>8 DEF Next, Provider

LEMMA PublishedAlways == Spec => [](Typed /\ Closed /\ Published)
<1>1. Init => Published
  BY DEF Init, Published
<1> QED
  BY <1>1, PublishedStep, ClosedAlways, PTL DEF Spec

(* The alias points at published versions only, forward and back.              *)
THEOREM AliasAlwaysPublished == Spec => []AliasIsPublished
<1>1. Published => AliasIsPublished
  BY DEF Published, AliasIsPublished, At
<1> QED
  BY <1>1, PublishedAlways, PTL

(***************************************************************************)
(* Why a deployment is rolled back.                                        *)
(***************************************************************************)
Reasons == HealthyIsDeployed /\ (phase = "rollingBack" => outcome # "ok")

(* The URL is not refused for want of an alias: it waits for it.               *)
LEMMA UrlFindsAlias ==
    ASSUME Typed, Closed, Ready("url"), UrlIsOnAlias(site)
    PROVE  At("alias") # None
<1>1. "alias" \in done
  BY UrlIsOfLambdaSite, LambdaSiteEdges DEF Ready
<1> QED
  BY <1>1, ReleasesAssumption DEF At, Ready, Typed, Underway

LEMMA ReasonsStep == Typed /\ Closed /\ Reasons /\ [Next]_vars => Reasons'
<1> SUFFICES ASSUME Typed, Closed, Reasons, [Next]_vars PROVE Reasons'
  OBVIOUS
<1> USE DEF Reasons, HealthyIsDeployed
<1>1. ASSUME NEW n \in Releases, Deploy(n) PROVE Reasons'
  BY <1>1 DEF Deploy
<1>2. ASSUME NEW r \in AllResources, Apply(r) PROVE Reasons'
  BY <1>2 DEF Apply, Ready
<1>3. ASSUME NEW r \in AllResources, Refuse(r) PROVE Reasons'
  <2>1. Obstacle(r) # "noAlias"
    <3>1. ASSUME r = "url", UrlIsOnAlias(site) PROVE At("alias") # None
      BY <1>3, <3>1, UrlFindsAlias DEF Refuse
    <3> QED
      BY <3>1 DEF Obstacle
  <2>2. target \in Broken \/ weighted \/ left # {}
    BY <1>3, <2>1 DEF Refuse, Obstacle
  <2> QED
    BY <1>3, <2>2 DEF Refuse, RollBack
<1>4. CASE Finish
  BY <1>4 DEF Finish
<1>5. ASSUME NEW r \in AllResources, Undo(r) PROVE Reasons'
  BY <1>5 DEF Undo
<1>6. CASE EndRollback
  BY <1>6 DEF EndRollback
<1>7. CASE Fault
  BY <1>7 DEF Fault, RollBack
<1>8. CASE View \/ Expire \/ Build \/ UNCHANGED vars
  BY <1>8 DEF View, Expire, Build, vars
<1> QED
  BY <1>1, <1>2, <1>3, <1>4, <1>5, <1>6, <1>7, <1>8 DEF Next, Provider

LEMMA ReasonsAlways == Spec => [](Typed /\ Closed /\ Reasons)
<1>1. Init => Reasons
  BY DEF Init, Reasons, HealthyIsDeployed
<1> QED
  BY <1>1, ReasonsStep, ClosedAlways, PTL DEF Spec

(* A release that starts is refused only for what an earlier failure has left. *)
THEOREM HealthyAlwaysDeployed == Spec => []HealthyIsDeployed
<1>1. Reasons => HealthyIsDeployed
  BY DEF Reasons
<1> QED
  BY <1>1, ReasonsAlways, PTL


(***************************************************************************)
(* Invalidation.  It must come after what it invalidates: with a Lambda        *)
(* backend the dependencies see to that, a static site's files come with their *)
(* own.  An ECS backend has neither, so no such site may invalidate.           *)
(***************************************************************************)
EcsDoesNotInvalidate == \A s \in Sites : s.backend = "ecs" => ~s.invalidates

Clears == site.invalidates \/ site.backend = "static"
Clearer == IF site.backend = "static" THEN "assets" ELSE "invalidation"

Fresh ==
    Clears /\ outcome = "ok" =>
        /\ phase = "idle" => pending \/ cache \in {None, released}
        /\ phase = "deploying" /\ Clearer \in done =>
             pending \/ cache \in {None, target}

(* From the invalidation on the origin answers with the new release.           *)
LEMMA ServingAfterClearing ==
    ASSUME EcsDoesNotInvalidate, Typed, Closed, Clears,
           phase = "deploying", Clearer \in done
    PROVE  Serving = target
<1>1. CASE site.backend = "static"
  BY <1>1 DEF Serving, At, Clearer
<1>2. CASE site.backend # "static"
  <2>1. site.invalidates /\ site.backend # "ecs" /\ "invalidation" \in done
    BY <1>2 DEF Clears, Clearer, EcsDoesNotInvalidate, Typed, TypeOK
  <2>2. site.backend = "lambda"
    BY <1>2, <2>1, SitesAssumption DEF Typed, TypeOK
  <2>3. "distribution" \in done
    BY <2>1, InvalidationNeedsDistribution DEF Closed
  <2>4. "url" \in done
    BY <2>2, <2>3, LambdaSiteEdges DEF Closed
  <2>5. (IF UrlIsOnAlias(site) THEN "alias" ELSE "function") \in done
    BY <2>2, <2>4, LambdaSiteEdges DEF Closed
  <2>6. target # None
    BY ReleasesAssumption DEF Typed, Underway
  <2> QED
    BY <2>2, <2>4, <2>5, <2>6 DEF Serving, At
<1> QED
  BY <1>1, <1>2

(* Between deployments there is nothing to answer with but the release that is *)
(* deployed.                                                                   *)
LEMMA ServingWhenSettled ==
    ASSUME done = {}
    PROVE  Serving \in {None, released}
BY DEF Serving, At

LEMMA FreshStep ==
    EcsDoesNotInvalidate /\ Typed /\ Closed /\ Reasons /\ Fresh /\ [Next]_vars => Fresh'
<1> SUFFICES ASSUME EcsDoesNotInvalidate, Typed, Closed, Reasons, Fresh, [Next]_vars
             PROVE  Fresh'
  OBVIOUS
<1> USE DEF Fresh, Clears, Clearer
<1>1. ASSUME NEW n \in Releases, Deploy(n) PROVE Fresh'
  BY <1>1 DEF Deploy, Typed, Underway
<1>2. ASSUME NEW r \in AllResources, Apply(r) PROVE Fresh'
  <2>1. CASE r = Clearer
    BY <1>2, <2>1 DEF Apply, Ready
  <2>2. CASE r # Clearer
    BY <1>2, <2>2 DEF Apply, Ready
  <2> QED
    BY <2>1, <2>2
<1>3. ASSUME NEW r \in AllResources, Refuse(r) PROVE Fresh'
  BY <1>3 DEF Refuse, RollBack
<1>4. CASE Finish
  <2>1. Clears => Clearer \in Resources(site)
    BY InvalidationNeedsDistribution, StaticSiteHasAssets
  <2> QED
    BY <1>4, <2>1 DEF Finish
<1>5. ASSUME NEW r \in AllResources, Undo(r) PROVE Fresh'
  BY <1>5 DEF Undo, Reasons
<1>6. CASE EndRollback
  BY <1>6 DEF EndRollback, Reasons
<1>7. CASE Fault
  BY <1>7 DEF Fault, RollBack
<1>8. CASE View
  <2>1. CASE phase = "idle"
    BY <1>8, <2>1, ServingWhenSettled DEF View, Typed, Underway
  <2>2. CASE phase = "deploying"
    BY <1>8, <2>2, ServingAfterClearing DEF View
  <2>3. CASE phase = "rollingBack"
    BY <1>8, <2>3 DEF View
  <2> QED
    BY <2>1, <2>2, <2>3 DEF Typed, TypeOK
<1>9. CASE Expire \/ Build
  BY <1>9 DEF Expire, Build
<1>10. CASE UNCHANGED vars
  BY <1>10 DEF vars
<1> QED
  BY <1>1, <1>2, <1>3, <1>4, <1>5, <1>6, <1>7, <1>8, <1>9, <1>10
  DEF Next, Provider

(* No visitor gets an old page after a deployment that invalidates, on any     *)
(* site whose distribution depends on its origin.                              *)
THEOREM InvalidatedAlways ==
    ASSUME EcsDoesNotInvalidate
    PROVE  Spec => []InvalidatedAfterDeployment
<1>1. Init => Fresh
  BY DEF Init, Fresh
<1>2. Fresh => InvalidatedAfterDeployment
  BY DEF Fresh, Clears, InvalidatedAfterDeployment
<1>3. Typed /\ Closed /\ Reasons /\ Fresh /\ [Next]_vars => Fresh'
  BY FreshStep
<1> QED
  BY <1>1, <1>2, <1>3, ReasonsAlways, PTL DEF Spec


(***************************************************************************)
(* AtomicRelease is implemented where provisioned concurrency is on versions.  *)
(***************************************************************************)
Inv == Typed /\ Closed /\ Published

(* Such a site has alias and URL, the one on the other, on a warm version.     *)
LEMMA GuardedSite ==
    ASSUME Inv, Guarded
    PROVE  /\ {"url", "alias"} \subseteq Resources(site)
           /\ "version" \in Dependencies(site, "alias")
           /\ "alias" \in Dependencies(site, "url")
           /\ WarmsVersion(site)
           /\ target # None \/ phase = "idle"
<1>1. UrlIsOnAlias(site) /\ site.backend = "lambda"
  BY DEF Guarded
<1>2. {"url", "alias"} \subseteq Resources(site) /\ "alias" \in Dependencies(site, "url")
  BY <1>1, LambdaSiteEdges
<1>3. HasAlias(site) /\ "version" \in Dependencies(site, "alias")
  BY <1>2, AliasNeedsVersion
<1> QED
  BY <1>2, <1>3, ReleasesAssumption DEF WarmsVersion, Guarded, Inv, Typed, Underway

(* A step that applies a resource switches to the new release, which starts, or *)
(* is not noticed.                                                             *)
LEMMA ApplySwitches ==
    ASSUME Inv, Inv', Guarded, NEW r, Apply(r)
    PROVE  /\ Serving' = Serving \/ Serving' = target
           /\ Serving' # Serving => target \notin Broken
<1>1. /\ Guarded' /\ At("alias")' = (IF r = "alias" THEN target ELSE At("alias"))
      /\ At("url")' = (IF r = "url" THEN target ELSE At("url"))
  BY DEF Apply, Guarded, At
<1>2. /\ Serving = (IF At("url") = None THEN None ELSE At("alias"))
      /\ Serving' = (IF At("url")' = None THEN None ELSE At("alias")')
  BY <1>1 DEF Serving, Guarded
<1>3. CASE r = "alias"
  <2>1. "version" \in done
    BY <1>3, GuardedSite DEF Apply, Ready
  <2>2. target \notin Broken
    BY <2>1, GuardedSite DEF Inv, Published
  <2> QED
    BY <1>1, <1>2, <1>3, <2>2
<1>4. CASE r = "url"
  <2>1. "alias" \in done
    BY <1>4, GuardedSite DEF Apply, Ready
  <2>2. target \notin Broken /\ At("alias") = target
    BY <2>1, GuardedSite DEF Inv, Published, At
  <2>3. target # None
    BY GuardedSite DEF Apply, Ready
  <2> QED
    BY <1>1, <1>2, <1>4, <2>2, <2>3
<1>5. CASE r \notin {"alias", "url"}
  BY <1>1, <1>2, <1>5
<1> QED
  BY <1>3, <1>4, <1>5

(* A step back is noticed when it takes visitors to the release before.        *)
LEMMA UndoWithdraws ==
    ASSUME Inv, Inv', Guarded, NEW r, Undo(r)
    PROVE  Serving' = Serving \/ Serving' = released
<1>1. Guarded' /\ At("alias")' = IF r = "alias" THEN released ELSE At("alias")
  BY DEF Undo, Guarded, At
<1>2. At("url")' = IF r = "url" THEN released ELSE At("url")
  BY DEF Undo, At
<1>3. Serving = (IF At("url") = None THEN None ELSE At("alias"))
  BY DEF Serving, Guarded
<1>4. Serving' = (IF At("url")' = None THEN None ELSE At("alias")')
  BY <1>1 DEF Serving, Guarded
<1>5. At("url") # None \/ r # "url"
  BY GuardedSite DEF Undo, At
<1> QED
  BY <1>1, <1>2, <1>3, <1>4, <1>5

(* The mapped initial state and the mapped steps.                              *)
LEMMA InitRefines == Init => Promise!Init
BY DEF Init, Promise!Init, Guarded, Serving, At

LEMMA StepRefines ==
    Inv /\ Inv' /\ [Next]_vars => [Promise!Next]_(Promise!vars)
<1> SUFFICES ASSUME Inv, Inv', [Next]_vars
             PROVE  Promise!Next \/ UNCHANGED Promise!vars
  OBVIOUS
<1>1. Guarded' = Guarded
  BY DEF Next, Provider, Deploy, Apply, Refuse, Finish, Undo, EndRollback, Fault,
         RollBack, View, Expire, Build, vars, Guarded
<1>2. CASE ~Guarded
  BY <1>1, <1>2 DEF Promise!vars
<1>3. CASE Guarded
  <2> USE <1>1, <1>3
  <2>1. ASSUME NEW n \in Releases, Deploy(n) PROVE Promise!Next
    <3>1. Serving' = Serving
      BY <2>1 DEF Deploy, Serving, At, Inv, Typed, Underway
    <3>2. Promise!Propose(n)
      BY <2>1, <3>1 DEF Deploy, Promise!Propose
    <3> QED
      BY <3>2 DEF Promise!Next
  <2>2. ASSUME NEW r \in AllResources, Apply(r)
        PROVE  Promise!Next \/ UNCHANGED Promise!vars
    <3>1. CASE Serving' = Serving
      BY <2>2, <3>1 DEF Apply, Promise!vars
    <3>2. CASE Serving' # Serving
      <4>1. Serving' = target /\ target \notin Broken
        BY <2>2, <3>2, ApplySwitches
      <4>2. Promise!Switch
        BY <2>2, <4>1, GuardedSite DEF Apply, Ready, Promise!Switch
      <4> QED
        BY <4>2 DEF Promise!Next
    <3> QED
      BY <3>1, <3>2
  <2>3. ASSUME NEW r \in AllResources, Refuse(r) PROVE UNCHANGED Promise!vars
    BY <2>3 DEF Refuse, Ready, RollBack, Serving, At, Promise!vars
  <2>4. CASE Finish
    <3>1. Serving = target /\ Serving' = target
      BY <2>4, GuardedSite DEF Finish, Serving, At, Guarded
    <3>2. Promise!Settle
      BY <2>4, <3>1, GuardedSite DEF Finish, Promise!Settle
    <3> QED
      BY <3>2 DEF Promise!Next
  <2>5. ASSUME NEW r \in AllResources, Undo(r)
        PROVE  Promise!Next \/ UNCHANGED Promise!vars
    <3>1. CASE Serving' = Serving
      BY <2>5, <3>1 DEF Undo, Promise!vars
    <3>2. CASE Serving' # Serving
      <4>1. Serving' = released
        BY <2>5, <3>2, UndoWithdraws
      <4>2. Promise!Withdraw
        BY <2>5, <4>1, GuardedSite DEF Undo, Promise!Withdraw
      <4> QED
        BY <4>2 DEF Promise!Next
    <3> QED
      BY <3>1, <3>2
  <2>6. CASE EndRollback
    <3>1. Serving = released /\ Serving' = Serving
      BY <2>6, GuardedSite DEF EndRollback, Serving, At, Guarded
    <3>2. Promise!Abandon
      BY <2>6, <3>1, GuardedSite DEF EndRollback, Promise!Abandon
    <3> QED
      BY <3>2 DEF Promise!Next
  <2>7. CASE Fault
    BY <2>7 DEF Fault, RollBack, Serving, At, Promise!vars
  <2>8. CASE View \/ Expire \/ Build \/ UNCHANGED vars
    BY <2>8 DEF View, Expire, Build, vars, Serving, At, Promise!vars
  <2> QED
    BY <2>1, <2>2, <2>3, <2>4, <2>5, <2>6, <2>7, <2>8 DEF Next, Provider
<1> QED
  BY <1>2, <1>3

(* Visitors of a function with warm versions see one release at a time, one    *)
(* that starts, and are back at the old one when a deployment fails.           *)
THEOREM Refinement == Spec => ImplementsAtomicRelease
<1>1. Inv /\ Inv' /\ [Next]_vars => [Promise!Next]_(Promise!vars)
  BY StepRefines
<1>2. Spec => []Inv
  BY PublishedAlways, PTL DEF Inv
<1> QED
  BY InitRefines, <1>1, <1>2, PTL DEF Spec, ImplementsAtomicRelease, Promise!Spec

==============================================================================
