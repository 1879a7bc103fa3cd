# A verification project for cdk-utils

cdk-utils (`src/README.md`) is a library of constructs for AWS CDK, Pulumi
(Azure) and Cloudflare. An application hands it configuration files and a few
properties; it decides which cloud resources there are and how they are wired.
Most of the code declares resources. What can go wrong, and what this project
is about, is in the places where *order* and *shared state* matter: layers of
configuration that override each other, methods that read what other methods
left behind, and the wiring of queues, functions and pipes that decides what
becomes of an event long after the library has run.

Paths below are relative to `src/packages/` unless they start with `src/`.

## 1. The system

| Component | State it keeps | Operations | Interacts with |
|---|---|---|---|
| `aws/src/common/stack.ts` `CommonStack` | the CDK context of the App's node and of the stack's own node; `props` | constructor: extra, region, stage and stage-region layers, then `determineConstructProps` | every other stack of the App, through the context objects they share |
| `aws/.../services/lambda`, `simple-queue-service` | none of its own; the function, its dead letter queue and its redrive queue | `createLambdaFunction`, `createLambdaDockerFunction`, `createQueue`, `create…ForLambda`, aliases, provisioned concurrency | Lambda's asynchronous retries, the SQS event source, SQS redrive |
| `aws/.../construct/event-handler`, `piped-event-handler` | `handler`: queue, pattern, bus, rule, target lists, workflow | `initResources`: seven methods, ten in the piped subclass | `eventbridge`, `identity-access-management`, `simple-queue-service` managers; subclasses fill the target lists |
| `aws/.../services/eventbridge` | none | rules, archives, SQS pipes to a workflow or a function | EventBridge Pipes compete for one queue |
| `aws/.../services/step-function` | none; the states of a machine | fifteen step builders with retries, `createStateMachine` | executions of the machine, and those they start of another one |
| API constructs (`api-to-*`, `rest-api-lambda*`) | a field bag each (`apiEvent`, `apiDestinedRestApi`, …), defaults written into `props` | pipelines of 8 to 30 methods or so | API Gateway, EventBridge, SNS, IAM managers; an API or a bus another stack owns |
| Sites (`site-with-*-backend`, `static-site`, `static-asset-deployment`) | fields of resources, declared dependencies, policies written into `props` | pipelines of 2 to 24 methods | CloudFormation creates the resources in parallel |
| `lambda-with-iam-access`, `application-configuration` | fields | short pipelines | IAM, AppConfig managers |
| `aws/.../services/identity-access-management` | none | statements, policies, roles | every manager and construct whose resource acts for somebody |
| `azure/src/common/stack.ts`, `tagging.ts` | `props`, Pulumi's config and environment, the global list of stack transformations | layers into a fresh object; tagging | every later stack of the process, through the transformation |
| Azure `function-app`, `event-handler`, `rest-api-function`, `rest-api`, `site-with-webapp`, `load-testing` | fields, and `host.json` on disk | pipelines of classes that extend each other | each other, the files of an earlier run, the host of the function |
| `cloudflare/src/**` | `props`; fields | the layering with two layers; two linear pipelines | – |
| AWS, Azure, Cloudflare service managers | none | check required properties, declare one resource | called by the constructs |
| names, stages, utilities | none | formatting | everything |

What is hard to test here, and where, is the hazard list of `PROJECT.json`.
In short:

* **Shared mutable configuration.** On AWS `setContext` merges *in place* into an
  object it may have got from the App, so every stack writes into objects that
  all stacks read (`stack.ts:120`). Constructs write defaults, policies and
  parsed settings into the props that the next construct is built from. A unit
  test builds one stack with one construct.
* **Layers that steer layers.** Each layer's file is found by values that lower
  layers, including the one loaded just before, may have changed; on Azure by the
  environment or the configuration, which may disagree.
* **Pipelines.** `initResources` of a construct works because its methods run in
  one order; subclasses add methods before and after, and overwrite fields.
  A field that is read before it is set is `undefined` and nothing fails.
* **Agreement at a distance.** A role is made by one manager for work that another
  one lays down; a bus is created under a name by one stack and looked up by
  another; a queue, its namespace and its connection string are sought in
  resource groups that are computed apart.
* **Events and executions after deployment.** Which retry mechanism has an event,
  how often it was seen, whether a batch takes its neighbours along, whether
  anything still reads the queue it is in, and whether a retried start runs twice.
* **Deployments.** Combinations of properties that synthesise and cannot be
  deployed, and files of an earlier deployment.

There are no threads in the library. What it persists is `host.json` of an Azure
function; the concurrency is that of the services it wires and of the resources
it declares.

Per component, correct means:

* layered configuration: each stack reads what its layers resolve to, whatever
  other stacks of the program did; the highest layer has the last word; what was
  read for a stack is of one stage and one location; a missing extra context stops
  the application;
* dead letters: no event of a function that has a dead letter queue is lost, none
  is parked before its retries are used up, none waits for ever;
* event handler: archive and rule agree, and what is provisioned for an event is
  reached by it once; a deployment fails only for reasons one can name;
* piped handler: the pipes lose no event before something took it, and empty the
  queue;
* step functions: a task is retried as its caller asked; an execution is started
  once however often the start is retried, and nobody joins somebody else's;
* sites: whatever a deployment has done so far, the URL's function, the alias's
  version and the name's origin are there; a release that does not start is never
  served; a failed deployment leaves nothing that makes the next one fail; no
  old page survives the invalidation of a deployment;
* all constructs: no field is read before it is set, a construct throws only for
  reasons one can name, whoever acts may do what it was made for and finds what it
  acts on, and what a construct leaves in shared props does not change the next.

## 2. The modules

```
ConfigLayers ── LayeredConfig                Defaults ── RedriveQueue
     │               ▲                          │            ▲   ▲
     └─ StackContexts┘ (implements)             │            │   └── LambdaDeadLetters
           │                                    │            │
     StackContexts_proofs                  EventHandler ── PipedEventHandler
                                                                │
                                                          EventHandler_proofs

SiteResources ── SiteDeployments ── SiteDeployments_proofs
                      │ (implements)
                 AtomicRelease              StepFunctions ── StepFunctions_proofs

PulumiContexts ── PulumiContexts_proofs

Synthesis ─┬─ AwsManagers ─┬─ ApiTargets ─┬─ ApiToEventBridgeTarget        ┐
           │               │              ├─ ApiToEventBridgeTargetWithSns │
           │               │              ├─ ApiToLambdaTarget             ├ AwsConstructs ── AwsConstructs_proofs
           │               │              └─ LambdaConstructs              │
           │               └─ AwsSites                                     ┘
           └─ AzureManagers ─┬─ AzureFunctionApp ─┬─ AzureEventHandler     ┐
                             │                    └─ AzureRestApiFunction  ├ PulumiConstructs
                             ├─ AzureRestApi                               │      │
                             └─ PulumiSites                                ┘ PulumiConstructs_proofs
```

| Module | Models | Reads as |
|---|---|---|
| `ConfigLayers` | what a configuration is, which file each layer consults, what layers resolve to | `Resolved(base, layers)` is the reference definition: the last layer that gives a field decides it. `AfterSet` is what one `setContext` leaves, the `String` objects of `merge` included (`Boxed`); `Joins` is what `path.join` accepts. |
| `LayeredConfig` | the abstract promise | one atomic `Configure(s)` per stack, or `Abort` where a constructor does not get through its layers (`Configurable`) |
| `StackContexts` | `CommonStack`'s constructor, one action per file it loads | `app`, `own` are the two levels of CDK context, `View(s)` is `node.tryGetContext`; an object that is only in the App is changed there (`SharesApp`) |
| `PulumiContexts` | `CommonAzureStack`, `CommonCloudflareStack`, `tagging.ts` | a program of several stacks; `merged` grows by one layer per action; `transformations` is the root's list, and each stack keeps how long it was |
| `Defaults` | JavaScript's `??` and `\|\|` | the code picks one or the other and they differ on `0` |
| `RedriveQueue` | a queue as `SqsManager.createQueue` configures it | one `place` per message; receipts are counted; used twice, with `INSTANCE` |
| `LambdaDeadLetters` | a function with its dead letter and redrive queue, and the events it is invoked with | `Wiring` is what the code makes of `LambdaProps`; the attempts and batches are the services' |
| `EventHandler` | `initResources` of both handlers: one action per method, in the order of the code | `handler` has the fields, `template` the resources; then `Synthesise` and `Deploy` |
| `PipedEventHandler` | the events of a deployed piped handler | extends `EventHandler`, so pipes and queue are those its methods built; the queue is a `RedriveQueue` |
| `StepFunctions` | the step builders, the machine, and its executions | a builder adds a step with its retriers, `Acceptable` is what the service refuses, `runs` go through the steps, `children` are the executions they start |
| `SiteResources` | what `initResources` of the three site constructs declares | a method is the resources and the edges it adds to the template; `Dependencies(p, r)` is what `r` waits for |
| `SiteDeployments` | releases deployed to such a site one after the other | `done` is how far a deployment, or its rollback, has come; the order is the template's, and nothing else's |
| `AtomicRelease` | the abstract promise to visitors | they see one release, the old one or a new one that starts |
| `Synthesis` | what all constructs have in common | `Calls(method) /\ Creates(needs, resources, values)`: a method dereferences fields, declares resources, sets fields |
| `AwsManagers`, `AzureManagers` | the managers' methods the constructs call, and on AWS the services with a role of their own, statements and roles | the resources a call adds to the construct; a statement allows actions on resources, and `Allows` asks a set of them |
| `ApiTargets` | what the six constructs with a REST API share | an API is owned, or imported and added to |
| `ApiToEventBridgeTarget`, `…WithSns`, `ApiToLambdaTarget` | these classes and `ApiToAnyTarget` | their own methods between the shared ones |
| `LambdaConstructs` | `RestApiLambda`, `…WithCache`, `LambdaWithIamAccess`, `ApplicationConfiguration` | |
| `AwsSites` | the three sites and `StaticAssetDeployment`, method by method | what they are made of; `SiteResources` has what waits for what |
| `AwsConstructs` | stacks of these, with the properties of all of them | |
| `AzureFunctionApp`, `AzureEventHandler`, `AzureRestApi`, `AzureRestApiFunction` | the classes of these names; `AzureRestApi` has the one with a cache, too | subclasses put methods around the inherited ones, as `super.initResources()` does; `hostJson` outlives a run, `hostKey` is the polling for the host's key |
| `PulumiSites` | the Azure web app and load test, the Cloudflare pages and worker | |
| `PulumiConstructs` | stacks of these, deployed again with other host settings | |
| `MC…` | finite instances for TLC | |
| `…_proofs` | lemmas and theorems for TLAPS | |

`PROJECT.json` (`map`) has the source lines of every definition. Definitions
marked external there are the services' (SQS, Lambda, Pipes, Step Functions,
CloudFormation), as far as the code relies on them. No module that is proved
about declares a recursive operator.

### How state and actions correspond to the code

*Layered configuration.* A JSON object is flattened to its leaf paths because
lodash's `merge` works path by path; arrays at the top level are values (the
code sets them as they are), and `null` has type `"object"`, so it is merged,
which changes nothing that is there and leaves `{}` (`Bare`) where nothing was.
`pc` names the method of the constructor that runs next. No other code runs
while a constructor does, so the files are the steps. An entry of a stack that
is a reference to the App's own object reads like no entry; `own` holds none.

*Dead letters.* `Wiring` is evaluated when the function is created and may throw
(batch sizes that `SqsEventSource` refuses). `Deploy` is Lambda's check of the
queue's visibility timeout. Then each event has its asynchronous invocation
(`call`, `attempts`), and, if that failed, a `place` and a number of `receives` in
the dead letter queue. `running` has the batches in progress, several at a time.
`BatchDies` is a function that was brought down half way through its batch, which
is why `handled` may contain events that are still in the queue: the code does
not deduplicate, and no property claims it does.

*Event handlers.* A call of a method is one action that checks what the method
checks, reads the fields it reads and sets those it sets. `todo` is what is left
of `initResources`, with the subclass's methods around the inherited ones. A
field nobody set is `NotSet`. The names of resources are their construct ids.

*Pipes.* `Poll` receives a batch, which ends in `StartsExecution` (nobody waits),
`TargetCompletes` or `TargetFails`. What does not match the pipe's filter leaves
the queue unprocessed: that is how SQS pipes filter.

*Sites.* Methods of the sites only declare, so they are operators, and what can
happen is what CloudFormation may do with the declarations. It applies a resource
(`Apply`) when all it depends on is there, in any order beyond that; a service
may refuse one (`Refuse`, for the reasons in `Obstacle`), anything may go wrong
(`Fault`), and then everything that was done is undone. `At(r)` is the release a
resource is at. A construct counts with all that CDK puts below it, so a dependency
on the function is one on its version too. Visitors fill CloudFront's cache (`View`)
whenever it is empty, also in the middle of a deployment; the build that
`invalidateCache` starts runs later, when it likes (`Build`).

*Pulumi stacks.* A layer is a function from the paths that matter to values,
because lodash merges path by path. Other than on AWS the files are chosen by the
configuration and the environment alone, never by a layer below, and each stack
merges into an object of its own; the `world` a program runs in never changes.
What stacks share is the root's list of transformations. A construct that is made
after a stack is a child of the root and keeps the transformations registered by
then; `transformedBy` is their number.

*Constructs.* `props` is one object for all constructs of a stack, as applications
pass it, and methods change it where the code does. A resource records the fields it was
built from *as they were then*, so that `ReadsAreFinal` can compare them with what
the construct has in the end. An id that two children of one construct would
have throws, as in CDK and Pulumi. Subclasses are sequences of methods that contain the
inherited ones. Only properties that a branch or another field depends on are in
`props`; the plain attributes of a resource are not.

*Step functions.* A machine goes through its steps in the order they were built;
a choice, a parallel step and a map are one step. Requests may be lost on the way
there or on the way back. Time is what delays add up to: calls take none, so an
execution has waited *at least* as long as `waited` says.

## 3. The runs

All of them end within seconds to a few minutes on two workers. `pass` runs find no
error; a `violation` run checks one claim of the documentation or a comment that
the code does not keep.

| Run | Configuration | States | Shows |
|---|---|---|---|
| `stack_contexts` | `StackContexts.cfg` | 76,680 | two stacks in either order, over shared objects, each read what they would read alone, were built with it, and the constructors implement `LayeredConfig`, which says when they throw |
| `pulumi_contexts` | `PulumiContexts.cfg` | 134,945 | programs of up to three Azure and Cloudflare stacks: the highest layer wins, where the files of a stack can be of another stage or location than its own, and whose tags a resource gets |
| `lambda_dead_letters` | `LambdaDeadLetters.cfg` | 24,606 | no event is lost or parked too early, and every event settles |
| `event_handler` | `EventHandler.cfg` | 60,480 | every combination of properties, both classes: agreement of archive and rule, one route for each event, and exactly which properties forbid deployment |
| `piped_event_handler` | `PipedEventHandler.cfg` | 14,786 | competing pipes with filters of their own: each event that leaves the queue meets one fate, once, what is parked was never taken, who abandons events, and the queue is emptied |
| `step_functions` | `StepFunctions.cfg` | 679,105 | every step builder with every list of retries: what is retried, how often and how long; executions started by executions, with lost requests and answers |
| `site_deployments` | `SiteDeployments.cfg` | 100,121 | every kind of site, releases deployed in any order, failing at any point: no alias of an unpublished version, no name without a function, no refusal of a healthy release but for what a failure left, no old page after an invalidation, deployments end, and `AtomicRelease` with warm versions |
| `aws_constructs` | `AwsConstructs.cfg` | 87,786 | two constructs of each class from one props object: order of methods, exactly which properties throw, who may do what, what a site is served with, and what the first leaves for the second |
| `pulumi_constructs` | `PulumiConstructs.cfg` | 108,947 | the same for Azure and Cloudflare, with `host.json` over two deployments and the polling of a function's host |
| `arrays_deep_merged` | `ArraysAreDeepMerged.cfg` | – | violated: see 6 |
| `retries_are_deployed` | `RetriesAreDeployed.cfg` | – | violated: see 6 |
| `ecs_cache` | `EcsCacheIsInvalidated.cfg` | – | violated: see 6 |

Every property of a passing run is broken by a named mutant of a definition
(`mutants` in `PROJECT.json`): a dropped guard, an off-by-one, methods in
another order, a layer loaded twice. The mutants stand beside what they mutate.
The type invariants of the components with proofs are theorems and not properties
of runs; the two construct families, which have none, check theirs in `WellBuilt`.

Several properties are equivalences (`<=>`): they say when something holds *and* when it
does not, so that a change of the code in either direction is noticed. What
they say about the code is then not always flattering:

| Property | of | says |
|---|---|---|
| `FilesAreOfItsStage` | `pulumi_contexts` | a stack deploys the stage whose file configured it, unless a file says otherwise; a location that only the environment names finds a stage-region file and no region file; `getEnvironmentProperty` reads another file than the stacks if the environment names the stage |
| `TagsAreOfTheFirstStack` | `pulumi_contexts` | a resource has its own tags, then those of the first stack of the program, and leaves to others what any stack before it left to others |
| `EventsTakeOneRoute` | `event_handler` | the rule has the target lists it should, a function one pipe, and the workflow is reached by the rule or by the pipe; a pipe has a source unless `createSQSEventSource` replaced it |
| `RetriedAsAsked` | `step_functions` | a task is given up after the retries that were asked for, six if none were, an empty list included; with the default ones an express execution is over before the error shows |
| `ChildStartedOnce` | `step_functions` | an execution of a standard machine is started once for each input of its parents if its name is a path, and once for ever if it is not |
| `EveryEventHasOneFate` | `piped_event_handler` | an event that is deleted from the queue is with one execution, completed, abandoned or filtered out, and with nothing else; a filter loses what another pipe wants only if the filters differ |
| `ReachesWhatItUses` | both construct runs | whoever acts may, on what it acts on: an imported bus is the one created, a role's holder may do its work, a function is in its cache's group, an identity has roles on what its environment names, a queue is in its namespace's group |
| `BuiltUnlessItsPropsForbid` | both construct runs | a construct throws if and only if `Forbidden`, which lists the reasons class by class |
| `VersionStartsWithinItsRange` | `aws_constructs` | a version has a capacity within the range of the last alias that scales it, which need not be in that of the others |
| `ServedAsItsOwn` | `aws_constructs` | policies, record and certificate of a distribution are those of the site; exactly when they are not, and whose policies a static site gets (`SiteIsServedAsItsOwn`); the APIs with SNS of one props object all log the successes of one of them, or what the caller wanted (`SuccessesAreLoggedForOne`) |
| `TwinsAreAlike` | both construct runs | two constructs of one class from one props object come out alike, but for what is named for them and the pattern of a rule for successes |

### Bounds

* `StackContexts`: two stacks (the hazard is one stack seeing another's
  writes; a third is in the same position as the second, which the proofs
  confirm), one object key with two leaf paths (a layer may give one and not the
  other), the five keys that steer the layering and `extraContexts`, which a layer
  may overwrite while the loop over it runs. Six `cdk.json`s and 864 sets of
  files: each layer may be missing, may be `null` in parts, and may redirect
  every layer above it, or make an object of the stage, region or directory that the
  layer above it is found by.
* `PulumiContexts`: one to three stacks of both clouds in orders that matter;
  all files, none, or one of them missing; stage and location named by the configuration,
  by the environment, by both differently, by nobody, or as an empty string; two tag
  keys, one of which stacks may ignore, in their props or by a file; default tags that
  are left out, or an object without tags; three types, two of which are not
  taggable. `MaxResources` (2) bounds resources, which are independent.
* `LambdaDeadLetters`: three events, one of them poison. Three are needed for a batch
  that mixes poison with a healthy event while another batch runs. Receipts are at
  most `maxReceiveCount` (2, or the default 5) and attempts at most 3, so the state
  space is finite without a constraint. Properties cover defaults, `0` where `||`
  and `??` differ, batch sizes 0 and 11 that throw, and timeouts either side of
  the queue's visibility.
* `EventHandler`: the full product of what the methods branch on; no bus, the default
  bus by its name and a bus of the program; two functions, because one pipe name shared by two is what
  can fail.
* `PipedEventHandler`: three events, one of them poison; a workflow pipe, a function's pipe
  or both; waiting or not; no, equal and different filters; batches of 1, 2 and 10.
* `StepFunctions`: machines of one to four steps; each kind of task with six lists of
  retries (none, empty, one, two in either order, an interval of zero and one
  given as `interval`); executions started with each kind of name, associated or
  not, waited for or not, by two executions with two inputs; two such steps in a
  row. Retries are bounded by what the retriers say.
* `SiteDeployments`: the full product of backend, alias, provisioned concurrency,
  buckets and invalidation (an ECS backend with invalidation has the run
  `ecs_cache`). Three releases, two that start and one that does not: a failed
  deployment between two good ones, in every order. Deployments, faults and visits are not
  bounded; a resource is only at the target or at the release before, so the
  state space is finite.
* `AwsConstructs`: two constructs, because a third finds the props as the second
  does. For each class the product of the properties its methods branch on, grouped
  where they are independent (certificate and API, bus and names, aliases and
  layers), over `Base`, with which everything can be built. Lists of aliases have
  up to two members with two ranges; regions are `us-east-1` and another. A static
  site comes before a site with a backend, after one, and after two, of whose policies it
  gets the later one's.
* `PulumiConstructs`: the same; one construct where it is deployed again, two
  where they share what they change. `MaxDeployments` is 2: `host.json` of the
  second run is what the first left. `MaxRetries` is 3 where the code has 10; only whether
  it is reached makes a difference.

Deadlock checking is on in `stack_contexts`, where `Ended` is the only way to stop,
and in `site_deployments`, where there is always something to deploy.
The other systems stop: a construct is built once, events and executions are finite.

### Fairness

`LambdaDeadLetters` and `PipedEventHandler` assume weak fairness of `Service`,
the services' own steps: Lambda retries, event sources and pipes poll, and SQS
redrives without being asked, which the code relies on by declaring an event
source or a pipe and doing nothing more. Nothing obliges anybody to deploy,
invoke or publish. Weak fairness of the disjunction suffices because every
service step makes progress (attempts and receipts only grow and are bounded), so
no fairness between events is assumed. `SiteDeployments` assumes weak fairness of `Provider`: CloudFormation goes on with a deployment
until it has ended. Nobody has to deploy, visit or build, and nothing has to fail.
`PulumiConstructs` assumes weak fairness of `AskHostForItsKey`, the loop that
the promise in `rest-api-function` runs by itself; the host need not ever start.
The other modules are checked for safety only.

## 4. What is proved

| Theorem | Module | Statement |
|---|---|---|
| `TypeCorrect` | `StackContexts_proofs` | `Spec => []TypeOK` |
| `Accumulation` | `StackContexts_proofs` | `Spec => []LayersAccumulate` |
| `AloneInTheApp` | `StackContexts_proofs` | `Spec => []ResolvedAsIfAlone` |
| `BuiltAsRead` | `StackContexts_proofs` | `Spec => []BuiltWithWhatItReads` |
| `FinalSay` | `StackContexts_proofs` | `Spec => []StageRegionHasFinalSay` |
| `Refinement` | `StackContexts_proofs` | `Spec => ImplementsLayeredConfig` |
| `TypeCorrect` | `LambdaDeadLetters_proofs` | `Spec => []TypeOK` |
| `NothingLost` | `LambdaDeadLetters_proofs` | `Spec => []DeletedOnlyIfHandled` |
| `ParkedLast` | `LambdaDeadLetters_proofs` | `Spec => []ParkedAfterEveryRetry` |
| `HealthyHandled` | `LambdaDeadLetters_proofs` | `Spec => []HealthyNeverParked` |
| `OneRoute` | `EventHandler_proofs` | `SynthSpec => []EventsTakeOneRoute` |
| `ArchivedAsMatched` | `EventHandler_proofs` | `SynthSpec => []ArchiveRecordsTheRule` |
| `DeployedByItsProps` | `EventHandler_proofs` | `SynthSpec => []DeployedUnlessItsPropsForbid` |
| `TypeCorrect` | `EventHandler_proofs` | `Spec => []TypeOK` |
| `ParkedUntaken` | `EventHandler_proofs` | `Spec => []ParkedWasNeverTaken` |
| `AbandonedByForgetting` | `EventHandler_proofs` | `Spec => []OnlyFireAndForgetAbandons` |
| `OneFateEach` | `EventHandler_proofs` | `Spec => []EveryEventHasOneFate` |
| `LayersAreInOrder` | `PulumiContexts_proofs` | `Spec => []HighestLayerWins` |
| `FilesAgree` | `PulumiContexts_proofs` | `Spec => []FilesAreOfItsStage` |
| `FirstStackDecidesTags` | `PulumiContexts_proofs` | `Spec => []TagsAreOfTheFirstStack` |
| `SpecWellBuilt` | `AwsConstructs_proofs` | `Spec => []WellBuilt` |
| `SpecReachesWhatItUses` | `AwsConstructs_proofs` | `Spec => []ReachesWhatItUses` |
| `SpecVersionStartsWithinItsRange` | `AwsConstructs_proofs` | `Spec => []VersionStartsWithinItsRange` |
| `SpecSuccessesAreLoggedForOne` | `AwsConstructs_proofs` | `Spec => []SuccessesAreLoggedForOne` |
| `SpecServedAsItsOwn` | `AwsConstructs_proofs` | `Spec => []ServedAsItsOwn` |
| `SpecWellBuilt` | `PulumiConstructs_proofs` | `Spec => []WellBuilt` |
| `SpecHostJsonIsAsConfigured` | `PulumiConstructs_proofs` | `Spec => []HostJsonIsAsConfigured` |
| `SpecReachesWhatItUses` | `PulumiConstructs_proofs` | `Spec => []ReachesWhatItUses` |
| `SpecChildStartedOnce` | `StepFunctions_proofs` | `Spec => []ChildStartedOnce` |
| `SpecNobodyJoinsAnothers` | `StepFunctions_proofs` | `Spec => []NobodyJoinsAnothers` |
| `SpecFailedChildIsFinal` | `StepFunctions_proofs` | `Spec => []FailedChildIsFinal` |
| `SpecRetriedAsAsked` | `StepFunctions_proofs` | `Spec => []RetriedAsAsked` |
| `TypeCorrect` | `SiteDeployments_proofs` | `Spec => []TypeOK` |
| `Reachable` | `SiteDeployments_proofs` | `Spec => []ReachableWhenRecorded` |
| `AliasAlwaysPublished` | `SiteDeployments_proofs` | `Spec => []AliasIsPublished` |
| `HealthyAlwaysDeployed` | `SiteDeployments_proofs` | `Spec => []HealthyIsDeployed` |
| `InvalidatedAlways` | `SiteDeployments_proofs` | `EcsDoesNotInvalidate => (Spec => []InvalidatedAfterDeployment)` |
| `Refinement` | `SiteDeployments_proofs` | `Spec => ImplementsAtomicRelease` |

### Layered configuration

For every set of stacks, keys, fields, values, `cdk.json`s and files that satisfies
`KeysAssumption` (the keys the code reads by name exist, with
the kinds it expects, and a key has one kind), `ValuesAssumption` (`undefined`,
`null` and `{}` are told apart from values), `BoxedAssumption` (so are the objects made of
strings, of different strings different ones) and `ContextsAssumption` (files and
`cdk.json` are JSON of these kinds). Nothing is assumed of the number of stacks,
layers or files.

`ResolvedAsIfAlone` is not inductive: it says nothing while a constructor runs,
when the App's objects are half merged. `LayersAccumulate` is the strengthening.
It splits keys into *shared* ones, which `cdk.json` has an object for and
which no stack ever gets an entry of its own for, and the others, which the App
never changes. For a stack's own keys the constructor has `Resolved(cdkJson,
Loaded)`. For shared keys the object already holds the layers of the stacks
before, so it has `Resolved(Base, Loaded)` with `Base` being the fully resolved
configuration from the second stack on. The argument then needs three facts about
`Resolved`, all lemmas:

* `ResolvedStep`: one more layer on top is one more `AfterSet`, key by key;
* `ResolvedTwice`: layers applied to what they resolve to change nothing, so
  the second stack ends where the first did;
* `SamePaths`/`ChainTops`: while layers are re-applied, the values that choose
  the next file are scalars and so never shared, and both runs find the same
  files.

That the last two hold is what makes the in-place `merge` harmless as long as
all stacks of an App load the same files. The rest follows: `SeenResolved` (what a
stack was built with is what its layers resolve to) and `PathsSoFar` (the extra
contexts a constructor went past exist, and the directories it went past are strings) are inductive given `LayersAccumulate`, and
with them every step of a constructor is a `Configure`, an `Abort` or a stutter of
`LayeredConfig`; one in which it throws is an `Abort` because what it reads is then what
its layers resolve to on their own, so the stack is not `Configurable`.

### Dead letters

For any finite set of events, any subset of poisonous ones, and any properties
whose `maxReceiveCount` is left out or positive (`EventsAssumption`,
`PropsAssumption`). The strengthenings are `AttemptsLeft` (what is pending was
attempted less than three times) and `InFlight` for `TypeOK`; `RetriesUsedUp`, which
bounds receipts and relates the place of an event to the state of its invocation,
for `ParkedAfterEveryRetry`; and `AloneInItsBatch` for `HealthyNeverParked`: in batches of one a
healthy event that is visible was never received, so it is not spent.

### Sites

For any releases, any of them broken, and any set of sites with the properties
`SitesAssumption` types. The proof has two halves. Five lemmas say which edges the
template has (`AliasNeedsVersion`, `LambdaSiteEdges`, `InvalidationNeedsDistribution`,
…); they are all that is ever used of `SiteResources`, and each is what one mutant breaks. The
invariants then follow from what a deployment does along any edges at all:

* `Underway` makes `TypeOK` inductive: while a deployment runs it has a target;
* `Closed`: what is there has what it depends on, while a stack is deployed or
  created. It is what makes the record imply the URL, the URL the alias, the alias the version.
  It does not hold while an update is rolled back, because CloudFormation then goes
  through the resources in the order in which it brought them forward;
* `Published` covers that gap for the alias: its version is there, and starts if
  it has provisioned concurrency, from before the alias is moved to it until after it
  has been moved away;
* `Reasons` remembers why a deployment is rolled back;
* `Fresh` says that from the moment the invalidation is applied, the cache holds
  nothing but the target or a build is on its way. It needs the origin to be among
  what the invalidation depends on; hence the assumption on ECS backends,
  and the run `ecs_cache` shows that without it the theorem is false.

With `Closed` and `Published` each step maps to `Propose`, `Switch`, `Withdraw`,
`Settle`, `Abandon` of `AtomicRelease`, or is not noticed by visitors.

### Event handlers

For any properties, any number of functions and either class (`PropsAssumption`: a
bus is left out or called one of two names, and no function is called like the workflow;
`NotSetAssumption`). What the three properties say of a finished handler is not
inductive: before the last methods it says nothing, or nothing yet of the rule, whose
targets were collected three methods earlier. The strengthening `SynthInv`
says what handler and template are after *each* method: `TodoIsSound` has the
methods left as a suffix of `InitResources(props)`, and `HandlerSoFar`,
`TemplateSoFar` (`ArchivesSoFar`, `RulesSoFar`, `SfnPipesSoFar`,
`LambdaPipesSoFar`) and `StatusSoFar` give every field and every set of resources as a
function of the properties and the number of methods left. The proof has a case for
each method of each class. At the end the properties are read off; that is also
where the order of the methods comes in, because in another order the suffix
says something else.

What is proved of piped events takes from the synthesis only that pipes have a
queue and that those which do not wait are workflow pipes of such a type
(`TemplateIsSound`), and adds what happens to events: the batches of the pipes are what
the queue has in flight, each event in one (`InFlight`); what was taken is deleted
(`OneFate`), so what is parked, having used up its receipts
(`ReceiptsUsedUp`), was not taken; and somebody who forgets is there if anything was
abandoned (`SomebodyForgets`). `EveryEventHasOneFate` adds which pipes may have taken and which
filtered an event (`SiftedByPipes`), and needs the rest: an event gets a second fate only
if it is polled again after the first, or by two pipes together. Each batch is in flight and apart from the others, and what was
taken or filtered is deleted, so what a batch finishes is new to every set it may be added to
(`FatesGrow`).
Any number of events, any properties of queue and pipes (`PoisonAssumption`,
`PipedQueueAssumption`).

### Pulumi stacks

For any program of any number of stacks, and any files (`WorldsAssumption`: the
extra contexts are a list if they are there; `KeysAssumption`: a tag is none of the
settings that choose files).

* `LayersInv`: `Progress` says which layers a constructor has merged, from where it is
  (`LayersRead`) and the extra contexts it has left; `MergedSoFar`, that for each path
  the props have what the last of those layers gives. `LayersAre` counts the layers
  in `LayersOf`, so that after the last merge this is `HighestLayerWins`.
* `FilesInv`: what was found so far is a function of the world and of how far
  the constructor is (`ConsultedSoFar`), because nothing that chooses a file is
  changed by merging one. It holds for the AWS stacks only with the argument
  about `SamePaths` above, and here by construction of the code.
* `TagsInv`: the transformations are those of the stacks that have default tags, be it
  none of them in an object that is there (`HasDefaultTags`), in the
  order of the program (`RegisteredInOrder`), so the resources of a stack go through
  those of the stacks before it. `Transformed` folds over that list; what it leaves
  in a key after `n` of them is what the first one with that key has (`FirstOf`),
  shown by descent to the least `n` for which it is not (`NoFirst`), as induction with
  an operator is not available.

### Pulumi constructs

For any stacks of any number of constructs, any props and any host settings.
`ChoicesAssumption` says that the constructs of a stack have different ids, as
Pulumi demands, and one of a class that there is; that at most one of them
polls for a host's key, since `hostKey` follows one request; that each prop that
decides anything has a value (`NamedProps`), if only the undefined one; and that the
configuration speaks about the keys there are in `host.json`. `NotSetAssumption`: the
undefined value is no name. `WellBuilt` says
nothing before a deployment is done, and is not inductive. The strengthening
`BuiltInv` looks at the methods that are left instead. Each method of a class has a
*rank* (`RankOf`), which grows along each `InitResources`, and each field the rank
of the method that sets it last (`LastSetOf`). A field is `Settled` when all
methods left have greater ranks, and `TemplateInv` says that resources read settled
fields only. Two things do not fit this simple picture, and they are what the invariant is
really about:

* an event handler resolves its resource group, its workspace and its insights
  twice, the second time after resources were built from them. `FieldsInv` says why
  that is harmless: the values found the second time are the same;
* `dataStorageAccount` is set for some props only, and what reads it asks whether it is
  there, not whether its method has run. `FieldsInv` has that one implies the other.

A lemma per family of classes (`FunctionAppMethod`, `EventHandlerMethod`,
`RestApiMethod`, …) shows that each of its methods is a `Method(m, reads, sets)`: it
is called in its place, changes only what it sets, and what it reads is settled
then. `MethodKeeps` and `ResolverKeeps` conclude for all of them at once, and
`Begun` covers the initial states and a program that is started again. `HostsInv`
adds that `host.json` is as configured once the method that writes it has run,
for an app that is built or being built; a second app of the stack writes the same.

`ReachInv` is the invariant for `ReachesWhatItUses`, which relates what methods far
apart make:

* `Granted`: what the environment of an app may name is in its props, and once
  `createRoleAssignments` has run for it (`Ran`) the roles are those the props call for;
* `Connected`: the groups of namespace, queue and key are functions of the props
  (`GroupOfNamespace`, `GroupOfQueue`, `GroupOfKey`) once the methods that resolve them
  have run, and the connection uses the queue's own key if there is one (`OwnKey`). This
  needs that the key's rule is made before the site's configuration reads it, which
  the ranks give. That the three groups are one group is then a fact about the props
  alone, given that `createServiceBusNamespace` did not throw.

It says nothing once a method threw, which leaves a construct half way. Most methods touch
nothing of this; those that do have a lemma each, and all others share one.

### AWS constructs

For any stacks of any number of constructs, any props, and any constructs in any
order. `ChoicesAssumption` says what CDK demands, that the constructs of a
stack have different ids; that each prop a construct may *change* has a value to begin with,
if only the undefined one (`ChangedProps`), and so has each that decides who
finds what and what it gets (`NamedProps`); that a caller's certificates, rule patterns and
site policies are told apart from those that a construct leaves in the props
(`TellsCallersApart`); that a target which scales has a range that is not empty, as CDK
demands (`ScalesWithinRanges`); that a site has a name; and that prefix, suffix and the
name of a bus are sequences. `NotSetAssumption`: the undefined value is none of the
groups, networks and certificates there are. The argument for `WellBuilt` is that of
the Pulumi constructs, by `Rank`, with two differences:

* a field may be set by more than one method: the certificate of a site by
  `resolveGlobalCertificate` where a static site has `resolveCertificate`, the role of
  a topic by the method before it and again by the topic's. `SetAt` has the *set* of ranks at
  which a class sets a field; a field that is set was set by one of them that
  has run (`FieldsInv`), and one that is read is `Settled`, no method left sets it;
* an API with events takes its default method responses *before* the methods that
  set them. `TemplateInv` says that these are read as undefined (`TakesDefaults`), which is
  because a field is not set before the first of its ranks.

A family of lemmas (`EventBridgeTargetMethod`, `WithSnsMethod`, `EcsBackendMethod`, …), one
per module of the model, shows for every action that it is a `Method(m, reads, sets)`. From
there on, the classes are not told apart: `MethodKeeps` is the one lemma about what
preserves the invariant.

`ReachInv`, for `ReachesWhatItUses`, adds what a construct has found so far. `Found`
has for each class the fields that must fit, once the methods that set them have run
(`Ran`): the statement names the bus that is there, the role has that
statement, and the request goes to that bus (`EventsFound`, `TopicFound`, `TargetFound`);
the role of a function is one for a VPC exactly if the function is in one, and its
cache is in its group, which lets it in (`FunctionFound`); a service, and the task of
a site, have work that their role allows (`ServiceFound`, `TaskFound`). Three facts
carry it through the methods in between:

* a method leaves alone what is `SetBy` another one that has run, for good
  (`OthersKeep`), so only the methods that set a field need a look;
* a method that reads a field runs after the one that sets it, since it would throw
  otherwise or since its rank is greater (`EarlierRan`);
* no method changes a prop of `NamedProps` (`KeepsNamed`), so what was looked for in the
  props by an earlier method is what a later one looks for.

That a trail may write its streams in `eu-west-1` *only* (`TrailMayWork`), and that an
imported bus is the created one *only* without affixes (`AffixesTell`), are facts about
statements and sequences. A construct that is through `Reaches` what it uses
(`FoundReaches`), and those that come after it leave it as it is (`ReachesStays`).

`ServedInv`, for `VersionStartsWithinItsRange` and `ServedAsItsOwn`, is about props that the constructs of a stack *share and
change*, so a field cannot be compared with what the props were when it was set. It
has four parts:

* `GivenInv`, what the shared props may have become: the pattern of the rule for
  successes is undefined, the caller's or the id of *some* API with SNS of the stack, the
  ARN of a load balancer's certificate is undefined, the caller's or read. Who changes
  one of these props is `ChangedBy`, and everybody else leaves it (`SharedAreKept`, from
  a lemma per module on what its methods leave). Once there is a pattern it stays
  (`PatternsChange`), which is why all APIs log the same successes;
* `VersionFound`, `LogsFound`, `BackendFound`, `StaticFound`: of the construct that is
  being built, what has been found by the methods that have run, as above;
* `PoliciesFound`, what there is of whose policies in the behaviour that all sites share.
  While a site with a backend is built, those are its own whose method has
  run; in between and in a static site they are all of *one* site with a backend
  (`LeftBy`), or nobody's if none was built. That a construct of another class between
  two sites leaves them is `BehaviorChanges`;
* `Served`: a construct that is finished `IsServed`, and stays so although others come
  and change the props (`ServedStays`). A policy that the props do not describe is the
  caller's and never assigned, which is what keeps it the same for all sites.

That the certificate of a distribution is in us-east-1 if it was found by its id, and is
none that the caller gives from elsewhere, comes from CDK's refusal
(`RefusesCertificate`), which `BackendFound` and `StaticFound` keep as `IsAtTheEdge`. `VersionCapacity` is the capacity of the greatest index among the
aliases on the version; that there is a greatest one is `LastOfSome`, by the
well-foundedness of `<` on the naturals.

### Step functions

For any plans, executions and inputs. The invariant of the first three theorems, which
assumes nothing, is about the executions that executions start:

* `DeployedIsAcceptable`: only steps the service accepts are executed, so a step that
  waits does so for a standard machine;
* `RunIsSound`, `ChildIsSound`: what a run waits for is a child with the name its step
  gives it, and a child has the name and the input that its parent's step gives;
* `NamesAreTaken`: among standard machines no two children have one name, which gives
  `ChildStartedOnce`, because a name that is no path is the same in all executions, and
  one that is, in all those with one input, which no run changes after it began;
* `NobodyRunsAhead`: a parent is not past a step it waits at before its child has
  succeeded; `FailedChildIsFinal` is this for one that failed;
* `NobodyJoinsAnothers` itself is inductive with these: a start of a name
  that is taken is answered only if the input is the same, and an associated input
  names its parent.

`RetriedAsAsked` takes another invariant, `RetryInv`, and assumes of the callers what
CDK enforces: delays and attempts are not negative, and `undefined` is no number
(`PlansAssumption`, `NotSetAssumption`). `BuiltAsAsked` has the retriers of each step
as a function of what was asked for it. Of a running execution it says that it has
called as often as any of its retriers was used (`Counts`), which with `BuiltAsAsked`
gives the number of calls before it gives up; and in an express machine, that what it
has waited is at least what the default retrier's delays add up to (`TimeOf`: 30, 90,
210 seconds), which does not fit a fourth time into `ExpressLimit`. That delays double is
`DelayDoubles`.

### Not proved

Only model-checked: liveness (`EveryEventSettles`, `EveryEventLeavesTheQueue`,
`DeploymentsEnd`, `EveryKeyRequestEnds`), which the proof system does not do under
fairness; of the Pulumi constructs `BuiltUnlessItsPropsForbid` and
`TwinsAreAlike` (which is false of stacks that mix a REST API with and one without a
cache, as these have the same fields; no run has such a stack); and of the AWS constructs
the same two. `BuiltUnlessItsPropsForbid` takes for each method of each class the
condition under which it throws, about the props at that moment; `TwinsAreAlike` takes
each field of each class as a function of the props.

## 5. Not modelled, and why

* Message retention, and a visibility timeout that ends while a function still
  works on the message: Lambda refuses event sources whose queue hides messages
  for less than the function's timeout, so it does not happen to a function that is
  deployed, and retention is days against minutes of retries.
* A URN that a Pulumi program uses twice is reported when the second resource is registered, after the
  constructor went on. `Clashes` has the method throw there: either way the program fails,
  and what it would still have declared is not looked at.
* Where a `certificateArn` in the props is of: `callers` stands for one of `us-east-1`, or one that is
  not known before the deployment, `callersAbroad` for one that CDK can see is elsewhere, and refuses for
  a distribution. For the certificate of a load balancer there is no such check, so one value.
* A key that is an object in one layer and a list in another.
* CloudWatch alarms, dashboards and widgets, formatting of names beyond the cases where
  two places must agree on one, and the plain attributes of resources. What a
  request template or a policy document says is one value, except for the
  statements of roles.
* What a rollback does when it fails itself, stacks that are deleted, several
  aliases of one function through deployments, scaling at run time, and the tasks of a
  service one by one: a service is at its new release when it has replaced them all. A page that was fetched before an
  invalidation and is stored after it is CloudFront's to avoid.
* Methods of service managers, and IAM statements and roles, that no construct
  uses. They check a property, declare one resource and keep nothing.
* Health checks, listeners and file systems of an ECS site, and buckets of a site with props
  of their own: `siteBuckets` stands for all.
* Branches of a choice, a parallel step or a map: they are one step. Express
  executions are not told apart, since the service does not either.
* Pulumi's previews beyond the host key's, and a root of the program other than its
  working directory.

Components with status `partly` in `PROJECT.json` say in their note which of
this concerns them.

## 6. Where code and documentation differ

Runs that expect a violation:

* **Arrays** (`arrays_deep_merged`). `src/docs/Configuration.md:96` has arrays
  deep-merged. A top level array is set as it is, so a shorter
  `extraContexts` of a layer drops elements of the one below.
* **Retries that cannot be deployed** (`retries_are_deployed`). With
  `dlq.retriesEnabled` and nothing else, the queue's visibility is 30 s and the
  function's timeout 15 min (1 min for images), which Lambda refuses.
* **The cache of an ECS backend** (`ecs_cache`). Its origin is a host name, so the
  invalidation waits for the distribution and not for the service. It may run
  while the old release still answers, which is then cached again
  (`site-with-ecs-backend/main.ts:645` has it "after a deployment").

Met while modelling, and part of what a property of a passing run says:

* *Event handlers.* `createEventRule` spreads `eventRule` and then sets `schedule` to
  `eventRuleSchedule` (`event-handler/main.ts:191`), so a schedule given in `eventRule` is lost;
  without a bus name `format(undefined)` is still a string, so `?? 'default'`
  (line 143) is not reached and an archive is of a bus there is not, and `default`
given as the name is formatted as well; two functions
  of a piped handler share one pipe name (all `NeverDeployed`). `createSQSEventSource`
  assigns `sqsTargets` (line 112) and drops the piped queue its subclass put
  there (`PipesAreFedUnlessReplaced`). With the default `FIRE_AND_FORGET` a failed
  execution takes its events with it and `pipedDlq` never sees them
  (`OnlyFireAndForgetAbandons`).
* *Layers.* A `null` never overrides at the top level, though "primitives
  are overwritten": `merge("dev", null)` is a `String` object, `merge(undefined, null)`
  is `{}` (`AfterSet`). In a template string the first reads like the string. A directory of
  layers becomes one that `path.join` refuses, so the constructor throws
  (`DirectoryRefused`); the guards of the next layer let it pass, as an object is truthy. For Azure and Cloudflare `stageContextPath` defaults to `env`
  (`azure/src/common/stack.ts:158`, `cloudflare/src/common/stack.ts:118`), where
  `src/docs/Configuration.md:21` has `pulumi-env`; the stage file of a development stage
  is read although the message in front of it says that defaults are used; a
  Cloudflare stack without props reads `pulumi.json` and then merges its undefined
  `props`. Stage and location are taken from environment and configuration in
  different ways by different layers (`FilesAreOfItsStage`).
* *Sites.* The comment at `site-with-lambda-backend/main.ts:431` speaks of a "'current' alias" and
  `LAMBDA_ALIAS_NAME_CURRENT` is `'latest'`, so an alias named `current` has no URL
  (`UrlIsOnAlias`); a retained bucket of a first deployment that failed, and routing
  weights on an alias, are the two things after which a site cannot be deployed
  until somebody removes them (`HealthyIsDeployed`). The record is named by
  `siteRecordName`, the distribution answers to `siteSubDomain`, and a record
  without a name is called `undefined`; a certificate that is created is of the
  stack's region also when it is for the distribution; policies of a site are
  assigned into the distribution props it shares (`SiteIsServedAsItsOwn`). Scaling
  thresholds of 0 are skipped, so their `?? 50` never applies.
* *APIs.* The default methods of an API with events take method responses that are
  set four methods later, so always none (`TakesDefaults`). The variant with SNS looks for an existing
  bus without the affixes it was created with (`ImportedBusIsTheOneCreated`), and
  leaves the pattern of its success rule to the next construct
  (`SuccessesAreLoggedForOne`). Its topic's name is formatted twice, by
  the construct and by the manager.
* *Aliases.* The last alias with `onVersion` decides the version's capacity
  (`VersionStartsWithinItsRange`); a second alias of a `LambdaWithIamAccess` throws
  (`FunctionForbidden`).
* *Roles.* That of a trail names streams of `eu-west-1` (`HoldersMayDoTheirWork`).
* *Step functions.* An empty list of retries and an interval of 0 are read as left out;
  the `retries` of a parallel step (`types.ts:107`) are not read at all
  (`RetriedAsAsked`); the name of an execution is made up when the machine is
  synthesised, so a standard machine is started once for ever unless the name is a
  path, and then once for each value there (`ChildStartedOnce`).
* *Azure.* An event handler with `defender` throws, because the data account is read before it
  is created; an existing queue is sought in another group than its namespace
  (`QueueLivesInItsNamespace`). Settings of a web app are merged by position, which
  overwrites the caller's, but a second site gets what the first got
  (`TwinsAreAlike`).

And without a property, because no step depends on it: the policy of an event
handler's queue is built from `handler.rule` (`event-handler/main.ts:106`) six methods
before it is set; a method added to an imported API is not deployed by its
owner's stage; `host.json` keeps keys that were removed from the configuration, in the
model as in the code (`HostJsonIsAsConfigured` is about those that are configured, which no
value of an earlier run or of the common settings may win over);
`resolveEnvironmentVariables` of a Cloudflare pages site
(`pages-static-site/main.ts:112`) replaces the `deploymentConfigs` that `resolveSecrets` has set.

## 7. Plan

Done: layered configuration of all three clouds, dead letters, event handlers
and pipes, step functions, site deployments, and every construct of the AWS, Azure
and Cloudflare packages, with proofs for all of these. What is left, in this order:

1. When the constructs of both families throw (`BuiltUnlessItsPropsForbid`), method by
   method, and that twins are alike, field by field.
2. `HighestLayerWins` as a refinement: `PulumiContexts` implementing `LayeredConfig`
   where the configuration alone names stage and location.
3. Several aliases of one function through deployments, and the REST API's
   deployment and cache, in the manner of `SiteDeployments`.
4. Resources a retried Pulumi deployment finds half made.

## 8. Running it

```
tlc -workers 2 -config StackContexts.cfg MCStackContexts
tlc -workers 2 -config PulumiContexts.cfg MCPulumiContexts
tlc -workers 2 -config LambdaDeadLetters.cfg MCLambdaDeadLetters
tlc -workers 2 -config EventHandler.cfg MCEventHandler
tlc -workers 2 -config PipedEventHandler.cfg MCPipedEventHandler
tlc -workers 2 -config StepFunctions.cfg MCStepFunctions
tlc -workers 2 -config SiteDeployments.cfg MCSiteDeployments
tlc -workers 2 -config AwsConstructs.cfg MCAwsConstructs
tlc -workers 2 -config PulumiConstructs.cfg MCPulumiConstructs
tlc -workers 2 -config ArraysAreDeepMerged.cfg MCStackContexts
tlc -workers 2 -config RetriesAreDeployed.cfg MCLambdaDeadLetters
tlc -workers 2 -config EcsCacheIsInvalidated.cfg MCSiteDeployments
for m in StackContexts LambdaDeadLetters EventHandler StepFunctions \
         SiteDeployments PulumiContexts PulumiConstructs AwsConstructs; do
  tlapm ${m}_proofs.tla
done
```
