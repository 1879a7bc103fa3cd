----------------------------- MODULE PulumiSites ----------------------------
(***************************************************************************)
(* AzureSiteWithWebApp and AzureLoadTesting (packages/azure/src/construct/ *)
(* site-with-webapp and load-testing), and CloudflarePagesStaticSite and   *)
(* CloudflareWorkerSite (packages/cloudflare/src/construct).  The          *)
(* constructors of the Cloudflare sites' subclasses leave variables and    *)
(* secrets in the construct, which two methods write into the props object *)
(* before a third reads it from there.                                     *)
(***************************************************************************)
EXTENDS AzureManagers

CONSTANT SiteSettings   \* the settings the construct gives its web app

SiteMethods ==
    <<"createResourceGroup", "resolveCommonLogAnalyticsWorkspace",
      "resolveApplicationInsights", "createSiteAppServicePlan",
      "createSiteStorageAccount", "createSiteStorageContainer",
      "createCodePackage", "createWebAppSiteConfig", "createWebApp",
      "createDiagnosticLog">>

LoadTestingMethods ==
    <<"createResourceGroup", "createVirtualNetwork", "createPublicIp",
      "createNatGateway", "createSubnet", "createLoadTest",
      "deployLoadTests">>

SiteFields ==
    {"resourceGroup", "commonLogAnalyticsWorkspace", "applicationInsights",
     "appServicePlan", "storageAccount", "storageContainer", "codeArchive",
     "environmentVariables", "appSettings", "webApp"}

LoadTestingFields ==
    {"resourceGroup", "virtualNetwork", "publicIp", "natGateway", "subnet",
     "loadTest"}

IsSite == this.class = "AzureSiteWithWebApp"
-----------------------------------------------------------------------------
CreateSiteAppServicePlan ==
    /\ Calls("createSiteAppServicePlan")
    /\ Creates({"resourceGroup"},
               AppServicePlan(<<"app-service-plan">>, {"resourceGroup"}),
               [appServicePlan |-> "created"])

CreateSiteStorageAccount ==
    /\ Calls("createSiteStorageAccount")
    /\ Creates({"resourceGroup"},
               StorageAccount(<<"storage-account">>, {"resourceGroup"}),
               [storageAccount |-> "created"])

CreateSiteStorageContainer ==
    /\ Calls("createSiteStorageContainer")
    /\ Creates({"storageAccount", "resourceGroup"},
               StorageContainer(<<"storage-deployment-container">>,
                                {"storageAccount", "resourceGroup"}),
               [storageContainer |-> "created"])

CreateSiteCodePackage ==
    /\ IsSite /\ Calls("createCodePackage")
    /\ Sets([codeArchive |-> "created"])

CreateWebAppSiteConfig ==
    /\ Calls("createWebAppSiteConfig")
    /\ IF ~IsSet("applicationInsights") THEN Throws
       ELSE Sets([environmentVariables |-> SiteSettings])

Appended(given, added) == given \o added    \* a mutant

(* _.merge puts the settings into the array of the props itself, position  *)
(* by position: they take the place of as many of the caller's.            *)
MergedByPosition(given, added) ==
    [i \in 1..(IF Len(given) > Len(added) THEN Len(given) ELSE Len(added)) |->
        IF i <= Len(added) THEN added[i] ELSE given[i]]

MergedSettings ==
    MergedByPosition(Coalesce(props.appSettings, <<>>),
                     Field("environmentVariables"))

(* Without a siteConfig there is no array to change, _.merge returns a new *)
(* one.                                                                    *)
CreateWebApp ==
    /\ Calls("createWebApp")
    /\ Builds({"appServicePlan", "resourceGroup"},
              LinuxWebApp(<<"web-app">>,
                  {"appServicePlan", "environmentVariables"}),
              [webApp |-> "created", appSettings |-> MergedSettings])
    /\ props' = IF props.appSettings = NotSet THEN props
                ELSE [props EXCEPT !.appSettings = MergedSettings]

CreateSiteDiagnosticLog ==
    /\ IsSite /\ Calls("createDiagnosticLog")
    /\ Creates({"webApp", "commonLogAnalyticsWorkspace"},
               DiagnosticSettings(<<>>,
                   {"webApp", "commonLogAnalyticsWorkspace"}),
               None)
-----------------------------------------------------------------------------
CreateVirtualNetwork ==
    /\ Calls("createVirtualNetwork")
    /\ Creates({"resourceGroup"}, VirtualNetwork(<<>>, {"resourceGroup"}),
               [virtualNetwork |-> "created"])

CreatePublicIp ==
    /\ Calls("createPublicIp")
    /\ Creates({"resourceGroup"}, PublicIPAddress(<<>>, {"resourceGroup"}),
               [publicIp |-> "created"])

CreateNatGateway ==
    /\ Calls("createNatGateway")
    /\ Creates({"publicIp", "resourceGroup"}, NatGateway(<<>>, {"publicIp"}),
               [natGateway |-> "created"])

CreateSubnet ==
    /\ Calls("createSubnet")
    /\ Creates({"virtualNetwork", "natGateway", "resourceGroup"},
               Subnet(<<>>, {"virtualNetwork", "natGateway"}),
               [subnet |-> "created"])

CreateLoadTest ==
    /\ Calls("createLoadTest")
    /\ Creates({"resourceGroup"}, LoadTest(<<>>, {"resourceGroup"}),
               [loadTest |-> "created"])

(* One command for each configuration file, which creates the test or      *)
(* updates the one there is.                                               *)
DeployLoadTests ==
    /\ Calls("deployLoadTests")
    /\ Creates(IF props.loadTests = {} THEN {}
                 ELSE {"loadTest", "resourceGroup", "subnet"},
               UNION {Suffixed(<<"deploy", test>>, "command",
                               {"loadTest", "subnet"}) :
                        test \in props.loadTests},
               None)
-----------------------------------------------------------------------------
SitesStep ==
    \/ CreateSiteAppServicePlan \/ CreateSiteStorageAccount
    \/ CreateSiteStorageContainer \/ CreateSiteCodePackage
    \/ CreateWebAppSiteConfig \/ CreateWebApp \/ CreateSiteDiagnosticLog
    \/ CreateVirtualNetwork \/ CreatePublicIp \/ CreateNatGateway
    \/ CreateSubnet \/ CreateLoadTest \/ DeployLoadTests
-----------------------------------------------------------------------------
PagesMethods ==
    <<"resolveZone", "resolveSecrets", "resolveEnvironmentVariables",
      "createProject", "createDomain", "createRecord", "deploySite">>

WorkerMethods ==
    <<"resolveZone", "resolveWorkerEnvironmentVariables", "createWorker",
      "createWorkerDomain", "createRuleset", "createZoneSetting">>

PagesFields ==
    {"siteZone", "deploymentConfigs", "sitePagesProject", "sitePagesDomain",
     "sitePagesCnameRecord"}

WorkerFields ==
    {"siteZone", "bindings", "siteWorkerScript", "siteWorkerDomain",
     "siteRuleSet", "siteZoneSetting"}

(* What the managers declare, each under the id it is given.               *)
Child(id, reads) == {Resource(<<id>>, reads)}

Zone == Child("zone", {})
ZoneSetting == Child("zone-setting", {})
PagesProject(reads) == Child("site-project", reads)
PagesDomain(reads) == Child("site-domain", reads)
PagesDeployment(reads) == Child("deploy", reads)
Record(reads) == Child("site-record", reads)
RuleSet == Child("rule", {})
WorkerDomain(reads) == Child("worker-domain", reads)
WorkerRoute(route) == {Resource(<<"worker-script", "route", route>>, {})}

(* A script comes with its routes.                                         *)
WorkerScript(reads) ==
    Child("worker-script", reads)
      \union UNION {WorkerRoute(r) : r \in props.routes}

-----------------------------------------------------------------------------
(* The manager throws for a zone it is given no props of.                  *)
ResolveZone ==
    /\ Calls("resolveZone")
    /\ IF props.useExistingZone THEN Sets([siteZone |-> "existing"])
       ELSE IF ~props.siteZone THEN Throws
         ELSE Creates({}, Zone, [siteZone |-> "created"])

(* deploymentConfigs is set anew, and set anew by the next method.         *)
DeploymentConfigs(source) ==
    /\ props' = [props EXCEPT !.deploymentConfigs = source]
    /\ Builds({}, {}, [deploymentConfigs |-> source])

ResolveSecrets ==
    /\ Calls("resolveSecrets")
    /\ DeploymentConfigs("secrets")

ResolveEnvironmentVariables ==
    /\ Calls("resolveEnvironmentVariables")
    /\ DeploymentConfigs("variables")

CreateProject ==
    /\ Calls("createProject")
    /\ Creates({}, PagesProject({"deploymentConfigs"}),
               [sitePagesProject |-> "created"])

CreateDomain ==
    /\ Calls("createDomain")
    /\ Creates({"sitePagesProject"},
               PagesDomain({"sitePagesProject"}),
               [sitePagesDomain |-> "created"])

(* The zone of a record is looked up by the domain, created or not.        *)
CreateRecord ==
    /\ Calls("createRecord")
    /\ IF ~props.siteCnameRecord THEN Returns
       ELSE Creates({"sitePagesProject"},
                    Record({"sitePagesProject"}),
                    [sitePagesCnameRecord |-> "created"])

DeploySite ==
    /\ Calls("deploySite")
    /\ Creates({"sitePagesProject"}, PagesDeployment({"sitePagesProject"}),
               None)
-----------------------------------------------------------------------------
(* The plain and the secret bindings, together.                            *)
Bindings == {"plain", "secret"}

ResolveWorkerEnvironmentVariables ==
    /\ Calls("resolveWorkerEnvironmentVariables")
    /\ props' = [props EXCEPT !.bindings = Bindings]
    /\ Builds({}, {}, [bindings |-> Bindings])

CreateWorker ==
    /\ Calls("createWorker")
    /\ Creates({}, WorkerScript({"bindings"}),
               [siteWorkerScript |-> "created"])

CreateWorkerDomain ==
    /\ Calls("createWorkerDomain")
    /\ Creates({"siteWorkerScript"},
               WorkerDomain({"siteWorkerScript"}),
               [siteWorkerDomain |-> "created"])

CreateRuleset ==
    /\ Calls("createRuleset")
    /\ IF ~props.siteRuleSet THEN Returns
       ELSE Creates({}, RuleSet, [siteRuleSet |-> "created"])

CreateZoneSetting ==
    /\ Calls("createZoneSetting")
    /\ IF ~props.siteZoneSetting THEN Returns
       ELSE Creates({}, ZoneSetting,
                    [siteZoneSetting |-> "created"])
-----------------------------------------------------------------------------
CloudflareStep ==
    \/ ResolveZone \/ ResolveSecrets \/ ResolveEnvironmentVariables
    \/ CreateProject \/ CreateDomain \/ CreateRecord \/ DeploySite
    \/ ResolveWorkerEnvironmentVariables \/ CreateWorker
    \/ CreateWorkerDomain \/ CreateRuleset \/ CreateZoneSetting
=============================================================================
