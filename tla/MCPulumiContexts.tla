--------------------------- MODULE MCPulumiContexts --------------------------
(* Programs of two stacks, with the configurations, environments and files *)
(* that lead them to different layers.                                     *)
EXTENDS PulumiContexts

MCSettings ==
    {"stage", "location", "setting", "defaultTags", "ignore 0", "ignore 1"}
MCTagsToIgnore == {"ignore 0", "ignore 1"}
MCTagKeys == {"team", "cost"}
MCTypes ==
    {<<"azure-native", "resources", "ResourceGroup">>,
     <<"azure-native", "appconfiguration", "KeyValue">>,
     <<"azure-native", "apimanagement", "Api">>}

Empty == [k \in Settings \cup TagKeys |-> NotSet]
Setting(value) == [Empty EXCEPT !["setting"] = value]
Team(value) == [Empty EXCEPT !["team"] = value]
Both(value) == [Empty EXCEPT !["team"] = value, !["cost"] = value]

Config ==
    [stage |-> "dev", location |-> "uk", regionContextPath |-> "reg",
     stageContextPath |-> "env", stageRegionContextPath |-> "top",
     extraContexts |-> <<"shared">>]

Configs ==
    {[Config EXCEPT !.stage = s, !.location = l] :
       s \in {NotSet, "dev"}, l \in {NotSet, "", "uk"}}
    \cup {[Config EXCEPT !.regionContextPath = NotSet],
          [Config EXCEPT !.stageContextPath = NotSet],
          [Config EXCEPT !.stageRegionContextPath = NotSet],
          [Config EXCEPT !.extraContexts = NotSet],
          [Config EXCEPT !.extraContexts = <<"shared", "more">>]}

Environments == [stage : {NotSet, "dev", "prd"}, location : {NotSet, "eu"}]

(* Each layer is there with a value of its own, and some with a stage.     *)
Files ==
    LET paths == {<<"shared">>, <<"reg", "uk">>, <<"reg", "eu">>,
                  <<"env", "dev">>, <<"env", "prd">>,
                  <<"top", "dev", "uk">>, <<"top", "dev", "eu">>}
        content(path) ==
          CASE path = <<"shared">> -> [Setting("shared") EXCEPT !["ignore 1"] = "team"]
            [] path = <<"reg", "uk">> -> [Setting("uk") EXCEPT !["location"] = "uk"]
            [] path = <<"reg", "eu">> -> [Setting("eu") EXCEPT !["location"] = "eu"]
            [] path = <<"env", "dev">> -> [Setting("dev") EXCEPT !["team"] = "dev"]
            [] path = <<"env", "prd">> -> [Empty EXCEPT !["stage"] = "dev"]
            [] OTHER -> Setting("top")
    IN {[path \in present |-> content(path)] :
          present \in {paths, {}} \cup {paths \ {path} : path \in paths}}

Stack(cloud, stackProps) == [cloud |-> cloud, props |-> stackProps]
Ignoring(tag, props) == [props EXCEPT !["ignore 0"] = tag]

Plain == Stack("azure", Setting("program"))
Staged == Stack("azure", Ignoring("team", [Both("a") EXCEPT !["stage"] = "prd"]))
Tagged == Stack("azure", Ignoring("cost", Team("b")))
Untagged == Stack("azure", Ignoring("owner", [Empty EXCEPT !["defaultTags"] = "{}"]))
OfPages == Stack("cloudflare", Both("c"))
Propless == Stack("cloudflare", NotSet)

World(configs, envs, fileSets, json, depths, programs) ==
    [config : configs, env : envs, files : fileSets, pulumiJson : json,
     depth : depths, program : programs]

NoEnvironment == {[stage |-> NotSet, location |-> NotSet]}

MCWorlds ==
    World(Configs, Environments, Files, {TRUE}, {5}, {<<Plain>>, <<OfPages>>})
    \cup World({Config}, Environments, Files, {TRUE}, {6}, {<<Staged>>})
    \cup World({Config, [Config EXCEPT !.stage = NotSet]}, Environments,
               Files, BOOLEAN, {0}, {<<Propless, Tagged>>})
    \cup World({[Config EXCEPT !.extraContexts = NotSet]}, NoEnvironment,
               {<<>>}, {TRUE}, {0},
               {<<Staged, Tagged>>, <<Tagged, Staged>>, <<Plain, Tagged>>,
                <<OfPages, Tagged>>, <<Untagged, Tagged>>, <<Tagged, OfPages, Staged>>})
=============================================================================
