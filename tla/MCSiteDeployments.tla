-------------------------- MODULE MCSiteDeployments --------------------------
(* Sites of all three kinds, with every combination of the properties that     *)
(* matter.  An ECS backend that invalidates its cache is a configuration of    *)
(* its own: see EcsSites.                                                      *)
EXTENDS SiteDeployments

SitesWith(backend, alias, pc, invalidates) ==
    [backend : {backend}, alias : {alias}, pc : {pc},
     buckets : {"existing", "retain", "destroy"}, invalidates : invalidates]

(* "current" stands for an alias of any name but the one that gets the URL.    *)
LambdaSites ==
    SitesWith("lambda", NoAlias, "none", BOOLEAN)
      \cup UNION {SitesWith("lambda", alias, pc, BOOLEAN) :
                    alias \in {AliasNameCurrent, "current"},
                    pc \in {"none", "alias", "version"}}

MCSites ==
    LambdaSites \cup SitesWith("ecs", NoAlias, "none", {FALSE})
      \cup SitesWith("static", NoAlias, "none", BOOLEAN)

EcsSites == SitesWith("ecs", NoAlias, "none", {TRUE})
==============================================================================
