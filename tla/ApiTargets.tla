------------------------------ MODULE ApiTargets -----------------------------
(***************************************************************************)
(* What the constructs with a REST API share: ApiToEventBridgeTarget, its  *)
(* variant with SNS, ApiToLambdaTarget, ApiToAnyTarget, RestApiLambda and  *)
(* RestApiLambdaWithCache each have these methods, word for word or nearly *)
(* so.  An API is owned by one construct; others, usually of other stacks, *)
(* import it (api.useExisting) and add a resource (api.withResource).      *)
(***************************************************************************)
EXTENDS AwsManagers

(* Functions and sites have what is theirs alone and import nothing.       *)
AlwaysOwned == {"RestApiLambda", "RestApiLambdaWithCache", "StaticSite"}
IfOwned(method) ==
    IF props.useExisting /\ this.class \notin AlwaysOwned THEN Returns ELSE method
IfWithResource(method) == IF props.withResource THEN method ELSE Returns

ApiFields ==
    {"applicationSecrets", "hostedZone", "certificate", "api", "resource",
     "methodResponse", "methodErrorResponse", "integration", "method",
     "policy", "role", "domain"}

(* A hook: the class itself reads no secrets.                              *)
ResolveSecrets ==
    /\ Calls("resolveSecrets")
    /\ Sets([applicationSecrets |-> "none"])

(* A hosted zone is resolved even where nothing will use it.               *)
ResolveHostedZone ==
    /\ Calls("resolveHostedZone")
    /\ Creates({}, HostedZone(<<"hosted-zone">>), [hostedZone |-> "resolved"])

ReadsParameterOnce ==           \* a mutant: not if the ARN is known
    /\ props.useExistingCertificate /\ props.certificateInParameter
    /\ props.certificateArn = NotSet

(* The ARN of a certificate may be in a parameter of another region.  The  *)
(* construct stores it in the props it shares.                             *)
ReadsCertificateParameter ==
    props.useExistingCertificate /\ props.certificateInParameter

ResolveCertificate ==
    /\ Calls("resolveCertificate")
    /\ IfOwned(
         LET arn == IF ReadsCertificateParameter THEN "parameter"
                    ELSE props.certificateArn
         IN /\ props' = [props EXCEPT !.certificateArn = arn]
            /\ Builds({}, Child(<<"certificate">>, {})
                            \union When(ReadsCertificateParameter,
                                        ParameterReader(<<"certificate-param">>)),
                      [certificate |-> ResolvedCertificate(arn)]))

(* Only useExisting together with a reference imports an API.              *)
ImportsApi == props.useExisting /\ props.importedRestApiRef

ImportApi(id) == Creates({}, Child(id, {}), [api |-> "imported"])

AccessLog == LogGroup(<<"rest-api-access-log">>, {})

(* The root of an API is known of one's own, or of a reference to it.      *)
RootUnknown == ~props.importedRestApiRootRef /\ Field("api") = "imported"

RootResource(reads) ==
    When(props.importedRestApiRootRef, Child(<<"root-resource">>, reads))

(* A proxying API takes all paths itself.                                  *)
ProxyRefuses ==
    Field("api") = "proxy" /\ ~props.importedRestApiRootRef

AddResource(path) ==
    IfWithResource(
      IF path = NotSet \/ RootUnknown \/ ProxyRefuses THEN Throws
      ELSE Creates({"api"},
                   RootResource({"api"}) \union ApiResource(<<path>>, {"api"}),
                   [resource |-> path]))

ResourceOr(apiResource) ==
    IF props.resource = NotSet THEN apiResource ELSE props.resource

MethodReads ==
    {"resource", "integration", "methodResponse", "methodErrorResponse"}

AddMethod ==
    IfWithResource(Creates({"resource", "integration"},
                           Child(<<"POST">>, MethodReads),
                           [method |-> "created"]))

CreateApiDomain ==
    /\ Calls("createApiDomain")
    /\ IfOwned(Creates({"certificate"},
                       ApiDomain(<<"api-domain">>, {"certificate"}),
                       [domain |-> "created"]))

CreateApiBasePathMapping ==
    /\ Calls("createApiBasePathMapping")
    /\ IfOwned(Creates({"domain", "api"},
                       Child(<<"base-bath-mapping">>, {"domain", "api"}), None))

CreateApiRouteAssets ==
    /\ Calls("createApiRouteAssets")
    /\ IfOwned(Creates({"domain", "hostedZone"},
                       ApiGatewayARecord(<<"custom-domain-a-record">>,
                                         {"domain", "hostedZone"}), None))

SharedApiStep ==
    \/ ResolveSecrets \/ ResolveHostedZone \/ ResolveCertificate
    \/ CreateApiDomain \/ CreateApiBasePathMapping \/ CreateApiRouteAssets
-----------------------------------------------------------------------------
(* What both constructs with an event bus do.  The caller's values go      *)
(* before the defaults; a method response refers to its model.             *)
EventApiFields ==
    ApiFields \union
    {"eventBus", "integrationRequestParameters", "integrationRequestTemplates",
     "integrationResponse", "integrationErrorResponse", "responseModel",
     "errorResponseModel"}

RequestParameters ==
    IfWithResource(Sets([integrationRequestParameters |-> "content type"]))

OrDefault(value) == IF value = NotSet THEN "default" ELSE value

IntegrationResponse ==
    IfWithResource(
        Sets([integrationResponse |-> OrDefault(props.integrationResponse)]))
IntegrationErrorResponse ==
    IfWithResource(Sets([integrationErrorResponse |-> "error response"]))

(* Who API Gateway acts as, and where it sends what it gets.               *)
Integrates ==
    IfWithResource(
      Sets([integration |-> [uses |-> Field("role"),
                             sends |-> Field("integrationRequestTemplates")]]))

(* The defaults for methods are taken before they are set.                 *)
DefaultResponses == {"methodResponse", "methodErrorResponse"}

NewApi(id) ==
    IF ~props.restApiName THEN Throws
    ELSE Creates({}, AccessLog
                       \union Child(id, {"integration"} \union DefaultResponses),
                 [api |-> "own"])

Model(field, id) ==
    IfWithResource(Creates({"api"}, Child(id, {"api"}), field))

MethodResponseOf(field) == IfWithResource(Sets(field))
=============================================================================
