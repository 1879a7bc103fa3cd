---------------------------- MODULE LayeredConfig ---------------------------
(***************************************************************************)
(* What layered configuration promises to the author of an application:    *)
(* each stack gets, in one step and whatever the other stacks of the       *)
(* application did before, what the layers resolve to over the             *)
(* configuration of cdk.json.  An extra context that is named but missing, *)
(* or a directory of layers that a null has made an object of, aborts the  *)
(* application, so no stack of it is synthesised.                          *)
(***************************************************************************)
EXTENDS ConfigLayers

CONSTANTS
    Stacks,         \* the stacks the application constructs
    AppContexts,    \* the configurations cdk.json may hold
    FileSystems     \* the sets of layer files there may be: path -> content

VARIABLES
    cdkJson,        \* the context of cdk.json
    files,          \* the layer files, never written
    configured,     \* the stacks that got their configuration
    config,         \* the configuration each of them got
    aborted         \* TRUE once the constructor of a stack threw

vars == <<cdkJson, files, configured, config, aborted>>

TypeOK ==
    /\ IsContent(cdkJson)
    /\ \A path \in DOMAIN files : IsContent(files[path])
    /\ DOMAIN config = Stacks
    /\ configured \subseteq Stacks
    /\ \A s \in Stacks : IsConfig(config[s])
    /\ aborted \in BOOLEAN

Init ==
    /\ cdkJson \in AppContexts
    /\ files \in FileSystems
    /\ configured = {}
    /\ config = [s \in Stacks |-> NoLayer]
    /\ aborted = FALSE

Configure(s) ==
    /\ ~aborted
    /\ s \notin configured
    /\ Configurable(cdkJson, files)
    /\ configured' = configured \cup {s}
    /\ config' = [config EXCEPT ![s] =
                    Resolved(cdkJson, AllLayers(cdkJson, files))]
    /\ UNCHANGED <<cdkJson, files, aborted>>

Abort ==
    /\ ~Configurable(cdkJson, files)
    /\ configured # Stacks
    /\ aborted' = TRUE
    /\ UNCHANGED <<cdkJson, files, configured, config>>

Next == Abort \/ \E s \in Stacks : Configure(s)

Spec == Init /\ [][Next]_vars
=============================================================================
