------------------------ MODULE MCPipedEventHandler -------------------------
(***************************************************************************)
(* Three events, one of them poison; a workflow, a function or both behind *)
(* the piped queue, waiting or not, with equal, different and no filters.  *)
(***************************************************************************)
EXTENDS PipedEventHandler

CONSTANTS poisoned, fine, finer

MCEvents == {poisoned, fine, finer}
MCPoison == {poisoned}

SfnPipeProps(type, filter, size) ==
    [sfnInvocationType |-> type, pipeFilterPattern |-> filter,
     sqsBatchSize |-> size]

LambdaPipeProps(filter, size) ==
    [pipeFilterPattern |-> filter, sqsBatchSize |-> size]

Piped(eventSqs, sfnPipe, lambdaPipe, functions, max) ==
    [piped |-> TRUE, eventSqs |-> eventSqs, workflow |-> TRUE,
     eventRule |-> [pattern |-> "pattern", schedule |-> NotSet],
     eventRuleSchedule |-> NotSet, eventRuleArchiveEnabled |-> FALSE,
     eventBusName |-> "custom", functions |-> functions,
     sqsToSfnPipe |-> sfnPipe, sqsToLambdaPipe |-> lambdaPipe,
     pipedQueue |-> [maxReceiveCount |-> max,
                     visibilityTimeoutInSecs |-> NotSet]]

Types == {NotSet, "REQUEST_RESPONSE"}

MCPropsChoices ==
    {Piped(FALSE, SfnPipeProps(t, f, s), NotSet, {}, 2) :
        t \in Types, f \in {NotSet, {fine, poisoned}}, s \in {NotSet, 1}}
    \union {Piped(FALSE, NotSet, LambdaPipeProps(f, NotSet), {"f"}, max) :
               f \in {NotSet, {poisoned}}, max \in {NotSet, 1}}
    \union {Piped(FALSE, SfnPipeProps(t, {fine}, 2),
                  LambdaPipeProps(f, 2), {"f"}, 2) :
               t \in Types, f \in {{fine}, {poisoned}}}
    \union {Piped(sqs, NotSet, LambdaPipeProps(NotSet, NotSet), {"f", "g"}, 2) :
               sqs \in BOOLEAN}
=============================================================================
