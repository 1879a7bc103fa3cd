--------------------------- MODULE MCEventHandler ---------------------------
(***************************************************************************)
(* Both classes, with every combination of the properties their methods    *)
(* branch on and up to two functions.                                      *)
(***************************************************************************)
EXTENDS EventHandler

SfnPipeProps == [pipeFilterPattern |-> NotSet, sqsBatchSize |-> NotSet,
                 sfnInvocationType |-> NotSet]

LambdaPipeProps == [pipeFilterPattern |-> NotSet, sqsBatchSize |-> NotSet]

MCPropsChoices ==
    [piped : BOOLEAN, eventSqs : BOOLEAN, workflow : BOOLEAN,
     eventRule : {NotSet} \union [pattern : {NotSet, "pattern"},
                                  schedule : {NotSet, "hourly"}],
     eventRuleSchedule : {NotSet, "daily"},
     eventRuleArchiveEnabled : BOOLEAN,
     eventBusName : {NotSet, "default", "custom"},
     functions : {{}, {"f"}, {"f", "g"}},
     sqsToSfnPipe : {NotSet, SfnPipeProps},
     sqsToLambdaPipe : {NotSet, LambdaPipeProps}]
=============================================================================
