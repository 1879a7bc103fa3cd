------------------------------ MODULE Synthesis ------------------------------
(***************************************************************************)
(* What every construct of the library has in common.  A stack creates     *)
(* constructs one after the other and hands them one props object; each    *)
(* runs the fixed sequence of methods its initResources lists, and a       *)
(* method reads props and what earlier methods left in the construct,      *)
(* declares resources, and leaves something for later methods.             *)
(*                                                                         *)
(* A method of a construct is an action of the form                        *)
(*      Calls("method") /\ IF <early return> THEN Returns                  *)
(*                         ELSE Creates(needs, resources, values)          *)
(* where `needs` are the fields it dereferences (a field that was never    *)
(* set makes it throw), `resources` what the managers declare for it, and  *)
(* `values` the fields it sets.  A resource records the fields it was      *)
(* built from as they were then.                                           *)
(***************************************************************************)
EXTENDS Defaults, Sequences, FiniteSets

VARIABLES
    props,      \* the props object shared by the constructs of the stack
    plan,       \* the constructs to create, the first one is under way
    todo,       \* the methods its initResources has left to call
    fields,     \* what the methods have left in each construct
    template,   \* the resources declared so far
    status      \* "synth", "done" or "thrown"

synthVars == <<props, plan, todo, fields, template, status>>

this == Head(plan)
Field(f) == fields[this.id][f]
IsSet(f) == Field(f) # NotSet

(* A resource of this construct.  Its id is the construct's with what the  *)
(* construct and the manager append to it, the last one says its kind.     *)
Resource(id, reads) ==
    [of |-> this.id, id |-> id, reads |-> [f \in reads |-> Field(f)]]

Has(construct, id) ==
    \E r \in template : r.of = construct /\ r.id = id

(* Ids are unique among the children of a construct.                       *)
Clashes(resources) ==
    \/ \E r \in resources : Has(r.of, r.id)
    \/ \E r, s \in resources : r # s /\ r.of = s.of /\ r.id = s.id

Calls(method) ==
    /\ status = "synth" /\ todo # <<>> /\ Head(todo) = method
    /\ todo' = Tail(todo)
    /\ UNCHANGED plan

Returns == UNCHANGED <<props, fields, template, status>>

Throws == status' = "thrown" /\ UNCHANGED <<props, fields, template>>

With(values) ==
    [fields EXCEPT ![this.id] =
        [f \in DOMAIN @ |-> IF f \in DOMAIN values THEN values[f] ELSE @[f]]]

Lacks(needs) == \E f \in needs : ~IsSet(f)

(* As Creates, by a method that also changes props.                        *)
Builds(needs, resources, values) ==
    IF Lacks(needs) \/ Clashes(resources)
      THEN status' = "thrown" /\ UNCHANGED <<fields, template>>
      ELSE /\ template' = template \union resources
           /\ fields' = With(values)
           /\ UNCHANGED status

Creates(needs, resources, values) ==
    Builds(needs, resources, values) /\ UNCHANGED props

Sets(values) == Creates({}, {}, values)

None == [f \in {} |-> NotSet]     \* no values to set

(* A stack begins with the first construct of its plan, fields unset.      *)
StartsWith(first, initResources) ==
    /\ plan = first /\ todo = initResources
    /\ template = {} /\ status = "synth"

(* The constructor of one construct returned, the stack goes on with the   *)
(* methods of the next.                                                    *)
NextConstruct(methods) ==
    /\ status = "synth" /\ todo = <<>> /\ Len(plan) > 1
    /\ plan' = Tail(plan)
    /\ todo' = methods
    /\ UNCHANGED <<props, fields, template, status>>

Finish ==
    /\ status = "synth" /\ todo = <<>> /\ Len(plan) = 1
    /\ status' = "done"
    /\ UNCHANGED <<props, plan, todo, fields, template>>
=============================================================================
