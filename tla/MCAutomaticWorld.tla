--------------------------- MODULE MCAutomaticWorld ---------------------------
(***************************************************************************)
(* Small values for AutomaticWorld: three of the seven classes, one        *)
(* adapter for each, four exchanges of which one is malformed, a receipt   *)
(* whose mechanism the policy does not allow and one of a boundary it does *)
(* not name.                                                               *)
(***************************************************************************)
EXTENDS AutomaticWorld

MCALL == <<"clock", "environment", "outbound-http">>

MCRules ==
    [i \in 1..3 |-> [boundary |-> i, class |-> closure_class(MCALL[i]),
                     allowed |-> <<closure_mechanism(MCALL[i])>>]]

Receipt(i, mechanism) ==
    [boundary |-> i, class |-> closure_class(MCALL[i]), mechanism |-> mechanism,
     version |-> 1]

MCReceipts ==
    {Receipt(i, closure_mechanism(MCALL[i])) : i \in 1..3} \cup
    {Receipt(1, "blocked"), [Receipt(1, closure_mechanism(MCALL[1])) EXCEPT !.boundary = 4]}

MCOwnership ==
    [i \in 1..3 |-> [adapter |-> "adapter", identity |-> 1, boundary |-> i,
                     class |-> MCALL[i]]]

Read == [operation |-> "environment-read", class |-> "environment",
         parameters |-> {"target"}, length |-> 0, bytes |-> 1]

Call == [operation |-> "outbound-http-request", class |-> "outbound-http",
         parameters |-> {"target", "method"}, length |-> 0, bytes |-> 1]

Answer(request, bytes, status) ==
    [class |-> request.class, request |-> request,
     response |-> [operation |-> request.operation, class |-> request.class,
                   outcome |-> "response", error |-> FALSE, bytes |-> bytes,
                   status |-> status, answers |-> request]]

MCExchanges ==
    {Answer(Read, 1, "none"), Answer(Read, NoBytes, "none"),
     Answer(Call, 1, "code"), Answer(Call, 1, "none")}

MCDeployment == [mode |-> "managed", project |-> 1, subject |-> 1]

MCFailure ==
    LET identity == [category |-> "panic", code |-> NoCode, causes |-> 0, frames |-> 1,
                     relative |-> TRUE, kind |-> "stream", operation |-> 1, type |-> 1]
    IN [category |-> "panic", identity |-> identity, matcher |-> "exception-exact-v1",
        object |-> 1]

================================================================================
