---------------------------- MODULE ScriptSandbox ----------------------------
(***************************************************************************)
(* One execution of a script (internal/scripts: runtime_bootstrap_v2.js    *)
(* and Execute of runtime.go).  The script is arbitrary code; what is      *)
(* modelled is what its calls do to the objects it is given, how its tests   *)
(* are recorded, and what is left of it when it has ended.                 *)
(*                                                                         *)
(* One variable, one header name and one key of the persistent state are   *)
(* followed, in all the stores and lists they may be in.                   *)
(***************************************************************************)
EXTENDS Naturals, Sequences, SequencesExt

CONSTANTS MaxTests,     \* tests a script starts
          MaxScriptCalls   \* other calls it makes

VARIABLES event,      \* "prerequest" or "test"
          code,       \* the body of the script: "running", "returned"; then how it ended
          exit,       \* how the body was left: "none", at its "end", by a "return" of its own
          started,      \* the tests it started, in order
          awaited,    \* those the end of the body waits for
          stores,     \* the value of the variable in each store
          request,    \* the request that will be sent, in its template form
          kept,       \* the key of the persistent state: "none", "value", "list"
          execution,  \* what the run is asked to do next
          auxiliary,  \* requests sent with sendRequest
          made       \* calls made, an artificial bound

sandboxVars == <<event, code, exit, started, awaited, stores, request, kept, execution, auxiliary, made>>

MaxAuxRequests == 5
\* The stores, in the order in which a name is looked up.
LookupOrder ==
    <<"variables", "iterationData", "service", "application", "environment", "collection", "globals">>
StoreNames == ToSet(LookupOrder)
Endings == {"SUCCESS", "SCRIPT_ASSERTION_FAILURE", "SCRIPT_RUNTIME_ERROR", "SCRIPT_TIMEOUT"}

\* A test whose callback takes done, or returns a promise, is recorded later; early tests
\* were started by the body itself.
Tests == [done : BOOLEAN, promise : BOOLEAN, early : BOOLEAN, records : 0..2,
          outcome : {"none", "well", "bare", "error"}, skipped : BOOLEAN]
\* A callback ends well, throws or rejects with a reason, or throws or rejects without one.
Outcomes == {"well", "bare", "error"}
\* A URL with a variable in it cannot be parsed.
Requests ==
    [url : {"template", "absolute"}, body : {"none", "raw", "text", "object"}, type : {"none", "json", "form"}]
SandboxTypeOK ==
    /\ event \in {"prerequest", "test"}
    /\ code \in {"running", "returned"} \cup Endings
    /\ exit \in {"none", "end", "return"}
    /\ started \in Seq(Tests) /\ awaited \subseteq DOMAIN started
    /\ stores \in [StoreNames -> {"none", "given", "set"}]
    /\ request \in Requests
    /\ kept \in {"none", "value", "list"}
    /\ execution \in [skipped : BOOLEAN, next : BOOLEAN, visual : BOOLEAN]
    /\ auxiliary \in 0..MaxAuxRequests + 1
SandboxInit ==
    /\ event \in {"prerequest", "test"}
    /\ code = "running" /\ exit = "none" /\ started = <<>> /\ awaited = {}
    /\ \E given \in SUBSET {"variables", "iterationData"} :
          stores = [s \in StoreNames |-> IF s \in given THEN "given" ELSE "none"]
    /\ request \in {r \in Requests : r.body # "raw" /\ (r.body = "none" <=> r.type = "none")}
    /\ kept = "none"
    /\ execution = [skipped |-> FALSE, next |-> FALSE, visual |-> FALSE]
    /\ auxiliary = 0 /\ made = 0

\* Code runs until the body has returned, and in the continuations of its promises.
Runs == code \in {"running", "returned"}
-----------------------------------------------------------------------------
(* Tests.                                                                  *)

\* Mutant: a second call of done is recorded like the first.
RecordedAgain(test, outcome) == [test EXCEPT !.records = @ + 1, !.outcome = outcome]
\* done: recorded once, whatever comes after.
Recorded(test, outcome) == IF test.records > 0 THEN test ELSE [test EXCEPT !.records = 1, !.outcome = outcome]
\* What is recorded as failed: an error that is a value, so that a test without a reason passed.
Failed(test) == test.records > 0 /\ test.outcome = "error"
NewTest(done, promise) ==
    [done |-> done, promise |-> promise, early |-> code = "running",
     records |-> 0, outcome |-> "none", skipped |-> FALSE]
StartTest(test) ==
    /\ Runs /\ Len(started) < MaxTests
    /\ started' = Append(started, test)
    /\ UNCHANGED <<event, code, exit, awaited, stores, request, kept, execution, auxiliary, made>>
\* The callback returns or throws, or calls done before it returns or throws.
TestNow == \E done \in BOOLEAN, outcome \in Outcomes : StartTest(Recorded(NewTest(done, FALSE), outcome))
\* The callback returns a promise, whether it takes done or not.
TestPromised == \E done \in BOOLEAN : StartTest(NewTest(done, TRUE))
\* The callback took done and has not called it yet: nothing waits for it.
TestDetached == StartTest(NewTest(TRUE, FALSE))
TestSkipped == StartTest([NewTest(FALSE, FALSE) EXCEPT !.records = 1, !.skipped = TRUE])
\* A promise is settled, or done is called, now or once more.
TestSettles ==
    \E i \in DOMAIN started, outcome \in Outcomes :
        /\ Runs /\ (started[i].promise \/ started[i].done)
        /\ started[i].records = 0 \/ made < MaxScriptCalls
        /\ started' = [started EXCEPT ![i] = Recorded(@, outcome)]
        /\ made' = IF started[i].records = 0 THEN made ELSE made + 1
        /\ UNCHANGED <<event, code, exit, awaited, stores, request, kept, execution, auxiliary>>
-----------------------------------------------------------------------------
(* The objects the script is given.                                        *)

\* A name is looked up in the stores in order.
Found(held) == LET in == SelectSeq(LookupOrder, LAMBDA s : held[s] # "none")
               IN IF in = <<>> THEN "none" ELSE held[Head(in)]
Called == Runs /\ made < MaxScriptCalls /\ made' = made + 1
\* variables, the scopes and cookies: set, unset and clear of one store; the rows of the
\* iteration are read-only, and writing them throws.
WriteVariable ==
    \E s \in StoreNames \ {"iterationData"}, value \in {"none", "set"} :
        /\ Called /\ stores[s] # value
        /\ stores' = [stores EXCEPT ![s] = value]
        /\ UNCHANGED <<event, code, exit, started, awaited, request, kept, execution, auxiliary>>
\* The request: a body that is set has a type, one that is written raw has the type there was.
\* Mutant: the type of a body that is set is left to whoever sends it.
WithBodyUntyped(body) == [request EXCEPT !.body = body]
WithBody(body) == [request EXCEPT !.body = body, !.type = IF @ = "none" THEN "json" ELSE @]
WriteRequest ==
    /\ Called
    /\ request' \in {[request EXCEPT !.url = "template"], [request EXCEPT !.url = "absolute"],
                     [request EXCEPT !.body = "raw"], WithBody("text"), WithBody("object")}
    /\ UNCHANGED <<event, code, exit, started, awaited, stores, kept, execution, auxiliary>>
\* addQueryParams and removeQueryParams parse the URL, and throw when it has a variable.
QueryEditable == request.url = "absolute"
\* sendRequest, cookies.jar and getData: with a callback, it was called when the call
\* returns; otherwise the answer is a promise that is settled, and may be forgotten.
Answer(callback, ok) ==
    IF callback THEN [calledBack |-> TRUE, returns |-> "nothing"]
    ELSE [calledBack |-> FALSE, returns |-> IF ok THEN "fulfilled" ELSE "rejected"]
\* pm.datasets: the one dataset is the current iteration, and its queries are of one form.
DatasetAnswer(call, current, wellFormed) ==
    IF current /\ (wellFormed \/ call \in {"getOne", "getData"}) THEN "fulfilled"
    ELSE IF call \in {"getDataByRowIdentifier", "getDataByColumnIdentifier"} THEN "fulfilled with nothing"
    ELSE IF call \in {"executeView", "executeQuery"} /\ ~current THEN "thrown"
    ELSE IF call = "executeQuery" THEN "SCRIPT_POLICY_VIOLATION" ELSE "SCRIPT_CONTEXT_UNAVAILABLE"
\* pm.state: a list only grows out of nothing or a list; the promise of a refused call is
\* rejected, which nobody may be waiting for.
WriteState ==
    /\ Called
    /\ kept' \in {"none", "value"} \cup (IF kept = "value" THEN {} ELSE {"list"})
    /\ UNCHANGED <<event, code, exit, started, awaited, stores, request, execution, auxiliary>>
\* Mutant: the sixth request is sent and then refused.
AuxiliaryAllowedLate == auxiliary <= MaxAuxRequests
AuxiliaryAllowed == auxiliary < MaxAuxRequests
\* sendRequest is done when it returns, and calls back before it does.
SendRequest ==
    /\ Runs /\ AuxiliaryAllowed
    /\ auxiliary' = auxiliary + 1
    /\ UNCHANGED <<event, code, exit, started, awaited, stores, request, kept, execution, made>>
\* execution and visualizer: a request is skipped before it is sent, and a response is
\* shown after it came.
AskRun ==
    /\ Runs
    /\ \/ event = "prerequest" /\ execution' = [execution EXCEPT !.skipped = TRUE]
       \/ event = "test" /\ execution' = [execution EXCEPT !.visual = TRUE]
       \/ execution' = [execution EXCEPT !.next = TRUE]
    /\ execution' # execution
    /\ UNCHANGED <<event, code, exit, started, awaited, stores, request, kept, auxiliary, made>>
\* The globals of a browser: what using one comes to.
Global(name) ==
    CASE name \in {"fetch", "XMLHttpRequest", "process", "WebAssembly"} -> "undefined"
      [] name \in {"setInterval", "CompressionStream", "DecompressionStream"} -> "SCRIPT_POLICY_VIOLATION"
      [] name \in {"clearTimeout", "clearInterval", "WritableStream", "TransformStream", "CryptoKey"} -> "nothing"
      [] name = "setTimeout" -> "sleeps, then made back, then returns"
      [] name \in {"atob", "btoa", "crypto", "URL"} -> "asks the host"
      [] OTHER -> "computed in the script"
-----------------------------------------------------------------------------
(* The end.                                                                *)

Promised == {i \in DOMAIN started : started[i].promise}
\* Mutant: the end of the body does not wait for the tests.
AwaitedNone == {}
\* The body ends in a wait for the tests that returned a promise until then.
Awaited == Promised
BodyEnds ==
    /\ code = "running" /\ code' = "returned" /\ exit' = "end" /\ awaited' = Awaited
    /\ UNCHANGED <<event, started, stores, request, kept, execution, auxiliary, made>>
\* The wait stands after the text of the script: a return of its own passes it by.
BodyReturns ==
    /\ code = "running" /\ code' = "returned" /\ exit' = "return"
    /\ UNCHANGED <<event, started, awaited, stores, request, kept, execution, auxiliary, made>>
\* The body throws: what was recorded of its tests is not looked at.
BodyThrows ==
    /\ code = "running" /\ code' = "SCRIPT_RUNTIME_ERROR"
    /\ UNCHANGED <<event, exit, started, awaited, stores, request, kept, execution, auxiliary, made>>
Interrupted ==
    /\ Runs /\ code' = "SCRIPT_TIMEOUT"
    /\ UNCHANGED <<event, exit, started, awaited, stores, request, kept, execution, auxiliary, made>>
\* Nothing is left to run, though promises may be pending.
Verdict ==
    IF \E i \in awaited : started[i].records = 0 THEN "SCRIPT_TIMEOUT"
    ELSE IF \E i \in DOMAIN started : Failed(started[i]) THEN "SCRIPT_ASSERTION_FAILURE" ELSE "SUCCESS"
QueueDrained ==
    /\ code = "returned" /\ code' = Verdict
    /\ UNCHANGED <<event, exit, started, awaited, stores, request, kept, execution, auxiliary, made>>

\* Tests and the other objects share nothing: a script is one that tests, or one that
\* writes.
TestingNext ==
    \/ TestNow \/ TestPromised \/ TestDetached \/ TestSkipped \/ TestSettles
    \/ BodyEnds \/ BodyReturns \/ BodyThrows \/ Interrupted \/ QueueDrained
WritingNext ==
    \/ WriteVariable \/ WriteRequest \/ WriteState \/ SendRequest \/ AskRun
    \/ BodyEnds \/ BodyReturns \/ BodyThrows \/ Interrupted \/ QueueDrained
\* A script, whichever of the two it does.
SandboxSpec == SandboxInit /\ [][TestingNext \/ WritingNext]_sandboxVars
-----------------------------------------------------------------------------
(* A script succeeds only when no test was recorded as failed, whatever settled when,    *)
(* twice or never; and, unless it left its body by a return of its own, only when every  *)
(* test that the body started and that returned a promise is recorded.  No test is       *)
(* recorded twice: __test and done against Execute.  A test that throws, or rejects,     *)
(* without a reason counts as passed.  And a body that setBody wrote is sent with a type. *)
TestsCounted ==
    /\ request.body \in {"text", "object"} => request.type # "none"
    /\ \A i \in DOMAIN started : started[i].records <= 1
    /\ code = "SUCCESS" =>
        \A i \in DOMAIN started :
            /\ started[i].outcome # "error"
            /\ started[i].promise /\ started[i].early /\ exit = "end" => started[i].records = 1
=============================================================================
