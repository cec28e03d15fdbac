--------------------------- MODULE MCBrowserRuns ---------------------------
(* Instances of BrowserRuns for TLC.                                       *)
EXTENDS BrowserRuns, TLC

Target(protocol, inOrigins, resolves, network) ==
    [protocol |-> protocol, inOrigins |-> inOrigins, resolves |-> resolves, network |-> network]
Good1 == Target("https", TRUE, TRUE, "public")
Private == Target("http", TRUE, TRUE, "private")
GoodAndPrivate == {Good1, Private}

NoGraph == [source |-> "none", gate |-> "BLOCKING", threshold |-> 0, operator |-> "EQUALS"]
NoShot == [taken |-> FALSE, baseline |-> FALSE]
BlockingText == [kind |-> "TEXT", gate |-> "BLOCKING", enabled |-> TRUE, located |-> TRUE, threshold |-> 0, operator |-> "EQUALS"]
AdvisoryCount == [kind |-> "COUNT", gate |-> "ADVISORY", enabled |-> TRUE, located |-> FALSE, threshold |-> 1, operator |-> "GREATER_THAN"]
Step(type, enabled, checks, graph, shot) ==
    [type |-> type, enabled |-> enabled, located |-> TRUE, checks |-> checks, graph |-> graph, shot |-> shot,
     target |-> Private]

\* A checkpoint with an advisory and a blocking check and a baseline, then a
\* step that is switched off.
Checkout ==
    <<Step("SCREENSHOT", TRUE, <<AdvisoryCount, BlockingText>>, NoGraph, [taken |-> TRUE, baseline |-> TRUE]),
      Step("RELOAD", FALSE, <<>>, NoGraph, NoShot)>>
\* A navigation to a private target, and a click with a graph read from the
\* page.
Report ==
    <<Step("CLICK", TRUE, <<>>, [NoGraph EXCEPT !.source = "TEXT", !.gate = "ADVISORY"], NoShot),
      Step("NAVIGATE", TRUE, <<>>, NoGraph, NoShot)>>
\* One check, no screenshot: failures and successes of the monitor.
Ping == <<Step("ASSERT", TRUE, <<BlockingText>>, NoGraph, NoShot)>>

CONSTANTS r1, r2
CheckoutAndPing == [r \in {r1, r2} |-> IF r = r1 THEN Checkout ELSE Ping]
ReportAndPing == [r \in {r1, r2} |-> IF r = r1 THEN Report ELSE Ping]
=============================================================================
