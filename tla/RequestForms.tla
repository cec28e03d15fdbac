---------------------------- MODULE RequestForms ----------------------------
(***************************************************************************)
(* What the workbench shows of one step (the editors of                    *)
(* features/monitors/request-workbench.tsx), against what the executor     *)
(* reads of the step when it runs (internal/runs/executor.go).             *)
(*                                                                         *)
(* A shape is the part of a step that decides what is shown of it.         *)
(***************************************************************************)
EXTENDS Naturals, FiniteSets

RequestAuth == {"none", "basic", "bearer", "apiKey", "oauth2", "jwt", "hmac"}
BodyTypes == {"none", "json", "raw", "xml", "graphql", "form", "multipart"}
AssertionTypes ==
    {"status", "header", "body-contains", "regex", "jsonpath", "json-schema", "response-time"}
RequestShapes ==
    [form : {"request auth"}, method : RequestAuth, secrets : BOOLEAN]
    \cup [form : {"request body"}, body : BodyTypes]
    \cup [form : {"request rows"}, rows : {"params", "headers", "cookies"}, count : 0..1, sensitive : BOOLEAN]
    \cup [form : {"step list"}, list : {"actions", "extractors"}, count : 0..1]
    \cup [form : {"assertion"}, assertion : AssertionTypes]
    \cup [form : {"tls", "request proxy", "settings", "metric"}]
    \cup [form : {"step"}, type : {"HTTP_REQUEST", "ACTION", "METRIC_VALIDATION"}, summary : BOOLEAN]
-----------------------------------------------------------------------------
(* The editors.                                                            *)

\* The panels of a step by its type.
StepPanels(s) ==
    CASE s.type = "ACTION" -> {"actions"}
      [] s.type = "METRIC_VALIDATION" -> {"metric"}
      [] OTHER -> {"method", "url", "sections"} \cup (IF s.summary THEN {"summary"} ELSE {})
\* An empty list offers to add its first row; a value is typed hidden once it is marked.
RowFields(s) ==
    {"add"} \cup
    (IF s.count = 0 THEN {} ELSE {"enabled", "key", "value", "remove"}
        \cup (IF s.rows = "headers" THEN {"sensitive"} ELSE {})
        \cup (IF s.rows = "cookies" THEN {"domain", "path"} ELSE {"description"}))
    \cup (IF s.rows = "cookies" THEN {"persistCookies"} ELSE {})
HiddenRowFields(s) == IF s.count > 0 /\ s.sensitive THEN {"value"} ELSE {}
\* Mutant: the signing key is only asked for where secrets are stored.
RequestAuthFieldsWithSecrets(s) ==
    CASE s.method = "jwt" -> {"issuer", "audience", "algorithm"} \cup (IF s.secrets THEN {"keyRef"} ELSE {})
      [] s.method = "none" -> {}
      [] OTHER -> {"username", "password"}
RequestAuthFields(s) ==
    CASE s.method = "none" -> {}
      [] s.method = "basic" -> {"username", "password"}
      [] s.method = "bearer" -> {"token"}
      [] s.method = "apiKey" -> {"name", "value", "location"}
      [] s.method = "oauth2" -> {"tokenUrl", "clientId", "clientSecret", "scope"}
      [] s.method = "jwt" -> {"issuer", "audience", "keyRef", "algorithm"}
      [] s.method = "hmac" -> {"algorithm", "secretRef", "canonicalTemplate", "outputHeader"}
PickedSecrets(s) == RequestAuthFields(s) \cap {"keyRef", "secretRef"}
AuthNotes(s) == IF PickedSecrets(s) # {} /\ ~s.secrets THEN {"No reusable secrets are configured."} ELSE {}
BodyFields(s) == IF s.body = "none" THEN {"type"} ELSE {"type", "content", "variables"}
ActionFields(s) ==
    {"add"} \cup (IF s.count = 0 THEN {} ELSE {"enabled", "type", "output", "expression", "fields", "sensitive", "remove"})
ExtractorFields(s) ==
    {"add"} \cup (IF s.count = 0 THEN {} ELSE {"enabled", "source", "variable", "expression", "sensitive", "remove"})
\* A schema is written in an editor of its own below the row.
AssertionFields(s) ==
    {"enabled", "type", "operator", "expected", "remove"} \cup
    {IF s.assertion = "json-schema" THEN "schema" ELSE "expression"}
TLSFields == {"certificateProfileId", "caProfileId", "minimumVersion", "verifyHostname"}
RequestProxyFields == {"mode", "profileId", "url", "noProxy", "usernameSecretRef", "passwordSecretRef"}
SettingsFields ==
    {"followRedirects", "maxRedirects", "compression", "timeoutMs", "retries", "retryBackoff", "captureBody",
     "maxBodyBytes"}
MetricFields ==
    {"profileId", "metricSelector", "entitySelector", "aggregation", "window", "resolution", "baselineWindow",
     "operator", "threshold", "missingDataPolicy"}

\* The mark of a section in the list of sections.
SectionBadge(s) ==
    CASE s.form = "request auth" -> s.method # "none"
      [] s.form = "request body" -> s.body # "none"
      [] s.form \in {"request rows", "step list"} -> s.count > 0
\* A header in the summary of the request, and what a preview of a script is given of it.
SummaryRow(s) == IF s.count = 0 THEN "absent" ELSE IF s.sensitive THEN "masked" ELSE "value"
\* A picked variable replaces what was last selected in the field, with the braces that
\* were typed to ask for it.
InsertTemplate(field, entry, explicit) ==
    [text |-> IF explicit THEN entry.explicit ELSE entry.template,
     from |-> IF field.opened THEN field.start - 2 ELSE field.start, to |-> field.end]

IsRequestForm(s) ==
    s.form \in {"request auth", "request body", "request rows", "step list", "assertion", "tls",
                "request proxy", "settings", "metric", "step"}
RequestFields(s) ==
    CASE s.form = "request auth" -> {"type"} \cup RequestAuthFields(s)
      [] s.form = "request body" -> BodyFields(s)
      [] s.form = "request rows" -> RowFields(s)
      [] s.form = "step list" -> IF s.list = "actions" THEN ActionFields(s) ELSE ExtractorFields(s)
      [] s.form = "assertion" -> AssertionFields(s)
      [] s.form = "tls" -> TLSFields
      [] s.form = "request proxy" -> RequestProxyFields
      [] s.form = "settings" -> SettingsFields
      [] s.form = "metric" -> MetricFields
      [] s.form = "step" -> StepPanels(s)
-----------------------------------------------------------------------------
(* What the executor reads.                                                *)

ReadForAuth(method) ==
    CASE method = "none" -> {}
      [] method = "basic" -> {{"username"}, {"password"}}
      [] method = "bearer" -> {{"token"}}
      [] method = "apiKey" -> {{"name"}, {"value"}, {"location"}}
      [] method = "oauth2" -> {{"tokenUrl"}, {"clientId"}, {"clientSecret"}, {"scope"}}
      [] method = "jwt" -> {{"keyRef"}, {"algorithm"}, {"issuer"}, {"audience"}}
      [] method = "hmac" -> {{"canonicalTemplate"}, {"secretRef"}, {"algorithm"}, {"outputHeader"}}
\* A comparison reads the expression, or the schema, and what is expected.
ReadForAssertion ==
    {{"enabled"}, {"type"}, {"expression", "schema"}, {"expected"}, {"operator"}}
\* The provider is always the one of a new step; a baseline's window is not read.
ReadForMetric ==
    {{"profileId"}, {"metricSelector"}, {"entitySelector"}, {"aggregation"}, {"window"}, {"resolution"},
     {"operator"}, {"threshold"}, {"missingDataPolicy"}}
\* The content is sent whatever the type is. A body switched to "none" keeps what was
\* typed before and is still sent, although the editor says that there is no body: that
\* one shape is left out of what is demanded.
ReadForBody(type) == {{"type"}} \cup (IF type = "none" THEN {} ELSE {{"content"}})
ReadForRows(s) ==
    (IF s.rows = "cookies" THEN {{"persistCookies"}} ELSE {}) \cup
    (IF s.count = 0 THEN {} ELSE
        {{"enabled"}, {"key"}, {"value"}}
        \cup (IF s.rows = "headers" THEN {{"sensitive"}} ELSE {})
        \cup (IF s.rows = "cookies" THEN {{"domain"}, {"path"}} ELSE {}))
ReadForList(s) ==
    IF s.count = 0 THEN {}
    ELSE {{"enabled"}, {"expression"}, {"sensitive"}} \cup
         (IF s.list = "actions" THEN {{"type"}, {"output"}, {"fields"}} ELSE {{"source"}, {"variable"}})
ReadForTLS == {{"certificateProfileId"}, {"caProfileId"}, {"minimumVersion"}, {"verifyHostname"}}
ReadForProxy ==
    {{"mode"}, {"profileId"}, {"url"}, {"noProxy"}, {"usernameSecretRef"}, {"passwordSecretRef"}}
ReadForSettings ==
    {{"followRedirects"}, {"maxRedirects"}, {"compression"}, {"timeoutMs"}, {"retries"}, {"retryBackoff"},
     {"captureBody"}, {"maxBodyBytes"}}
\* A run also reads whether a step is enabled and on what condition. No editor writes
\* them: the steps made here are enabled and have no condition.
ReadForStep(type) ==
    CASE type = "ACTION" -> {{"actions"}}
      [] type = "METRIC_VALIDATION" -> {{"metric"}}
      [] type = "HTTP_REQUEST" -> {{"method"}, {"url"}, {"sections"}}
RequestDemands(s) ==
    CASE s.form = "request auth" -> {{"type"}} \cup ReadForAuth(s.method)
      [] s.form = "request body" -> ReadForBody(s.body)
      [] s.form = "request rows" -> ReadForRows(s)
      [] s.form = "step list" -> ReadForList(s)
      [] s.form = "assertion" -> ReadForAssertion
      [] s.form = "tls" -> ReadForTLS
      [] s.form = "request proxy" -> ReadForProxy
      [] s.form = "settings" -> ReadForSettings
      [] s.form = "metric" -> ReadForMetric
      [] s.form = "step" -> ReadForStep(s.type)
=============================================================================
