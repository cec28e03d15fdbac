---------------------------- MODULE ConfigForms -----------------------------
(***************************************************************************)
(* What the panels of the configuration page show of a form and of a       *)
(* stored profile (features/configuration), against what a save demands:   *)
(* what the form refuses by itself, and what the API refuses               *)
(* (internal/library).                                                     *)
(*                                                                         *)
(* A shape is the part of a form, or of a stored profile, that decides     *)
(* what is shown of it.                                                    *)
(***************************************************************************)
EXTENDS RequestForms

VARIABLE shape

Purposes == {"CLIENT_IDENTITY", "TRUST_BUNDLE", "COMBINED"}
Sources == {"none", "pem", "bundled", "p12", "jks"}    \* "bundled": a PEM file with its key
Methods == {"BASIC", "BEARER", "API_KEY", "OAUTH2", "JWT", "HMAC"}
FormShapes ==
    [form : {"certificates"}, purpose : Purposes, source : Sources, key : BOOLEAN, editing : BOOLEAN]
    \cup [form : {"proxies"}, secrets : BOOLEAN, bypass : BOOLEAN]
    \cup [form : {"auth"}, method : Methods]
    \cup [form : {"notifications"}, channel : {"EMAIL", "SLACK", "WEBHOOK"},
          access : {"none", "credentials", "secrets"}, url : {"value", "secret"}]
    \cup [form : {"telemetry", "secrets"}]
    \cup [form : {"provider"}, type : {"COMPASS360", "OPENROUTER_DEMO"}, stored : BOOLEAN]
    \cup RequestShapes

\* Fields of every form.
IdentityFields == {"name", "description"}
-----------------------------------------------------------------------------
(* The forms.                                                              *)

IsContainer(s) == s.source \in {"p12", "jks"}
NeedsPrivateKey(s) ==
    s.purpose # "TRUST_BUNDLE" /\ s.source # "none" /\ ~IsContainer(s) /\ ~s.key /\ ~s.editing
\* A separate key is only offered beside a file that is not a keystore.
CertificateFields(s) ==
    IdentityFields \cup {"purpose", "source"}
    \cup (IF IsContainer(s) THEN {"password", "keyPassword"} ELSE {})
    \cup (IF s.source = "jks" THEN {"alias"} ELSE {})
    \cup (IF s.source \in {"pem", "bundled"} THEN {"caBundle"} ELSE {})
    \cup (IF s.source \in {"pem", "bundled"} /\ s.purpose # "TRUST_BUNDLE" THEN {"privateKey"} ELSE {})
ProxyFields(s) ==
    IdentityFields \cup {"scheme", "proxyUrl", "usernameAlias", "passwordAlias", "noProxy"}
    \cup (IF s.secrets THEN {} ELSE {"createSecret"}) \cup (IF s.bypass THEN {"bypassRules"} ELSE {})
AuthFields(method) ==
    CASE method = "BASIC" -> {"usernameSecretRef", "passwordSecretRef"}
      [] method = "BEARER" -> {"tokenSecretRef"}
      [] method = "API_KEY" -> {"name", "location", "valueSecretRef"}
      [] method = "OAUTH2" -> {"tokenUrl", "clientId", "clientSecretRef", "scope"}
      [] method = "JWT" -> {"issuer", "audience", "keySecretRef", "algorithm"}
      [] method = "HMAC" -> {"secretRef", "algorithm", "outputHeader", "canonicalTemplate"}
\* Mutant: the credentials are asked for when secrets are chosen.
ChannelAccessSwapped(s) == IF s.access = "secrets" THEN {"username", "password"} ELSE {}
ChannelAccess(s) ==
    CASE s.access = "credentials" -> {"username", "password"}
      [] s.access = "secrets" -> {"usernameSecretRef", "passwordSecretRef"}
      [] s.access = "none" -> {}
\* An email channel is a relay and its credentials; the others are an address.
ChannelFields(s) ==
    IdentityFields \cup {"channelType"} \cup
    (IF s.channel = "EMAIL" THEN {"smtpHost", "smtpPort", "from", "fallbackTo", "authMode"} \cup ChannelAccess(s)
     ELSE {"urlMode", IF s.url = "value" THEN "url" ELSE "urlSecretRef"})
TelemetryFields ==
    IdentityFields \cup {"baseUrl", "tokenAlias", "selector", "window", "resolution", "timeoutSeconds",
                         "tlsProfileId", "caProfileId", "proxyProfileId"}
SecretFields == IdentityFields \cup {"value"}
\* The token is never shown; a stored one need not be typed again.
ProviderFields(s) ==
    {"name", "providerType", "baseUrl", "completionPath", "environment", "defaultModel", "approvedModels",
     "active", "maxConcurrency", "maxToolRounds", "maxOutputTokens", "dailyRequestLimit",
     IF s.stored THEN "apiKeyOptional" ELSE "apiKey"}

Fields(s) ==
    CASE s.form = "certificates" -> CertificateFields(s)
      [] s.form = "proxies" -> ProxyFields(s)
      [] s.form = "auth" -> IdentityFields \cup {"method"} \cup AuthFields(s.method)
      [] s.form = "notifications" -> ChannelFields(s)
      [] s.form = "telemetry" -> TelemetryFields
      [] s.form = "secrets" -> SecretFields
      [] s.form = "provider" -> ProviderFields(s)
      [] IsRequestForm(s) -> RequestFields(s)
-----------------------------------------------------------------------------
(* What a save demands; a demand is met by any of the fields of a set.     *)

CertificateDemands(s) ==
    {{"name"}} \cup (IF s.editing THEN {} ELSE {{"source"}}) \cup (IF NeedsPrivateKey(s) THEN {{"privateKey"}} ELSE {})
ProxyDemands == {{"name"}, {"proxyUrl"}}
AuthDemands(method) ==
    CASE method = "BASIC" -> {{"usernameSecretRef"}, {"passwordSecretRef"}}
      [] method = "BEARER" -> {{"tokenSecretRef"}}
      [] method = "API_KEY" -> {{"name"}, {"valueSecretRef"}}
      [] method = "OAUTH2" -> {{"tokenUrl"}, {"clientId"}, {"clientSecretRef"}}
      [] method = "JWT" -> {{"issuer"}, {"audience"}, {"keySecretRef"}}
      [] method = "HMAC" -> {{"secretRef"}}
ChannelDemands(s) ==
    {{"name"}}
    \cup (IF s.channel = "EMAIL" THEN {{"smtpHost"}, {"from"}, {"smtpPort"}}
          ELSE {{IF s.url = "value" THEN "url" ELSE "urlSecretRef"}})
    \cup (IF s.channel = "EMAIL" /\ s.access = "credentials" THEN {{"username", "password"}} ELSE {})
    \cup (IF s.channel = "EMAIL" /\ s.access = "secrets" THEN {{"usernameSecretRef", "passwordSecretRef"}} ELSE {})
TelemetryDemands == {{"name"}, {"baseUrl"}, {"tokenAlias"}}
SecretDemands == {{"name"}, {"value"}}
\* The time limit and the input tokens are in range from the start and asked for nowhere.
\* The credential is not demanded by the save but by every call of the provider.
ProviderDemands(s) ==
    {{"name"}, {"providerType"}, {"baseUrl"}, {"defaultModel"}, {"maxConcurrency"}, {"maxToolRounds"},
     {"maxOutputTokens"}, {"dailyRequestLimit"}} \cup (IF s.stored THEN {} ELSE {{"apiKey"}})
Demands(s) ==
    CASE s.form = "certificates" -> CertificateDemands(s)
      [] s.form = "proxies" -> ProxyDemands
      [] s.form = "auth" -> {{"name"}} \cup AuthDemands(s.method)
      [] s.form = "notifications" -> ChannelDemands(s)
      [] s.form = "telemetry" -> TelemetryDemands
      [] s.form = "secrets" -> SecretDemands
      [] s.form = "provider" -> ProviderDemands(s)
      [] IsRequestForm(s) -> RequestDemands(s)
-----------------------------------------------------------------------------
(* The stored profiles.                                                    *)

RowShapes ==
    [row : {"certificates"}, uploaded : 0..2, age : 0..2]      \* months left at the upload, months since
    \cup [row : {"proxies"}, host : BOOLEAN, authenticated : BOOLEAN]
    \cup [row : {"auth", "telemetry"}, named : BOOLEAN]
    \cup [row : {"notifications"}, channel : {"EMAIL", "SLACK"}, secret : BOOLEAN, saved : BOOLEAN]
    \cup [row : {"test"}, ok : BOOLEAN, bypassed : BOOLEAN, answered : BOOLEAN]
\* The days a certificate has left were counted when it was uploaded.
DaysLeft(s) == s.uploaded
CertificateRow(s) ==
    CASE DaysLeft(s) = 0 -> "Expired"
      [] DaysLeft(s) = 1 -> "Expires in days"
      [] OTHER -> "unmarked"
ProxyRow(s) ==
    [endpoint |-> IF s.host THEN "scheme, host and port" ELSE "url",
     credentials |-> IF s.authenticated THEN "Authenticated" ELSE "No authentication"]
AuthRow(s) == IF s.named THEN "header or endpoint" ELSE "Not configured"
TelemetryRow(s) == IF s.named THEN "Governed proxy" ELSE "Direct"
ChannelRow(s) ==
    CASE s.channel = "EMAIL" /\ ~s.secret /\ ~s.saved -> "auth none"
      [] s.channel # "EMAIL" /\ ~s.secret /\ ~s.saved -> "url not configured"
      [] s.secret -> "via secret"
      [] OTHER -> "saved"
ProxyTestEvidence(s) ==
    [title |-> IF s.ok THEN "Proxy route is working" ELSE "Proxy test failed",
     route |-> IF s.bypassed THEN "Direct" ELSE "proxy",
     status |-> IF s.answered THEN "code" ELSE "No response"]
Row(s) ==
    CASE s.row = "certificates" -> CertificateRow(s)
      [] s.row = "proxies" -> ProxyRow(s)
      [] s.row = "auth" -> AuthRow(s)
      [] s.row = "telemetry" -> TelemetryRow(s)
      [] s.row = "notifications" -> ChannelRow(s)
      [] s.row = "test" -> ProxyTestEvidence(s)
-----------------------------------------------------------------------------
FormsInit == shape \in FormShapes \cup RowShapes
IsForm == "form" \in DOMAIN shape

\* Whatever a save refuses for want of, or a run reads of what a form of the workbench
\* edits, the form as it stands asks for: in every shape of it, fields appear and
\* disappear with what was chosen. (Two exceptions are named above: the kept content of a
\* body of type "none", and the switch and condition of a step.)
FormsAskForAll == IsForm => \A demand \in Demands(shape) : demand \cap Fields(shape) # {}

\* A file that holds a certificate with its key is taken as it is ("Combined
\* PEM files ... are supported", certificates-panel.tsx).
BundledAccepted == IsForm /\ shape.form = "certificates" => (shape.source = "bundled" => ~NeedsPrivateKey(shape))

\* The mark of a certificate is of the days it has left now.
MarkIsCurrent ==
    ~IsForm /\ shape.row = "certificates" /\ shape.age >= shape.uploaded => Row(shape) = "Expired"
=============================================================================
