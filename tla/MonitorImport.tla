--------------------------- MODULE MonitorImport ----------------------------
(***************************************************************************)
(* Importing a monitor from a Postman collection or from a cURL command    *)
(* (features/monitors/monitor-import.ts), and the dialog in which it is    *)
(* done.  What is imported is checked for credentials: they are withheld,  *)
(* each with a warning that says so, and a reference to a secret of Rhythm *)
(* takes their place.                                                      *)
(*                                                                         *)
(* A source is the part of a collection, or of a command, that decides     *)
(* what becomes of it: where a value stands, under which name, and whether *)
(* it is a value ("literal"), a reference to a variable of the collection  *)
(* ("reference"), or a template of another kind.                           *)
(***************************************************************************)
EXTENDS Naturals, Sequences, FiniteSets

CONSTANTS
    MaxImportSteps,    \* what is done in the dialog
    MaxImportTries     \* times an import is finished

VARIABLES
    pasted,            \* the source at hand
    dialog,            \* whether it is open, and for which time; the kind, the text; importing, failed
    reading,           \* the files being read: those of which the text is still to come
    reviewed,          \* the draft made of a source
    importId,          \* the identifier the next creation is sent with, 0 for none
    imports,           \* the creations on their way
    monitorsMade,      \* the monitors created, by the identifier they were sent with
    importSteps, importTries

importVars == <<pasted, dialog, reading, reviewed, importId, imports, monitorsMade, importSteps, importTries>>

-----------------------------------------------------------------------------
(* Values. *)

NoDraft == [source |-> "none"]
Unreadable == NoDraft
SensitiveName(key) == key \in {"password", "token"}
\* Whatever holds a template is taken for one.
IsTemplate(value) == value \in {"reference", "template"}
ProtectSecretValue(key, value) == IF SensitiveName(key) /\ ~IsTemplate(value) THEN "secret" ELSE value
SecretOrTemplate(value) == IF value = "empty" \/ IsTemplate(value) THEN value ELSE "secret"
\* A field of a form is percent-encoded, and its braces with it.
EncodedField(value) ==
    CASE value = "secret" -> "encoded secret" [] value = "reference" -> "encoded reference" [] OTHER -> value

-----------------------------------------------------------------------------
(* Postman collections. *)

\* In a body of JSON a field is a string, or another value, such as a number or a list;
\* and what is announced as JSON need not parse.
JsonPlaces == {"json", "json value", "json unparsed"}
FieldPlaces ==
    {"url", "param", "header", "cookie", "urlencoded", "formdata", "raw", "graphql", "graphql variables", "file"}
    \cup JsonPlaces
CollectionFields ==
    {f \in [at : FieldPlaces, key : {"password", "page"}, value : {"literal", "reference", "template"}] :
        f.at = "json value" => f.value = "literal"}
Auths == {"absent", "null", "inherit", "noauth", "basic", "bearer", "apikey", "oauth2", "digest"}
\* A folder of one request, then another request, which has no credentials; every script by
\* where it is.
PlainCollection ==
         [kind |-> "postman", field |-> [at |-> "url", key |-> "page", value |-> "literal"], variable |-> "none",
          root |-> "absent", folder |-> "absent", request |-> "absent", auth |-> "literal", scripts |-> {},
          disabled |-> FALSE, schema |-> TRUE, empty |-> FALSE, examples |-> FALSE, item |-> TRUE]
ScriptPlaces == {"root", "folder", "request"}
WithField(field, variable) == [PlainCollection EXCEPT !.field = field, !.variable = variable]
WithAuth(root, folder, request, auth) ==
    [PlainCollection EXCEPT !.root = root, !.folder = folder, !.request = request, !.auth = auth]
WithScripts(scripts, disabled, variable) ==
    [PlainCollection EXCEPT !.scripts = scripts, !.disabled = disabled, !.variable = variable]
WithItem(schema, empty, examples, item) ==
    [PlainCollection EXCEPT !.schema = schema, !.empty = empty, !.examples = examples, !.item = item]
Collections ==
    {WithField(f, v) : f \in CollectionFields, v \in {"none", "plain", "sensitive"}}
    \cup {WithAuth(r, o, q, v) :
            r \in Auths, o \in {"absent", "null", "inherit", "basic"},
            q \in {"absent", "null", "inherit", "noauth", "bearer"}, v \in {"literal", "reference", "empty"}}
    \cup {WithScripts(s, d, v) : s \in SUBSET ScriptPlaces, d \in BOOLEAN, v \in {"none", "plain"}}
    \cup {WithItem(s, e, x, i) : s, e, x, i \in BOOLEAN}

\* Credentials are inherited, from a folder and into it.
FromFolder(c) == IF c.folder \in {"absent", "inherit"} THEN c.root ELSE c.folder
AuthOf(c) == IF c.request \in {"absent", "null", "inherit"} THEN FromFolder(c) ELSE c.request
ImportedAuth(c) ==
    LET type == AuthOf(c)
    IN  CASE type \in {"basic", "bearer", "apikey"} -> [type |-> type, value |-> SecretOrTemplate(c.auth)]
          [] type = "oauth2" /\ c.auth # "empty" -> [type |-> "bearer", value |-> SecretOrTemplate(c.auth)]
          [] OTHER -> [type |-> "none", value |-> "empty"]
AuthWarnings(c) ==
    LET type == AuthOf(c)
    IN  IF type \in {"absent", "null", "noauth"} THEN {}
        ELSE IF type \in {"inherit", "digest"} \/ (type = "oauth2" /\ c.auth = "empty") THEN {"UNSUPPORTED_AUTH"}
        ELSE IF c.auth = "literal" THEN {"AUTH_SECRET"} ELSE {}

\* The body of a GraphQL request is its query; a file stays behind.
BodyType(at) ==
    CASE at = "urlencoded" -> "form" [] at = "formdata" -> "multipart" [] at \in JsonPlaces -> "json" [] at = "raw" -> "raw"
      [] at \in {"graphql", "graphql variables"} -> "graphql" [] OTHER -> "none"
\* Of a body that parses the strings are looked at; any other is left as it is.
ProtectBody(at, key, value) == IF at = "json" THEN ProtectSecretValue(key, value) ELSE value
\* Mutant: the fields of a form with files are taken as they are.
MultipartUnprotected(f) ==
    CASE f.at = "urlencoded" -> EncodedField(ProtectSecretValue(f.key, f.value))
      [] f.at = "formdata" -> EncodedField(f.value)
      [] f.at \in JsonPlaces \cup {"raw"} -> ProtectBody(f.at, f.key, f.value)
      [] f.at = "graphql" -> f.value
      [] OTHER -> "empty"
ImportedBody(f) ==
    CASE f.at \in {"urlencoded", "formdata"} -> EncodedField(ProtectSecretValue(f.key, f.value))
      [] f.at \in JsonPlaces \cup {"raw"} -> ProtectBody(f.at, f.key, f.value)
      [] f.at = "graphql" -> f.value
      [] OTHER -> "empty"
ImportedValue(f) ==
    CASE f.at \in {"param", "header"} -> ProtectSecretValue(f.key, f.value)
      [] f.at = "cookie" -> "secret"
      [] f.at = "url" -> f.value
      [] OTHER -> ImportedBody(f)
\* A reference to a variable that was withheld is one to the secret.
SensitiveReplaced(c, value) == IF value = "reference" /\ c.variable = "sensitive" THEN "secret" ELSE value
FieldWarnings(f) ==
    (IF f.at = "cookie" THEN {"COOKIE_SECRET"} ELSE {})
    \cup (IF f.at \in {"param", "header", "urlencoded", "formdata"} /\ ProtectSecretValue(f.key, f.value) # f.value
          THEN {"SECRET_VALUE"} ELSE {})
    \cup (IF f.at = "json" /\ ProtectBody(f.at, f.key, f.value) # f.value THEN {"SECRET_BODY"} ELSE {})
    \cup (IF f.at = "file" THEN {"POSTMAN_FILE"} ELSE {})

\* Scripts before a request run from the outside in, its tests from the inside out;
\* the variables are set by the first request, before its own script.
VariableSetup(c) == IF c.variable = "plain" THEN <<"setup">> ELSE <<>>
ScriptsAt(c, order) == SelectSeq(order, LAMBDA p : p \in c.scripts)
StepsOf(c) ==
    LET First == [enabled |-> ~c.disabled,
                  before |-> VariableSetup(c) \o ScriptsAt(c, <<"root", "folder", "request">>),
                  tests |-> ScriptsAt(c, <<"request", "folder", "root">>)]
        Second == [enabled |-> TRUE, before |-> ScriptsAt(c, <<"root">>), tests |-> ScriptsAt(c, <<"root">>)]
    IN  IF c.empty THEN <<Second>> ELSE <<First, Second>>
ParsePostmanCollection(c) ==
    IF ~c.item THEN Unreadable
    ELSE [source |-> "postman", steps |-> StepsOf(c), body |-> BodyType(c.field.at),
          auth |-> [ImportedAuth(c) EXCEPT !.value = SensitiveReplaced(c, @)],
          value |-> SensitiveReplaced(c, ImportedValue(c.field)),
          warnings |-> FieldWarnings(c.field) \cup AuthWarnings(c)
              \cup (IF c.variable = "sensitive" THEN {"SECRET_VARIABLE"} ELSE {})
              \cup (IF c.schema THEN {} ELSE {"POSTMAN_SCHEMA"}) \cup (IF c.empty THEN {"EMPTY_ITEM"} ELSE {})
              \cup (IF c.examples THEN {"EXAMPLES_NOT_IMPORTED"} ELSE {})]

-----------------------------------------------------------------------------
(* cURL commands. *)

NoOptions == [kind |-> "curl", url |-> "plain", user |-> "none", header |-> "none", cookie |-> "none",
              data |-> "none", form |-> "none", proxy |-> "none", method |-> "none", other |-> "none"]
Options == [url |-> {"none", "credentials", "credentials without scheme", "sensitive query"},
            user |-> {"name", "name and password"},
            header |-> {"bearer", "bearer template", "basic", "key", "cookie", "invalid"}, cookie |-> {"pair"},
            data |-> {"form", "urlencode", "file"} \cup JsonPlaces, form |-> {"field", "file"},
            proxy |-> {"plain", "credentials", "credentials without scheme"}, method |-> {"GET", "HEAD"},
            other |-> {"insecure", "cert", "unknown", "operator"}]
\* Commands with at most two options.
Commands ==
    {NoOptions} \cup UNION {{[NoOptions EXCEPT ![a] = x, ![b] = y] : x \in Options[a], y \in Options[b]} :
                                a \in DOMAIN Options, b \in DOMAIN Options}

\* Credentials in the URL count when no user is given.
CurlUser(c) ==
    IF c.user # "none" THEN c.user ELSE IF c.url = "credentials" THEN "name and password" ELSE "none"
CurlBodyType(c) ==
    CASE c.form # "none" -> "multipart" [] c.data = "urlencode" -> "form" [] c.data = "none" -> "none"
      [] c.data \in JsonPlaces -> "json" [] OTHER -> "raw"
CurlMethod(c) == IF c.method # "none" THEN c.method ELSE IF CurlBodyType(c) = "none" THEN "GET" ELSE "POST"
CurlAuth(c) ==
    CASE CurlUser(c) = "name and password" -> [type |-> "basic", value |-> "secret"]
      [] CurlUser(c) = "name" -> [type |-> "basic", value |-> "empty"]
      [] CurlUser(c) = "none" /\ c.header \in {"bearer", "bearer template"} -> [type |-> "bearer", value |-> "secret"]
      [] OTHER -> [type |-> "none", value |-> "empty"]
\* A cookie given as a header is left out; only the option for cookies brings them.
CurlHeader(c) ==
    IF c.header \in {"none", "invalid", "cookie"} \/ (CurlAuth(c).type = "bearer") THEN "empty"
    ELSE ProtectSecretValue("token", IF c.header = "bearer template" THEN "template" ELSE "literal")
\* The fields of a form win over data; neither is looked into unless it is JSON.
CurlBody(c) ==
    CASE c.form = "field" -> "literal"
      [] c.form # "field" /\ c.data \in JsonPlaces -> ProtectBody(c.data, "password", "literal")
      [] c.form # "field" /\ c.data \in {"form", "urlencode"} -> "literal"
      [] c.form # "field" /\ c.data = "file" -> "template"
      [] OTHER -> "empty"
CurlProxy(c) == IF c.proxy = "credentials without scheme" THEN "literal" ELSE "empty"
CurlQuery(c) ==
    CASE c.url = "sensitive query" -> ProtectSecretValue("token", "literal")
      [] c.url = "credentials without scheme" -> "literal"
      [] OTHER -> "empty"
CurlWarnings(c) ==
    (IF c.user = "none" /\ c.url = "credentials" THEN {"URL_CREDENTIALS"} ELSE {})
    \cup (IF CurlUser(c) = "name and password" THEN {"BASIC_SECRET"} ELSE {})
    \cup (IF CurlAuth(c).type = "bearer" THEN {"BEARER_SECRET"} ELSE {})
    \cup (IF c.header \in {"bearer", "basic", "key"} \/ c.url = "sensitive query" THEN {"SECRET_VALUE"} ELSE {})
    \cup (IF c.header = "invalid" THEN {"INVALID_HEADER"} ELSE {})
    \cup (IF c.cookie = "pair" THEN {"COOKIE_SECRET"} ELSE {})
    \cup (IF "file" \in {c.data, c.form} THEN {"LOCAL_FILE"} ELSE {})
    \cup (IF CurlBody(c) = "secret" THEN {"SECRET_BODY"} ELSE {})
    \cup (IF c.proxy = "credentials" THEN {"PROXY_SECRET"} ELSE {})
    \cup (CASE c.other = "insecure" -> {"INSECURE_TLS"} [] c.other = "cert" -> {"LOCAL_CERTIFICATE"}
            [] c.other = "unknown" -> {"UNSUPPORTED_CURL_OPTION"} [] OTHER -> {})
ParseCurlCommand(c) ==
    IF c.url = "none" \/ c.other = "operator" THEN Unreadable
    ELSE [source |-> "curl", method |-> CurlMethod(c), body |-> CurlBodyType(c), auth |-> CurlAuth(c),
          values |-> {CurlHeader(c), CurlBody(c), CurlProxy(c), CurlQuery(c)}
              \cup (IF c.cookie = "pair" THEN {"secret"} ELSE {}),
          warnings |-> CurlWarnings(c)]

-----------------------------------------------------------------------------
(* The dialog. *)

Texts == {"none", "pasted", "other"}
Other == [NoOptions EXCEPT !.header = "key"]
\* A text of the other kind cannot be read.
ParsedText(kind, text) ==
    LET source == IF text = "pasted" THEN pasted ELSE Other
    IN  IF source.kind # kind THEN Unreadable
        ELSE IF kind = "postman" THEN ParsePostmanCollection(source) ELSE ParseCurlCommand(source)
ImportStep == importSteps < MaxImportSteps /\ importSteps' = importSteps + 1
Closed == [dialog EXCEPT !.open = FALSE, !.text = "none", !.importing = FALSE, !.failed = FALSE]

OpenImport ==
    /\ ~dialog.open /\ ImportStep
    /\ dialog' = [dialog EXCEPT !.open = TRUE, !.opening = @ + 1]
    /\ UNCHANGED <<pasted, reading, reviewed, importId, imports, monitorsMade, importTries>>
\* Closing forgets what was read and the identifier, whatever is on its way.
CloseImport ==
    /\ dialog.open /\ ImportStep
    /\ dialog' = Closed /\ reviewed' = NoDraft /\ importId' = 0
    /\ UNCHANGED <<pasted, reading, imports, monitorsMade, importTries>>
EnteringSource == dialog.open /\ reviewed = NoDraft
ChangeKind ==
    /\ EnteringSource /\ ImportStep
    /\ dialog' = [dialog EXCEPT !.kind = IF @ = "postman" THEN "curl" ELSE "postman", !.text = "none", !.failed = FALSE]
    /\ reviewed' = NoDraft
    /\ UNCHANGED <<pasted, reading, importId, imports, monitorsMade, importTries>>
Paste ==
    /\ EnteringSource /\ ImportStep
    /\ \E text \in Texts \ {dialog.text} : dialog' = [dialog EXCEPT !.text = text, !.failed = FALSE]
    /\ UNCHANGED <<pasted, reading, reviewed, importId, imports, monitorsMade, importTries>>
\* Files are chosen for collections; their text arrives when they are read.
ChooseFile ==
    /\ EnteringSource /\ dialog.kind = "postman" /\ ImportStep
    /\ \/ dialog' = [dialog EXCEPT !.failed = TRUE] /\ UNCHANGED <<reading, reviewed>>
       \/ dialog' = [dialog EXCEPT !.failed = FALSE] /\ reading' = reading + 1 /\ reviewed' = NoDraft
    /\ UNCHANGED <<pasted, importId, imports, monitorsMade, importTries>>
FileRead ==
    /\ reading > 0 /\ reading' = reading - 1
    /\ dialog' = [dialog EXCEPT !.text = "pasted"]
    /\ UNCHANGED <<pasted, reviewed, importId, imports, monitorsMade, importSteps, importTries>>

Review ==
    /\ EnteringSource /\ dialog.text # "none" /\ ImportStep
    /\ reviewed' = ParsedText(dialog.kind, dialog.text) /\ dialog' = [dialog EXCEPT !.failed = reviewed' = NoDraft]
    /\ UNCHANGED <<pasted, reading, importId, imports, monitorsMade, importTries>>
Readable == dialog.open /\ reviewed # NoDraft
BackToSource ==
    /\ Readable /\ ~dialog.importing /\ ImportStep
    /\ reviewed' = NoDraft /\ dialog' = [dialog EXCEPT !.failed = FALSE]
    /\ UNCHANGED <<pasted, reading, importId, imports, monitorsMade, importTries>>

\* Tries of one draft carry one identifier, until it is created or the dialog closed.
ImportIdentifier == IF importId = 0 THEN importTries + 1 ELSE importId
FinishImport ==
    /\ Readable /\ ~dialog.importing /\ importTries < MaxImportTries /\ importTries' = importTries + 1
    /\ importId' = ImportIdentifier
    /\ dialog' = [dialog EXCEPT !.importing = TRUE, !.failed = FALSE]
    /\ imports' = imports \cup {[id |-> importId', try |-> importTries', opening |-> dialog.opening,
                                  draft |-> reviewed, at |-> "sent"]}
    /\ UNCHANGED <<pasted, reading, reviewed, monitorsMade, importSteps>>
MoveImport(i, at) == imports' = (imports \ {i}) \cup {[i EXCEPT !.at = at]}
\* The API creates a monitor once for an identifier, and refuses it for another draft.
ImportLanded ==
    \E i \in imports :
        /\ i.at = "sent"
        /\ LET known == {m \in monitorsMade : m.id = i.id} IN
            \/ /\ known = {} /\ monitorsMade' = monitorsMade \cup {[id |-> i.id, opening |-> i.opening, draft |-> i.draft]}
               /\ \E at \in {"created", "lost"} : MoveImport(i, at)
            \/ /\ known # {} /\ UNCHANGED monitorsMade
               /\ MoveImport(i, IF \A m \in known : m.draft = i.draft THEN "created" ELSE "lost")
            \/ UNCHANGED monitorsMade /\ MoveImport(i, "lost")
        /\ UNCHANGED <<pasted, dialog, reading, reviewed, importId, importSteps, importTries>>
\* The answer closes the dialog that is open, or shows its error there.
ImportAnswered ==
    \E i \in imports :
        /\ i.at # "sent" /\ imports' = imports \ {i}
        /\ IF i.at = "created" THEN dialog' = Closed /\ reviewed' = NoDraft /\ importId' = 0
           ELSE dialog' = [dialog EXCEPT !.importing = FALSE, !.failed = TRUE] /\ UNCHANGED <<reviewed, importId>>
        /\ UNCHANGED <<pasted, reading, monitorsMade, importSteps, importTries>>

ImportNext ==
    \/ OpenImport \/ CloseImport \/ ChangeKind \/ Paste \/ ChooseFile \/ FileRead \/ Review \/ BackToSource
    \/ FinishImport \/ ImportLanded \/ ImportAnswered
\* A source is read, and nothing else is done.
ReadingNext == (Paste /\ dialog'.text = "pasted") \/ Review
-----------------------------------------------------------------------------
(* What the review shows of a draft. *)
ReviewShows ==
    IF ~Readable THEN {}
    ELSE (IF reviewed.warnings = {} THEN {"ready"} ELSE {"warnings"}) \cup {"requests", "summary"}

SourceInit == pasted \in Collections \cup Commands
ImportInit ==
    /\ dialog = [open |-> TRUE, opening |-> 1, kind |-> pasted.kind, text |-> "none",
                  importing |-> FALSE, failed |-> FALSE]
    /\ reading = 0 /\ reviewed = NoDraft /\ importId = 0 /\ imports = {} /\ monitorsMade = {}
    /\ importSteps = 0 /\ importTries = 0
ImportSpec == SourceInit /\ ImportInit /\ [][ImportNext]_importVars

-----------------------------------------------------------------------------
(* Properties. *)

Literals(draft) == IF draft.source = "postman" THEN {draft.value} ELSE draft.values
\* A credential stands where the importer looks for one: in a body of JSON, as a string.
LookedFor(c) ==
    IF c.kind = "postman"
    THEN c.field.key = "password" /\ c.field.at \in {"param", "header", "cookie", "urlencoded", "formdata", "json"}
    ELSE c.data \in {"none", "json", "file"} /\ c.form # "field"
            /\ "credentials without scheme" \notin {c.url, c.proxy}
ReviewOfPasted == reviewed.source = pasted.kind /\ dialog.text # "other"

\* A credential is not imported: not from a field where the importer looks for one, not from
\* the credentials of a request, whichever level they are inherited from, and not from a
\* variable, whose references become references to the secret; and what is withheld is
\* warned of.  In a body, that is only from a field of a form or a string in JSON that
\* parses: a number, a list, or a body that a placeholder keeps from parsing, is imported
\* as it stands.
CredentialsWithheld ==
    ReviewOfPasted =>
        /\ LookedFor(pasted) => "literal" \notin Literals(reviewed)
        /\ "secret" \in Literals(reviewed) \cup {reviewed.auth.value} => reviewed.warnings # {}
        /\ reviewed.auth.value # "literal"
        /\ (pasted.kind = "postman" /\ pasted.variable = "sensitive") => "reference" \notin {reviewed.value, reviewed.auth.value}

\* A monitor is imported once each time the dialog is opened, however often it is tried.
ImportedOnce == \A m, n \in monitorsMade : m.opening = n.opening => m = n

\* "Rhythm did not find unsupported features or likely plain-text credentials in this
\* import." is shown of an import that holds none, and from which nothing is missing
\* (monitor-import-dialog.tsx:403).
ReadyIsClean ==
    ReviewOfPasted /\ "ready" \in ReviewShows =>
        IF pasted.kind = "postman" THEN pasted.field.at # "graphql variables"
        ELSE "literal" \notin reviewed.values /\ pasted.header # "cookie"

\* A placeholder that is imported is found again when the request is sent: one that was
\* percent-encoded is not.
PlaceholdersResolve == reviewed.source = "postman" => reviewed.value \notin {"encoded secret", "encoded reference"}
=============================================================================
