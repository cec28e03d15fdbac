---------------------------- MODULE ScriptLibrary ----------------------------
(***************************************************************************)
(* What the sandbox gives scripts to compute with (internal/scripts:       *)
(* runtime_bootstrap_v2.js): lists of headers and parameters, assertions,  *)
(* tables, text encodings, times, packages.  Each is an operator; those    *)
(* that LibraryAgrees names are compared with what their names promise     *)
(* over small inputs, the others only say what the code does.              *)
(***************************************************************************)
EXTENDS Integers, Sequences, FiniteSets, SequencesExt

CONSTANTS MaxBytes,     \* bytes of a text
          MaxCell       \* characters of a cell of a table

VARIABLE sample         \* the input
-----------------------------------------------------------------------------
(* Lists of headers and of query parameters: keys are compared without case.              *)

Entry == [key : {"a", "b"}, value : {1, 2}, disabled : BOOLEAN]
Having(entries, key) == {i \in DOMAIN entries : entries[i].key = key}
FirstOf(found) == CHOOSE i \in found : \A j \in found : i <= j
Upserted(entries, entry) ==
    LET found == Having(entries, entry.key)
    IN IF found = {} THEN Append(entries, entry) ELSE [entries EXCEPT ![FirstOf(found)] = entry]
GivenBy(entries, key) ==
    LET found == Having(entries, key) IN IF found = {} THEN 0 ELSE entries[FirstOf(found)].value
WithoutAt(entries, key, i) ==
    IF i <= Len(entries) /\ entries[i].key = key THEN RemoveAt(entries, i) ELSE entries
\* Mutant: from the first entry to the last, passing over what moved up.
RemovedForward(entries, key) ==
    FoldLeft(LAMBDA kept, i : WithoutAt(kept, key, i), entries, [i \in DOMAIN entries |-> i])
\* From the last entry to the first, so that none is passed over.
Removed(entries, key) ==
    FoldLeft(LAMBDA kept, i : WithoutAt(kept, key, i), entries,
             [i \in DOMAIN entries |-> Len(entries) + 1 - i])
\* URLSearchParams: set drops what was there and appends.
ParamSet(pairs, key, value) == Append(SelectSeq(pairs, LAMBDA e : e.key # key), [key |-> key, value |-> value, disabled |-> FALSE])

ListAgrees(entries) ==
    \A entry \in Entry :
        /\ GivenBy(Upserted(entries, entry), entry.key) = entry.value
        /\ Removed(entries, entry.key) = SelectSeq(entries, LAMBDA e : e.key # entry.key)
        /\ LET set == ParamSet(entries, entry.key, entry.value)
           IN Cardinality(Having(set, entry.key)) = 1 /\ GivenBy(set, entry.key) = entry.value
-----------------------------------------------------------------------------
(* expect: what an assertion says of a value, by the kind of the value.                   *)

Values == {"undefined", "null", "false", "true", "zero", "number", "no text", "text", "no items", "items", "no fields", "fields"}
Assertions == {"ok", "true", "null", "undefined", "empty", "boolean", "number", "string", "array", "object"}
TypeOfValue ==
    [v \in Values |->
        CASE v \in {"false", "true"} -> "boolean" [] v \in {"zero", "number"} -> "number"
          [] v \in {"no text", "text"} -> "string" [] v \in {"no items", "items"} -> "array"
          [] v = "undefined" -> "undefined" [] OTHER -> "object"]
\* Whatever is not a value of several parts has no keys, and is empty.
Holds(assertion, v) ==
    CASE assertion = "ok" -> v \notin {"undefined", "null", "false", "zero", "no text"}
      [] assertion \in {"true", "null", "undefined"} -> v = assertion
      [] assertion = "empty" -> v \notin {"undefined", "null", "text", "items", "fields"}
      [] OTHER -> TypeOfValue[v] = assertion
Links == [negated : BOOLEAN, assertion : Assertions]
\* Mutant: a negation holds for the rest of the chain.
CheckedKeeping(v, link, state) ==
    LET negate == (state.negate # link.negated)
    IN [passed |-> state.passed /\ (Holds(link.assertion, v) # negate), negate |-> negate]
\* A negation is for the next assertion only.
Checked(v, link, state) ==
    [passed |-> state.passed /\ (Holds(link.assertion, v) # (state.negate # link.negated)), negate |-> FALSE]
ChainPasses(v, chain) ==
    FoldLeft(LAMBDA state, link : Checked(v, link, state), [passed |-> TRUE, negate |-> FALSE], chain).passed
\* expect(value).to.have.property(key): whether the value has it, there is no "arguments"
\* outside a function that is not an arrow, and asking for it throws.
PropertyPasses(has) == FALSE
\* to.be on a response.
ResponseIs(what, status) ==
    CASE what = "success" -> status \in 200..399 [] what = "error" -> status >= 400
      [] what = "clientError" -> status \in 400..499 [] what = "serverError" -> status >= 500

ChainAgrees(chain) ==
    \A v \in Values :
        ChainPasses(v, chain) <=> \A i \in DOMAIN chain : Holds(chain[i].assertion, v) # chain[i].negated
-----------------------------------------------------------------------------
(* csv-parse: characters are "a", comma, quote and newline.                               *)

Characters == {"a", "comma", "quote", "newline"}
\* One character; the second quote of a pair is skipped, and the text ends in a newline.
Scan(text, state, i) ==
    LET c == IF i <= Len(text) THEN text[i] ELSE "newline"
        doubled == i < Len(text) /\ text[i + 1] = "quote"
        row == Append(state.row, state.value)
    IN IF state.skip THEN [state EXCEPT !.skip = FALSE]
       ELSE IF c = "quote" THEN
            IF state.quoted /\ doubled THEN [state EXCEPT !.value = Append(@, c), !.skip = TRUE]
            ELSE [state EXCEPT !.quoted = ~@]
       ELSE IF state.quoted \/ c = "a" THEN [state EXCEPT !.value = Append(@, c)]
       ELSE IF c = "comma" THEN [state EXCEPT !.row = row, !.value = <<>>]
       ELSE [state EXCEPT !.row = <<>>, !.value = <<>>,
                          !.rows = IF \E j \in DOMAIN row : row[j] # <<>> THEN Append(@, row) ELSE @]
Parsed(text) ==
    FoldLeft(LAMBDA state, i : Scan(text, state, i),
             [rows |-> <<>>, row |-> <<>>, value |-> <<>>, quoted |-> FALSE, skip |-> FALSE],
             [i \in 1..Len(text) + 1 |-> i]).rows
\* How a table is written: every cell in quotes, and the quotes in it doubled.
Cell(value) == <<"quote">> \o FlattenSeq([i \in DOMAIN value |-> IF value[i] = "quote" THEN <<"quote", "quote">> ELSE <<value[i]>>]) \o <<"quote">>
Written(rows) ==
    FlattenSeq([i \in DOMAIN rows |->
        FlattenSeq([j \in DOMAIN rows[i] |-> (IF j > 1 THEN <<"comma">> ELSE <<>>) \o Cell(rows[i][j])]) \o <<"newline">>])
TableAgrees(rows) == Parsed(Written(rows)) = SelectSeq(rows, LAMBDA row : \E j \in DOMAIN row : row[j] # <<>>)
-----------------------------------------------------------------------------
(* Buffer: bytes and the code points of a text.                                           *)

Bytes(n) == CASE n < 128 -> <<n>>
              [] n \in 128..2047 -> <<192 + n \div 64, 128 + (n % 64)>>
              [] n \in 2048..65535 -> <<224 + n \div 4096, 128 + ((n \div 64) % 64), 128 + (n % 64)>>
              [] OTHER -> <<240 + n \div 262144, 128 + ((n \div 4096) % 64), 128 + ((n \div 64) % 64), 128 + (n % 64)>>
\* How many bytes continue a first one; those that begin nothing have none.
Continuation(first) ==
    CASE first \in 194..223 -> 1 [] first \in 224..239 -> 2 [] first \in 240..244 -> 3 [] OTHER -> 0
Minimum == <<128, 2048, 65536>>
Leading == <<32, 16, 8>>
CodePoint(bytes, i, n) ==
    FoldLeft(LAMBDA point, b : point * 64 + (b % 64), bytes[i] % Leading[n], SubSeq(bytes, i + 1, i + n))
\* Mutant: a code point may be written with more bytes than it needs.
ScalarAnyLength(point, n) == point <= 1114111 /\ point \notin 55296..57343
Scalar(point, n) == point >= Minimum[n] /\ point <= 1114111 /\ point \notin 55296..57343
IsUtf8(bytes) ==
    LET valid[i \in 1..Len(bytes) + 4] ==
            LET n == Continuation(bytes[i])
            IN IF i > Len(bytes) THEN TRUE
               ELSE IF bytes[i] < 128 THEN valid[i + 1]
               ELSE /\ n > 0 /\ i + n <= Len(bytes)
                    /\ \A k \in 1..n : bytes[i + k] \in 128..191
                    /\ Scalar(CodePoint(bytes, i, n), n)
                    /\ valid[i + n + 1]
    IN valid[1]
\* The bytes of each encoding: two, low byte first; one; the low seven bits.
Encoded(text, encoding) ==
    FlattenSeq([i \in DOMAIN text |->
        CASE encoding = "utf8" -> Bytes(text[i]) [] encoding = "utf16le" -> <<text[i] % 256, (text[i] \div 256) % 256>>
          [] encoding = "latin1" -> <<text[i] % 256>> [] encoding = "ascii" -> <<text[i] % 128>>])
Decoded(bytes, encoding) ==
    IF encoding = "utf16le" THEN [i \in 1..Len(bytes) \div 2 |-> bytes[2 * i - 1] + 256 * bytes[2 * i]]
    ELSE [i \in DOMAIN bytes |-> IF encoding = "ascii" THEN bytes[i] % 128 ELSE bytes[i]]
Largest == [utf16le |-> 65535, latin1 |-> 255, ascii |-> 127]
\* base64url: the padding that was cut off is put back by the length.
PaddedLength(n) == n + ((4 - (n % 4)) % 4)

\* Well-formed UTF-8 is a sequence of scalar values, each in its only encoding.
BytesAgree(bytes) ==
    LET Begins(i) == {n \in 1..4 : i + n - 1 <= Len(bytes)
                        /\ \E point \in {bytes[i]} \cup {CodePoint(bytes, i, m) : m \in {n - 1} \ {0}} :
                                point <= 1114111 /\ point \notin 55296..57343 /\ Bytes(point) = SubSeq(bytes, i, i + n - 1)}
        formed[i \in 1..Len(bytes) + 1] == i > Len(bytes) \/ \E n \in Begins(i) : formed[i + n]
    IN IsUtf8(bytes) <=> formed[1]
TextAgrees(text) ==
    /\ IsUtf8(Encoded(text, "utf8"))
    /\ \A e \in DOMAIN Largest : (\A i \in DOMAIN text : text[i] <= Largest[e]) => Decoded(Encoded(text, e), e) = text
    /\ LET n == Len(text)                   \* bytes, of which every three make four characters
           whole == 4 * ((n + 2) \div 3)
       IN PaddedLength(whole - ((3 - (n % 3)) % 3)) = whole
-----------------------------------------------------------------------------
(* moment: units are those add knows and those diff knows; any other counts milliseconds. *)

Second == 1000
Lengths == [seconds |-> Second, minutes |-> 60 * Second, hours |-> 3600 * Second, days |-> 86400 * Second]
Singular == [second |-> "seconds", minute |-> "minutes", hour |-> "hours", day |-> "days"]
AddedTime(time, n, unit) ==
    time + n * (IF unit \in DOMAIN Lengths THEN Lengths[unit]
                ELSE IF unit \in DOMAIN Singular THEN Lengths[Singular[unit]] ELSE 1)
Difference(later, earlier, unit) ==
    (later - earlier) \div (IF unit \in DOMAIN Lengths THEN Lengths[unit] ELSE 1)
\* What is added in the plural is counted again.
TimesAgree(n) == \A unit \in DOMAIN Lengths \cup {"milliseconds"} : Difference(AddedTime(7, n, unit), 7, unit) = n
-----------------------------------------------------------------------------
(* Objects: get and set of lodash follow a path of two; schemas; events; forms of a digest.       *)

Parts == {"x", "y"}
\* A value is a leaf, or an object of two levels; "none" is a field that is not there.
Leaves == {"none", "leaf", "other"}
Objects == [Parts -> [object : BOOLEAN, leaf : Leaves, at : [Parts -> Leaves]]]
Child(object, path) == object[path[1]]
Got(object, path, fallback) ==
    LET child == Child(object, path)
    IN IF ~child.object \/ child.at[path[2]] = "none" THEN fallback ELSE child.at[path[2]]
\* Mutant: an object on the way is replaced, as a missing one is.
PutInFresh(object, path, value) ==
    [object EXCEPT ![path[1]] =
        [object |-> TRUE, leaf |-> "none", at |-> [f \in Parts |-> IF f = path[2] THEN value ELSE "none"]]]
\* What is missing on the way is made; a leaf on the way is written into, which throws.
PutIn(object, path, value) ==
    [object EXCEPT ![path[1]] =
        [@ EXCEPT !.object = TRUE, !.at[path[2]] = value]]
ObjectAgrees(object) ==
    \A path \in Parts \X Parts :
        Child(object, path).leaf = "none" =>
            LET put == PutIn(object, path, "other")
            IN /\ Got(put, path, "none") = "other"
               /\ \A rest \in (Parts \X Parts) \ {path} : Got(put, rest, "none") = Got(object, rest, "none")
\* ajv: the type of a rule is a type of JavaScript, so that nothing is an integer, and what
\* is not an object lacks nothing.
SchemaAccepts(rule, v) ==
    /\ rule.type \in {"any", IF v = "null" THEN "null" ELSE TypeOfValue[v]}
    /\ rule.required => (TypeOfValue[v] = "object" /\ v # "null" => v = "fields")
    /\ rule.minLength => (TypeOfValue[v] = "string" => v = "text")
    /\ rule.minimum => (TypeOfValue[v] = "number" => v = "number")
\* EventEmitter: those that listen once are gone before they are called, and the answer is
\* whether any is left.
Emitted(listeners) ==
    LET left == SelectSeq(listeners, LAMBDA l : ~l.once)
    IN [called |-> listeners, left |-> left, answer |-> left # <<>>]
\* rhythm.crypto: the form in which bytes are given; JWTs are signed with HS256 only.
DigestForm(encoding) ==
    IF encoding \in {"raw", "bytes"} THEN "bytes" ELSE IF encoding \in {"hex", "base64", "base64url"} THEN encoding ELSE "thrown"
Signed(algorithm) == IF algorithm = "HS256" THEN DigestForm("base64url") ELSE "SCRIPT_POLICY_VIOLATION"
\* A stream gives what was enqueued when it was made, then ends.
ReadNext(values, index) ==
    IF index <= Len(values) THEN [value |-> values[index], done |-> FALSE] ELSE [value |-> "undefined", done |-> TRUE]
-----------------------------------------------------------------------------
(* require: what a name of a package leads to.                                            *)

Specifiers == [prefix : {"", "npm:", "jsr:"}, scoped : BOOLEAN, version : BOOLEAN, listed : BOOLEAN]
\* The prefix and the version are cut off, not the scope.
PackageName(spec) == [spec EXCEPT !.prefix = "", !.version = FALSE]
\* A package of the library is fetched by the host; the version of a listed one is ignored.
Required(spec) ==
    IF spec.prefix # "" \/ spec.scoped THEN "fetched"
    ELSE IF PackageName(spec).listed THEN "listed" ELSE "SCRIPT_POLICY_VIOLATION"
-----------------------------------------------------------------------------
SampleBytes == {65, 127, 128, 160, 193, 194, 224, 237, 240, 244}
Inputs ==
    [list |-> UNION {[1..n -> [key : {"a", "b"}, value : {1, 2}, disabled : {FALSE}]] : n \in 0..3},
     chain |-> UNION {[1..n -> Links] : n \in 0..2},
     table |-> LET cells == UNION {[1..n -> Characters] : n \in 0..MaxCell}
               IN [1..1 -> [1..2 -> cells]] \cup [1..2 -> [1..1 -> cells]],
     bytes |-> UNION {[1..n -> SampleBytes] : n \in 0..MaxBytes} \cup [1..4 -> {143, 144, 175, 191, 240, 244}],
     text |-> UNION {[1..n -> {65, 233, 8364, 128512}] : n \in 0..3},
     time |-> 0..3,
     object |-> {o \in Objects : \A f \in Parts : (o[f].object => o[f].leaf = "none") /\ (~o[f].object => o[f].at = [g \in Parts |-> "none"])}]
LibraryInit == \E of \in DOMAIN Inputs : \E value \in Inputs[of] : sample = [of |-> of, value |-> value]
\* Seven parts of the library against a reference of their own: upsert, get and remove of a
\* list and set of a parameter; chains of assertions that compare nothing (ok, true, null,
\* undefined, empty, a), with not; reading a table that was written with every cell in quotes;
\* which bytes are UTF-8; the encodings of a text, and back, and the padding of base64url; the
\* difference of a time and what add made of it, by the plural units; get of what set has put
\* at a path of two names, and of every other path.  Not compared, for what they do is not
\* what their names promise or there is no promise to compare with: property, the statuses of
\* a response, ajv, events, the singular units of diff, indexes in a path of set, packages.
LibraryAgrees ==
    CASE sample.of = "list" -> ListAgrees(sample.value)
      [] sample.of = "chain" -> ChainAgrees(sample.value)
      [] sample.of = "table" -> TableAgrees(sample.value)
      [] sample.of = "bytes" -> BytesAgree(sample.value)
      [] sample.of = "text" -> TextAgrees(sample.value)
      [] sample.of = "time" -> TimesAgree(sample.value)
      [] sample.of = "object" -> ObjectAgrees(sample.value)
=============================================================================
