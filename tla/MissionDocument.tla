---------------------------- MODULE MissionDocument ----------------------------
(***************************************************************************)
(* Mission documents: src/mission/MissionParser.cpp, which reads the same  *)
(* schema from JSON and from a subset of YAML, and MissionLoader.cpp.      *)
(*                                                                         *)
(* A block is an object of the schema: scalar fields, nested blocks and    *)
(* lists of blocks.  JSON is read from blocks (TreeParser has the text),   *)
(* YAML from lines.  Scalars are numbers, booleans and texts; integer      *)
(* ranges and the precision of a double are constants, so that every       *)
(* range's edge is within reach.                                           *)
(***************************************************************************)
EXTENDS MissionModel, SequencesExt

CONSTANTS
  UInt32Max, Int32Max, UInt64Max, Int64Max,
  Exact,            \* doubles hold every integer up to Exact, then every second, ...
  KnownTexts        \* kind of enumeration -> the texts its FromString table has

VARIABLE outOfRange  \* what casting a double of 2^63 to int64_t gives: not defined

ASSUME RangesAssumption ==
  /\ {UInt32Max, Int32Max, UInt64Max, Int64Max, Exact} \subseteq Nat
  /\ Int32Max < UInt32Max /\ UInt32Max <= Exact /\ Exact <= Int64Max /\ Int64Max < UInt64Max

\* A scalar: what it is in JSON, its text, and the number that text spells, if it
\* spells one.
Scalar(kind, text, numeral, n, whole) ==
  [kind |-> kind, text |-> text, numeral |-> numeral, n |-> n, whole |-> whole]

Num(n) == Scalar("number", ToString(n), TRUE, n, TRUE)
Fraction(n) == Scalar("number", ToString(n), TRUE, n, FALSE)
Bool(b) == Scalar("boolean", IF b THEN "true" ELSE "false", FALSE, 0, TRUE)
Text(t) == Scalar("text", t, FALSE, 0, TRUE)
Quoted(n) == Scalar("text", ToString(n), TRUE, n, TRUE)

Block(fields, blocks, lists) == [fields |-> fields, blocks |-> blocks, lists |-> lists]

Read(v) == [ok |-> TRUE, v |-> v]
Rejected == [ok |-> FALSE, v |-> 0]

\* CommandTypeFromString and its siblings: the enumerator of a text, if it has one.
CommandTypeFromString(t) == IF t \in KnownTexts["command"] THEN Read(t) ELSE Rejected
PriorityFromString(t) == IF t \in KnownTexts["priority"] THEN Read(t) ELSE Rejected
ConditionTypeFromString(t) == IF t \in KnownTexts["condition"] THEN Read(t) ELSE Rejected
ConditionComparisonFromString(t) == IF t \in KnownTexts["comparison"] THEN Read(t) ELSE Rejected
FailureActionFromString(t) == IF t \in KnownTexts["action"] THEN Read(t) ELSE Rejected

FromString(type, t) ==
  CASE type = "command" -> CommandTypeFromString(t)
    [] type = "priority" -> PriorityFromString(t)
    [] type = "condition" -> ConditionTypeFromString(t)
    [] type = "comparison" -> ConditionComparisonFromString(t)
    [] type = "action" -> FailureActionFromString(t)

-----------------------------------------------------------------------------
\* Numbers

\* size in steps, to the nearest one, ties to even.
Nearest(size, step) ==
  IF 2 * (size % step) > step \/ (2 * (size % step) = step /\ (size \div step) % 2 = 1)
  THEN (size \div step + 1) * step
  ELSE (size \div step) * step

\* n as a double.
ToDouble(n) ==
  LET Rounded(size) ==
        Nearest(size, IF size <= Exact THEN 1 ELSE IF size <= 2 * Exact THEN 2 ELSE 4)
  IN IF n < 0 THEN -Rounded(-n) ELSE Rounded(n)

\* The upper bound is INT64_MAX as a double, which is one more than INT64_MAX.
IsInteger(s) ==
  s.whole /\ ToDouble(s.n) >= -(Int64Max + 1) /\ ToDouble(s.n) <= ToDouble(Int64Max)

ToInt64(s) == IF ToDouble(s.n) > Int64Max THEN outOfRange ELSE ToDouble(s.n)

PayloadValueFromNumber(s) ==
  IF IsInteger(s) THEN <<"int64", ToInt64(s)>> ELSE <<"double", ToDouble(s.n)>>

JsonUint64(s) ==
  IF s.kind = "number" /\ IsInteger(s) /\ ToDouble(s.n) >= 0 THEN Read(ToDouble(s.n)) ELSE Rejected

\* A 64-bit count that has to fit 32 bits.
Narrowed(read) == IF read.v > UInt32Max THEN Rejected ELSE read

JsonUint32(s) == Narrowed(JsonUint64(s))

JsonInt64(s) == IF s.kind = "number" /\ IsInteger(s) THEN Read(ToInt64(s)) ELSE Rejected

JsonBool(s) == IF s.kind = "boolean" THEN Read(s.text = "true") ELSE Rejected

JsonString(s) == IF s.kind = "text" THEN Read(s.text) ELSE Rejected

\* std::from_chars of an unsigned and of a signed integer.
ParseUint64(s) ==
  IF s.kind = "number" /\ s.whole /\ s.n \in 0..UInt64Max THEN Read(s.n) ELSE Rejected

ParseUint32(s) == Narrowed(ParseUint64(s))

ParseInt64(s) ==
  IF s.kind = "number" /\ s.whole /\ s.n \in -(Int64Max + 1)..Int64Max THEN Read(s.n) ELSE Rejected

YamlBool(s) == IF s.text \in {"true", "false"} THEN Read(s.text = "true") ELSE Rejected

\* static_cast<int32_t> of an int64_t.
ToInt32(n) == ((n + Int32Max + 1) % (2 * (Int32Max + 1))) - (Int32Max + 1)

\* A fault code is cut to 32 bits.
FaultCode(read) == IF read.ok THEN Read(ToInt32(read.v)) ELSE Rejected

-----------------------------------------------------------------------------
\* The fields of a block, by type; names of the members they set are the keys.
Schema ==
  [mission |-> [id |-> "u64", name |-> "text", description |-> "text", version |-> "text",
                author |-> "text"],
   step |-> [id |-> "u64", name |-> "text", timeout_ms |-> "i64", retry |-> "u32",
             enabled |-> "bool", skip |-> "bool", abort |-> "bool"],
   command |-> [id |-> "u64", type |-> "command", priority |-> "priority", timeout_ms |-> "i64"],
   retry_policy |-> [max_attempts |-> "u32", delay_ms |-> "i64", retry_on_failure |-> "bool",
                     retry_on_timeout |-> "bool"],
   loop_policy |-> [iterations |-> "u32"],
   timeout_policy |-> [timeout_ms |-> "i64", abort_on_timeout |-> "bool"],
   wait |-> [duration_ms |-> "i64"],
   delay |-> [duration_ms |-> "i64"],
   condition |-> [id |-> "u64", name |-> "text", type |-> "condition", comparison |-> "comparison",
                  value |-> "value", fault_code |-> "fault", command_type |-> "command",
                  on_failure |-> "action"]]

\* The keys JSON asks for with Required.
RequiredInJson ==
  [mission |-> {"id", "name", "description", "version", "author"}, step |-> {"id", "name"},
   command |-> {"id", "type"}, retry_policy |-> {}, loop_policy |-> {}, timeout_policy |-> {},
   wait |-> {"duration_ms"}, delay |-> {"duration_ms"}, condition |-> {"id", "name", "type"}]

\* condition.value sets the numeric or the boolean member.
ConditionValue(s) ==
  IF s.kind = "number" THEN [numeric |-> <<s.n, s.whole>>] ELSE [boolean |-> s.text = "true"]

JsonField(type, s) ==
  CASE type = "u64" -> JsonUint64(s)
    [] type = "u32" -> JsonUint32(s)
    [] type = "i64" -> JsonInt64(s)
    [] type = "bool" -> JsonBool(s)
    [] type = "text" -> JsonString(s)
    [] type = "fault" -> FaultCode(JsonInt64(s))
    [] type = "value" -> IF s.kind = "text" THEN Rejected ELSE Read(ConditionValue(s))
    [] OTHER -> IF s.kind = "text" THEN FromString(type, s.text) ELSE Rejected

YamlField(type, s) ==
  CASE type = "u64" -> ParseUint64(s)
    [] type = "u32" -> ParseUint32(s)
    [] type = "i64" -> ParseInt64(s)
    [] type = "bool" -> YamlBool(s)
    [] type = "text" -> Read(s.text)
    [] type = "fault" -> FaultCode(ParseInt64(s))
    [] type = "value" -> IF s.kind = "text" /\ s.text \notin {"true", "false"} THEN Rejected
                         ELSE Read(ConditionValue(s))
    [] OTHER -> FromString(type, s.text)

-----------------------------------------------------------------------------
\* Several results as one.
AllRead(results) ==
  [ok |-> \A k \in DOMAIN results : results[k].ok, v |-> [k \in DOMAIN results |-> results[k].v]]

\* JSON.  What a block sets: the fields that are present, over the defaults.
FieldsFromJson(name, fields) ==
  [AllRead([key \in DOMAIN fields \cap DOMAIN Schema[name] |->
              JsonField(Schema[name][key], fields[key])])
   EXCEPT !.ok = @ /\ RequiredInJson[name] \subseteq DOMAIN fields]

MetadataFromJson(fields) ==
  [ok |-> \A key \in DOMAIN fields : JsonString(fields[key]).ok,
   v |-> [key \in DOMAIN fields |-> fields[key].text]]

PayloadFromJson(fields) ==
  Read([key \in DOMAIN fields |->
          CASE fields[key].kind = "number" -> PayloadValueFromNumber(fields[key])
            [] fields[key].kind = "boolean" -> <<"boolean", fields[key].text>>
            [] fields[key].kind = "text" -> <<"text", fields[key].text>>])

RetryPolicyFromJson(b) == FieldsFromJson("retry_policy", b.fields)
LoopPolicyFromJson(b) == FieldsFromJson("loop_policy", b.fields)
TimeoutPolicyFromJson(b) == FieldsFromJson("timeout_policy", b.fields)

\* A step's wait and delay.
PauseFromJson(name, b) == FieldsFromJson(name, b.fields)

\* The nested blocks of a block are maps of texts, the payload or policies.
BlockFromJson(name, b) ==
  CASE name = "metadata" -> MetadataFromJson(b.fields)
    [] name = "payload" -> PayloadFromJson(b.fields)
    [] name = "retry_policy" -> RetryPolicyFromJson(b)
    [] name = "loop_policy" -> LoopPolicyFromJson(b)
    [] name = "timeout_policy" -> TimeoutPolicyFromJson(b)
    [] name \in {"wait", "delay"} -> PauseFromJson(name, b)

\* A block with its nested blocks; AsObject rejects a scalar in a block's place.
Nested(b, own, inner) ==
  [ok |-> own.ok /\ inner.ok /\ DOMAIN b.fields \cap DOMAIN b.blocks = {},
   v |-> Block(own.v, inner.v, <<>>)]

\* A block with its list.
Listing(read, items) ==
  [ok |-> read.ok /\ items.ok, v |-> [read.v EXCEPT !.lists = items.v]]

BlocksFromJson(b) == AllRead([n \in DOMAIN b.blocks |-> BlockFromJson(n, b.blocks[n])])

CommandFromJson(b) == Nested(b, FieldsFromJson("command", b.fields), BlocksFromJson(b))

ConditionFromJson(b) == Nested(b, FieldsFromJson("condition", b.fields), BlocksFromJson(b))

StepFromJson(b) ==
  Listing(Nested(b, FieldsFromJson("step", b.fields),
                 AllRead([n \in DOMAIN b.blocks |->
                            IF n = "command" THEN CommandFromJson(b.blocks[n])
                            ELSE BlockFromJson(n, b.blocks[n])])),
          AllRead([i \in DOMAIN b.lists |-> ConditionFromJson(b.lists[i])]))

\* The mission is the document, or its member "mission", which must be an object.
MissionFromJson(root) ==
  LET b == IF "mission" \in DOMAIN root.blocks THEN root.blocks["mission"] ELSE root
      read == Listing(Nested(b, FieldsFromJson("mission", b.fields), BlocksFromJson(b)),
                      AllRead([i \in DOMAIN b.lists |-> StepFromJson(b.lists[i])]))
  IN IF "mission" \in DOMAIN root.fields THEN Rejected ELSE read

-----------------------------------------------------------------------------
(* The YAML half of src/mission/MissionParser.cpp, and MissionLoader.cpp.  *)
(* A line is its indentation, whether it starts with "- ", its key and its *)
(* scalar value, if it has one.  Comments and blank lines are gone, as     *)
(* YamlLines leaves it.  A text is in quotes: integers and doubles are     *)
(* parsed with them and fail, YamlScalar strips them.                      *)

YamlLine(indent, dash, key, value) ==
  [indent |-> indent, dash |-> dash, key |-> key, value |-> value]

\* YamlLines: tabs and odd indentation are refused.
YamlLines(document) ==
  [ok |-> \A i \in DOMAIN document : document[i].key # "tab" /\ document[i].indent % 2 = 0,
   lines |-> document]

AtLine(index, v) == [ok |-> TRUE, index |-> index, v |-> v]

Thrown == [ok |-> FALSE, index |-> 0, v |-> <<>>]

\* The block is over: the lines are, or the indentation is less.
Ends(lines, index, indent) == index > Len(lines) \/ lines[index].indent < indent

\* SplitYamlKeyValue: the dash is part of the key, which no block then knows.
Key(line) == IF line.dash THEN "-" ELSE line.key

Value(line) == CHOOSE s \in line.value : TRUE

RECURSIVE ScalarFields(_, _, _, _, _), ParseYamlStringMap(_, _, _, _), ParseYamlPayload(_, _, _, _)

\* The loop the blocks of scalar fields share: a line deeper than the block, a key
\* the block does not know and a missing or malformed value throw; a repeated key
\* overwrites.
ScalarFields(name, lines, index, indent, v) ==
  IF Ends(lines, index, indent) THEN AtLine(index, v)
  ELSE LET line == lines[index]
           known == Key(line) \in DOMAIN Schema[name] /\ line.value # {}
           read == YamlField(Schema[name][line.key], Value(line))
       IN IF line.indent = indent /\ known
          THEN IF read.ok THEN ScalarFields(name, lines, index + 1, indent, (line.key :> read.v) @@ v)
               ELSE Thrown
          ELSE Thrown

ParseYamlRetryPolicy(lines, index, indent, v) == ScalarFields("retry_policy", lines, index, indent, v)
ParseYamlLoopPolicy(lines, index, indent, v) == ScalarFields("loop_policy", lines, index, indent, v)
ParseYamlTimeoutPolicy(lines, index, indent, v) == ScalarFields("timeout_policy", lines, index, indent, v)
ParseYamlWaitStep(lines, index, indent) == ScalarFields("wait", lines, index, indent, <<>>)
ParseYamlDelayStep(lines, index, indent) == ScalarFields("delay", lines, index, indent, <<>>)

\* Metadata: emplace keeps the first of two equal keys; a dash ends the map.
ParseYamlStringMap(lines, index, indent, v) ==
  IF Ends(lines, index, indent) THEN AtLine(index, v)
  ELSE LET line == lines[index] IN
       IF line.indent = indent /\ line.dash THEN AtLine(index, v)
       ELSE IF line.indent = indent /\ line.key # "" /\ line.value # {}
            THEN ParseYamlStringMap(lines, index + 1, indent, v @@ (line.key :> Value(line).text))
       ELSE Thrown

\* A payload value is typed by its text, once the quotes are gone: a boolean, an
\* integer, a finite double and a text are tried in this order.
YamlPayloadValue(s) ==
  CASE s.text \in {"true", "false"} -> <<"boolean", s.text>>
    [] s.numeral -> IF s.whole /\ s.n \in -(Int64Max + 1)..Int64Max THEN <<"int64", s.n>>
                    ELSE <<"double", ToDouble(s.n)>>
    [] OTHER -> <<"text", s.text>>

ParseYamlPayload(lines, index, indent, v) ==
  IF Ends(lines, index, indent) THEN AtLine(index, v)
  ELSE LET line == lines[index] IN
       IF line.indent = indent /\ line.key # "" /\ line.value # {}
       THEN ParseYamlPayload(lines, index + 1, indent, v @@ (Key(line) :> YamlPayloadValue(Value(line))))
       ELSE Thrown

-----------------------------------------------------------------------------
\* Blocks with nested blocks.
Empty == [fields |-> <<>>, blocks |-> <<>>, lists |-> <<>>]

\* Fault: a scalar field of a step lands in its neighbour.
SkipSetsAbort(name, v, line) ==
  LET key == IF line.key = "skip" THEN "abort" ELSE line.key
      read == YamlField(Schema[name][key], Value(line))
  IN [ok |-> Key(line) \in DOMAIN Schema[name] /\ line.value # {} /\ read.ok,
      v |-> [v EXCEPT !.fields = (key :> read.v) @@ @]]

\* A scalar field of a block (Apply...Field).
ApplyField(name, v, line) ==
  LET Sets(read) ==
        [ok |-> read.ok, v |-> IF read.ok THEN [v EXCEPT !.fields = (line.key :> read.v) @@ @] ELSE v]
  IN IF Key(line) \in DOMAIN Schema[name] /\ line.value # {}
     THEN Sets(YamlField(Schema[name][line.key], Value(line)))
     ELSE [ok |-> FALSE, v |-> v]

ApplyYamlCommandField(v, line) == ApplyField("command", v, line)
ApplyYamlConditionField(v, line) == ApplyField("condition", v, line)
ApplyYamlStepField(v, line) == ApplyField("step", v, line)
ApplyYamlMissionField(v, line) == ApplyField("mission", v, line)

\* What a nested block adds, and the line after it.
Adds(v, name, read) ==
  IF read.ok THEN AtLine(read.index, [v EXCEPT !.blocks = (name :> read.v) @@ @]) ELSE Thrown

Given(v, name) == IF name \in DOMAIN v.blocks THEN v.blocks[name] ELSE <<>>

\* The line after a scalar field.
Past(index, applied) == IF applied.ok THEN AtLine(index + 1, applied.v) ELSE Thrown

\* A line without a value opens a nested block, if its key does; others set a field.
OneLine(line, nested, scalar) == IF line.value = {} /\ nested.ok THEN nested ELSE scalar

\* The rest of a loop, unless what came before threw.
Then(read, Rest(_, _)) == IF read.ok THEN Rest(read.index, read.v) ELSE Thrown

RECURSIVE ParseYamlCommand(_, _, _, _), ParseYamlCondition(_, _, _, _), ParseYamlStep(_, _, _)
RECURSIVE ParseYamlConditions(_, _, _, _), ParseYamlSteps(_, _, _), MissionFields(_, _, _)

CommandBlock(lines, index, indent, name, v) ==
  CASE name = "payload" -> Adds(v, name, ParseYamlPayload(lines, index, indent, Given(v, name)))
    [] name = "metadata" -> Adds(v, name, ParseYamlStringMap(lines, index, indent, Given(v, name)))
    [] OTHER -> Thrown

ParseYamlCommand(lines, index, indent, v) ==
  IF Ends(lines, index, indent) THEN AtLine(index, v)
  ELSE LET line == lines[index] IN
       IF line.indent > indent THEN Thrown
       ELSE Then(OneLine(line, CommandBlock(lines, index + 1, indent + 2, Key(line), v),
                         Past(index, ApplyYamlCommandField(v, line))),
                 LAMBDA i, w : ParseYamlCommand(lines, i, indent, w))

\* The fields of a condition below its dash line.
ParseYamlCondition(lines, index, indent, v) ==
  IF Ends(lines, index, indent) \/ (lines[index].indent = indent /\ lines[index].dash)
  THEN AtLine(index, v)
  ELSE LET line == lines[index] IN
       IF line.indent # indent + 2 THEN Thrown
       ELSE Then(OneLine(line,
                         IF Key(line) = "metadata"
                         THEN Adds(v, "metadata",
                                   ParseYamlStringMap(lines, index + 1, indent + 4, Given(v, "metadata")))
                         ELSE Thrown,
                         Past(index, ApplyYamlConditionField(v, line))),
                 LAMBDA i, w : ParseYamlCondition(lines, i, indent, w))

ParseYamlConditions(lines, index, indent, v) ==
  IF Ends(lines, index, indent) THEN AtLine(index, v)
  ELSE LET line == lines[index] IN
       IF line.indent # indent \/ ~line.dash THEN Thrown
       ELSE Then(Then(Past(index, ApplyYamlConditionField(Empty, [line EXCEPT !.dash = FALSE])),
                      LAMBDA i, w : ParseYamlCondition(lines, i, indent, w)),
                 LAMBDA i, w : ParseYamlConditions(lines, i, indent, Append(v, w)))

\* A list read below v.
Lists(v, read) == IF read.ok THEN AtLine(read.index, [v EXCEPT !.lists = read.v]) ELSE Thrown

StepBlock(lines, index, name, v) ==
  CASE name = "command" ->
         Adds(v, name, ParseYamlCommand(lines, index, 6, IF name \in DOMAIN v.blocks THEN v.blocks[name] ELSE Empty))
    [] name = "retry_policy" -> Adds(v, name, ParseYamlRetryPolicy(lines, index, 6, Given(v, name)))
    [] name = "loop_policy" -> Adds(v, name, ParseYamlLoopPolicy(lines, index, 6, Given(v, name)))
    [] name = "timeout_policy" -> Adds(v, name, ParseYamlTimeoutPolicy(lines, index, 6, Given(v, name)))
    [] name = "wait" -> Adds(v, name, ParseYamlWaitStep(lines, index, 6))
    [] name = "delay" -> Adds(v, name, ParseYamlDelayStep(lines, index, 6))
    [] name = "metadata" -> Adds(v, name, ParseYamlStringMap(lines, index, 6, Given(v, name)))
    [] name = "conditions" -> Lists(v, ParseYamlConditions(lines, index, 6, v.lists))
    [] OTHER -> Thrown

\* The fields and blocks of a step below its dash line.
ParseYamlStep(lines, index, v) ==
  IF Ends(lines, index, 4) THEN AtLine(index, v)
  ELSE LET line == lines[index] IN
       IF line.indent > 4 THEN Thrown
       ELSE Then(OneLine(line, StepBlock(lines, index + 1, Key(line), v),
                         Past(index, ApplyYamlStepField(v, line))),
                 LAMBDA i, w : ParseYamlStep(lines, i, w))

ParseYamlSteps(lines, index, v) ==
  IF Ends(lines, index, 2) THEN AtLine(index, v)
  ELSE LET line == lines[index] IN
       IF line.indent # 2 \/ ~line.dash THEN Thrown
       ELSE Then(Then(Past(index, ApplyYamlStepField(Empty, [line EXCEPT !.dash = FALSE])),
                      LAMBDA i, w : ParseYamlStep(lines, i, w)),
                 LAMBDA i, w : ParseYamlSteps(lines, i, Append(v, w)))

MissionBlock(lines, index, name, v) ==
  CASE name = "metadata" -> Adds(v, name, ParseYamlStringMap(lines, index, 2, Given(v, name)))
    [] name = "steps" -> Lists(v, ParseYamlSteps(lines, index, v.lists))
    [] OTHER -> Thrown

\* The loop over the top-level fields.
MissionFields(lines, index, v) ==
  IF index > Len(lines) THEN AtLine(index, v)
  ELSE LET line == lines[index] IN
       IF line.indent # 0 THEN Thrown
       ELSE Then(OneLine(line, MissionBlock(lines, index + 1, Key(line), v),
                         Past(index, ApplyYamlMissionField(v, line))),
                 LAMBDA i, w : MissionFields(lines, i, w))

\* LogicalIndent: lines below a "mission:" root are moved left by its indentation.
LogicalIndent(lines, base) ==
  [i \in DOMAIN lines |-> [lines[i] EXCEPT !.indent = @ - base]]

MissionFromYaml(document) ==
  LET lines == YamlLines(document).lines
      rooted == lines # <<>> /\ lines[1] = YamlLine(0, FALSE, "mission", {})
      body == IF rooted THEN LogicalIndent(Tail(lines), 2) ELSE lines
      Parsed(read) ==
        IF YamlLines(document).ok /\ lines # <<>> /\ read.ok THEN Read(read.v) ELSE Rejected
  IN Parsed(MissionFields(body, 1, Empty))

-----------------------------------------------------------------------------
\* Over the defaults of the value types.
Or(b, key, default) == IF key \in DOMAIN b THEN b[key] ELSE default

NestedIn(v, name) == IF name \in DOMAIN v.blocks THEN v.blocks[name] ELSE <<>>

ToCondition(v) ==
  [id |-> Or(v.fields, "id", 0), name |-> Or(v.fields, "name", "") # "",
   type |-> Or(v.fields, "type", "Connection"), comparison |-> Or(v.fields, "comparison", "Equal"),
   commandType |-> Or(v.fields, "command_type", "Custom"),
   failureAction |-> Or(v.fields, "on_failure", "Abort")]

ToStep(v) ==
  LET f == v.fields
      c == IF "command" \in DOMAIN v.blocks THEN v.blocks["command"].fields ELSE <<>>
      r == NestedIn(v, "retry_policy")
      Pause(name) == IF name \in DOMAIN v.blocks THEN {Or(NestedIn(v, name), "duration_ms", 0)} ELSE {}
  IN [id |-> Or(f, "id", 0), name |-> Or(f, "name", "") # "",
      command |-> [id |-> Or(c, "id", 0), type |-> Or(c, "type", "Custom"),
                   priority |-> Or(c, "priority", "Normal"), timeout |-> Or(c, "timeout_ms", 0)],
      timeout |-> Or(f, "timeout_ms", 0), retry |-> Or(f, "retry", 0),
      retryPolicy |-> [maxAttempts |-> Or(r, "max_attempts", 1), delay |-> Or(r, "delay_ms", 0)],
      loopPolicy |-> [iterations |-> Or(NestedIn(v, "loop_policy"), "iterations", 1)],
      timeoutPolicy |-> [timeout |-> Or(NestedIn(v, "timeout_policy"), "timeout_ms", 0)],
      wait |-> Pause("wait"), delay |-> Pause("delay"),
      skip |-> Or(f, "skip", FALSE), abort |-> Or(f, "abort", FALSE),
      conditions |-> [i \in DOMAIN v.lists |-> ToCondition(v.lists[i])],
      enabled |-> Or(f, "enabled", TRUE)]

ToMission(v) ==
  [id |-> Or(v.fields, "id", 0), name |-> Or(v.fields, "name", "") # "",
   version |-> Or(v.fields, "version", "") # "", author |-> Or(v.fields, "author", "") # "",
   steps |-> [i \in DOMAIN v.lists |-> ToStep(v.lists[i])]]

\* MissionLoader: a parsed mission is returned once the validator accepts it.
ValidateParsedMission(parsed) == parsed.ok /\ ValidateMission(ToMission(parsed.v))

LoadJson(b) == ValidateParsedMission(MissionFromJson(b))

LoadYaml(document) == ValidateParsedMission(MissionFromYaml(document))
=============================================================================
