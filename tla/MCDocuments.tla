------------------------------ MODULE MCDocuments ------------------------------
(***************************************************************************)
(* The functions that read, check and convert what enters the system, over  *)
(* bounded inputs: mission documents and values (plain names), JSON text    *)
(* and tree documents (P), commands and the safety policy (Y), ROS 2        *)
(* messages (O) and planning rules (B).  An input is built symbol by symbol *)
(* or edit by edit; in a behaviour one kind of it is used.  MCAutonomy runs  *)
(* this beside the components that hold state.                              *)
(***************************************************************************)
EXTENDS MissionDocument

CONSTANT Caller

VARIABLES part,   \* the kind of input
          item,   \* the input
          edits   \* how often it was edited

P == INSTANCE TreeParser WITH
       Strings <- {"root", "type", "child", "children", "Seq", "Inv"}, Numbers <- {"1"}
Y == INSTANCE SafetyValidator

VARIABLES o_message, o_reply, b_rules, b_cancel, b_plan, b_requests, b_cancelled

oVars == <<o_message, o_reply>>
bVars == <<b_rules, b_cancel, b_plan, b_requests, b_cancelled>>

Uses(kind) == part = kind /\ UNCHANGED <<part, outOfRange>>

\* One more edit of the item.
Edited(limit, new) == edits < limit /\ edits' = edits + 1 /\ item' = new

-----------------------------------------------------------------------------
(* JSON: all documents, strings and numbers up to a bound, and a longer     *)
(* document with lexemes changed or removed.                                *)
MaxDocument == 5
MaxString == 5
MaxNumber == 6
Alphabet == {"{", "}", "[", "]", ":", ",", " ", "type", "1", "'"}

Longer == <<"{", "type", ":", "{", "}", ",", "root", ":", "[", "1", "]", "}">>

Json(document, string, number) == [document |-> document, string |-> string, number |-> number]

JsonInit == item \in {Json(<<>>, <<>>, <<>>), Json(Longer, <<>>, <<>>)}

JsonNext ==
  \/ /\ item.string = <<>> /\ item.number = <<>> /\ Len(item.document) < MaxDocument /\ edits = 0
     /\ \E lexeme \in Alphabet : item' = [item EXCEPT !.document = Append(@, lexeme)]
     /\ UNCHANGED edits
  \/ /\ Len(item.document) > MaxDocument
     /\ \E i \in DOMAIN item.document :
          \/ Edited(2, [item EXCEPT !.document = RemoveAt(@, i)])
          \/ \E lexeme \in Alphabet : Edited(2, [item EXCEPT !.document[i] = lexeme])
  \/ /\ item.document = <<>> /\ item.number = <<>> /\ Len(item.string) < MaxString
     /\ \E c \in {"q", "b", "n", "u", "x", "c"} : item' = [item EXCEPT !.string = Append(@, c)]
     /\ UNCHANGED edits
  \/ /\ item.document = <<>> /\ item.string = <<>> /\ Len(item.number) < MaxNumber
     /\ \E c \in {"-", "d", ".", "e", "+"} : item' = [item EXCEPT !.number = Append(@, c)]
     /\ UNCHANGED edits

\* The grammar, read off the words instead of scanned: a value is a scalar or a
\* bracketed list of values.
RECURSIVE IsValue(_), IsItems(_), IsMembers(_)

Inner(w) == SubSeq(w, 2, Len(w) - 1)

Wrapped(w, open, close) == Len(w) >= 2 /\ w[1] = open /\ w[Len(w)] = close

IsItems(w) ==
  IsValue(w) \/ \E i \in 2..Len(w) - 1 :
                  w[i] = "," /\ IsValue(SubSeq(w, 1, i - 1)) /\ IsItems(SubSeq(w, i + 1, Len(w)))

IsMember(w) == Len(w) >= 3 /\ P!IsString(P!Scalar(w[1])) /\ w[2] = ":" /\ IsValue(SubSeq(w, 3, Len(w)))

\* The keys of a list of members, one set per way to read it.
IsMembers(w) ==
  (IF IsMember(w) THEN {{w[1]}} ELSE {}) \cup
  UNION {{keys \cup {w[1]} : keys \in {k \in IsMembers(SubSeq(w, i + 1, Len(w))) : w[1] \notin k}} :
           i \in {j \in 4..Len(w) - 1 : w[j] = "," /\ IsMember(SubSeq(w, 1, j - 1))}}

IsValue(w) ==
  \/ Len(w) = 1 /\ w[1] \in P!Scalars
  \/ Wrapped(w, "[", "]") /\ (Len(w) = 2 \/ IsItems(Inner(w)))
  \/ Wrapped(w, "{", "}") /\ (Len(w) = 2 \/ IsMembers(Inner(w)) # {})

RECURSIVE Rendered(_), RenderedMembers(_)

RenderedMembers(members) ==
  IF members = {} THEN <<>>
  ELSE LET m == CHOOSE m \in members : TRUE
           rest == members \ {m}
       IN <<m[1], ":">> \o Rendered(m[2]) \o (IF rest = {} THEN <<>> ELSE <<",">>)
            \o RenderedMembers(rest)

Joined(texts) ==
  FoldLeft(LAMBDA out, text : IF out = <<>> THEN text ELSE out \o <<",">> \o text, <<>>, texts)

Rendered(value) ==
  CASE value.kind = "scalar" -> <<value.text>>
    [] value.kind = "object" -> <<"{">> \o RenderedMembers(value.members) \o <<"}">>
    [] value.kind = "array" ->
         <<"[">> \o Joined([i \in DOMAIN value.items |-> Rendered(value.items[i])]) \o <<"]">>

\* The JSON reader accepts exactly the documents of the grammar, whatever blanks are in
\* them: trailing content, trailing commas, duplicate keys and malformed strings and
\* numbers are rejected.
AcceptsTheGrammar ==
  part = "json" =>
    (P!Parse(item.document).ok <=> IsValue(SelectSeq(item.document, LAMBDA x : x # " ")))

\* A value written out and read again is the same value: nothing of the structure is
\* lost or attached elsewhere.
ReadsWhatIsWritten ==
  part = "json" =>
    LET value == P!Parse(item.document)
    IN value.ok => P!Parse(Rendered(value.value)).value = value.value

Escaped(c) == CASE c = "c" -> <<"b", "n">> [] c \in {"q", "b"} -> <<"b", c>> [] OTHER -> <<c>>

\* ParseString: a string ends at its first quote that is not escaped, holds no control
\* character, and escaping what was read gives a string that reads the same.
StringsRoundTrip ==
  part = "json" =>
    LET s == P!ParseString(item.string) IN
    s.ok =>
      /\ item.string[s.at - 1] = "q"
      /\ \A i \in 1..s.at - 2 : item.string[i] # "c"
      /\ LET again == FoldLeft(LAMBDA out, c : out \o Escaped(c), <<>>, s.out) \o <<"q">>
         IN P!ParseString(again).ok /\ P!ParseString(again).out = s.out

AllDigits(w) == w # <<>> /\ \A i \in DOMAIN w : w[i] = "d"

Unsigned(w, signs) == IF w # <<>> /\ w[1] \in signs THEN Tail(w) ELSE w

IsDecimal(w) ==
  AllDigits(w) \/ \E i \in DOMAIN w : w[i] = "." /\ AllDigits(SubSeq(w, 1, i - 1))
                                             /\ AllDigits(SubSeq(w, i + 1, Len(w)))

\* ParseNumber: a word is scanned to its end exactly when it is a decimal number with
\* an optional sign and exponent.
NumbersFollowTheGrammar ==
  part = "json" =>
    LET w == Unsigned(item.number, {"-"})
        n == P!ParseNumber(item.number)
    IN (n.ok /\ n.at = Len(item.number) + 1) <=>
         \/ IsDecimal(w)
         \/ \E i \in DOMAIN w : /\ w[i] = "e" /\ IsDecimal(SubSeq(w, 1, i - 1))
                                /\ AllDigits(Unsigned(SubSeq(w, i + 1, Len(w)), {"+", "-"}))

-----------------------------------------------------------------------------
(* Tree documents: a tree is authored node by node, written as JSON and as  *)
(* YAML, and the YAML then edited line by line.                             *)
NodeTypes == {"Seq", "Inv"}
MaxNodes == 4

Authored(parent, how, type) == [parent |-> parent, how |-> how, type |-> type]

\* Nodes in the order they are authored; 0 is no parent.
Below(n, how) == SelectSeq([i \in DOMAIN item.tree |-> i],
                           LAMBDA i : item.tree[i].parent = n /\ item.tree[i].how = how)

RECURSIVE Definition(_), JsonText(_), YamlText(_, _), YamlItem(_, _)

\* The definition the author means.
Definition(n) ==
  LET kids == Below(n, "child") \o Below(n, "children") IN
  P!Node(item.tree[n].type, [i \in DOMAIN kids |-> Definition(kids[i])])

JsonText(n) ==
  LET child == Below(n, "child")
      listed == Below(n, "children")
  IN <<"{", "type", ":", item.tree[n].type>>
       \o (IF child = <<>> THEN <<>> ELSE <<",", "child", ":">> \o JsonText(child[1]))
       \o (IF listed = <<>> THEN <<>>
           ELSE <<",", "children", ":", "[">>
                  \o Joined([i \in DOMAIN listed |-> JsonText(listed[i])]) \o <<"]">>)
       \o <<"}">>

NestedLines(n, indent) ==
  LET child == Below(n, "child")
      listed == Below(n, "children")
  IN (IF child = <<>> THEN <<>>
      ELSE <<P!Line(indent, FALSE, "child", "")>> \o YamlText(child[1], indent + 2))
     \o (IF listed = <<>> THEN <<>>
         ELSE <<P!Line(indent, FALSE, "children", "")>>
                \o FlattenSeq([i \in DOMAIN listed |-> YamlItem(listed[i], indent + 2)]))

YamlText(n, indent) ==
  <<P!Line(indent, FALSE, "type", item.tree[n].type)>> \o NestedLines(n, indent)

YamlItem(n, indent) ==
  <<P!Line(indent, TRUE, "type", item.tree[n].type)>> \o NestedLines(n, indent + 2)

TreeAsJson == <<"{", "root", ":">> \o JsonText(1) \o <<"}">>

TreeAsYaml == <<P!Line(0, FALSE, "root", "")>> \o YamlText(1, 2)

TreeInit == item \in {[tree |-> <<Authored(0, "root", t)>>, yaml |-> <<>>] : t \in NodeTypes}

Author ==
  /\ item.yaml = <<>> /\ Len(item.tree) < MaxNodes
  /\ \E p \in DOMAIN item.tree, how \in {"child", "children"}, t \in NodeTypes :
       /\ how = "child" => Below(p, "child") = <<>>
       /\ Below(p, IF how = "child" THEN "children" ELSE "child") = <<>>
       /\ item' = [item EXCEPT !.tree = Append(@, Authored(p, how, t))]
  /\ UNCHANGED edits

SaveTree ==
  /\ item.yaml = <<>> /\ item' = [item EXCEPT !.yaml = TreeAsYaml]
  /\ UNCHANGED edits

EditTree ==
  \E i \in DOMAIN item.yaml :
    LET yaml == item.yaml
        To(new) == Edited(IF Len(item.tree) < MaxNodes THEN 2 ELSE 1, [item EXCEPT !.yaml = new])
    IN \/ To(RemoveAt(yaml, i))
       \/ To(InsertAt(yaml, i, yaml[i]))
       \/ To(InsertAt(yaml, i, P!Line(0, FALSE, "", "")))
       \/ \E indent \in {yaml[i].indent - 2, yaml[i].indent + 2} :
            indent >= 0 /\ To([yaml EXCEPT ![i].indent = indent])
       \/ \E field \in {"tab", "child", "other"} : To([yaml EXCEPT ![i].field = field])
       \/ To([yaml EXCEPT ![i].dash = ~@])
       \/ To([yaml EXCEPT ![i].value = ""])

TreeNext == Author \/ SaveTree \/ EditTree

\* TreeParser: a tree written in either format is read back as the tree that was
\* meant, child for child and in order.
BothFormatsReadTheTree ==
  part = "tree" /\ edits = 0 =>
    /\ P!ParseJson(TreeAsJson) = P!Success(Definition(1))
    /\ P!ParseYaml(TreeAsYaml) = P!Success(Definition(1))

RECURSIVE TypesOf(_)

TypesOf(node) ==
  FoldLeft(LAMBDA out, child : out \o TypesOf(child), <<node.type>>, node.children)

Occurrences(types) == [t \in NodeTypes |-> Cardinality({i \in DOMAIN types : types[i] = t})]

\* TreeParser: nothing of an accepted YAML document is dropped or read twice.  The tree
\* has every type line once, and a node for the root, for every dash and every child.
YamlDropsNothing ==
  part = "tree" =>
    LET parsed == P!ParseYaml(item.yaml) IN
    parsed.success =>
      LET read == TypesOf(parsed.root)
          lines == P!LinesFromYaml(item.yaml).lines
      IN /\ Occurrences(read) =
              Occurrences([i \in DOMAIN lines |->
                             IF lines[i].field = "type" THEN lines[i].value ELSE ""])
         /\ Len(read) = 1 + Cardinality({i \in DOMAIN lines :
                                           lines[i].dash \/ lines[i].field = "child"})

-----------------------------------------------------------------------------
(* Mission documents: fields and blocks of a complete document are edited,  *)
(* it is read as JSON, and as YAML after its lines may have been edited.    *)
MCKnownTexts ==
  [command |-> {"Stand", "Custom"}, priority |-> {"High"}, condition |-> {"BatteryLevel"},
   comparison |-> {"LessThan"}, action |-> {"Skip"}]

FlatBlock(fields) == Block(fields, <<>>, <<>>)

FullCondition ==
  Block([id |-> Num(1), name |-> Text("c"), type |-> Text("BatteryLevel"),
         comparison |-> Text("LessThan"), value |-> Num(2), fault_code |-> Num(3),
         command_type |-> Text("Stand"), on_failure |-> Text("Skip")],
        [metadata |-> FlatBlock([k |-> Text("m")])], <<>>)

FullStep ==
  Block([id |-> Num(1), name |-> Text("s"), timeout_ms |-> Num(1), retry |-> Num(2), skip |-> Bool(TRUE)],
        [command |-> Block([id |-> Num(1), type |-> Text("Stand"), priority |-> Text("High"),
                            timeout_ms |-> Num(2)],
                           [payload |-> FlatBlock([p |-> Num(3)])], <<>>),
         retry_policy |-> FlatBlock([max_attempts |-> Num(2), retry_on_timeout |-> Bool(FALSE)]),
         wait |-> FlatBlock([duration_ms |-> Num(1)])],
        <<FullCondition, FullCondition>>)

SmallStep == Block([id |-> Num(2), name |-> Text("t")],
                   [command |-> FlatBlock([id |-> Num(2), type |-> Text("Custom")])], <<>>)

FullMission ==
  Block([id |-> Num(1), name |-> Text("m"), description |-> Text("d"), version |-> Text("1"),
         author |-> Text("a")], <<>>, <<FullStep, SmallStep>>)

\* The document as lines.
Ordered(S) == FoldSet(LAMBDA x, out : Append(out, x), <<>>, S)

FieldLines(fields, indent) ==
  LET keys == Ordered(DOMAIN fields) IN
  [i \in DOMAIN keys |-> YamlLine(indent, FALSE, keys[i], {fields[keys[i]]})]

RECURSIVE BlockLines(_, _)

BlockLines(blocks, indent) ==
  LET names == Ordered(DOMAIN blocks) IN
  FlattenSeq([i \in DOMAIN names |->
    <<YamlLine(indent, FALSE, names[i], {})>> \o FieldLines(blocks[names[i]].fields, indent + 2)
      \o BlockLines(blocks[names[i]].blocks, indent + 2)])

ItemLines(b, indent) ==
  LET body == FieldLines(b.fields, indent + 2) \o BlockLines(b.blocks, indent + 2) IN
  [body EXCEPT ![1].indent = indent, ![1].dash = TRUE]

ListLines(name, items, indent) ==
  IF items = <<>> THEN <<>>
  ELSE <<YamlLine(indent, FALSE, name, {})>> \o FlattenSeq(items)

StepLines(b) ==
  ItemLines(b, 2) \o ListLines("conditions", [i \in DOMAIN b.lists |-> ItemLines(b.lists[i], 6)], 4)

MissionLines(m) ==
  FieldLines(m.fields, 0) \o BlockLines(m.blocks, 0)
    \o ListLines("steps", [i \in DOMAIN m.lists |-> StepLines(m.lists[i])], 0)

EdgeScalars ==
  {Num(0), Num(-1), Num(UInt32Max + 1), Num(Int64Max), Num(Int64Max + 1), Num(UInt64Max),
   Num(UInt64Max + 1), Fraction(1), Bool(FALSE), Text("true"), Text("High"), Quoted(7)}

Without(f, key) == [k \in DOMAIN f \ {key} |-> f[k]]

EditedFields(fields) ==
  {Without(fields, key) : key \in DOMAIN fields} \cup
  {[fields EXCEPT ![key] = s] : key \in DOMAIN fields, s \in EdgeScalars} \cup
  {fields @@ (key :> Num(1)) : key \in {"unknown", "mission"}}

RECURSIVE EditedBlocks(_)

\* All blocks one edit away: a field, here or in a nested block, or a block.
EditedBlocks(b) ==
  {[b EXCEPT !.fields = f] : f \in EditedFields(b.fields)} \cup
  {[b EXCEPT !.blocks = Without(@, name)] : name \in DOMAIN b.blocks} \cup
  UNION {{[b EXCEPT !.blocks[name] = e] : e \in EditedBlocks(b.blocks[name])} : name \in DOMAIN b.blocks} \cup
  UNION {{[b EXCEPT !.lists[i] = e] : e \in EditedBlocks(b.lists[i])} : i \in DOMAIN b.lists}

\* An item needs a field for its dash line.
Writable(m) ==
  \A i \in DOMAIN m.lists :
    m.lists[i].fields # <<>> /\ \A j \in DOMAIN m.lists[i].lists : m.lists[i].lists[j].fields # <<>>

\* The document, its lines, whether the lines are still those of the document, and
\* what is read from each.
AsRead(m, json, lines, same) ==
  [document |-> m, lines |-> lines, same |-> same,
   json |-> MissionFromJson(json), yaml |-> MissionFromYaml(lines)]

Written(m) == AsRead(m, m, MissionLines(m), TRUE)

MissionInit == item = Written(FullMission)

EditField ==
  edits = 0 /\ \E m \in {d \in EditedBlocks(item.document) : Writable(d)} : Edited(1, Written(m))

EditLine ==
  edits = 0 /\ \E i \in DOMAIN item.lines :
    LET lines == item.lines
        To(new) == Edited(1, AsRead(item.document, item.document, new, FALSE))
    IN \/ To(RemoveAt(lines, i))
       \/ To(InsertAt(lines, i, lines[i]))
       \/ \E shift \in {-2, -1, 2} :
            lines[i].indent + shift >= 0 /\ To([lines EXCEPT ![i].indent = @ + shift])
       \/ To([lines EXCEPT ![i].dash = ~@])
       \/ To([lines EXCEPT ![i].value = {}])
       \/ To([lines EXCEPT ![i].key = "tab"])

\* The whole document is moved below a "mission" root.
Root ==
  /\ item.lines = MissionLines(item.document)
  /\ item' = AsRead(item.document, Block(<<>>, [mission |-> item.document], <<>>),
                  <<YamlLine(0, FALSE, "mission", {})>> \o LogicalIndent(item.lines, -2), item.same)
  /\ UNCHANGED edits

MissionNext == EditField \/ EditLine \/ Root

RECURSIVE AllScalars(_)

AllScalars(b) ==
  {b.fields[key] : key \in DOMAIN b.fields} \cup
  UNION {AllScalars(b.blocks[name]) : name \in DOMAIN b.blocks} \cup
  UNION {AllScalars(b.lists[i]) : i \in DOMAIN b.lists}

PayloadScalars(m) ==
  UNION {AllScalars(m.lists[i].blocks["command"].blocks["payload"]) :
           i \in {j \in DOMAIN m.lists : "command" \in DOMAIN m.lists[j].blocks
                                           /\ "payload" \in DOMAIN m.lists[j].blocks["command"].blocks}}

\* A double holds its numbers exactly, and of its payload a text does not look like
\* a number or a boolean and no number is the 2^63 that IsInteger lets through.
Portable(m) ==
  /\ \A s \in AllScalars(m) : s.kind = "number" => ToDouble(s.n) = s.n
  /\ \A s \in PayloadScalars(m) :
       IF s.kind = "text" THEN ~s.numeral /\ s.text # "true" ELSE s.n # Int64Max + 1

\* MissionParser: JSON and YAML give a document one meaning.  Where both accept it and
\* it is portable, they read the same mission, field for field, below a root or not.
FormatsAgree ==
  part = "mission" =>
    LET json == item.json
        yaml == item.yaml
    IN item.same /\ json.ok /\ yaml.ok /\ Portable(item.document) => json.v = yaml.v

\* MissionParser: the counts, which are 32 bits wide, are the numbers that were written;
\* a number that does not fit is refused and never cut down.
CountsAreKept ==
  part = "mission" =>
    LET json == item.json
        yaml == item.yaml
        Kept(v) == \A i \in DOMAIN v.lists :
          LET step == item.document.lists[i]
              retry == Or(step.fields, "retry", Num(0))
              policy == IF "retry_policy" \in DOMAIN step.blocks
                        THEN Or(step.blocks["retry_policy"].fields, "max_attempts", Num(1))
                        ELSE Num(1)
          IN /\ ToStep(v.lists[i]).retry = retry.n
             /\ ToStep(v.lists[i]).retryPolicy.maxAttempts = policy.n
    IN /\ json.ok => Kept(json.v)
       /\ yaml.ok /\ item.same => Kept(yaml.v)

\* MissionParser: an accepted YAML document has one step per dash two columns in and one
\* condition per dash six columns in.  No line moves to another list unnoticed.
YamlKeepsItsItems ==
  part = "mission" =>
    LET lines == item.lines
        yaml == item.yaml
        body == IF lines[1].key = "mission" THEN LogicalIndent(Tail(lines), 2) ELSE lines
        Dashes(indent) == Cardinality({i \in DOMAIN body : body[i].dash /\ body[i].indent = indent})
    IN yaml.ok => /\ Len(yaml.v.lists) = Dashes(2)
                  /\ FoldLeft(LAMBDA n, step : n + Len(step.lists), 0, yaml.v.lists) = Dashes(6)

-----------------------------------------------------------------------------
(* Mission values: members of an enabled step differ from their defaults.   *)
Durations == {-1, 1, 2}
Counts == {0, 1, 2, MaxRetry}

ValuesInit == item = MissionStep

ValuesNext ==
  LET To(new) == Edited(3, new) IN
  \/ \E n \in {0, 2} : To([item EXCEPT !.id = n])
  \/ To([item EXCEPT !.name = FALSE])
  \/ \E d \in Durations :
       \/ To([item EXCEPT !.timeout = d]) \/ To([item EXCEPT !.retryPolicy.delay = d])
       \/ To([item EXCEPT !.timeoutPolicy.timeout = d]) \/ To([item EXCEPT !.command.timeout = d])
       \/ To([item EXCEPT !.wait = {d}]) \/ To([item EXCEPT !.delay = {d}])
  \/ \E n \in Counts :
       \/ To([item EXCEPT !.retry = n]) \/ To([item EXCEPT !.retryPolicy.maxAttempts = n])
       \/ To([item EXCEPT !.loopPolicy.iterations = n])
  \/ To([item EXCEPT !.skip = TRUE]) \/ To([item EXCEPT !.abort = TRUE])
  \/ To([item EXCEPT !.command.id = 0]) \/ To([item EXCEPT !.command.type = "Unknown"])
  \/ To([item EXCEPT !.command.priority = "Unknown"])
  \/ \E type \in ConditionTypes \cup {"Unknown"}, comparison \in {"Equal", "LessThan"} :
       To([item EXCEPT !.conditions =
             <<[MissionCondition EXCEPT !.type = type, !.comparison = comparison]>>])
  \/ To([item EXCEPT !.conditions = <<MissionCondition, [MissionCondition EXCEPT !.id = 0]>>])

TheMission ==
  [Mission EXCEPT !.steps = <<[MissionStep EXCEPT !.id = 0, !.enabled = FALSE], item>>]

\* What MissionValidator accepts, MissionExecutor::Start and ExecuteStep accept: the two
\* validity checks are written independently, in MissionValidator.cpp and in the
\* isValid() members.
ValidatedMissionsAreExecutable ==
  part = "values" => (ValidateMission(TheMission) => MissionValid(TheMission) /\ StepValid(item))

\* MissionExecutor: a dispatched command's timeout is the shortest enabled one of the
\* command's, the step's and the timeout policy's, and disabled only when all are.
ShortestTimeoutWins ==
  part = "values" =>
    LET enabled == {t \in {item.timeout, item.timeoutPolicy.timeout, item.command.timeout} : t > 0}
    IN StepValid(item) =>
         PrepareCommand(item).timeout = (IF enabled = {} THEN item.command.timeout ELSE Min(enabled))

\* MissionExecutor: a valid step is attempted at least once and as often as either way
\* of asking for retries says, at the limits of the counter too.
AttemptsFollowEitherCount ==
  part = "values" /\ RetryPolicyValid(item.retryPolicy) =>
    LET n == EffectiveMaxAttempts(item) IN
    /\ n >= 1 /\ n >= item.retryPolicy.maxAttempts /\ n >= item.retry
    /\ n \in {item.retryPolicy.maxAttempts, item.retry, item.retry + 1}
    /\ \A more \in Counts :
         more > item.retry => EffectiveMaxAttempts([item EXCEPT !.retry = more]) >= n

-----------------------------------------------------------------------------
(* Commands: every type with every robot context, or with every payload of  *)
(* a bounded set.                                                           *)
Val(k, n) == [kind |-> k, value |-> n]
PayloadValues == { Val("bool", 1), Val("string", 0), Val("int", -1), Val("int", 0),
                   Val("int", 100), Val("int", 101), Val("double", 0), Val("double", Y!NaN),
                   Val("double", Y!FloatMax + 1) }
PayloadKeys == Y!VelocityKeys \cup Y!AudioKeys \cup {"gesture", "volume", "other"}

\* A payload of at most four keys, each with a value fit for it but for one.
FitValue(key) == IF key \in Y!VelocityKeys THEN Val("double", 0)
                 ELSE IF key = "volume" THEN Val("int", 100) ELSE Val("string", 0)
Payloads ==
  UNION { { [k \in ks |-> IF k = odd THEN v ELSE FitValue(k)] :
              odd \in ks \cup {"none"}, v \in PayloadValues } :
          ks \in { s \in SUBSET PayloadKeys : Cardinality(s) <= 4 } }

\* Batteries around the threshold of 15 percent and the ends of the range.
Contexts ==
  [robotStateAvailable : BOOLEAN, batteryStateAvailable : BOOLEAN,
   capabilitiesAvailable : BOOLEAN, capabilities : {{}, Y!LegacyAdapterDefaults, Y!CommandTypes},
   connected : BOOLEAN, emergencyStop : BOOLEAN, fault : BOOLEAN,
   standing : BOOLEAN, sitting : BOOLEAN, walking : BOOLEAN,
   battery : {-1, 14, 15, 100, 101, Y!NaN}]
Nominal ==
  [robotStateAvailable |-> TRUE, batteryStateAvailable |-> TRUE,
   capabilitiesAvailable |-> TRUE, capabilities |-> Y!CommandTypes,
   connected |-> TRUE, emergencyStop |-> FALSE, fault |-> FALSE,
   standing |-> TRUE, sitting |-> FALSE, walking |-> FALSE, battery |-> 100]
EmptyPayload == [k \in {} |-> Val("bool", 0)]

CommandInit ==
  item \in [type : Y!CommandTypes \cup {"Unknown"}, context : {Nominal}, payload : {EmptyPayload}]

CommandNext ==
  /\ edits = 0
  /\ \/ \E context \in Contexts : Edited(1, [item EXCEPT !.context = context])
     \/ \E payload \in Payloads : Edited(1, [item EXCEPT !.payload = payload])

Request == [id |-> 1, priority |-> 1, timeout |-> 0, timestamp |-> "unset",
            type |-> item.type, payload |-> item.payload]
Verdict(options) == Y!Validate(Request, FALSE, item.context, options)

\* The safe stop path of docs/api/command_model.md: Stop and EmergencyStop pass
\* SafetyValidator whatever the emergency stop, faults, battery and posture are,
\* provided the robot's state and capabilities are known, it is connected and can stop.
StopPathPreserved ==
  /\ part = "command" /\ Y!IsStopCommand(item.type)
  /\ item.context.robotStateAvailable /\ item.context.capabilitiesAvailable
  /\ item.type \in item.context.capabilities /\ item.context.connected
  => Verdict(Y!DefaultOptions) = "Completed"

\* Every other command that passes SafetyValidator finds a connected robot without fault
\* or emergency stop in a consistent posture; an actuator command finds a battery known
\* to be between the threshold and 100 percent; base motion finds the robot standing.
\* A NaN battery level, for which every comparison is false, is no loophole.
PassedOnlyWhenSafe ==
  part = "command" =>
    LET x == item.context IN
    Verdict(Y!DefaultOptions) = "Completed" /\ ~Y!IsStopCommand(item.type) =>
      /\ x.connected /\ ~x.fault /\ ~x.emergencyStop
      /\ ~(x.sitting /\ (x.standing \/ x.walking))
      /\ item.type \in Y!ActuatorCommands => x.batteryStateAvailable /\ x.battery \in 15..100
      /\ item.type \in Y!BaseMotionCommands => x.standing

\* The legacy policy of a dispatcher without a state manager only removes checks: what
\* the default policy lets through, it lets through.
LegacyIsWeaker ==
  part = "command" =>
    (Verdict(Y!DefaultOptions) = "Completed" => Verdict(Y!LegacyOptions) = "Completed")

\* The table "Adapter Mapping" of docs/api/command_model.md.
RequiredKeys(ty) ==
  CASE ty \in {"Walk", "Move", "Velocity"} -> {"linear_x", "linear_y", "angular_z"}
    [] ty = "Rotate" -> {"angular_z"}
    [] ty = "Gesture" -> {"gesture"}
    [] ty = "PlayAudio" -> {"app_name", "stream_id", "pcm_data"}
    [] ty = "StopAudio" -> {"app_name"}
    [] ty = "SetVolume" -> {"volume"}
    [] OTHER -> {}

\* What CommandDispatcher's ValidateCommand admits carries every required key of the
\* table with a value the adapter can convert (a finite number, a string, a volume in
\* [0, 100]), and, audio playback and custom commands apart, nothing else.
AdmittedPayloadIsComplete ==
  part = "command" /\ Y!ValidateCommand(Request) = {"Pending"} =>
    LET payload == item.payload IN
    /\ item.type \in Y!CommandTypes
    /\ RequiredKeys(item.type) \subseteq DOMAIN payload
    /\ item.type \notin {"PlayAudio", "Custom"} => DOMAIN payload = RequiredKeys(item.type)
    /\ \A key \in RequiredKeys(item.type) :
         CASE key = "volume" -> payload[key].kind = "int" /\ payload[key].value \in 0..100
           [] key \in Y!VelocityKeys -> /\ payload[key].kind \in {"int", "double"}
                                        /\ payload[key].value \in -Y!FloatMax..Y!FloatMax
           [] OTHER -> payload[key].kind = "string"

-----------------------------------------------------------------------------
(* ROS 2 messages: complete velocities and single fields with every text, a *)
(* missing field, and a type that does not exist.                           *)
MessageTexts == {"0", "1", "7", "150", "2.5", "nan", "true", "false", "wave"}

Sent(type, payloads) == {[type |-> type, priority |-> "High", payload |-> p] : p \in payloads}

SentMessages ==
  Sent("Velocity", [Y!VelocityKeys -> {"0", "1", "7", "2.5", "nan", "wave"}])
    \cup Sent("Rotate", [{"angular_z"} -> MessageTexts])
    \cup Sent("SetVolume", [{"volume"} -> MessageTexts])
    \cup Sent("StopAudio", [{"app_name"} -> MessageTexts])
    \cup Sent("Gesture", [{"gesture"} -> MessageTexts])
    \cup Sent("Walk", [{"linear_x", "angular_z"} -> {"7"}])
    \cup Sent("Dance", [{"gesture"} -> MessageTexts])

O == INSTANCE ROS2Messages WITH Messages <- SentMessages, HasDispatcher <- TRUE,
       message <- o_message, reply <- o_reply

\* ROS2Bridge: the conversion never makes a payload acceptable that was not.
AcceptedAsMeant == O!AcceptedAsMeant

\* ROS2Bridge: of the commands whose payload is right, those with an ambiguous field (a
\* number 0 or 1, a name that looks like a number) are rejected, and only those.
OnlyAmbiguousLost == O!OnlyAmbiguousLost

-----------------------------------------------------------------------------
(* Planners built from every list of up to two of seven rules, invalid and  *)
(* fallback ones included.                                                  *)
RuleOf(type, priority, commands, fallback) ==
  [goalType |-> type, minimumPriority |-> priority, commands |-> commands, fallback |-> fallback]

Candidates ==
  {RuleOf(type, priority, <<"Stop", "Custom">>, FALSE) :
     type \in {"Command", "Mission"}, priority \in {"Low", "High"}}
  \cup {RuleOf("Command", "Low", <<"Custom">>, FALSE), RuleOf("Command", "Low", <<>>, FALSE),
        RuleOf("Custom", "Low", <<"Stop">>, TRUE)}

PlannedGoals ==
  [id : {2}, type : {"Command", "Custom"}, priority : {"Low", "High", "Critical"}]
  \cup [id : {0, 1, 3, 4, 11, 12}, type : {"Command"}, priority : {"Critical"}]

B == INSTANCE RuleBasedPlanner WITH
       RuleSets <- BoundedSeq(Candidates, 2), Goals <- PlannedGoals, Callers <- {Caller},
       MaxId <- 12, Scale <- 4, MaxCancels <- 1, rules <- b_rules, cancel <- b_cancel,
       plan <- b_plan, requests <- b_requests, cancelled <- b_cancelled

\* RuleBasedPlanner: among the rules that match, the first of those with the greatest
\* minimum priority is chosen, and a fallback rule only when none matches.
SelectsTheBestRule == part = "rules" => B!SelectsTheBestRule

\* RuleBasedPlanner: a valid request that is not cancelled is planned, whatever rules
\* the planner was given, and the plan passes the planner's own validation.
ValidRequestsArePlanned == B!ValidRequestsArePlanned

\* RuleBasedPlanner: the commands of a mission have distinct ids up to the largest goal
\* id, where the scaled seed or the sum would not fit.
CommandIdsAreDistinct == B!CommandIdsAreDistinct

-----------------------------------------------------------------------------
ASSUME MaxRetryAssumption
ASSUME B!ArithmeticAssumption

documentVars == <<item, edits, outOfRange, oVars>>

Unused == [unused |-> TRUE]

DocumentsInit ==
  /\ edits = 0
  /\ CASE part = "json" -> JsonInit
       [] part = "tree" -> TreeInit
       [] part = "mission" -> MissionInit
       [] part = "values" -> ValuesInit
       [] part = "command" -> CommandInit
       [] OTHER -> item = Unused
  /\ outOfRange \in IF part = "mission" THEN {-(Int64Max + 1), Int64Max} ELSE {Int64Max}
  /\ IF part = "messages" THEN O!Init
     ELSE o_message = Unused /\ o_reply = "none"

\* A document is done when its bound is reached.
DocumentsNext ==
  \/ Uses("json") /\ JsonNext /\ UNCHANGED <<oVars, bVars>>
  \/ Uses("tree") /\ TreeNext /\ UNCHANGED <<oVars, bVars>>
  \/ Uses("mission") /\ MissionNext /\ UNCHANGED <<oVars, bVars>>
  \/ Uses("values") /\ ValuesNext /\ UNCHANGED <<oVars, bVars>>
  \/ Uses("command") /\ CommandNext /\ UNCHANGED <<oVars, bVars>>
  \/ Uses("messages") /\ O!Next /\ UNCHANGED <<item, edits, bVars>>
  \/ Uses("rules") /\ B!Next /\ UNCHANGED <<item, edits, oVars>>
  \/ part \in {"json", "tree", "mission", "values", "command"}
     /\ UNCHANGED <<part, documentVars, bVars>>

-----------------------------------------------------------------------------
\* TreeParser: JSON text is accepted exactly when the grammar has it, what was written is
\* what is read, strings and numbers included, and a tree document means the same tree in
\* JSON and in YAML, with nothing dropped.
TreeDocumentsAreFaithful ==
  /\ AcceptsTheGrammar /\ ReadsWhatIsWritten /\ StringsRoundTrip /\ NumbersFollowTheGrammar
  /\ BothFormatsReadTheTree /\ YamlDropsNothing

\* MissionParser and MissionValidator: a mission means the same in JSON and in YAML with
\* its counts and items kept, and one that validates can be executed, under the shortest
\* of its timeouts and the attempts its policies give.
MissionDocumentsAreFaithful ==
  /\ FormatsAgree /\ CountsAreKept /\ YamlKeepsItsItems
  /\ ValidatedMissionsAreExecutable /\ ShortestTimeoutWins /\ AttemptsFollowEitherCount

\* SafetyValidator and ValidateCommand: a stop passes whatever the state of the robot, any
\* other command only in a safe state and with a complete payload, and the legacy policy
\* refuses nothing that the default one lets through.
CommandsAreSafe ==
  StopPathPreserved /\ PassedOnlyWhenSafe /\ LegacyIsWeaker /\ AdmittedPayloadIsComplete

\* ROS2Bridge: parsing a payload makes no command acceptable that was not, and loses only
\* those with an ambiguous field.
PayloadsAreReadAsMeant == AcceptedAsMeant /\ OnlyAmbiguousLost

\* RuleBasedPlanner: the best matching rule is chosen, a valid request is planned whatever
\* the rules are, and the commands of a plan have distinct identifiers.
PlansFollowTheRules == SelectsTheBestRule /\ ValidRequestsArePlanned /\ CommandIdsAreDistinct
=============================================================================
