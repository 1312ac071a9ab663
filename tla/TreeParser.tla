------------------------------ MODULE TreeParser -------------------------------
(***************************************************************************)
(* The recursive-descent JSON reader that src/mission/MissionParser.cpp    *)
(* and src/bt/TreeParser.cpp each carry a copy of, and the behaviour-tree  *)
(* documents that TreeParser reads with it, and in YAML.                   *)
(*                                                                         *)
(* A JSON document is a sequence of lexemes: punctuation, blanks, literals, *)
(* and strings and numbers that their scanners accept or throw at.  What   *)
(* the two scanners do with characters is modelled by ParseString and      *)
(* ParseNumber, over classes of characters.  A YAML line is its            *)
(* indentation and its text, split into the list dash, the field name and  *)
(* the field's value; "" stands for an absent part.                        *)
(***************************************************************************)
EXTENDS Integers, Sequences, FiniteSets, SequencesExt

CONSTANTS
  Strings,        \* well-formed strings
  Numbers         \* well-formed numbers; any other word makes its scanner throw

Literals == {"true", "false", "null"}

Scalars == Strings \cup Numbers \cup Literals

\* JsonValue: a scalar, an object (a map) or an array.
Scalar(text) == [kind |-> "scalar", text |-> text, members |-> {}, items |-> <<>>]
Object(members) == [kind |-> "object", text |-> "", members |-> members, items |-> <<>>]
Array(items) == [kind |-> "array", text |-> "", members |-> {}, items |-> items]

Parsed(value, at) == [ok |-> TRUE, value |-> value, at |-> at]

ParseError == [ok |-> FALSE, value |-> Scalar("null"), at |-> 0]

SkipWhitespace(d, p) ==
  LET rest == {q \in p..Len(d) : d[q] # " "} IN
  IF rest = {} THEN Len(d) + 1 ELSE CHOOSE q \in rest : \A r \in rest : q <= r

\* The lexeme after blanks, or "" at the end.
Lexeme(d, p) ==
  LET q == SkipWhitespace(d, p) IN IF q > Len(d) THEN "" ELSE d[q]

TryConsume(d, p, expected) == Lexeme(d, p) = expected

RECURSIVE ParseValue(_, _), ParseObject(_, _, _), ParseArray(_, _, _)

\* Fault: a key that is already there is overwritten.
KeepsLast(d, p, members) ==
  LET key == Lexeme(d, p)
      colon == SkipWhitespace(d, p) + 1
      value == ParseValue(d, SkipWhitespace(d, colon) + 1)
      all == {m \in members : m[1] # key} \cup {<<key, value.value>>}
  IN IF key \notin Strings \/ ~TryConsume(d, colon, ":") \/ ~value.ok THEN ParseError
     ELSE IF TryConsume(d, value.at, "}")
          THEN Parsed(Object(all), SkipWhitespace(d, value.at) + 1)
     ELSE IF TryConsume(d, value.at, ",")
          THEN ParseObject(d, SkipWhitespace(d, value.at) + 1, all)
     ELSE ParseError

\* The loop over the members of an object, from a key on.
ParseObject(d, p, members) ==
  LET key == Lexeme(d, p)
      colon == SkipWhitespace(d, p) + 1
      value == ParseValue(d, SkipWhitespace(d, colon) + 1)
      all == members \cup {<<key, value.value>>}
  IN IF \/ key \notin Strings \/ ~TryConsume(d, colon, ":") \/ ~value.ok
        \/ \E m \in members : m[1] = key
     THEN ParseError
     ELSE IF TryConsume(d, value.at, "}")
          THEN Parsed(Object(all), SkipWhitespace(d, value.at) + 1)
     ELSE IF TryConsume(d, value.at, ",")
          THEN ParseObject(d, SkipWhitespace(d, value.at) + 1, all)
     ELSE ParseError

\* The loop over the items of an array.
ParseArray(d, p, items) ==
  LET value == ParseValue(d, p)
      all == Append(items, value.value)
  IN IF ~value.ok THEN ParseError
     ELSE IF TryConsume(d, value.at, "]")
          THEN Parsed(Array(all), SkipWhitespace(d, value.at) + 1)
     ELSE IF TryConsume(d, value.at, ",")
          THEN ParseArray(d, SkipWhitespace(d, value.at) + 1, all)
     ELSE ParseError

ParseValue(d, p) ==
  LET lexeme == Lexeme(d, p)
      after == SkipWhitespace(d, p) + 1
  IN CASE lexeme = "{" -> IF TryConsume(d, after, "}")
                          THEN Parsed(Object({}), SkipWhitespace(d, after) + 1)
                          ELSE ParseObject(d, after, {})
       [] lexeme = "[" -> IF TryConsume(d, after, "]")
                          THEN Parsed(Array(<<>>), SkipWhitespace(d, after) + 1)
                          ELSE ParseArray(d, after, <<>>)
       [] lexeme \in Scalars -> Parsed(Scalar(lexeme), after)
       [] OTHER -> ParseError

Parse(d) ==
  LET value == ParseValue(d, 1) IN
  IF value.ok /\ SkipWhitespace(d, value.at) = Len(d) + 1 THEN value ELSE ParseError

-----------------------------------------------------------------------------
\* Scanners, over classes of characters: "q" is the quote, "b" the backslash,
\* "n" the letter n, "u" the letter u, "x" another letter, "c" a control character.

\* ParseString after the opening quote: what it read, and where it stopped.
ParseString(text) ==
  LET bad == [ok |-> FALSE, out |-> <<>>, at |-> 0]
      RECURSIVE Scan(_, _)
      Scan(p, out) ==
        IF p > Len(text) \/ text[p] = "c" THEN bad
        ELSE IF text[p] = "q" THEN [ok |-> TRUE, out |-> out, at |-> p + 1]
        ELSE IF text[p] # "b" THEN Scan(p + 1, Append(out, text[p]))
        ELSE IF p = Len(text) THEN bad
        ELSE CASE text[p + 1] \in {"q", "b"} -> Scan(p + 2, Append(out, text[p + 1]))
               [] text[p + 1] = "n" -> Scan(p + 2, Append(out, "c"))
               [] OTHER -> bad
  IN Scan(1, <<>>)

\* The first position at or after p that is not a digit.
Digits(text, p) ==
  LET rest == {q \in p..Len(text) : text[q] # "d"} IN
  IF rest = {} THEN Len(text) + 1 ELSE CHOOSE q \in rest : \A r \in rest : q <= r

At(text, p, class) == p <= Len(text) /\ text[p] \in class

\* ParseNumber: sign, digits, fraction and exponent; the scan throws where
\* digits are missing.
ParseNumber(text) ==
  LET start == IF At(text, 1, {"-"}) THEN 2 ELSE 1
      whole == Digits(text, start)
      point == At(text, whole, {"."})
      fraction == IF point THEN Digits(text, whole + 1) ELSE whole
      exponent == At(text, fraction, {"e"})
      power == IF At(text, fraction + 1, {"+", "-"}) THEN fraction + 2 ELSE fraction + 1
      end == IF exponent THEN Digits(text, power) ELSE fraction
  IN [ok |-> whole > start /\ (point => fraction > whole + 1) /\ (exponent => end > power),
      at |-> end]

-----------------------------------------------------------------------------
(* TreeParser: the documents of behaviour trees                            *)

\* TreeNodeDefinition
Node(type, children) == [type |-> type, children |-> children]

\* TreeParseResult: the root of the document, or a failure.
Success(root) == [success |-> TRUE, root |-> root]

Failure == [success |-> FALSE, root |-> Node("", <<>>)]

-----------------------------------------------------------------------------
\* JSON
Keys(object) == {m[1] : m \in object.members}

\* Required / Optional: the member of an object with this key.
Member(object, key) == (CHOOSE m \in object.members : m[1] = key)[2]

IsString(value) == value.kind = "scalar" /\ value.text \in Strings

OneKindOfChildren(object) == ~({"child", "children"} \subseteq Keys(object))

RECURSIVE NodeFromJson(_)

NodeFromJson(value) ==
  LET child == NodeFromJson(Member(value, "child"))
      listed == [i \in DOMAIN Member(value, "children").items |->
                   NodeFromJson(Member(value, "children").items[i])]
      type == Member(value, "type")
  IN IF \/ value.kind # "object" \/ "type" \notin Keys(value)
        \/ ~IsString(type) \/ type.text = "" \/ ~OneKindOfChildren(value)
     THEN Failure
     ELSE IF "child" \in Keys(value)
          THEN IF child.success THEN Success(Node(type.text, <<child.root>>)) ELSE Failure
     ELSE IF "children" \in Keys(value)
          THEN IF /\ Member(value, "children").kind = "array"
                  /\ \A i \in DOMAIN listed : listed[i].success
               THEN Success(Node(type.text, [i \in DOMAIN listed |-> listed[i].root]))
               ELSE Failure
     ELSE Success(Node(type.text, <<>>))

DocumentFromJson(value) ==
  IF value.kind = "object" /\ "root" \in Keys(value)
  THEN NodeFromJson(Member(value, "root")) ELSE Failure

ParseJson(document) ==
  LET value == Parse(document) IN
  IF value.ok THEN DocumentFromJson(value.value) ELSE Failure

-----------------------------------------------------------------------------
\* YAML
Line(indent, dash, field, value) ==
  [indent |-> indent, dash |-> dash, field |-> field, value |-> value]

\* LinesFromYaml drops blank lines and comments and throws at a tab.
LinesFromYaml(document) ==
  [ok |-> \A i \in DOMAIN document : document[i].field # "tab",
   lines |-> SelectSeq(document, LAMBDA line : line.dash \/ line.field # "")]

\* FieldValue throws at an empty value.
HasType(line) == line.field = "type" /\ line.value # ""

Reaches(lines, index, indent) == index <= Len(lines) /\ lines[index].indent >= indent

YamlError == [ok |-> FALSE, node |-> Node("", <<>>), index |-> 0]

RECURSIVE ParseYamlNodeFields(_, _, _, _, _), ParseYamlNodeList(_, _, _, _, _)

ParseYamlNodeBlock(lines, index, indent) ==
  ParseYamlNodeFields(lines, index, indent, Node("", <<>>), FALSE)

\* The fields of a list item that follow its dash line, one level deeper; an item
\* that gave its type on the dash line may have none.
ItemFields(lines, index, indent, bare, child) ==
  IF bare \/ (index <= Len(lines) /\ lines[index].indent > indent)
  THEN ParseYamlNodeFields(lines, index, indent + 2, child, FALSE)
  ELSE [ok |-> TRUE, node |-> child, index |-> index]

ParseYamlNodeList(lines, index, indent, parent, parsedAny) ==
  IF ~Reaches(lines, index, indent) \/ (lines[index].indent = indent /\ ~lines[index].dash)
  THEN [ok |-> parsedAny, node |-> parent, index |-> index]
  ELSE LET line == lines[index]
           bare == line.field = ""
           child == ItemFields(lines, index + 1, indent, bare, Node(line.value, <<>>))
       IN IF line.indent > indent \/ (~bare /\ ~HasType(line)) \/ ~child.ok THEN YamlError
          ELSE ParseYamlNodeList(lines, child.index, indent,
                                 [parent EXCEPT !.children = Append(@, child.node)], TRUE)

AcceptsType(node, line) == node.type = "" /\ HasType(line)

ParseYamlNodeFields(lines, index, indent, node, parsedAny) ==
  IF ~Reaches(lines, index, indent) THEN [ok |-> parsedAny, node |-> node, index |-> index]
  ELSE LET line == lines[index]
           child == ParseYamlNodeBlock(lines, index + 1, indent + 2)
           listed == ParseYamlNodeList(lines, index + 1, indent + 2, node, FALSE)
       IN CASE line.indent > indent \/ line.dash -> YamlError
            [] line.indent = indent /\ ~line.dash /\ AcceptsType(node, line) ->
                 ParseYamlNodeFields(lines, index + 1, indent,
                                     [node EXCEPT !.type = line.value], TRUE)
            [] line.indent = indent /\ ~line.dash /\ line.field = "child" /\ child.ok ->
                 ParseYamlNodeFields(lines, child.index, indent,
                                     [node EXCEPT !.children = Append(@, child.node)], TRUE)
            [] line.indent = indent /\ ~line.dash /\ line.field = "children" /\ listed.ok ->
                 ParseYamlNodeFields(lines, listed.index, indent, listed.node, TRUE)
            [] OTHER -> YamlError

DocumentFromYaml(document) ==
  LET split == LinesFromYaml(document)
      lines == split.lines
      root == ParseYamlNodeBlock(lines, 2, 2)
  IN IF /\ split.ok /\ lines # <<>>
        /\ lines[1].indent = 0 /\ lines[1].field = "root" /\ ~lines[1].dash
        /\ root.ok /\ root.index = Len(lines) + 1
     THEN Success(root.node) ELSE Failure

ParseYaml(document) == DocumentFromYaml(document)
=============================================================================
