------------------------------ MODULE TreeLoader -------------------------------
(***************************************************************************)
(* Loading a behaviour tree (src/bt/TreeLoader.cpp, TreeValidator.cpp)     *)
(* through the node factory (BehaviorTreeFactory.cpp), while other threads *)
(* register and unregister node types.                                     *)
(*                                                                         *)
(* The validator asks the factory for each node of the document and the    *)
(* builder creates each node, both in preorder and each under the          *)
(* factory's lock for one node only.                                       *)
(***************************************************************************)
EXTENDS Integers, Sequences

CONSTANTS
  Types,          \* node type names
  Documents,      \* parsed documents: preorder sequences of [type, children] nodes,
                  \* children being the number of children; <<>> is a failed parse
  Extensions,     \* file extensions a load may meet
  MaxChanges      \* bound on registrations

EmptyTypeIsMissing == "" \notin Types

\* What a creator makes: a composite, a decorator, a leaf, or nothing (it throws).
Makes == {"composite", "decorator", "leaf", "nothing"}

VARIABLES
  creators,       \* creators_: type -> what its creator makes
  phase,          \* where the load is
  document,       \* the parsed document
  next,           \* the next node to validate or build
  built,          \* nodes built so far: [type, makes, children]
  unregistered,   \* whether a type was removed since the load began
  changes

vars == <<creators, phase, document, next, built, unregistered, changes>>

TypeOK ==
  /\ DOMAIN creators \subseteq Types /\ \A t \in DOMAIN creators : creators[t] \in Makes
  /\ phase \in {"idle", "validating", "building", "loaded", "failed"}
  /\ document \in Documents \cup {<<>>}
  /\ next \in 1..Len(document) + 1
  /\ Len(built) <= Len(document)
  /\ unregistered \in BOOLEAN /\ changes \in 0..MaxChanges

Init ==
  /\ creators = <<>> /\ phase = "idle" /\ document = <<>>
  /\ next = 1 /\ built = <<>> /\ unregistered = FALSE /\ changes = 0

-----------------------------------------------------------------------------
\* BehaviorTreeFactory
Contains(type) == type \in DOMAIN creators

RegisterNode(type, makes) ==
  /\ changes < MaxChanges /\ changes' = changes + 1
  /\ type # "" /\ ~Contains(type)
  /\ creators' = [t \in DOMAIN creators \cup {type} |->
                    IF t = type THEN makes ELSE creators[t]]
  /\ UNCHANGED <<phase, document, next, built, unregistered>>

UnregisterNode(type) ==
  /\ changes < MaxChanges /\ changes' = changes + 1
  /\ Contains(type)
  /\ creators' = [t \in DOMAIN creators \ {type} |-> creators[t]]
  /\ unregistered' = TRUE
  /\ UNCHANGED <<phase, document, next, built>>

\* What CreateNode returns for a type: its creator's product, or nothing.
CreateNode(type) == IF Contains(type) THEN creators[type] ELSE "nothing"

-----------------------------------------------------------------------------

Failed == phase' = "failed" /\ built' = <<>> /\ UNCHANGED <<document, next>>

\* Load: parse the document; parsing does not touch the factory.
Load(d) ==
  /\ phase = "idle"
  /\ \/ /\ d # <<>>
        /\ phase' = "validating" /\ document' = d /\ next' = 1
        /\ built' = <<>>
     \/ d = <<>> /\ Failed
  /\ unregistered' = FALSE
  /\ UNCHANGED <<creators, changes>>

\* LoadFile: only .json, .yaml and .yml files are parsed.
LoadFile(extension, d) ==
  IF extension \in {".json", ".yaml", ".yml"} THEN Load(d)
  ELSE phase = "idle" /\ Failed /\ unregistered' = FALSE /\ UNCHANGED <<creators, changes>>

\* ValidateNode, one node in preorder.
ValidateNode ==
  /\ phase = "validating"
  /\ IF ~Contains(document[next].type) THEN Failed
     ELSE IF next < Len(document)
          THEN next' = next + 1 /\ UNCHANGED <<phase, document, built>>
     ELSE phase' = "building" /\ next' = 1 /\ UNCHANGED <<document, built>>
  /\ UNCHANGED <<creators, unregistered, changes>>

\* Fault: a decorator takes its first child and drops the others.
AnyArity(makes, children) == makes = "leaf" => children = 0

\* Whether a node of this kind can be given that many children.
Accepts(makes, children) ==
  CASE makes = "composite" -> TRUE
    [] makes = "decorator" -> children \in {0, 1}
    [] makes = "leaf" -> children = 0
    [] makes = "nothing" -> FALSE

\* BuildNode, one node in preorder: a failure discards the whole tree.
BuildNode ==
  /\ phase = "building"
  /\ LET node == document[next]
         makes == CreateNode(node.type)
     IN IF ~Accepts(makes, node.children) THEN Failed
        ELSE /\ built' = Append(built, [type |-> node.type, children |-> node.children, makes |-> makes])
             /\ IF next < Len(document) THEN next' = next + 1 /\ phase' = phase
                ELSE phase' = "loaded" /\ next' = next
             /\ UNCHANGED document
  /\ UNCHANGED <<creators, unregistered, changes>>

\* The caller takes the result and may load again.
Taken ==
  /\ phase \in {"loaded", "failed"}
  /\ phase' = "idle" /\ document' = <<>> /\ next' = 1 /\ built' = <<>>
  /\ UNCHANGED <<creators, unregistered, changes>>

Next ==
  \/ \E t \in Types, m \in Makes : RegisterNode(t, m)
  \/ \E t \in Types : UnregisterNode(t)
  \/ \E e \in Extensions, d \in Documents \cup {<<>>} : LoadFile(e, d)
  \/ ValidateNode \/ BuildNode \/ Taken

\* A load runs to its end: its steps take the factory's shared lock only briefly.
Spec == Init /\ [][Next]_vars /\ WF_vars(ValidateNode) /\ WF_vars(BuildNode)

-----------------------------------------------------------------------------
\* A loaded tree is the whole document: one node per definition, each made for
\* its type and able to hold the children it was given, whatever was registered
\* or unregistered while it was being built.
LoadedTreeIsTheDocument ==
  phase = "loaded" =>
    /\ Len(built) = Len(document)
    /\ \A i \in DOMAIN built :
         /\ built[i].type = document[i].type
         /\ built[i].makes = "decorator" => document[i].children <= 1
         /\ built[i].makes \in {"composite", "decorator"} \/ document[i].children = 0

\* Unless a type was unregistered meanwhile, a document that passed validation
\* finds a creator for each of its nodes: construction never meets an unknown type.
ValidatedTypesAreKnown ==
  phase = "building" /\ ~unregistered => Contains(document[next].type)

=============================================================================
