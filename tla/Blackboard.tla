------------------------------ MODULE Blackboard ------------------------------
(***************************************************************************)
(* humanoid::runtime::Blackboard (src/runtime/Blackboard.cpp): a map of     *)
(* maps under one shared mutex.  A namespace exists in values_ exactly      *)
(* while it holds a key; the flat promise is SharedStore.                   *)
(***************************************************************************)
EXTENDS Naturals, FiniteSets, Functions

CONSTANTS Namespaces, Keys,
          Values    \* stored values, with the type they were stored as

ASSUME ValuesAreTyped == [type |-> "none", value |-> "none"] \notin Values

VARIABLES values,   \* values_, a partial function to partial functions
          answer    \* what the last operation returned, true as one

blackboardVars == <<values, answer>>

Empty == [k \in {} |-> {}]

BlackboardInit == values = Empty /\ answer = 0

With(f, x, y) == [z \in DOMAIN f \cup {x} |-> IF z = x THEN y ELSE f[z]]

Without(f, x) == Restrict(f, DOMAIN f \ {x})

Keyed(n) == IF n \in DOMAIN values THEN values[n] ELSE Empty

\* An empty address or a null value.
StoreRefused == answer' = 0 /\ UNCHANGED values

StoreValue(n, k, v) ==
  /\ values' = With(values, n, With(Keyed(n), k, v))
  /\ answer' = 1

\* insert_or_assign threw: a namespace made for it is taken back, and the caller
\* sees the exception.
StoreThrows(n, k) ==
  /\ values' = LET emplaced == With(values, n, Keyed(n))
               IN  IF n \notin DOMAIN values /\ emplaced[n] = Empty
                   THEN Without(emplaced, n) ELSE emplaced
  /\ answer' = 0

\* A value of another type than the one asked for is not returned.
Get(type, n, k) ==
  IF k \in DOMAIN Keyed(n) /\ values[n][k].type = type THEN {values[n][k]} ELSE {}

Remove(n, k) ==
  IF k \notin DOMAIN Keyed(n) THEN answer' = 0 /\ UNCHANGED values
  ELSE LET rest == Without(values[n], k)
       IN  /\ values' = IF rest = Empty THEN Without(values, n) ELSE With(values, n, rest)
           /\ answer' = 1

\* Fault: the namespaces are counted, not their values.
ClearNamespaceCountsOne(n) ==
  /\ values' = Without(values, n)
  /\ answer' = IF n \in DOMAIN values THEN 1 ELSE 0

ClearNamespace(n) ==
  /\ values' = Without(values, n)
  /\ answer' = Cardinality(DOMAIN Keyed(n))

\* Every size() is added up.
Clear ==
  /\ values' = Empty
  /\ answer' = Cardinality(UNION { {n} \X DOMAIN values[n] : n \in DOMAIN values })

BlackboardNext ==
  \/ StoreRefused
  \/ \E n \in Namespaces, k \in Keys :
       \/ \E v \in Values : StoreValue(n, k, v)
       \/ StoreThrows(n, k)
       \/ Remove(n, k)
  \/ \E n \in Namespaces : ClearNamespace(n)
  \/ Clear

BlackboardSpec == BlackboardInit /\ [][BlackboardNext]_blackboardVars

-----------------------------------------------------------------------------
\* No namespace outlives its last value, also when storing its first one threw:
\* values_ does not grow with names that hold nothing.
NoEmptyNamespace == \A n \in DOMAIN values : values[n] # Empty

Maps(S, T) == UNION { [D -> T] : D \in SUBSET S }
Stored == Maps(Keys, Values)
Boards == Maps(Namespaces, Stored)

\* values_ is a finite map of non-empty finite maps.
BlackboardInv ==
  /\ values \in Boards /\ NoEmptyNamespace
  /\ \A n \in DOMAIN values : IsFiniteSet(DOMAIN values[n])

Types == {v.type : v \in Values}

\* The map of maps read as a flat one, through Get.
FlatStore ==
  [a \in Namespaces \X Keys |->
     IF a[2] \in DOMAIN Keyed(a[1])
     THEN CHOOSE v \in UNION {Get(t, a[1], a[2]) : t \in Types} : TRUE
     ELSE [type |-> "none", value |-> "none"]]

Flat == INSTANCE SharedStore WITH store <- FlatStore

\* Store, Remove and both Clear do to the addressed values, and answer, what a
\* flat map would, whose failed operations change nothing, and a namespace does
\* not outlive its last value.
ImplementsSharedStore == Flat!StoreSpec /\ []NoEmptyNamespace
==============================================================================
