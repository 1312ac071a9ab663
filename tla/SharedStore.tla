----------------------------- MODULE SharedStore -----------------------------
(***************************************************************************)
(* What humanoid::runtime::Blackboard promises: a flat map from addresses   *)
(* (a namespace and a key) to typed values, whose operations answer what    *)
(* they did.  A failed operation changes nothing.                          *)
(***************************************************************************)
EXTENDS Naturals, FiniteSets

CONSTANTS Namespaces, Keys, Values

VARIABLES store,   \* the value at each address; NoValue where there is none
          answer   \* what the last operation returned

NoValue == [type |-> "none", value |-> "none"]

Addresses == Namespaces \X Keys

StoreInit == store = [a \in Addresses |-> NoValue] /\ answer = 0

Held(A) == {a \in A : store[a] # NoValue}

Put(a, v) == answer' = 1 /\ store' = [store EXCEPT ![a] = v]

\* What is removed is counted, and nothing else is touched.
Drop(A) == /\ store' = [a \in Addresses |-> IF a \in A THEN NoValue ELSE store[a]]
           /\ answer' = Cardinality(Held(A))

Refuse == answer' = 0 /\ UNCHANGED store

StoreNext == \/ Refuse
             \/ \E a \in Addresses, v \in Values : Put(a, v)
             \/ \E a \in Addresses : Drop({a})
             \/ \E n \in Namespaces : Drop({n} \X Keys)
             \/ Drop(Addresses)

StoreSpec == StoreInit /\ [][StoreNext]_<<store, answer>>
==============================================================================
