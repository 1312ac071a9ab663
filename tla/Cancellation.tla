---------------------------- MODULE Cancellation ----------------------------
(***************************************************************************)
(* humanoid::runtime cancellation: sources, tokens, callback registrations  *)
(* and sources linked to a parent, and ExecutionContext::RequestCancellation *)
(* which sets a std::stop_source and a CancellationSource one after the     *)
(* other.  A section under CancellationState::mutex_ is one action; each    *)
(* callback is invoked in a step of its own, by the thread that cancelled.  *)
(***************************************************************************)
EXTENDS Integers, Sequences, FiniteSets

CONSTANTS
  Cancellers,
  Roots, Children,       \* sources without and with a parent
  Parent,                \* parent of each child
  UserCallbacks,             \* user callbacks; each is registered at most once
  MaxRequests            \* bound on RequestCancellation calls per source

Sources == Roots \cup Children

ASSUME CancellationAssumption ==
  /\ Roots \cap Children = {} /\ UserCallbacks \cap Sources = {} /\ "none" \notin Sources
  /\ Parent \in [Children -> Sources] /\ \A c \in Children : Parent[c] # c
  /\ MaxRequests \in Nat

VARIABLES
  cancelled,      \* CancellationState::cancelled_
  callbacks,      \* callbacks_ in registration order; a child stands for its link
  linked,         \* children: "new", "alive" or "destroyed"
  owner,          \* source a user callback was registered with, or "none"
  stop_source,    \* ExecutionContext::cancellation_source_
  toInvoke,       \* callbacks each thread has still to invoke
  request,        \* RequestCancellation in progress: <<source, stop_requested>>
  invoked, unregistered,   \* history: how often invoked; Unregister returned true
  effective, requests      \* history: calls that returned true; calls made

cancellationVars == <<cancelled, callbacks, linked, owner, stop_source, toInvoke, request,
                      invoked, unregistered, effective, requests>>

CancellationInit ==
  /\ cancelled = [s \in Sources |-> FALSE]
  /\ callbacks = [s \in Sources |-> <<>>]
  /\ linked = [c \in Children |-> "new"]
  /\ owner = [c \in UserCallbacks |-> "none"]
  /\ stop_source = [s \in Sources |-> FALSE]
  /\ toInvoke = [t \in Cancellers |-> <<>>]
  /\ request = [t \in Cancellers |-> <<>>]
  /\ invoked = [c \in UserCallbacks |-> 0]
  /\ unregistered = {}
  /\ effective = [s \in Sources |-> 0] /\ requests = [s \in Sources |-> 0]

Idle(t) == toInvoke[t] = <<>> /\ request[t] = <<>>
Exists(s) == s \notin { c \in Children : linked[c] # "alive" }

Holds(q, c) == \E i \in DOMAIN q : q[i] = c

\* Whether a callback is selected for invocation by some thread.
Selected(c) == \E t \in Cancellers : Holds(toInvoke[t], c)

\* What callbacks_ holds after Cancel took the callbacks.
AfterDrain(s) == <<>>

\* CancellationState::Cancel, the locked section: the first caller takes the
\* callbacks; `rest` is what the calling thread does afterwards.
CancelLocked(t, s, rest) ==
  IF cancelled[s]
  THEN toInvoke' = [toInvoke EXCEPT ![t] = rest] /\ UNCHANGED <<cancelled, callbacks>>
  ELSE /\ cancelled' = [cancelled EXCEPT ![s] = TRUE]
       /\ toInvoke' = [toInvoke EXCEPT ![t] = callbacks[s] \o rest]
       /\ callbacks' = [callbacks EXCEPT ![s] = AfterDrain(s)]

Cancel(t, s) ==
  /\ Idle(t) /\ Exists(s) /\ ~cancelled[s]
  /\ CancelLocked(t, s, <<>>)
  /\ UNCHANGED <<linked, owner, stop_source, request, invoked, unregistered, effective, requests>>

\* The link callback: cancels the child while its state is alive.
InvokeLink(t, c) ==
  IF linked[c] = "alive" THEN CancelLocked(t, c, Tail(toInvoke[t]))
  ELSE toInvoke' = [toInvoke EXCEPT ![t] = Tail(@)] /\ UNCHANGED <<cancelled, callbacks>>

\* InvokeSafely of the next callback.
InvokeSafely(t) ==
  /\ toInvoke[t] # <<>>
  /\ LET c == Head(toInvoke[t])
     IN IF c \in Children
          THEN InvokeLink(t, c) /\ UNCHANGED invoked
          ELSE /\ invoked' = [invoked EXCEPT ![c] = @ + 1]
               /\ toInvoke' = [toInvoke EXCEPT ![t] = Tail(@)]
               /\ UNCHANGED <<cancelled, callbacks>>
  /\ UNCHANGED <<linked, owner, stop_source, request, unregistered, effective, requests>>

\* Fault: Register does not look at cancelled_.
RegistersAnyway(t, s, c) ==
  callbacks' = [callbacks EXCEPT ![s] = Append(@, c)] /\ UNCHANGED toInvoke

\* Register: pending, or invoked by the caller when already cancelled.
RegisterLocked(t, s, c) ==
  IF cancelled[s] THEN toInvoke' = [toInvoke EXCEPT ![t] = <<c>>] /\ UNCHANGED callbacks
  ELSE callbacks' = [callbacks EXCEPT ![s] = Append(@, c)] /\ UNCHANGED toInvoke

Register(t, s, c) ==
  /\ Idle(t) /\ Exists(s) /\ owner[c] = "none"
  /\ owner' = [owner EXCEPT ![c] = s]
  /\ RegisterLocked(t, s, c)
  /\ UNCHANGED <<cancelled, linked, stop_source, request, invoked, unregistered, effective,
                 requests>>

\* CancellationSource(parent_token).
CreateLinked(t, c) ==
  /\ Idle(t) /\ linked[c] = "new" /\ Exists(Parent[c])
  /\ linked' = [linked EXCEPT ![c] = "alive"]
  /\ RegisterLocked(t, Parent[c], c)
  /\ UNCHANGED <<cancelled, owner, stop_source, request, invoked, unregistered, effective,
                 requests>>

\* callbacks_.erase(id).
Unlinked(q, c) ==
  IF Holds(q, c)
  THEN LET at == CHOOSE i \in DOMAIN q : q[i] = c
       IN  [k \in 1..(Len(q) - 1) |-> q[IF k < at THEN k ELSE k + 1]]
  ELSE q

\* ~CancellationSource; its state dies with it (no token of it is kept).
DestroyLinked(t, c) ==
  /\ Idle(t) /\ linked[c] = "alive" /\ \A d \in Children : Parent[d] = c => linked[d] # "alive"
  /\ \A d \in UserCallbacks : Selected(d) => owner[d] # c
  /\ linked' = [linked EXCEPT ![c] = "destroyed"]
  /\ callbacks' = [callbacks EXCEPT ![Parent[c]] = Unlinked(@, c), ![c] = <<>>]
  /\ UNCHANGED <<cancelled, owner, stop_source, toInvoke, request, invoked, unregistered, effective,
                 requests>>

\* What callbacks_.erase reports.
Erased(s, c) == Holds(callbacks[s], c)

Unregister(t, c) ==
  /\ Idle(t) /\ owner[c] # "none" /\ c \notin unregistered
  /\ Erased(owner[c], c)
  /\ callbacks' = [callbacks EXCEPT ![owner[c]] = Unlinked(@, c)]
  /\ unregistered' = unregistered \cup {c}
  /\ UNCHANGED <<cancelled, linked, owner, stop_source, toInvoke, request, invoked, effective,
                 requests>>

\* ExecutionContext::RequestCancellation: first the standard stop source,
\* then the runtime source, whose callbacks run before the call returns.
RequestStandardStop(t, s) ==
  /\ Idle(t) /\ s \in Roots /\ requests[s] < MaxRequests
  /\ requests' = [requests EXCEPT ![s] = @ + 1]
  /\ stop_source' = [stop_source EXCEPT ![s] = TRUE]
  /\ request' = [request EXCEPT ![t] = <<s, ~stop_source[s]>>]
  /\ UNCHANGED <<cancelled, callbacks, linked, owner, toInvoke, invoked, unregistered, effective>>

RequestCancel(t) ==
  /\ request[t] # <<>>
  /\ LET s == request[t][1]
     IN /\ CancelLocked(t, s, <<>>)
        /\ effective' = [effective EXCEPT ![s] =
             IF request[t][2] \/ ~cancelled[s] THEN @ + 1 ELSE @]
  /\ request' = [request EXCEPT ![t] = <<>>]
  /\ UNCHANGED <<linked, owner, stop_source, invoked, unregistered, requests>>

CancellationNext == \E t \in Cancellers :
  \/ \E s \in Sources : Cancel(t, s) \/ RequestStandardStop(t, s)
  \/ \E s \in Sources, c \in UserCallbacks : Register(t, s, c)
  \/ \E c \in UserCallbacks : Unregister(t, c)
  \/ \E c \in Children : CreateLinked(t, c) \/ DestroyLinked(t, c)
  \/ InvokeSafely(t) \/ RequestCancel(t)

CancellationSpec == CancellationInit /\ [][CancellationNext]_cancellationVars
CancellationFairSpec ==
  /\ CancellationSpec
  /\ \A t \in Cancellers : /\ WF_cancellationVars(InvokeSafely(t))
                            /\ WF_cancellationVars(RequestCancel(t))

-----------------------------------------------------------------------------
CancellationTypeOK ==
  /\ cancelled \in [Sources -> BOOLEAN] /\ stop_source \in [Sources -> BOOLEAN]
  /\ callbacks \in [Sources -> Seq(UserCallbacks \cup Children)]
  /\ linked \in [Children -> {"new", "alive", "destroyed"}]
  /\ owner \in [UserCallbacks -> Sources \cup {"none"}]
  /\ toInvoke \in [Cancellers -> Seq(UserCallbacks \cup Children)]
  /\ request \in [Cancellers -> {<<>>} \cup (Roots \X BOOLEAN)]
  /\ invoked \in [UserCallbacks -> Nat] /\ unregistered \subseteq UserCallbacks
  /\ effective \in [Sources -> Nat] /\ requests \in [Sources -> Nat]

\* Every registered callback is in exactly one place: pending, selected,
\* invoked once, or unregistered; cancellation, registration and
\* unregistration in any order lose none and invoke none twice.
EachCallbackOnce ==
  \A c \in UserCallbacks : owner[c] # "none" /\ Exists(owner[c]) =>
    /\ invoked[c] + (IF Selected(c) THEN 1 ELSE 0)
         + (IF c \in unregistered THEN 1 ELSE 0)
         + Cardinality({ i \in DOMAIN callbacks[owner[c]] : callbacks[owner[c]][i] = c }) = 1
    /\ Cardinality({ t \in Cancellers : Holds(toInvoke[t], c) }) <= 1

\* Unregister "Return[s] true when a pending callback was removed": such a
\* callback is never invoked.
UnregisteredNeverInvoked ==
  \A c \in unregistered : invoked[c] = 0 /\ ~Selected(c)

\* A cancelled source keeps no callback waiting.
NothingPendingOnceCancelled ==
  \A s \in Sources : cancelled[s] => callbacks[s] = <<>>

\* No user callback twice.
Once(q) == \A i, j \in DOMAIN q : q[i] = q[j] /\ q[i] \in UserCallbacks => i = j

Pending(c) == owner[c] # "none" /\ Holds(callbacks[owner[c]], c)

\* Where a callback can be.
CallbackInv(c) ==
  /\ \A s \in Sources : Holds(callbacks[s], c) => owner[c] = s
  /\ \A t, u \in Cancellers : Holds(toInvoke[t], c) /\ Holds(toInvoke[u], c) => t = u
  /\ owner[c] = "none" => ~Selected(c) /\ invoked[c] = 0 /\ c \notin unregistered
  /\ owner[c] \in Children => linked[owner[c]] # "new"
  /\ Pending(c) => ~Selected(c) /\ invoked[c] = 0 /\ c \notin unregistered
  /\ Selected(c) => invoked[c] = 0 /\ c \notin unregistered
  /\ c \in unregistered => invoked[c] = 0
  /\ invoked[c] \in {0, 1}
  /\ owner[c] # "none" /\ Exists(owner[c]) =>
       Pending(c) \/ Selected(c) \/ invoked[c] = 1 \/ c \in unregistered

CancellationInv ==
  /\ CancellationTypeOK /\ NothingPendingOnceCancelled
  /\ \A s \in Sources : Once(callbacks[s])
  /\ \A t \in Cancellers : Once(toInvoke[t]) /\ (request[t] # <<>> => toInvoke[t] = <<>>)
  /\ \A c \in UserCallbacks : CallbackInv(c)

\* Cancellation of a parent reaches every linked source that stays alive.
ParentReachesChildren ==
  \A c \in Children :
    (linked[c] = "alive" /\ cancelled[Parent[c]]) ~> (cancelled[c] \/ linked[c] = "destroyed")

\* "Cancelling this source does not cancel the parent": a source becomes
\* cancelled by a request of its own or from above, never from below.
NeverUpwards ==
  [][\A c \in Children : (~cancelled[c] /\ cancelled'[c]) =>
       cancelled'[Parent[c]] = cancelled[Parent[c]]]_cancellationVars

\* CancellationSource: a callback is invoked at most once and never after its Unregister
\* returned true, a cancelled source holds none that nobody will invoke, and cancelling a
\* child leaves its parent alone.
CallbacksAreSound ==
  /\ [](NothingPendingOnceCancelled /\ UnregisteredNeverInvoked /\ EachCallbackOnce)
  /\ NeverUpwards

\* Cancellation.h says IsCancelled is "True after Cancel() succeeds or a linked
\* parent is cancelled".
ChildFollowsParent ==
  \A c \in Children : (linked[c] = "alive" /\ cancelled[Parent[c]]) => cancelled[c]

\* ExecutionContext.h says RequestCancellation returns "True only for the first
\* effective cancellation request".
OneEffectiveRequest == \A s \in Sources : effective[s] <= 1
=============================================================================
