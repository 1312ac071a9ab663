------------------------- MODULE CancellationProofs -------------------------
(***************************************************************************)
(* Proofs about Cancellation, for any tree of sources and any number of      *)
(* threads and callbacks: a callback runs once at most and never after it    *)
(* was unregistered, nothing stays registered with a cancelled source, and   *)
(* cancellation never goes from a child to its parent.  What makes it        *)
(* inductive is where a callback can be: with one source, or in the list of  *)
(* one thread that has still to invoke it, and never in both.                *)
(***************************************************************************)
EXTENDS Cancellation, FiniteSetTheorems, TLAPS

\* A sequence is a function on 1 .. Len.
LEMMA LengthFacts ==
  ASSUME NEW S, NEW s \in Seq(S)
  PROVE  /\ Len(s) \in Nat
         /\ s \in [1 .. Len(s) -> S]
         /\ DOMAIN s = 1 .. Len(s)
OBVIOUS

\* The elements of a concatenation (a vector with another inserted at its end).
LEMMA ConcatFacts ==
  ASSUME NEW S, NEW s \in Seq(S), NEW t \in Seq(S)
  PROVE  /\ s \o t \in Seq(S)
         /\ Len(s \o t) = Len(s) + Len(t)
         /\ \A i \in 1 .. Len(s) + Len(t) :
              (s \o t)[i] = IF i <= Len(s) THEN s[i] ELSE t[i - Len(s)]
OBVIOUS

\* What is left of a queue whose front is popped.
LEMMA HeadTailFacts ==
  ASSUME NEW S, NEW s \in Seq(S), s # << >>
  PROVE  /\ Head(s) \in S
         /\ Tail(s) \in Seq(S)
         /\ Len(Tail(s)) = Len(s) - 1
         /\ \A i \in 1 .. Len(Tail(s)) : Tail(s)[i] = s[i + 1]
OBVIOUS

\* The elements of a vector after a push_back.
LEMMA AppendFacts ==
  ASSUME NEW S, NEW s \in Seq(S), NEW e \in S
  PROVE  /\ Append(s, e) \in Seq(S)
         /\ Append(s, e) # << >>
         /\ Len(Append(s, e)) = Len(s) + 1
         /\ \A i \in 1 .. Len(s) : Append(s, e)[i] = s[i]
         /\ Append(s, e)[Len(s) + 1] = e
OBVIOUS

\* The element at an index of a sequence.
LEMMA ElementFacts ==
  ASSUME NEW S, NEW s \in Seq(S), NEW n \in 1 .. Len(s)
  PROVE  s[n] \in S
OBVIOUS

\* What callbacks_ and the lists of callbacks to invoke hold.
Entries == UserCallbacks \cup Children

\* The lists of callbacks: what an empty list and a list of one hold.
LEMMA ListOfOne ==
  /\ <<>> \in Seq(Entries) /\ Once(<<>>) /\ \A c : ~Holds(<<>>, c)
  /\ \A e \in Entries : /\ <<e>> \in Seq(Entries) /\ Once(<<e>>)
                        /\ \A c : Holds(<<e>>, c) <=> c = e
BY DEF Holds, Once

\* callbacks_.emplace: the list holds one entry more.
LEMMA ListAppend ==
  ASSUME NEW q \in Seq(Entries), NEW e \in Entries
  PROVE  /\ Append(q, e) \in Seq(Entries)
         /\ \A c : Holds(Append(q, e), c) <=> Holds(q, c) \/ c = e
         /\ Once(q) /\ (e \in UserCallbacks => ~Holds(q, e)) => Once(Append(q, e))
<1>1. /\ Append(q, e) \in Seq(Entries) /\ Len(q) \in Nat /\ DOMAIN q = 1..Len(q)
      /\ DOMAIN Append(q, e) = 1..(Len(q) + 1)
      /\ \A i \in 1..Len(q) : Append(q, e)[i] = q[i]
      /\ Append(q, e)[Len(q) + 1] = e
  BY AppendFacts, LengthFacts
<1> DEFINE r == Append(q, e)
<1> HIDE DEF r
<1>2. /\ DOMAIN r = 1..(Len(q) + 1) /\ (\A i \in 1..Len(q) : r[i] = q[i]) /\ r[Len(q) + 1] = e
  BY <1>1 DEF r
<1>3. \A i : i \in DOMAIN r <=> i \in DOMAIN q \/ i = Len(q) + 1
  BY <1>1, <1>2
<1>4. \A c : Holds(r, c) <=> Holds(q, c) \/ c = e
  BY <1>1, <1>2, <1>3, Zenon DEF Holds
<1>5. Once(q) /\ (e \in UserCallbacks => ~Holds(q, e)) => Once(r)
  BY <1>1, <1>2, <1>3, Zenon DEF Holds, Once
<1>q. QED BY <1>1, <1>4, <1>5 DEF r

\* The callbacks taken from a source go before what the thread has still to do.
LEMMA ListConcat ==
  ASSUME NEW p \in Seq(Entries), NEW q \in Seq(Entries)
  PROVE  /\ p \o q \in Seq(Entries)
         /\ \A c : Holds(p \o q, c) <=> Holds(p, c) \/ Holds(q, c)
         /\ Once(p) /\ Once(q) /\ (\A c \in UserCallbacks : ~(Holds(p, c) /\ Holds(q, c)))
              => Once(p \o q)
<1> DEFINE r == p \o q
<1>1. /\ r \in Seq(Entries) /\ Len(p) \in Nat /\ Len(q) \in Nat
      /\ DOMAIN p = 1..Len(p) /\ DOMAIN q = 1..Len(q) /\ DOMAIN r = 1..(Len(p) + Len(q))
      /\ \A i \in 1..(Len(p) + Len(q)) : r[i] = IF i <= Len(p) THEN p[i] ELSE q[i - Len(p)]
  BY ConcatFacts, LengthFacts
<1> HIDE DEF r
<1>2. \A i \in DOMAIN p : i \in DOMAIN r /\ r[i] = p[i]
  BY <1>1
<1>3. \A i \in DOMAIN q : Len(p) + i \in DOMAIN r /\ r[Len(p) + i] = q[i]
  BY <1>1
<1>4. ASSUME NEW i \in DOMAIN r
      PROVE  \/ i \in DOMAIN p /\ r[i] = p[i]
             \/ \E j \in DOMAIN q : i = Len(p) + j /\ r[i] = q[j]
  <2>1. CASE i <= Len(p)
    BY <1>1, <2>1
  <2>2. CASE ~(i <= Len(p))
    <3>1. i - Len(p) \in DOMAIN q /\ i = Len(p) + (i - Len(p)) /\ r[i] = q[i - Len(p)]
      BY <1>1, <2>2
    <3>q. QED BY <3>1
  <2>q. QED BY <2>1, <2>2
<1>5. \A c : Holds(r, c) <=> Holds(p, c) \/ Holds(q, c)
  BY <1>2, <1>3, <1>4, Zenon DEF Holds
<1>6. ASSUME Once(p), Once(q), \A c \in UserCallbacks : ~(Holds(p, c) /\ Holds(q, c))
      PROVE  Once(r)
  BY <1>4, <1>6, Zenon DEF Holds, Once
<1>q. QED BY <1>1, <1>5, <1>6 DEF r

\* InvokeSafely takes the first callback.
LEMMA ListTail ==
  ASSUME NEW q \in Seq(Entries), q # <<>>
  PROVE  /\ Tail(q) \in Seq(Entries) /\ Head(q) \in Entries
         /\ \A c : Holds(q, c) <=> c = Head(q) \/ Holds(Tail(q), c)
         /\ Once(q) => Once(Tail(q)) /\ (Head(q) \in UserCallbacks => ~Holds(Tail(q), Head(q)))
<1> DEFINE r == Tail(q)
           h == Head(q)
<1>1. /\ r \in Seq(Entries) /\ h \in Entries /\ Len(q) \in Nat /\ Len(q) >= 1
      /\ DOMAIN q = 1..Len(q) /\ DOMAIN r = 1..(Len(q) - 1)
      /\ h = q[1] /\ \A i \in 1..(Len(q) - 1) : r[i] = q[i + 1]
  BY HeadTailFacts, LengthFacts
<1> HIDE DEF r, h
<1>2. 1 \in DOMAIN q /\ \A i \in DOMAIN r : i + 1 \in DOMAIN q /\ r[i] = q[i + 1] /\ i + 1 # 1
  BY <1>1
<1>3. ASSUME NEW i \in DOMAIN q PROVE i = 1 \/ \E j \in DOMAIN r : i = j + 1 /\ r[j] = q[i]
  <2>1. CASE i # 1
    <3>1. i - 1 \in DOMAIN r /\ i = (i - 1) + 1 /\ r[i - 1] = q[i]
      BY <1>1, <2>1
    <3>q. QED BY <3>1
  <2>q. QED BY <2>1
<1>4. ASSUME NEW c PROVE Holds(q, c) <=> c = h \/ Holds(r, c)
  <2>1. ASSUME Holds(q, c) PROVE c = h \/ Holds(r, c)
    <3>1. PICK i \in DOMAIN q : q[i] = c
      BY <2>1, Zenon DEF Holds
    <3>2. CASE i = 1
      BY <1>1, <3>1, <3>2
    <3>3. CASE i # 1
      BY <1>3, <3>1, <3>3, Zenon DEF Holds
    <3>q. QED BY <3>2, <3>3
  <2>2. ASSUME c = h \/ Holds(r, c) PROVE Holds(q, c)
    BY <1>1, <1>2, <2>2, Zenon DEF Holds
  <2>q. QED BY <2>1, <2>2
<1>5. ASSUME Once(q) PROVE Once(r) /\ (h \in UserCallbacks => ~Holds(r, h))
  <2>1. \A i, j \in DOMAIN r : i + 1 = j + 1 => i = j
    BY <1>1
  <2>2. Once(r)
    BY <1>2, <1>5, <2>1, Zenon DEF Once
  <2>3. h \in UserCallbacks => ~Holds(r, h)
    BY <1>1, <1>2, <1>5, Zenon DEF Once, Holds
  <2>q. QED BY <2>2, <2>3
<1>q. QED BY <1>1, <1>4, <1>5 DEF r, h

\* callbacks_.erase(id) removes that entry and keeps the others.
LEMMA ListUnlinked ==
  ASSUME NEW q \in Seq(Entries), NEW c
  PROVE  /\ Unlinked(q, c) \in Seq(Entries)
         /\ \A d : Holds(Unlinked(q, c), d) => Holds(q, d)
         /\ \A d : d # c /\ Holds(q, d) => Holds(Unlinked(q, c), d)
         /\ Once(q) => Once(Unlinked(q, c)) /\ (c \in UserCallbacks => ~Holds(Unlinked(q, c), c))
<1>0. Len(q) \in Nat /\ DOMAIN q = 1..Len(q) /\ \A k \in 1..Len(q) : q[k] \in Entries
  BY LengthFacts, ElementFacts
<1>1. CASE ~Holds(q, c)
  BY <1>1, Zenon DEF Unlinked
<1>2. CASE Holds(q, c)
  <2> DEFINE at == CHOOSE i \in DOMAIN q : q[i] = c
             of(k) == IF k < at THEN k ELSE k + 1
             r == [k \in 1..(Len(q) - 1) |-> q[of(k)]]
  <2>1. at \in 1..Len(q) /\ q[at] = c
    BY <1>0, <1>2 DEF Holds
  <2>2. Unlinked(q, c) = r
    BY <1>2 DEF Unlinked
  <2> HIDE DEF at
  <2>3. /\ \A k \in 1..(Len(q) - 1) : of(k) \in 1..Len(q) /\ of(k) # at
        /\ \A k, l \in 1..(Len(q) - 1) : of(k) = of(l) => k = l
    BY <1>0, <2>1
  <2>4. ASSUME NEW l \in 1..Len(q), l # at PROVE \E k \in 1..(Len(q) - 1) : of(k) = l
    <3>1. CASE l < at
      BY <3>1, <1>0, <2>1
    <3>2. CASE l > at
      <4>1. l - 1 \in 1..(Len(q) - 1) /\ of(l - 1) = l
        BY <3>2, <1>0, <2>1
      <4>q. QED BY <4>1
    <3>q. QED BY <2>4, <3>1, <3>2, <1>0, <2>1
  <2> HIDE DEF of
  <2>5. /\ r \in Seq(Entries) /\ DOMAIN r = 1..(Len(q) - 1)
        /\ \A k \in 1..(Len(q) - 1) : r[k] = q[of(k)]
    <3>1. DOMAIN r = 1..(Len(q) - 1) /\ \A k \in 1..(Len(q) - 1) : r[k] = q[of(k)]
      OBVIOUS
    <3>2. r \in [1..(Len(q) - 1) -> Entries]
      BY <1>0, <2>3
    <3>3. Len(q) - 1 \in Nat
      BY <1>0, <2>1
    <3>q. QED BY <3>1, <3>2, <3>3
  <2> HIDE DEF r
  <2>6. \A d : Holds(r, d) => Holds(q, d)
    BY <1>0, <2>3, <2>5, Zenon DEF Holds
  <2>7. \A d : d # c /\ Holds(q, d) => Holds(r, d)
    BY <1>0, <2>1, <2>4, <2>5, Zenon DEF Holds
  <2>8. Once(q) => Once(r)
    BY <1>0, <2>3, <2>5, Zenon DEF Once
  <2>9. Once(q) /\ c \in UserCallbacks => ~Holds(r, c)
    BY <1>0, <2>1, <2>3, <2>5, Zenon DEF Once, Holds
  <2>q. QED BY <2>2, <2>5, <2>6, <2>7, <2>8, <2>9
<1>q. QED BY <1>1, <1>2

\* A callback whose places a step leaves alone stays accounted for.
LEMMA Undisturbed ==
  ASSUME NEW c \in UserCallbacks, CallbackInv(c),
         owner'[c] = owner[c], invoked'[c] = invoked[c],
         c \in unregistered' <=> c \in unregistered,
         \A s \in Sources : Holds(callbacks'[s], c) <=> Holds(callbacks[s], c),
         \A t \in Cancellers : Holds(toInvoke'[t], c) <=> Holds(toInvoke[t], c),
         owner[c] \in Sources \cup {"none"},
         Exists(owner[c])' => Exists(owner[c]),
         owner[c] \in Children /\ linked[owner[c]] # "new" => linked'[owner[c]] # "new"
  PROVE  CallbackInv(c)'
<1>1. Selected(c)' <=> Selected(c)
  BY Zenon DEF Selected
<1>2. Pending(c)' <=> Pending(c)
  BY Zenon DEF Pending
<1>3. Exists(owner[c])' => Exists(owner[c])
  OBVIOUS
<1>q. QED BY <1>1, <1>2, <1>3, Zenon DEF CallbackInv

\* Cancel: the callbacks of the source, if it was not cancelled, are now to be invoked by
\* the caller, before the rest of what it has to do.
LEMMA CancelStep ==
  ASSUME CancellationInv, NEW t \in Cancellers, NEW s \in Sources, NEW rest \in Seq(Entries),
         Once(rest), \A c \in UserCallbacks : Holds(rest, c) <=> Holds(toInvoke[t], c),
         CancelLocked(t, s, rest), UNCHANGED <<linked, owner, invoked, unregistered>>
  PROVE  /\ cancelled' \in [Sources -> BOOLEAN]
         /\ callbacks' \in [Sources -> Seq(Entries)]
         /\ toInvoke' \in [Cancellers -> Seq(Entries)]
         /\ NothingPendingOnceCancelled'
         /\ \A r \in Sources : Once(callbacks'[r])
         /\ \A u \in Cancellers : Once(toInvoke'[u])
         /\ \A u \in Cancellers \ {t} : toInvoke'[u] = toInvoke[u]
         /\ \A c \in UserCallbacks : CallbackInv(c)'
<1>0. /\ cancelled \in [Sources -> BOOLEAN] /\ callbacks \in [Sources -> Seq(Entries)]
      /\ toInvoke \in [Cancellers -> Seq(Entries)] /\ NothingPendingOnceCancelled
      /\ owner \in [UserCallbacks -> Sources \cup {"none"}]
      /\ \A r \in Sources : Once(callbacks[r])
      /\ \A u \in Cancellers : Once(toInvoke[u])
      /\ \A c \in UserCallbacks : CallbackInv(c)
  BY Zenon DEF CancellationInv, CancellationTypeOK, Entries
<1>1. CASE cancelled[s]
  <2>1. toInvoke' = [toInvoke EXCEPT ![t] = rest] /\ cancelled' = cancelled /\ callbacks' = callbacks
    BY <1>1, Zenon DEF CancelLocked
  <2>2. toInvoke' \in [Cancellers -> Seq(Entries)] /\ toInvoke'[t] = rest
        /\ \A u \in Cancellers \ {t} : toInvoke'[u] = toInvoke[u]
    BY <1>0, <2>1
  <2>3. \A u \in Cancellers : Once(toInvoke'[u])
    BY <1>0, <2>2, Zenon
  <2>4. ASSUME NEW c \in UserCallbacks PROVE CallbackInv(c)'
    <3>1. \A u \in Cancellers : Holds(toInvoke'[u], c) <=> Holds(toInvoke[u], c)
      BY <2>2, Zenon
    <3>2. Exists(owner[c])' <=> Exists(owner[c])
      BY Zenon DEF Exists
    <3>q. QED BY <1>0, <2>1, <3>1, <3>2, Undisturbed, Zenon
  <2>5. NothingPendingOnceCancelled'
    BY <1>0, <2>1, Zenon DEF NothingPendingOnceCancelled
  <2>q. QED BY <1>0, <2>1, <2>2, <2>3, <2>4, <2>5, Zenon
<1>2. CASE ~cancelled[s]
  <2> DEFINE list == callbacks[s] \o rest
  <2>1. /\ toInvoke' = [toInvoke EXCEPT ![t] = list]
        /\ cancelled' = [cancelled EXCEPT ![s] = TRUE]
        /\ callbacks' = [callbacks EXCEPT ![s] = <<>>]
    BY <1>2, Zenon DEF CancelLocked, AfterDrain
  <2>2. callbacks[s] \in Seq(Entries) /\ Once(callbacks[s])
    BY <1>0
  <2>3. ASSUME NEW c \in UserCallbacks, Holds(callbacks[s], c)
        PROVE  ~Holds(rest, c) /\ Pending(c) /\ owner[c] = s /\ ~Selected(c)
    <3>0. s # "none"
      BY CancellationAssumption
    <3>1. owner[c] = s
      BY <1>0, <2>3, Zenon DEF CallbackInv
    <3>2. Pending(c) /\ ~Selected(c)
      BY <1>0, <2>3, <3>0, <3>1, Zenon DEF CallbackInv, Pending
    <3>q. QED BY <3>1, <3>2, Zenon DEF Selected
  <2>4. /\ list \in Seq(Entries) /\ Once(list)
        /\ \A c : Holds(list, c) <=> Holds(callbacks[s], c) \/ Holds(rest, c)
    BY <2>2, <2>3, ListConcat, Zenon
  <2> HIDE DEF list
  <2>5. /\ toInvoke' \in [Cancellers -> Seq(Entries)] /\ toInvoke'[t] = list
        /\ \A u \in Cancellers \ {t} : toInvoke'[u] = toInvoke[u]
    BY <1>0, <2>1, <2>4
  <2>6. /\ callbacks' \in [Sources -> Seq(Entries)] /\ callbacks'[s] = <<>>
        /\ \A r \in Sources \ {s} : callbacks'[r] = callbacks[r]
    BY <1>0, <2>1
  <2>7. /\ cancelled' \in [Sources -> BOOLEAN]
        /\ \A r \in Sources \ {s} : cancelled'[r] = cancelled[r]
    BY <1>0, <2>1
  <2>8. NothingPendingOnceCancelled'
    BY <1>0, <2>6, <2>7, Zenon DEF NothingPendingOnceCancelled
  <2>9. (\A r \in Sources : Once(callbacks'[r])) /\ \A u \in Cancellers : Once(toInvoke'[u])
    BY <1>0, <2>4, <2>5, <2>6, ListOfOne, Zenon
  <2>10. ASSUME NEW c \in UserCallbacks PROVE CallbackInv(c)'
    <3>0. Exists(owner[c])' <=> Exists(owner[c])
      BY Zenon DEF Exists
    <3>a. ~Holds(callbacks'[s], c)
      BY <2>6 DEF Holds
    <3>1. CASE ~Holds(callbacks[s], c)
      <4>1. \A u \in Cancellers : Holds(toInvoke'[u], c) <=> Holds(toInvoke[u], c)
        BY <2>4, <2>5, <3>1, Zenon
      <4>2. \A r \in Sources : Holds(callbacks'[r], c) <=> Holds(callbacks[r], c)
        BY <2>6, <3>1, <3>a, Zenon
      <4>q. QED BY <1>0, <3>0, <4>1, <4>2, Undisturbed, Zenon
    <3>2. CASE Holds(callbacks[s], c)
      <4>1. Pending(c) /\ owner[c] = s /\ ~Selected(c) /\ CallbackInv(c)
        BY <1>0, <2>3, <3>2, Zenon
      <4>2. /\ \A r \in Sources : ~Holds(callbacks'[r], c)
            /\ \A u \in Cancellers : Holds(toInvoke'[u], c) <=> u = t
        <5>1. \A r \in Sources : Holds(callbacks[r], c) => r = s
          BY <4>1, Zenon DEF CallbackInv
        <5>2. \A u \in Cancellers : ~Holds(toInvoke[u], c)
          BY <4>1, Zenon DEF Selected
        <5>q. QED BY <2>4, <2>5, <2>6, <3>2, <3>a, <5>1, <5>2, Zenon
      <4>3. ~Pending(c)' /\ Selected(c)'
        BY <1>0, <4>1, <4>2, Zenon DEF Pending, Selected
      <4>4. invoked'[c] = 0 /\ c \notin unregistered'
        BY <4>1, Zenon DEF CallbackInv
      <4>5. owner'[c] # "none" /\ (owner'[c] \in Children => linked'[owner'[c]] # "new")
        BY <4>1, CancellationAssumption, Zenon DEF CallbackInv, Pending
      <4>q. QED BY <4>2, <4>3, <4>4, <4>5, Zenon DEF CallbackInv
    <3>q. QED BY <3>1, <3>2
  <2>q. QED BY <2>5, <2>6, <2>7, <2>8, <2>9, <2>10, Zenon
<1>q. QED BY <1>0, <1>1, <1>2, Zenon
\* Register: one entry more, with the source or, when it is cancelled, with the caller.
LEMMA RegisterStep ==
  ASSUME CancellationInv, NEW t \in Cancellers, NEW s \in Sources, NEW e \in Entries,
         toInvoke[t] = <<>>, e \in UserCallbacks => owner[e] = "none",
         RegisterLocked(t, s, e), cancelled' = cancelled
  PROVE  /\ callbacks' \in [Sources -> Seq(Entries)]
         /\ toInvoke' \in [Cancellers -> Seq(Entries)]
         /\ NothingPendingOnceCancelled'
         /\ \A r \in Sources : Once(callbacks'[r])
         /\ \A u \in Cancellers : Once(toInvoke'[u])
         /\ \A u \in Cancellers \ {t} : toInvoke'[u] = toInvoke[u]
         /\ \/ /\ \A r \in Sources : \A d : Holds(callbacks'[r], d) <=> Holds(callbacks[r], d)
               /\ \A u \in Cancellers : \A d :
                    Holds(toInvoke'[u], d) <=> Holds(toInvoke[u], d) \/ (u = t /\ d = e)
            \/ /\ \A u \in Cancellers : \A d : Holds(toInvoke'[u], d) <=> Holds(toInvoke[u], d)
               /\ \A r \in Sources : \A d :
                    Holds(callbacks'[r], d) <=> Holds(callbacks[r], d) \/ (r = s /\ d = e)
<1>0. /\ cancelled \in [Sources -> BOOLEAN] /\ callbacks \in [Sources -> Seq(Entries)]
      /\ toInvoke \in [Cancellers -> Seq(Entries)] /\ NothingPendingOnceCancelled
      /\ \A r \in Sources : Once(callbacks[r])
      /\ \A u \in Cancellers : Once(toInvoke[u])
      /\ \A c \in UserCallbacks : CallbackInv(c)
  BY Zenon DEF CancellationInv, CancellationTypeOK, Entries
<1>1. CASE cancelled[s]
  <2>1. toInvoke' = [toInvoke EXCEPT ![t] = <<e>>] /\ callbacks' = callbacks
    BY <1>1, Zenon DEF RegisterLocked
  <2>2. <<e>> \in Seq(Entries) /\ Once(<<e>>) /\ \A d : Holds(<<e>>, d) <=> d = e
    BY ListOfOne, Zenon
  <2> DEFINE one == <<e>>
  <2> HIDE DEF one
  <2>3. one \in Seq(Entries) /\ toInvoke' = [toInvoke EXCEPT ![t] = one]
    BY <2>1, <2>2 DEF one
  <2>4. /\ toInvoke' \in [Cancellers -> Seq(Entries)] /\ toInvoke'[t] = one
        /\ \A u \in Cancellers \ {t} : toInvoke'[u] = toInvoke[u]
    BY <1>0, <2>3
  <2>5. Once(one) /\ \A d : Holds(one, d) <=> d = e
    BY <2>2, Zenon DEF one
  <2>6. \A d : ~Holds(toInvoke[t], d)
    BY DEF Holds
  <2>7. NothingPendingOnceCancelled'
    BY <1>0, <2>1, Zenon DEF NothingPendingOnceCancelled
  <2>8. \A u \in Cancellers : Once(toInvoke'[u])
    BY <1>0, <2>4, <2>5, Zenon
  <2>9. \A u \in Cancellers : \A d :
          Holds(toInvoke'[u], d) <=> Holds(toInvoke[u], d) \/ (u = t /\ d = e)
    BY <2>4, <2>5, <2>6, Zenon
  <2>q. QED BY <1>0, <2>1, <2>4, <2>7, <2>8, <2>9, Zenon
<1>2. CASE ~cancelled[s]
  <2> DEFINE list == Append(callbacks[s], e)
  <2>1. callbacks' = [callbacks EXCEPT ![s] = list] /\ toInvoke' = toInvoke
    BY <1>2, Zenon DEF RegisterLocked
  <2>2. e \in UserCallbacks => ~Holds(callbacks[s], e)
    BY <1>0, CancellationAssumption, Zenon DEF CallbackInv
  <2>3. /\ list \in Seq(Entries) /\ Once(list)
        /\ \A d : Holds(list, d) <=> Holds(callbacks[s], d) \/ d = e
    <3>1. callbacks[s] \in Seq(Entries) /\ Once(callbacks[s])
      BY <1>0
    <3>q. QED BY <2>2, <3>1, ListAppend, Zenon
  <2> HIDE DEF list
  <2>4. /\ callbacks' \in [Sources -> Seq(Entries)] /\ callbacks'[s] = list
        /\ \A r \in Sources \ {s} : callbacks'[r] = callbacks[r]
    BY <1>0, <2>1, <2>3
  <2>5. NothingPendingOnceCancelled'
    BY <1>0, <1>2, <2>4, Zenon DEF NothingPendingOnceCancelled
  <2>6. \A r \in Sources : Once(callbacks'[r])
    BY <1>0, <2>3, <2>4, Zenon
  <2>7. \A r \in Sources : \A d :
          Holds(callbacks'[r], d) <=> Holds(callbacks[r], d) \/ (r = s /\ d = e)
    BY <2>3, <2>4, Zenon
  <2>q. QED BY <1>0, <2>1, <2>4, <2>5, <2>6, <2>7, Zenon
<1>q. QED BY <1>1, <1>2, Zenon

\* Cancel and RequestCancel, whose caller has nothing else to invoke.
LEMMA CancelInv ==
  ASSUME CancellationInv, NEW t \in Cancellers, NEW s \in Sources, toInvoke[t] = <<>>,
         CancelLocked(t, s, <<>>), UNCHANGED <<linked, owner, stop_source, invoked, unregistered,
         requests>>, effective' \in [Sources -> Nat],
         request' \in [Cancellers -> {<<>>} \cup (Roots \X BOOLEAN)], request'[t] = <<>>,
         \A u \in Cancellers \ {t} : request'[u] = request[u]
  PROVE  CancellationInv'
<1>1. <<>> \in Seq(Entries) /\ Once(<<>>)
  BY ListOfOne
<1>2. \A c \in UserCallbacks : Holds(<<>>, c) <=> Holds(toInvoke[t], c)
  OBVIOUS
<1>3. /\ cancelled' \in [Sources -> BOOLEAN]
      /\ callbacks' \in [Sources -> Seq(Entries)]
      /\ toInvoke' \in [Cancellers -> Seq(Entries)]
      /\ NothingPendingOnceCancelled'
      /\ \A r \in Sources : Once(callbacks'[r])
      /\ \A u \in Cancellers : Once(toInvoke'[u])
      /\ \A u \in Cancellers \ {t} : toInvoke'[u] = toInvoke[u]
      /\ \A c \in UserCallbacks : CallbackInv(c)'
  BY <1>1, <1>2, CancelStep, Zenon
<1>4. CancellationTypeOK'
  BY <1>3, Zenon DEF CancellationInv, CancellationTypeOK, Entries
<1>5. \A u \in Cancellers : request'[u] # <<>> => toInvoke'[u] = <<>>
  BY <1>3, Zenon DEF CancellationInv
<1>q. QED BY <1>3, <1>4, <1>5, Zenon DEF CancellationInv
\* InvokeSafely: the link callback of a child, dead or alive, or a user callback.
LEMMA InvokeInv ==
  ASSUME CancellationInv, NEW t \in Cancellers, InvokeSafely(t)
  PROVE  CancellationInv'
<1> DEFINE h == Head(toInvoke[t])
           rest == Tail(toInvoke[t])
<1>0. /\ callbacks \in [Sources -> Seq(Entries)] /\ toInvoke \in [Cancellers -> Seq(Entries)]
      /\ NothingPendingOnceCancelled /\ cancelled \in [Sources -> BOOLEAN]
      /\ owner \in [UserCallbacks -> Sources \cup {"none"}] /\ invoked \in [UserCallbacks -> Nat]
      /\ \A r \in Sources : Once(callbacks[r])
      /\ \A u \in Cancellers : Once(toInvoke[u]) /\ (request[u] # <<>> => toInvoke[u] = <<>>)
      /\ \A c \in UserCallbacks : CallbackInv(c)
  BY Zenon DEF CancellationInv, CancellationTypeOK, Entries
<1>1. /\ toInvoke[t] # <<>> /\ request[t] = <<>>
      /\ UNCHANGED <<linked, owner, stop_source, request, unregistered, effective, requests>>
  BY <1>0, Zenon DEF InvokeSafely
<1>2. /\ rest \in Seq(Entries) /\ h \in Entries /\ Once(rest)
      /\ \A c : Holds(toInvoke[t], c) <=> c = h \/ Holds(rest, c)
      /\ h \in UserCallbacks => ~Holds(rest, h)
  <2>1. toInvoke[t] \in Seq(Entries) /\ Once(toInvoke[t])
    BY <1>0
  <2>q. QED BY <1>1, <2>1, ListTail, Zenon
<1>3. IF h \in Children
        THEN InvokeLink(t, h) /\ UNCHANGED invoked
        ELSE /\ invoked' = [invoked EXCEPT ![h] = @ + 1]
             /\ toInvoke' = [toInvoke EXCEPT ![t] = rest]
             /\ UNCHANGED <<cancelled, callbacks>>
  BY Zenon DEF InvokeSafely
<1>4. InvokeLink(t, h) =>
        IF linked[h] = "alive" THEN CancelLocked(t, h, rest)
        ELSE toInvoke' = [toInvoke EXCEPT ![t] = rest] /\ UNCHANGED <<cancelled, callbacks>>
  BY Zenon DEF InvokeLink
<1>5. (\A c \in UserCallbacks : c \notin Children) /\ Children \subseteq Sources
  BY CancellationAssumption DEF Sources
<1> HIDE DEF h, rest
<1>6. \A c \in UserCallbacks : Exists(owner[c])' <=> Exists(owner[c])
  BY <1>1, Zenon DEF Exists
<1>7. CASE h \in Children /\ linked[h] = "alive"
  <2>1. CancelLocked(t, h, rest) /\ invoked' = invoked
    BY <1>3, <1>4, <1>7, Zenon
  <2>2. \A c \in UserCallbacks : Holds(rest, c) <=> Holds(toInvoke[t], c)
    BY <1>2, <1>5, <1>7, Zenon
  <2>3. /\ cancelled' \in [Sources -> BOOLEAN]
        /\ callbacks' \in [Sources -> Seq(Entries)]
        /\ toInvoke' \in [Cancellers -> Seq(Entries)]
        /\ NothingPendingOnceCancelled'
        /\ \A r \in Sources : Once(callbacks'[r])
        /\ \A u \in Cancellers : Once(toInvoke'[u])
        /\ \A u \in Cancellers \ {t} : toInvoke'[u] = toInvoke[u]
        /\ \A c \in UserCallbacks : CallbackInv(c)'
    <3>1. h \in Sources
      BY <1>5, <1>7, Zenon
    <3>q. QED BY <1>1, <1>2, <2>1, <2>2, <3>1, CancelStep, Zenon
  <2>4. CancellationTypeOK'
    BY <1>1, <2>1, <2>3, Zenon DEF CancellationInv, CancellationTypeOK, Entries
  <2>5. \A u \in Cancellers : request'[u] # <<>> => toInvoke'[u] = <<>>
    BY <1>0, <1>1, <2>3, Zenon
  <2>q. QED BY <2>3, <2>4, <2>5, Zenon DEF CancellationInv
<1>8. CASE ~(h \in Children /\ linked[h] = "alive")
  <2>1. toInvoke' = [toInvoke EXCEPT ![t] = rest] /\ UNCHANGED <<cancelled, callbacks>>
    BY <1>3, <1>4, <1>8, Zenon
  <2>2. /\ toInvoke' \in [Cancellers -> Seq(Entries)] /\ toInvoke'[t] = rest
        /\ \A u \in Cancellers \ {t} : toInvoke'[u] = toInvoke[u]
    BY <1>0, <1>2, <2>1
  <2>3. \A u \in Cancellers : Once(toInvoke'[u]) /\ (request'[u] # <<>> => toInvoke'[u] = <<>>)
    BY <1>0, <1>1, <1>2, <2>2, Zenon
  <2>4. /\ invoked' \in [UserCallbacks -> Nat]
        /\ \A c \in UserCallbacks \ {h} : invoked'[c] = invoked[c]
        /\ h \in Children => invoked' = invoked
        /\ h \in UserCallbacks => invoked'[h] = invoked[h] + 1
    BY <1>0, <1>2, <1>3, <1>5 DEF Entries
  <2>5. CancellationTypeOK'
    BY <1>1, <2>1, <2>2, <2>4, Zenon DEF CancellationInv, CancellationTypeOK, Entries
  <2>6. NothingPendingOnceCancelled' /\ \A r \in Sources : Once(callbacks'[r])
    BY <1>0, <2>1, Zenon DEF NothingPendingOnceCancelled
  <2>7. ASSUME NEW c \in UserCallbacks PROVE CallbackInv(c)'
    <3>1. CASE c # h
      <4>1. \A u \in Cancellers : Holds(toInvoke'[u], c) <=> Holds(toInvoke[u], c)
        BY <1>2, <2>2, <3>1, Zenon
      <4>2. invoked'[c] = invoked[c]
        BY <2>4, <3>1, Zenon
      <4>q. QED BY <1>0, <1>1, <1>6, <2>1, <4>1, <4>2, Undisturbed, Zenon
    <3>2. CASE c = h
      <4>1. Holds(toInvoke[t], c) /\ Selected(c) /\ CallbackInv(c)
        BY <1>0, <1>2, <3>2, Zenon DEF Selected
      <4>2. invoked[c] = 0 /\ c \notin unregistered /\ ~Pending(c) /\ owner[c] # "none"
        BY <4>1, Zenon DEF CallbackInv
      <4>3. invoked'[c] = 1
        BY <2>4, <3>2, <4>2
      <4>4. \A u \in Cancellers : ~Holds(toInvoke'[u], c)
        BY <1>2, <2>2, <3>2, <4>1, Zenon DEF CallbackInv
      <4>5. ~Selected(c)' /\ ~Pending(c)' /\ c \notin unregistered' /\ owner'[c] # "none"
        BY <1>1, <2>1, <4>2, <4>4, Zenon DEF Selected, Pending
      <4>6. /\ \A s \in Sources : Holds(callbacks'[s], c) => owner'[c] = s
            /\ owner'[c] \in Children => linked'[owner'[c]] # "new"
        BY <1>1, <2>1, <4>1, Zenon DEF CallbackInv
      <4>7. invoked'[c] \in {0, 1}
        BY <4>3
      <4>q. QED BY <4>3, <4>4, <4>5, <4>6, <4>7, Zenon DEF CallbackInv
    <3>q. QED BY <3>1, <3>2
  <2>q. QED BY <2>3, <2>5, <2>6, <2>7, Zenon DEF CancellationInv
<1>q. QED BY <1>7, <1>8
\* Register of a user callback.
LEMMA RegisterInv ==
  ASSUME CancellationInv, NEW t \in Cancellers, NEW s \in Sources, NEW c \in UserCallbacks,
         Register(t, s, c)
  PROVE  CancellationInv'
<1>0. /\ callbacks \in [Sources -> Seq(Entries)] /\ toInvoke \in [Cancellers -> Seq(Entries)]
      /\ NothingPendingOnceCancelled /\ linked \in [Children -> {"new", "alive", "destroyed"}]
      /\ owner \in [UserCallbacks -> Sources \cup {"none"}]
      /\ \A r \in Sources : Once(callbacks[r])
      /\ \A u \in Cancellers : Once(toInvoke[u]) /\ (request[u] # <<>> => toInvoke[u] = <<>>)
      /\ \A d \in UserCallbacks : CallbackInv(d)
  BY Zenon DEF CancellationInv, CancellationTypeOK, Entries
<1>1. /\ toInvoke[t] = <<>> /\ request[t] = <<>> /\ Exists(s) /\ owner[c] = "none"
      /\ owner' = [owner EXCEPT ![c] = s] /\ RegisterLocked(t, s, c)
      /\ UNCHANGED <<cancelled, linked, stop_source, request, invoked, unregistered, effective,
                     requests>>
  BY Zenon DEF Register, Idle
<1>2. c \in Entries /\ s # "none"
  BY CancellationAssumption DEF Entries
<1>3. /\ callbacks' \in [Sources -> Seq(Entries)]
      /\ toInvoke' \in [Cancellers -> Seq(Entries)]
      /\ NothingPendingOnceCancelled'
      /\ \A r \in Sources : Once(callbacks'[r])
      /\ \A u \in Cancellers : Once(toInvoke'[u])
      /\ \A u \in Cancellers \ {t} : toInvoke'[u] = toInvoke[u]
      /\ \/ /\ \A r \in Sources : \A d : Holds(callbacks'[r], d) <=> Holds(callbacks[r], d)
            /\ \A u \in Cancellers : \A d :
                 Holds(toInvoke'[u], d) <=> Holds(toInvoke[u], d) \/ (u = t /\ d = c)
         \/ /\ \A u \in Cancellers : \A d : Holds(toInvoke'[u], d) <=> Holds(toInvoke[u], d)
            /\ \A r \in Sources : \A d :
                 Holds(callbacks'[r], d) <=> Holds(callbacks[r], d) \/ (r = s /\ d = c)
  BY <1>1, <1>2, RegisterStep, Zenon
<1>4. /\ owner' \in [UserCallbacks -> Sources \cup {"none"}] /\ owner'[c] = s
      /\ \A d \in UserCallbacks \ {c} : owner'[d] = owner[d]
  BY <1>0, <1>1
<1>5. CancellationTypeOK'
  BY <1>1, <1>3, <1>4, Zenon DEF CancellationInv, CancellationTypeOK, Entries
<1>6. \A u \in Cancellers : request'[u] # <<>> => toInvoke'[u] = <<>>
  BY <1>0, <1>1, <1>3, Zenon
<1>7. ASSUME NEW d \in UserCallbacks PROVE CallbackInv(d)'
  <2>1. CASE d # c
    <3>1. /\ \A r \in Sources : Holds(callbacks'[r], d) <=> Holds(callbacks[r], d)
          /\ \A u \in Cancellers : Holds(toInvoke'[u], d) <=> Holds(toInvoke[u], d)
      BY <1>3, <2>1, Zenon
    <3>2. owner'[d] = owner[d] /\ (Exists(owner[d])' <=> Exists(owner[d]))
      BY <1>1, <1>4, <2>1, Zenon DEF Exists
    <3>3. invoked'[d] = invoked[d] /\ unregistered' = unregistered /\ linked' = linked
      BY <1>1, Zenon
    <3>4. owner[d] \in Sources \cup {"none"}
      BY <1>0
    <3>5. CallbackInv(d)
      BY <1>0, Zenon
    <3>q. QED BY <3>1, <3>2, <3>3, <3>4, <3>5, Undisturbed
  <2>2. CASE d = c
    <3>1. /\ CallbackInv(c) /\ ~Selected(c) /\ invoked[c] = 0 /\ c \notin unregistered
      BY <1>0, <1>1, Zenon DEF CallbackInv
    <3>2. /\ \A r \in Sources : ~Holds(callbacks[r], c)
          /\ \A u \in Cancellers : ~Holds(toInvoke[u], c)
      BY <1>1, <1>2, <3>1, CancellationAssumption, Zenon DEF CallbackInv, Selected
    <3>3. s \in Children => linked[s] # "new"
      BY <1>1 DEF Exists
    <3>4. /\ \A r \in Sources : Holds(callbacks'[r], c) => owner'[c] = r
          /\ \A u, v \in Cancellers : Holds(toInvoke'[u], c) /\ Holds(toInvoke'[v], c) => u = v
      BY <1>3, <1>4, <3>2, Zenon
    <3>5. /\ Pending(c)' \/ Selected(c)'
          /\ ~(Pending(c)' /\ Selected(c)')
      BY <1>2, <1>3, <1>4, <3>2, Zenon DEF Pending, Selected
    <3>6. /\ invoked'[c] = 0 /\ c \notin unregistered' /\ invoked'[c] \in {0, 1}
          /\ owner'[c] # "none" /\ (owner'[c] \in Children => linked'[owner'[c]] # "new")
      BY <1>1, <1>2, <1>4, <3>1, <3>3
    <3>7. CallbackInv(c)'
      BY <3>4, <3>5, <3>6, Zenon DEF CallbackInv
    <3>q. QED BY <2>2, <3>7
  <2>q. QED BY <2>1, <2>2
<1>q. QED BY <1>3, <1>5, <1>6, <1>7, Zenon DEF CancellationInv

\* A source linked to its parent is created.
LEMMA CreateInv ==
  ASSUME CancellationInv, NEW t \in Cancellers, NEW c \in Children, CreateLinked(t, c)
  PROVE  CancellationInv'
<1>0. /\ callbacks \in [Sources -> Seq(Entries)] /\ toInvoke \in [Cancellers -> Seq(Entries)]
      /\ NothingPendingOnceCancelled /\ linked \in [Children -> {"new", "alive", "destroyed"}]
      /\ owner \in [UserCallbacks -> Sources \cup {"none"}]
      /\ \A r \in Sources : Once(callbacks[r])
      /\ \A u \in Cancellers : Once(toInvoke[u]) /\ (request[u] # <<>> => toInvoke[u] = <<>>)
      /\ \A d \in UserCallbacks : CallbackInv(d)
  BY Zenon DEF CancellationInv, CancellationTypeOK, Entries
<1>1. /\ toInvoke[t] = <<>> /\ request[t] = <<>> /\ linked[c] = "new"
      /\ linked' = [linked EXCEPT ![c] = "alive"] /\ RegisterLocked(t, Parent[c], c)
      /\ UNCHANGED <<cancelled, owner, stop_source, request, invoked, unregistered, effective,
                     requests>>
  BY Zenon DEF CreateLinked, Idle
<1>2. c \in Entries /\ c \notin UserCallbacks /\ Parent[c] \in Sources
  BY CancellationAssumption DEF Entries, Sources
<1>3. /\ callbacks' \in [Sources -> Seq(Entries)]
      /\ toInvoke' \in [Cancellers -> Seq(Entries)]
      /\ NothingPendingOnceCancelled'
      /\ \A r \in Sources : Once(callbacks'[r])
      /\ \A u \in Cancellers : Once(toInvoke'[u])
      /\ \A u \in Cancellers \ {t} : toInvoke'[u] = toInvoke[u]
      /\ \/ /\ \A r \in Sources : \A d : Holds(callbacks'[r], d) <=> Holds(callbacks[r], d)
            /\ \A u \in Cancellers : \A d :
                 Holds(toInvoke'[u], d) <=> Holds(toInvoke[u], d) \/ (u = t /\ d = c)
         \/ /\ \A u \in Cancellers : \A d : Holds(toInvoke'[u], d) <=> Holds(toInvoke[u], d)
            /\ \A r \in Sources : \A d :
                 Holds(callbacks'[r], d) <=> Holds(callbacks[r], d) \/ (r = Parent[c] /\ d = c)
  BY <1>1, <1>2, RegisterStep, Zenon
<1>4. /\ linked' \in [Children -> {"new", "alive", "destroyed"}] /\ linked'[c] = "alive"
      /\ \A d \in Children \ {c} : linked'[d] = linked[d]
  BY <1>0, <1>1
<1>5. CancellationTypeOK'
  BY <1>1, <1>3, <1>4, Zenon DEF CancellationInv, CancellationTypeOK, Entries
<1>6. \A u \in Cancellers : request'[u] # <<>> => toInvoke'[u] = <<>>
  BY <1>0, <1>1, <1>3, Zenon
<1>7. ASSUME NEW d \in UserCallbacks PROVE CallbackInv(d)'
  <2>1. d # c /\ CallbackInv(d) /\ owner[d] \in Sources \cup {"none"}
    BY <1>0, <1>2
  <2>2. owner[d] # c
    BY <1>1, <2>1, Zenon DEF CallbackInv
  <2>3. /\ \A r \in Sources : Holds(callbacks'[r], d) <=> Holds(callbacks[r], d)
        /\ \A u \in Cancellers : Holds(toInvoke'[u], d) <=> Holds(toInvoke[u], d)
    BY <1>3, <2>1, Zenon
  <2>4. (Exists(owner[d])' <=> Exists(owner[d])) /\ owner'[d] = owner[d]
    BY <1>1, <1>4, <2>2 DEF Exists
  <2>5. owner[d] \in Children => linked'[owner[d]] = linked[owner[d]]
    BY <1>4, <2>2
  <2>6. invoked'[d] = invoked[d] /\ unregistered' = unregistered
    BY <1>1, Zenon
  <2>q. QED BY <2>1, <2>3, <2>4, <2>5, <2>6, Undisturbed
<1>q. QED BY <1>3, <1>5, <1>6, <1>7, Zenon DEF CancellationInv
\* A linked source is destroyed: its link leaves the parent, its callbacks die with it.
LEMMA DestroyInv ==
  ASSUME CancellationInv, NEW t \in Cancellers, NEW c \in Children, DestroyLinked(t, c)
  PROVE  CancellationInv'
<1>0. /\ callbacks \in [Sources -> Seq(Entries)] /\ toInvoke \in [Cancellers -> Seq(Entries)]
      /\ NothingPendingOnceCancelled /\ linked \in [Children -> {"new", "alive", "destroyed"}]
      /\ owner \in [UserCallbacks -> Sources \cup {"none"}]
      /\ \A r \in Sources : Once(callbacks[r])
      /\ \A u \in Cancellers : Once(toInvoke[u]) /\ (request[u] # <<>> => toInvoke[u] = <<>>)
      /\ \A d \in UserCallbacks : CallbackInv(d)
  BY Zenon DEF CancellationInv, CancellationTypeOK, Entries
<1> DEFINE list == Unlinked(callbacks[Parent[c]], c)
<1>1. /\ linked' = [linked EXCEPT ![c] = "destroyed"]
      /\ callbacks' = [callbacks EXCEPT ![Parent[c]] = list, ![c] = <<>>]
      /\ UNCHANGED <<cancelled, owner, stop_source, toInvoke, request, invoked, unregistered,
                     effective, requests>>
  BY Zenon DEF DestroyLinked
<1>2. /\ c \notin UserCallbacks /\ c \in Sources /\ Parent[c] \in Sources /\ Parent[c] # c
  BY CancellationAssumption DEF Sources
<1>3. /\ list \in Seq(Entries) /\ Once(list)
      /\ \A d \in UserCallbacks : Holds(list, d) <=> Holds(callbacks[Parent[c]], d)
  <2>1. callbacks[Parent[c]] \in Seq(Entries) /\ Once(callbacks[Parent[c]])
    BY <1>0, <1>2
  <2>q. QED BY <1>2, <2>1, ListUnlinked, Zenon
<1> HIDE DEF list
<1>4. /\ callbacks' \in [Sources -> Seq(Entries)]
      /\ callbacks'[Parent[c]] = list /\ callbacks'[c] = <<>>
      /\ \A r \in Sources \ {c, Parent[c]} : callbacks'[r] = callbacks[r]
  <2>1. <<>> \in Seq(Entries)
    OBVIOUS
  <2>q. QED BY <1>0, <1>1, <1>2, <1>3, <2>1, Zenon
<1>5. /\ linked' \in [Children -> {"new", "alive", "destroyed"}] /\ linked'[c] = "destroyed"
      /\ \A d \in Children \ {c} : linked'[d] = linked[d]
  BY <1>0, <1>1
<1>6. CancellationTypeOK'
  BY <1>1, <1>4, <1>5, Zenon DEF CancellationInv, CancellationTypeOK, Entries
<1>7. NothingPendingOnceCancelled'
  <2>1. callbacks[Parent[c]] = <<>> => list = <<>>
    BY DEF list, Unlinked, Holds
  <2>2. \A r \in Sources : callbacks[r] = <<>> => callbacks'[r] = <<>>
    BY <1>4, <2>1, Zenon
  <2>q. QED BY <1>0, <1>1, <2>2, Zenon DEF NothingPendingOnceCancelled
<1>8. \A r \in Sources : Once(callbacks'[r])
  <2>1. Once(<<>>)
    BY ListOfOne
  <2>2. Once(callbacks'[c])
    BY <1>4, <2>1
  <2>q. QED BY <1>0, <1>3, <1>4, <2>2, Zenon
<1>9. \A u \in Cancellers : Once(toInvoke'[u]) /\ (request'[u] # <<>> => toInvoke'[u] = <<>>)
  BY <1>0, <1>1, Zenon
<1>10. ASSUME NEW d \in UserCallbacks PROVE CallbackInv(d)'
  <2>0. CallbackInv(d) /\ owner[d] \in Sources \cup {"none"}
    BY <1>0
  <2>1. ~Holds(callbacks'[c], d)
    BY <1>4 DEF Holds
  <2>2. invoked'[d] = invoked[d] /\ unregistered' = unregistered /\ owner' = owner
        /\ toInvoke' = toInvoke
    BY <1>1, Zenon
  <2>3. CASE owner[d] # c
    <3>1. \A r \in Sources : Holds(callbacks'[r], d) <=> Holds(callbacks[r], d)
      BY <1>2, <1>3, <1>4, <2>0, <2>1, <2>3, Zenon DEF CallbackInv
    <3>2. Exists(owner[d])' <=> Exists(owner[d])
      BY <1>5, <2>2, <2>3 DEF Exists
    <3>3. owner[d] \in Children => linked'[owner[d]] = linked[owner[d]]
      BY <1>5, <2>3
    <3>q. QED BY <2>0, <2>2, <3>1, <3>2, <3>3, Undisturbed
  <2>4. CASE owner[d] = c
    <3>1. ~Exists(owner[d])' /\ owner'[d] # "none"
      BY <1>2, <1>5, <2>2, <2>4, CancellationAssumption DEF Exists
    <3>2. \A r \in Sources : ~Holds(callbacks'[r], d)
      BY <1>3, <1>4, <1>2, <2>0, <2>1, <2>4, Zenon DEF CallbackInv
    <3>3. ~Pending(d)' /\ (Selected(d)' <=> Selected(d))
      BY <1>2, <2>2, <2>4, <3>2, Zenon DEF Pending, Selected
    <3>4. linked'[owner'[d]] # "new"
      BY <1>5, <2>2, <2>4
    <3>5. /\ \A u, v \in Cancellers : Holds(toInvoke'[u], d) /\ Holds(toInvoke'[v], d) => u = v
          /\ (Selected(d)' => invoked'[d] = 0 /\ d \notin unregistered')
          /\ (d \in unregistered' => invoked'[d] = 0) /\ invoked'[d] \in {0, 1}
      BY <2>0, <2>2, <3>3, Zenon DEF CallbackInv
    <3>q. QED BY <3>1, <3>2, <3>3, <3>4, <3>5, Zenon DEF CallbackInv
  <2>q. QED BY <2>3, <2>4
<1>q. QED BY <1>6, <1>7, <1>8, <1>9, <1>10, Zenon DEF CancellationInv

\* Unregister that returns true.
LEMMA UnregisterInv ==
  ASSUME CancellationInv, NEW t \in Cancellers, NEW c \in UserCallbacks, Unregister(t, c)
  PROVE  CancellationInv'
<1>0. /\ callbacks \in [Sources -> Seq(Entries)] /\ toInvoke \in [Cancellers -> Seq(Entries)]
      /\ NothingPendingOnceCancelled /\ linked \in [Children -> {"new", "alive", "destroyed"}]
      /\ owner \in [UserCallbacks -> Sources \cup {"none"}]
      /\ \A r \in Sources : Once(callbacks[r])
      /\ \A u \in Cancellers : Once(toInvoke[u]) /\ (request[u] # <<>> => toInvoke[u] = <<>>)
      /\ \A d \in UserCallbacks : CallbackInv(d)
  BY Zenon DEF CancellationInv, CancellationTypeOK, Entries
<1> DEFINE s == owner[c]
           list == Unlinked(callbacks[s], c)
<1>1. /\ s # "none" /\ Holds(callbacks[s], c)
      /\ callbacks' = [callbacks EXCEPT ![s] = list] /\ unregistered' = unregistered \cup {c}
      /\ UNCHANGED <<cancelled, linked, owner, stop_source, toInvoke, request, invoked, effective,
                     requests>>
  BY Zenon DEF Unregister, Erased
<1>2. s \in Sources /\ unregistered \subseteq UserCallbacks
  BY <1>0, <1>1 DEF CancellationInv, CancellationTypeOK
<1>3. /\ list \in Seq(Entries) /\ Once(list) /\ ~Holds(list, c)
      /\ \A d : d # c => (Holds(list, d) <=> Holds(callbacks[s], d))
  <2>1. callbacks[s] \in Seq(Entries) /\ Once(callbacks[s])
    BY <1>0, <1>2
  <2>q. QED BY <2>1, ListUnlinked, Zenon
<1>3a. callbacks[s] = <<>> => list = <<>>
  BY DEF Unlinked, Holds
<1> HIDE DEF list
<1>4. /\ callbacks' \in [Sources -> Seq(Entries)] /\ callbacks'[s] = list
      /\ \A r \in Sources \ {s} : callbacks'[r] = callbacks[r]
  BY <1>0, <1>1, <1>2, <1>3
<1>5. unregistered' \subseteq UserCallbacks
  BY <1>1, <1>2
<1>6. CancellationTypeOK'
  BY <1>1, <1>4, <1>5, Zenon DEF CancellationInv, CancellationTypeOK, Entries
<1>7. NothingPendingOnceCancelled'
  <2>1. \A r \in Sources : callbacks[r] = <<>> => callbacks'[r] = <<>>
    BY <1>3a, <1>4, Zenon
  <2>q. QED BY <1>0, <1>1, <2>1, Zenon DEF NothingPendingOnceCancelled
<1>8. \A r \in Sources : Once(callbacks'[r])
  BY <1>0, <1>3, <1>4, Zenon
<1>9. \A u \in Cancellers : Once(toInvoke'[u]) /\ (request'[u] # <<>> => toInvoke'[u] = <<>>)
  BY <1>0, <1>1, Zenon
<1>10. ASSUME NEW d \in UserCallbacks PROVE CallbackInv(d)'
  <2>0. CallbackInv(d) /\ owner[d] \in Sources \cup {"none"}
    BY <1>0
  <2>1. CASE d # c
    <3>1. \A r \in Sources : Holds(callbacks'[r], d) <=> Holds(callbacks[r], d)
      BY <1>3, <1>4, <2>1, Zenon
    <3>2. (Exists(owner[d])' <=> Exists(owner[d])) /\ owner'[d] = owner[d] /\ linked' = linked
      BY <1>1, Zenon DEF Exists
    <3>3. d \in unregistered' <=> d \in unregistered
      BY <1>1, <2>1
    <3>4. invoked'[d] = invoked[d] /\ toInvoke' = toInvoke
      BY <1>1, Zenon
    <3>q. QED BY <2>0, <3>1, <3>2, <3>3, <3>4, Undisturbed
  <2>2. CASE d = c
    <3>1. CallbackInv(c) /\ Pending(c) /\ ~Selected(c) /\ invoked[c] = 0
      BY <1>1, <2>0, <2>2, Zenon DEF CallbackInv, Pending
    <3>2. \A r \in Sources : ~Holds(callbacks'[r], c)
      BY <1>3, <1>4, <3>1, Zenon DEF CallbackInv
    <3>3. ~Pending(c)' /\ ~Selected(c)'
      BY <1>1, <1>2, <3>1, <3>2, Zenon DEF Pending, Selected
    <3>4. /\ c \in unregistered' /\ invoked'[c] = 0 /\ invoked'[c] \in {0, 1}
          /\ owner'[c] # "none"
      BY <1>1, <3>1
    <3>5. owner'[c] \in Children => linked'[owner'[c]] # "new"
      BY <1>1, <3>1, Zenon DEF CallbackInv
    <3>6. CallbackInv(c)'
      BY <3>2, <3>3, <3>4, <3>5, Zenon DEF CallbackInv, Selected
    <3>q. QED BY <2>2, <3>6
  <2>q. QED BY <2>1, <2>2
<1>q. QED BY <1>6, <1>7, <1>8, <1>9, <1>10, Zenon DEF CancellationInv
\* The first half of RequestCancellation touches the standard stop source only.
LEMMA StopInv ==
  ASSUME CancellationInv, NEW t \in Cancellers, NEW s \in Sources, RequestStandardStop(t, s)
  PROVE  CancellationInv'
<1>1. /\ toInvoke[t] = <<>> /\ s \in Roots
      /\ requests' = [requests EXCEPT ![s] = @ + 1]
      /\ stop_source' = [stop_source EXCEPT ![s] = TRUE]
      /\ request' = [request EXCEPT ![t] = <<s, ~stop_source[s]>>]
      /\ UNCHANGED <<cancelled, callbacks, linked, owner, toInvoke, invoked, unregistered,
                     effective>>
  BY Zenon DEF RequestStandardStop, Idle
<1>2. /\ requests \in [Sources -> Nat] /\ stop_source \in [Sources -> BOOLEAN]
      /\ request \in [Cancellers -> {<<>>} \cup (Roots \X BOOLEAN)]
  BY Zenon DEF CancellationInv, CancellationTypeOK
<1>3. requests' \in [Sources -> Nat] /\ stop_source' \in [Sources -> BOOLEAN]
  BY <1>1, <1>2
<1>4. <<s, ~stop_source[s]>> \in Roots \X BOOLEAN
  BY <1>1, <1>2, Zenon
<1>5. /\ request' \in [Cancellers -> {<<>>} \cup (Roots \X BOOLEAN)]
      /\ \A u \in Cancellers \ {t} : request'[u] = request[u]
  BY <1>1, <1>2, <1>4
<1>6. CancellationTypeOK'
  BY <1>1, <1>3, <1>5, Zenon DEF CancellationInv, CancellationTypeOK
<1>7. \A u \in Cancellers : Once(toInvoke'[u]) /\ (request'[u] # <<>> => toInvoke'[u] = <<>>)
  BY <1>1, <1>5, Zenon DEF CancellationInv
<1>8. NothingPendingOnceCancelled' /\ \A r \in Sources : Once(callbacks'[r])
  BY <1>1, Zenon DEF CancellationInv, NothingPendingOnceCancelled
<1>9. ASSUME NEW c \in UserCallbacks PROVE CallbackInv(c)'
  <2>1. CallbackInv(c) /\ owner[c] \in Sources \cup {"none"}
    BY DEF CancellationInv, CancellationTypeOK
  <2>2. Exists(owner[c])' <=> Exists(owner[c])
    BY <1>1, Zenon DEF Exists
  <2>q. QED BY <1>1, <2>1, <2>2, Undisturbed
<1>q. QED BY <1>6, <1>7, <1>8, <1>9, Zenon DEF CancellationInv

\* Nothing is registered, pending or cancelled at first.
LEMMA CancellationInvInit ==
  ASSUME CancellationInit
  PROVE  CancellationInv
<1>1. CancellationTypeOK
  BY DEF CancellationInit, CancellationTypeOK
<1>2. /\ \A s \in Sources : callbacks[s] = <<>>
      /\ \A t \in Cancellers : toInvoke[t] = <<>> /\ request[t] = <<>>
      /\ \A c \in UserCallbacks : owner[c] = "none" /\ invoked[c] = 0 /\ c \notin unregistered
  BY DEF CancellationInit
<1>3. /\ \A s \in Sources : Once(callbacks[s])
      /\ \A t \in Cancellers : Once(toInvoke[t]) /\ (request[t] # <<>> => toInvoke[t] = <<>>)
  BY <1>2 DEF Once
<1>4. NothingPendingOnceCancelled
  BY <1>2, Zenon DEF NothingPendingOnceCancelled
<1>5. /\ \A s \in Sources : \A c : ~Holds(callbacks[s], c)
      /\ \A t \in Cancellers : \A c : ~Holds(toInvoke[t], c)
  BY <1>2 DEF Holds
<1>6. ASSUME NEW c \in UserCallbacks PROVE CallbackInv(c)
  <2>1. ~Selected(c) /\ ~Pending(c)
    BY <1>2, <1>5, Zenon DEF Selected, Pending
  <2>2. owner[c] \notin Children /\ invoked[c] \in {0, 1}
    BY <1>2, CancellationAssumption DEF Sources
  <2>q. QED BY <1>2, <1>5, <2>1, <2>2, Zenon DEF CallbackInv
<1>q. QED BY <1>1, <1>3, <1>4, <1>6, Zenon DEF CancellationInv

\* Every operation, one case each, keeps the callbacks accounted for.
LEMMA CancellationInvNext ==
  ASSUME CancellationInv, [CancellationNext]_cancellationVars
  PROVE  CancellationInv'
<1>0. CASE UNCHANGED cancellationVars
  BY <1>0, Zenon DEF cancellationVars, CancellationInv, CancellationTypeOK,
     NothingPendingOnceCancelled, CallbackInv, Pending, Selected, Exists
<1>1. ASSUME NEW t \in Cancellers, NEW s \in Sources, Cancel(t, s) PROVE CancellationInv'
  <2>1. /\ toInvoke[t] = <<>> /\ request[t] = <<>> /\ CancelLocked(t, s, <<>>)
        /\ UNCHANGED <<linked, owner, stop_source, request, invoked, unregistered, effective,
                       requests>>
    BY <1>1, Zenon DEF Cancel, Idle
  <2>2. effective' \in [Sources -> Nat] /\ request' = request
        /\ request' \in [Cancellers -> {<<>>} \cup (Roots \X BOOLEAN)]
    BY <2>1, Zenon DEF CancellationInv, CancellationTypeOK
  <2>q. QED BY <2>1, <2>2, CancelInv, Zenon
<1>2. ASSUME NEW t \in Cancellers, RequestCancel(t) PROVE CancellationInv'
  <2> DEFINE s == request[t][1]
  <2>1. /\ request[t] # <<>> /\ toInvoke[t] = <<>> /\ CancelLocked(t, s, <<>>)
        /\ effective' = [effective EXCEPT ![s] =
             IF request[t][2] \/ ~cancelled[s] THEN @ + 1 ELSE @]
        /\ request' = [request EXCEPT ![t] = <<>>]
        /\ UNCHANGED <<linked, owner, stop_source, invoked, unregistered, requests>>
    BY <1>2, Zenon DEF RequestCancel, CancellationInv
  <2>2. /\ effective \in [Sources -> Nat]
        /\ request \in [Cancellers -> {<<>>} \cup (Roots \X BOOLEAN)]
    BY Zenon DEF CancellationInv, CancellationTypeOK
  <2>3. s \in Sources
    <3>1. request[t] \in Roots \X BOOLEAN
      BY <2>1, <2>2
    <3>q. QED BY <3>1 DEF Sources
  <2>4. effective' \in [Sources -> Nat]
    <3>1. \E n \in Nat : effective' = [effective EXCEPT ![s] = n]
      <4>1. effective[s] \in Nat /\ effective[s] + 1 \in Nat
        BY <2>2, <2>3
      <4>2. CASE request[t][2] \/ ~cancelled[s]
        <5>1. effective' = [effective EXCEPT ![s] = effective[s] + 1]
          BY <2>1, <4>2, Zenon
        <5>q. QED BY <4>1, <5>1, Zenon
      <4>3. CASE ~(request[t][2] \/ ~cancelled[s])
        <5>1. effective' = [effective EXCEPT ![s] = effective[s]]
          BY <2>1, <4>3
        <5>q. QED BY <4>1, <5>1, Zenon
      <4>q. QED BY <4>2, <4>3, Zenon
    <3>q. QED BY <2>2, <3>1, Zenon
  <2>5. /\ request' \in [Cancellers -> {<<>>} \cup (Roots \X BOOLEAN)] /\ request'[t] = <<>>
        /\ \A u \in Cancellers \ {t} : request'[u] = request[u]
    BY <2>1, <2>2
  <2>q. QED BY <2>1, <2>3, <2>4, <2>5, CancelInv, Zenon
<1>3. CASE CancellationNext
  BY <1>1, <1>2, <1>3, StopInv, RegisterInv, UnregisterInv, CreateInv, DestroyInv, InvokeInv, Zenon
     DEF CancellationNext
<1>q. QED BY <1>0, <1>3

\* A list that holds a user callback at most once has one place for it, or none.
LEMMA PlacesOfACallback ==
  ASSUME NEW q \in Seq(Entries), Once(q), NEW c \in UserCallbacks
  PROVE  Cardinality({ i \in DOMAIN q : q[i] = c }) = IF Holds(q, c) THEN 1 ELSE 0
<1>1. CASE Holds(q, c)
  <2>1. PICK i \in DOMAIN q : q[i] = c
    BY <1>1, Zenon DEF Holds
  <2>2. { j \in DOMAIN q : q[j] = c } = {i}
    BY <2>1 DEF Once
  <2>q. QED BY <1>1, <2>2, FS_Singleton, Zenon
<1>2. CASE ~Holds(q, c)
  <2>1. { j \in DOMAIN q : q[j] = c } = {}
    BY <1>2 DEF Holds
  <2>q. QED BY <1>2, <2>1, FS_EmptySet, Zenon
<1>q. QED BY <1>1, <1>2

\* The invariant says where every callback is.
LEMMA CallbacksInOnePlace ==
  ASSUME CancellationInv
  PROVE  NothingPendingOnceCancelled /\ UnregisteredNeverInvoked /\ EachCallbackOnce
<1>1. /\ NothingPendingOnceCancelled /\ unregistered \subseteq UserCallbacks
      /\ \A c \in UserCallbacks : CallbackInv(c)
  BY Zenon DEF CancellationInv, CancellationTypeOK
<1>2. UnregisteredNeverInvoked
  BY <1>1 DEF UnregisteredNeverInvoked, CallbackInv
<1>3. ASSUME NEW c \in UserCallbacks, owner[c] # "none", Exists(owner[c])
      PROVE  /\ invoked[c] + (IF Selected(c) THEN 1 ELSE 0)
                  + (IF c \in unregistered THEN 1 ELSE 0)
                  + Cardinality({ i \in DOMAIN callbacks[owner[c]] : callbacks[owner[c]][i] = c }) = 1
             /\ Cardinality({ t \in Cancellers : Holds(toInvoke[t], c) }) <= 1
  <2>1. owner[c] \in Sources /\ callbacks[owner[c]] \in Seq(Entries) /\ Once(callbacks[owner[c]])
    BY <1>3 DEF CancellationInv, CancellationTypeOK, Entries
  <2>2. Cardinality({ i \in DOMAIN callbacks[owner[c]] : callbacks[owner[c]][i] = c })
          = IF Pending(c) THEN 1 ELSE 0
    BY <1>3, <2>1, PlacesOfACallback, Zenon DEF Pending
  <2>3. /\ Pending(c) => ~Selected(c) /\ invoked[c] = 0 /\ c \notin unregistered
        /\ Selected(c) => invoked[c] = 0 /\ c \notin unregistered
        /\ c \in unregistered => invoked[c] = 0
        /\ invoked[c] \in {0, 1}
        /\ Pending(c) \/ Selected(c) \/ invoked[c] = 1 \/ c \in unregistered
    BY <1>1, <1>3, Zenon DEF CallbackInv
  <2>4. Cardinality({ t \in Cancellers : Holds(toInvoke[t], c) }) <= 1
    <3> DEFINE T == { t \in Cancellers : Holds(toInvoke[t], c) }
    <3>1. \A t, u \in T : t = u
      BY <1>1, Zenon DEF CallbackInv
    <3>2. SUFFICES Cardinality(T) <= 1
      OBVIOUS
    <3> HIDE DEF T
    <3>3. CASE T = {}
      BY <3>3, FS_EmptySet
    <3>4. CASE T # {}
      <4>1. PICK t \in T : TRUE
        BY <3>4
      <4>2. T = {t}
        BY <3>1, <4>1
      <4>q. QED BY <4>2, FS_Singleton
    <3>q. QED BY <3>3, <3>4
  <2>q. QED BY <2>2, <2>3, <2>4
<1>4. EachCallbackOnce
  BY <1>3, Zenon DEF EachCallbackOnce
<1>q. QED BY <1>1, <1>2, <1>4

\* A step cancels at most one source.
LEMMA OneSourceAtATime ==
  ASSUME CancellationInv, [CancellationNext]_cancellationVars
  PROVE  \A c \in Children : (~cancelled[c] /\ cancelled'[c]) =>
           cancelled'[Parent[c]] = cancelled[Parent[c]]
<1>0. cancelled \in [Sources -> BOOLEAN]
  BY Zenon DEF CancellationInv, CancellationTypeOK
<1>1. ASSUME NEW t, NEW s, NEW rest, CancelLocked(t, s, rest)
      PROVE  cancelled' = cancelled \/ cancelled' = [cancelled EXCEPT ![s] = TRUE]
  BY <1>1, Zenon DEF CancelLocked
<1>2. ASSUME NEW t, InvokeSafely(t)
      PROVE  cancelled' = cancelled \/ \E s : cancelled' = [cancelled EXCEPT ![s] = TRUE]
  BY <1>1, <1>2, Zenon DEF InvokeSafely, InvokeLink
<1>3. cancelled' = cancelled \/ \E s : cancelled' = [cancelled EXCEPT ![s] = TRUE]
  <2>1. CASE UNCHANGED cancellationVars
    BY <2>1, Zenon DEF cancellationVars
  <2>2. CASE CancellationNext
    BY <1>1, <1>2, <2>2, Zenon DEF CancellationNext, Cancel, RequestStandardStop, Register,
       Unregister, CreateLinked, DestroyLinked, RequestCancel
  <2>q. QED BY <2>1, <2>2
<1>4. ASSUME NEW c \in Children, ~cancelled[c], cancelled'[c]
      PROVE  cancelled'[Parent[c]] = cancelled[Parent[c]]
  <2>1. c \in Sources /\ Parent[c] \in Sources /\ Parent[c] # c
    BY CancellationAssumption DEF Sources
  <2>q. QED BY <1>0, <1>3, <1>4, <2>1
<1>q. QED BY <1>4

\* The invariant of cancellation: every registered callback of a living source is pending with
\* it, taken by one thread, invoked once or unregistered, whatever order Register, Unregister,
\* Cancel and the destructors come in.
THEOREM CancellationInvHolds == CancellationSpec => []CancellationInv
<1>1. CancellationInit => CancellationInv
  BY CancellationInvInit
<1>2. CancellationInv /\ [CancellationNext]_cancellationVars => CancellationInv'
  BY CancellationInvNext
<1>q. QED BY <1>1, <1>2, PTL DEF CancellationSpec

\* CancellationSource, for any tree of linked sources, any callbacks and any threads: a
\* callback is invoked at most once and never after its Unregister returned true, a cancelled
\* source keeps none waiting, and cancelling a child leaves its parent alone.
THEOREM CancellationIsSound == CancellationSpec => CallbacksAreSound
<1>1. CancellationInv =>
        NothingPendingOnceCancelled /\ UnregisteredNeverInvoked /\ EachCallbackOnce
  BY CallbacksInOnePlace
<1>2. CancellationInv /\ [CancellationNext]_cancellationVars =>
        [\A c \in Children : (~cancelled[c] /\ cancelled'[c]) =>
           cancelled'[Parent[c]] = cancelled[Parent[c]]]_cancellationVars
  BY OneSourceAtATime
<1>q. QED BY <1>1, <1>2, CancellationInvHolds, PTL DEF CancellationSpec, CallbacksAreSound, NeverUpwards
=============================================================================
