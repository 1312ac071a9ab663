----------------------------- MODULE BehaviorTree -----------------------------
(***************************************************************************)
(* src/bt: the node classes, and one BehaviorTree over them with the world *)
(* its leaves talk to.                                                     *)
(*                                                                         *)
(* The nodes: what Initialize, Tick, Reset and Shutdown of every node      *)
(* class return and do to the node's own state and to its children.        *)
(*                                                                         *)
(* A tree t is a function from node numbers to records                     *)
(*    [kind, kids, arg, arg2, ok]                                          *)
(* with node 1 the root.  kids are the owned children; arg (arg2) is the   *)
(* constructor's number: memory policy, thresholds, counts, durations; ok  *)
(* tells whether the callback, dispatcher or executor was given.           *)
(*                                                                         *)
(* A call runs on an evaluation state s:                                   *)
(*    mem        the members of every node                                 *)
(*    work       the command or mission of a leaf in the dispatcher's      *)
(*               queue or in the mission executor                          *)
(*    cancelled  BTContext::CancellationRequested()                        *)
(*    threw      an exception is propagating                               *)
(* and three observers: ticked (the nodes this call has ticked), aborted   *)
(* (some node answered Aborted), uses (ticks of a node since its parent's  *)
(* last reset).  What the call meets from outside is its oracle o: the     *)
(* answer of every leaf, the check at which a cancellation becomes         *)
(* visible, the leaf during which time passes, the order in which parallel *)
(* children run and whether nodes written by users throw.                  *)
(*                                                                         *)
(* The tree: Initialize, Tick, Reset and Shutdown of BehaviorTree hold     *)
(* mutex_ for their whole run, so each is one action; cancellation, time,  *)
(* the command queue and the mission executor move between (and, through   *)
(* the oracle of a call, during) them.                                     *)
(***************************************************************************)
EXTENDS Integers, Sequences, FiniteSets, SequencesExt

-----------------------------------------------------------------------------
(* The node classes *)

Node(kind, kids, arg, arg2, ok) ==
  [kind |-> kind, kids |-> kids, arg |-> arg, arg2 |-> arg2, ok |-> ok]

SequenceNode(memory_policy, children) == Node("Sequence", children, memory_policy, 0, TRUE)

SelectorNode(memory_policy, children) == Node("Selector", children, memory_policy, 0, TRUE)

ParallelNode(success_threshold, failure_threshold, children) ==
  Node("Parallel", children, success_threshold,
       IF failure_threshold < 1 THEN 1 ELSE failure_threshold, TRUE)

InverterNode(child) == Node("Inverter", child, 0, 0, TRUE)

SucceederNode(child) == Node("Succeeder", child, 0, 0, TRUE)

FailerNode(child) == Node("Failer", child, 0, 0, TRUE)

LimiterNode(max_ticks, child) == Node("Limiter", child, max_ticks, 0, TRUE)

RepeatNode(repeat_count, child) == Node("Repeat", child, repeat_count, 0, TRUE)

RetryNode(max_attempts, child) ==
  Node("Retry", child, IF max_attempts < 1 THEN 1 ELSE max_attempts, 0, TRUE)

TimeoutNode(timeout, child) == Node("Timeout", child, timeout, 0, TRUE)

ActionNode(callback) == Node("Action", <<>>, 0, 0, callback)

ConditionNode(predicate) == Node("Condition", <<>>, 0, 0, predicate)

WaitNode(predicate) == Node("Wait", <<>>, 0, 0, predicate)

DelayNode(duration) == Node("Delay", <<>>, duration, 0, TRUE)

CommandNode(dispatcher) == Node("Command", <<>>, 0, 0, dispatcher)

MissionNode(executor) == Node("Mission", <<>>, 0, 0, executor)

\* A class of the user's: it may answer anything and throw anywhere.
CustomNode == Node("Custom", <<>>, 0, 0, TRUE)

-----------------------------------------------------------------------------

BTStatus == {"Idle", "Running", "Success", "Failure", "Aborted"}

isTerminal(status) == status \in {"Success", "Failure", "Aborted"}

NoTimer == -1

\* A node as its constructor leaves it: current_index_, completed_count_,
\* failed_attempts_ and tick_count_ (count), start_time_ as the time elapsed
\* since then (timer), completed_, satisfied_ and started_ (done), future_ or
\* the executor's status (future), terminal_status_ (latched).
FreshNode ==
  [count |-> 0, timer |-> NoTimer, done |-> FALSE, future |-> "none",
   latched |-> "none"]

FreshState(t) ==
  [mem |-> [n \in DOMAIN t |-> FreshNode],
   work |-> [n \in DOMAIN t |-> "none"],
   uses |-> [n \in DOMAIN t |-> 0],
   cancelled |-> FALSE, threw |-> FALSE, ticked |-> {}, aborted |-> FALSE]

Put(s, n, field, value) == [s EXCEPT !.mem[n][field] = value]

Answer(s, status) == [s |-> s, r |-> status]

Latch(s, n, status) ==
  Answer([s EXCEPT !.mem[n].latched = status, !.mem[n].future = "none",
                   !.mem[n].done = FALSE], status)

\* One unit of steady_clock time: every running timer, up to its limit.
Elapse(t, s) ==
  [s EXCEPT !.mem = [n \in DOMAIN t |->
     IF s.mem[n].timer \in 0..(t[n].arg - 1)
     THEN [s.mem[n] EXCEPT !.timer = @ + 1] ELSE s.mem[n]]]

-----------------------------------------------------------------------------
(* Reset, Shutdown and Initialize *)

\* CommandNode::CancelActiveLocked: dispatcher_->Cancel removes a command that
\* is still queued; one that is executing goes on without its future.
CancelActiveLocked(s, n) ==
  IF s.mem[n].future = "none" THEN s
  ELSE [s EXCEPT !.mem[n].future = "none",
                 !.work[n] = IF @ = "queued" THEN "none" ELSE @]

\* MissionNode::StopActiveLocked: Stop() joins the executor's worker.
StopActiveLocked(s, n) ==
  IF s.mem[n].done
  THEN [s EXCEPT !.mem[n].done = FALSE, !.mem[n].future = "none", !.work[n] = "none"]
  ELSE s

\* What Reset and Shutdown of every class do to the node itself.
OnResetLocked(t, s, n) ==
  CASE t[n].kind = "Command" -> CancelActiveLocked(s, n)
    [] t[n].kind = "Mission" -> StopActiveLocked(s, n)
    [] OTHER -> [s EXCEPT !.mem[n] = FreshNode]

Composites == {"Sequence", "Selector", "Parallel"}

Decorators ==
  {"Inverter", "Succeeder", "Failer", "Limiter", "Repeat", "Retry", "Timeout"}

RECURSIVE Reset(_, _, _, _), ResetAll(_, _, _, _)

\* An exception of one child leaves the later ones as they are.
ResetAll(t, s, kids, o) ==
  IF kids = <<>> \/ s.threw THEN s
  ELSE ResetAll(t, Reset(t, [s EXCEPT !.uses[Head(kids)] = 0], Head(kids), o),
                Tail(kids), o)

Reset(t, s, n, o) ==
  LET own == Put(OnResetLocked(t, s, n), n, "latched", "none")
  IN  IF t[n].kind = "Custom" THEN [own EXCEPT !.threw = o.throws]
      ELSE ResetAll(t, own, t[n].kids, o)

RECURSIVE Shutdown(_, _, _, _), ShutdownAll(_, _, _, _)

\* Exceptions of children are contained, so every child is shut down.
ShutdownAll(t, s, kids, o) ==
  IF kids = <<>> THEN s
  ELSE ShutdownAll(t, [Shutdown(t, s, Head(kids), o) EXCEPT !.threw = FALSE],
                   Tail(kids), o)

Shutdown(t, s, n, o) ==
  LET own == OnResetLocked(t, s, n)
  IN  IF t[n].kind = "Custom" THEN [own EXCEPT !.threw = o.throws]
      ELSE ShutdownAll(t, own, t[n].kids, o)

RECURSIVE Initialize(_, _, _, _), InitializeAll(_, _, _, _)

InitializeAll(t, s, kids, o) ==
  IF kids = <<>> THEN Answer(s, "Idle")
  ELSE LET first == Initialize(t, [s EXCEPT !.uses[Head(kids)] = 0], Head(kids), o)
       IN  IF first.r \in {"Aborted", "Failure", "Throw"} THEN first
           ELSE InitializeAll(t, first.s, Tail(kids), o)

Initialize(t, s, n, o) ==
  LET own == IF t[n].kind \in {"Action", "Condition"} THEN s
             ELSE IF t[n].kind \in {"Command", "Mission"}
                  THEN [s EXCEPT !.mem[n].latched = "none", !.mem[n].done = FALSE]
                  ELSE [s EXCEPT !.mem[n] = FreshNode]
  IN  CASE t[n].kind \in Composites -> InitializeAll(t, own, t[n].kids, o)
        [] t[n].kind \in Decorators ->
             IF t[n].kids = <<>> THEN Answer(own, "Failure")
             ELSE Initialize(t, [own EXCEPT !.uses[t[n].kids[1]] = 0], t[n].kids[1], o)
        [] t[n].kind = "Custom" ->
             IF o.throws THEN Answer([own EXCEPT !.threw = TRUE], "Throw")
             ELSE Answer(own, "Idle")
        [] OTHER -> Answer(own, IF t[n].ok THEN "Idle" ELSE "Failure")

-----------------------------------------------------------------------------
(* Tick *)

\* What a node does to itself when its Tick finds the cancellation: every
\* class but LimiterNode drops its progress.
OnCancel(t, s, n) ==
  IF t[n].kind = "Limiter" THEN s ELSE [s EXCEPT !.mem[n] = FreshNode]

RECURSIVE Tick(_, _, _, _)

RECURSIVE Traverse(_, _, _, _, _, _)

\* SequenceNode (go = Success) and SelectorNode (go = Failure) from child i.
Traverse(t, s, n, o, i, go) ==
  IF i > Len(t[n].kids) THEN Answer(Put(s, n, "count", 0), go)
  ELSE LET child == Tick(t, s, t[n].kids[i], o)
       IN  CASE child.r = go -> Traverse(t, child.s, n, o, i + 1, go)
             [] child.r \in {"Running", "Idle"} ->
                  Answer(Put(child.s, n, "count", IF t[n].arg = 1 THEN i - 1 ELSE 0),
                         "Running")
             [] child.r = "Throw" -> child
             [] OTHER -> Answer(Put(child.s, n, "count", 0), child.r)

TickSequence(t, s, n, o) ==
  Traverse(t, s, n, o, (IF t[n].arg = 1 THEN s.mem[n].count ELSE 0) + 1, "Success")

TickSelector(t, s, n, o) ==
  Traverse(t, s, n, o, (IF t[n].arg = 1 THEN s.mem[n].count ELSE 0) + 1, "Failure")

RECURSIVE TickAll(_, _, _, _, _)

\* The asynchronous child ticks, in the order they happen to run.
TickAll(t, s, kids, o, answers) ==
  IF kids = <<>> THEN [s |-> s, answers |-> answers]
  ELSE LET child == Tick(t, s, Head(kids), o)
       IN  TickAll(t, [child.s EXCEPT !.threw = FALSE], Tail(kids), o,
                   Append(answers, IF child.r = "Throw" THEN "Failure" ELSE child.r))

CountOf(answers, set) == Cardinality({ i \in DOMAIN answers : answers[i] \in set })

TickParallel(t, s, n, o) ==
  LET kids == t[n].kids
      all  == TickAll(t, s, IF o.reversed THEN Reverse(kids) ELSE kids, o, <<>>)
      done == [all.s EXCEPT !.cancelled = @ \/ o.cancelAt = <<n, "leave">>]
      required == IF t[n].arg = 0 \/ t[n].arg > Len(kids) THEN Len(kids) ELSE t[n].arg
  IN  IF kids = <<>> THEN Answer(s, "Success")
      ELSE Answer(done,
             IF CountOf(all.answers, {"Aborted"}) > 0 \/ done.cancelled THEN "Aborted"
             ELSE IF CountOf(all.answers, {"Failure"}) >= t[n].arg2 THEN "Failure"
             ELSE IF CountOf(all.answers, {"Success"}) >= required THEN "Success"
             ELSE IF CountOf(all.answers, {"Running", "Idle"}) > 0 THEN "Running"
             ELSE "Failure")

InverterPolicy(r) ==
  CASE r = "Success" -> "Failure" [] r = "Failure" -> "Success" [] OTHER -> r

SucceederPolicy(r) == IF r \in {"Running", "Aborted", "Throw"} THEN r ELSE "Success"

FailerPolicy(r) == IF r \in {"Running", "Aborted", "Throw"} THEN r ELSE "Failure"

TickLimiter(t, s, n, o) ==
  IF s.mem[n].count >= t[n].arg THEN Answer(s, "Failure")
  ELSE Tick(t, Put(s, n, "count", s.mem[n].count + 1), t[n].kids[1], o)

\* RepeatNode.  completed_count_ is never read when repeat_count_ is zero.
TickRepeat(t, s, n, o) ==
  LET child == Tick(t, s, t[n].kids[1], o)
      count == IF t[n].arg = 0 THEN 0 ELSE s.mem[n].count + 1
      again == Reset(t, [child.s EXCEPT !.mem[n].count = count, !.uses[t[n].kids[1]] = 0],
                     t[n].kids[1], o)
  IN  CASE child.r = "Success" ->
             IF again.threw THEN Answer(again, "Throw")
             ELSE IF t[n].arg # 0 /\ count >= t[n].arg
                  THEN Answer(Put(again, n, "count", 0), "Success")
                  ELSE Answer(again, "Running")
        [] child.r \in {"Failure", "Aborted"} ->
             Answer(Put(child.s, n, "count", 0), child.r)
        [] child.r = "Throw" -> child
        [] OTHER -> Answer(child.s, "Running")

\* Fault: the child is not reset between two attempts.
RetriesWithoutReset(t, s, n, o) ==
  LET child == Tick(t, s, t[n].kids[1], o)
      count == s.mem[n].count + 1
  IN  CASE child.r = "Failure" ->
             IF count >= t[n].arg THEN Answer(Put(child.s, n, "count", 0), "Failure")
             ELSE Answer(Put(child.s, n, "count", count), "Running")
        [] child.r \in {"Success", "Aborted"} ->
             Answer(Put(child.s, n, "count", 0), child.r)
        [] child.r = "Throw" -> child
        [] OTHER -> Answer(child.s, "Running")

TickRetry(t, s, n, o) ==
  LET child == Tick(t, s, t[n].kids[1], o)
      count == s.mem[n].count + 1
      again == Reset(t, [child.s EXCEPT !.mem[n].count = count, !.uses[t[n].kids[1]] = 0],
                     t[n].kids[1], o)
  IN  CASE child.r = "Failure" ->
             IF count >= t[n].arg THEN Answer(Put(child.s, n, "count", 0), "Failure")
             ELSE IF again.threw THEN Answer(again, "Throw") ELSE Answer(again, "Running")
        [] child.r \in {"Success", "Aborted"} ->
             Answer(Put(child.s, n, "count", 0), child.r)
        [] child.r = "Throw" -> child
        [] OTHER -> Answer(child.s, "Running")

TimedOut(t, s, n) ==
  s.mem[n].timer # NoTimer /\ (t[n].arg = 0 \/ s.mem[n].timer >= t[n].arg)

TickTimeout(t, s, n, o) ==
  LET kid == t[n].kids[1]
      started == IF s.mem[n].timer = NoTimer THEN Put(s, n, "timer", 0) ELSE s
      child == Tick(t, started, kid, o)
      Expire(u) == LET v == Reset(t, u, kid, o)
                   IN  IF v.threw THEN Answer(v, "Throw")
                       ELSE Answer(Put(v, n, "timer", NoTimer), "Failure")
  IN  IF TimedOut(t, started, n) THEN Expire(started)
      ELSE CASE child.r \in {"Running", "Idle"} ->
                  IF TimedOut(t, child.s, n) THEN Expire(child.s)
                  ELSE Answer(child.s, "Running")
             [] child.r = "Throw" -> child
             [] OTHER -> Answer(Put(child.s, n, "timer", NoTimer), child.r)

\* ActionNode and ConditionNode: exceptions of the callback become Failure.
TickCallback(t, s, n, o) ==
  IF ~t[n].ok THEN Answer(s, "Failure")
  ELSE Answer(IF o.slow = n THEN Elapse(t, s) ELSE s,
              IF t[n].kind = "Condition" /\ o.leaf[n] # "Success" THEN "Failure"
              ELSE o.leaf[n])

TickWait(t, s, n, o) ==
  IF ~t[n].ok THEN Answer(s, "Failure")
  ELSE IF s.mem[n].done THEN Answer(s, "Success")
  ELSE CASE o.leaf[n] = "Success" -> Answer(Put(s, n, "done", TRUE), "Success")
         [] o.leaf[n] = "Running" -> Answer(s, "Running")
         [] OTHER -> Answer(s, "Failure")

\* DelayNode.  ClearTimer, called when the duration has elapsed, also clears
\* completed_, set on the line before.
TickDelay(t, s, n) ==
  CASE s.mem[n].done -> Answer(s, "Success")
    [] ~s.mem[n].done /\ t[n].arg = 0 -> Answer(Put(s, n, "done", TRUE), "Success")
    [] OTHER -> IF s.mem[n].timer = NoTimer THEN Answer(Put(s, n, "timer", 0), "Running")
                ELSE IF s.mem[n].timer >= t[n].arg
                THEN Answer([s EXCEPT !.mem[n] = FreshNode], "Success")
                ELSE Answer(s, "Running")

FromCommandStatus(status) ==
  CASE status = "Completed" -> "Success"
    [] status = "Cancelled" -> "Aborted"
    [] status = "Failed" -> "Failure"

\* ExecuteAsync: refused while the identifier is outstanding in the queue.
ExecuteAsync(s, n, o) ==
  IF s.work[n] # "none" THEN Put(s, n, "future", "Failed")
  ELSE CASE o.leaf[n] = "Success" -> Put(s, n, "future", "Completed")
         [] o.leaf[n] = "Running" -> [Put(s, n, "future", "pending") EXCEPT !.work[n] = "queued"]
         [] OTHER -> Put(s, n, "future", "Failed")

TickCommand(t, s, n, o) ==
  LET sent == IF s.mem[n].future = "none" THEN ExecuteAsync(s, n, o) ELSE s
  IN  CASE s.mem[n].latched # "none" -> Answer(s, s.mem[n].latched)
        [] s.mem[n].latched = "none" /\ s.cancelled ->
             Latch(CancelActiveLocked(s, n), n, "Aborted")
        [] OTHER -> IF ~t[n].ok THEN Latch(s, n, "Failure")
                    ELSE IF sent.mem[n].future = "pending" THEN Answer(sent, "Running")
                    ELSE Latch(sent, n, FromCommandStatus(sent.mem[n].future))

\* MissionNode.  Start returns Running or an immediate failure; Cancel asks
\* the executor to stop without waiting for it.
TickMission(t, s, n, o) ==
  CASE s.mem[n].latched # "none" -> Answer(s, s.mem[n].latched)
    [] s.mem[n].latched = "none" /\ s.cancelled ->
         LET cancelled == IF s.mem[n].done THEN [s EXCEPT !.work[n] = "cancelling"] ELSE s
         IN  Latch(cancelled, n, "Aborted")
    [] OTHER ->
         IF ~t[n].ok THEN Latch(s, n, "Failure")
         ELSE IF ~s.mem[n].done
         THEN IF s.work[n] = "none" /\ o.leaf[n] = "Running"
              THEN Answer([s EXCEPT !.mem[n].done = TRUE, !.mem[n].future = "pending",
                                    !.work[n] = "running"], "Running")
              ELSE Latch(s, n, "Failure")
         ELSE IF s.mem[n].future = "pending" THEN Answer(s, "Running")
         ELSE Latch(s, n, FromCommandStatus(s.mem[n].future))

\* BTNode::Tick: the cancellation check first, except in the two leaves that
\* answer their latched result before it.
Tick(t, s, n, o) ==
  LET kind == t[n].kind
      seen == [s EXCEPT !.cancelled = @ \/ o.cancelAt = <<n, "enter">>,
                        !.ticked = @ \cup {n},
                        !.uses[n] = IF \E p \in DOMAIN t : t[p].kind = "Limiter"
                                                           /\ t[p].kids = <<n>>
                                    THEN @ + 1 ELSE 0]
      child == Tick(t, seen, t[n].kids[1], o)
      res == CASE kind = "Command" -> TickCommand(t, seen, n, o)
               [] kind = "Mission" -> TickMission(t, seen, n, o)
               [] kind \notin {"Command", "Mission", "Custom"} /\ seen.cancelled ->
                    Answer(OnCancel(t, seen, n), "Aborted")
               [] kind = "Custom" ->
                    IF o.throws THEN Answer([seen EXCEPT !.threw = TRUE], "Throw")
                    ELSE Answer(seen, o.leaf[n])
               [] OTHER ->
                  IF kind \in Decorators /\ t[n].kids = <<>> THEN Answer(seen, "Failure")
                  ELSE
                  CASE kind = "Sequence" -> TickSequence(t, seen, n, o)
                    [] kind = "Selector" -> TickSelector(t, seen, n, o)
                    [] kind = "Parallel" -> TickParallel(t, seen, n, o)
                    [] kind = "Inverter" -> [child EXCEPT !.r = InverterPolicy(child.r)]
                    [] kind = "Succeeder" -> [child EXCEPT !.r = SucceederPolicy(child.r)]
                    [] kind = "Failer" -> [child EXCEPT !.r = FailerPolicy(child.r)]
                    [] kind = "Limiter" -> TickLimiter(t, seen, n, o)
                    [] kind = "Repeat" -> TickRepeat(t, seen, n, o)
                    [] kind = "Retry" -> TickRetry(t, seen, n, o)
                    [] kind = "Timeout" -> TickTimeout(t, seen, n, o)
                    [] kind \in {"Action", "Condition"} -> TickCallback(t, seen, n, o)
                    [] kind = "Wait" -> TickWait(t, seen, n, o)
                    [] kind = "Delay" -> TickDelay(t, seen, n)
  IN  [res EXCEPT !.s.aborted = @ \/ res.r = "Aborted"]

-----------------------------------------------------------------------------
(* BehaviorTree                                                            *)

CONSTANTS
  Trees,      \* the trees to run, functions from node numbers
  Outcomes    \* what a leaf callback may answer

VARIABLES tree, st, status_, initialized_, shutdown_, exec, last

vars == <<tree, st, status_, initialized_, shutdown_, exec, last>>

Leaves == { n \in DOMAIN tree : tree[n].kind \in
              {"Action", "Condition", "Wait", "Command", "Mission", "Custom"} }

Has(kinds) == \E n \in DOMAIN tree : tree[n].kind \in kinds

Checks ==
  ((DOMAIN tree) \X {"enter"})
  \cup { <<n, "leave">> : n \in { m \in DOMAIN tree : tree[m].kind = "Parallel" } }

NoCheck == <<0, "none">>

\* What one call may meet from outside.
Oracles ==
  [leaf : [Leaves -> Outcomes],
   cancelAt : Checks \cup {NoCheck},
   slow : {0} \cup { n \in Leaves : tree[n].kind = "Action" /\ Has({"Timeout"}) },
   reversed : IF Has({"Parallel"}) THEN BOOLEAN ELSE {FALSE},
   throws : IF Has({"Custom"}) THEN BOOLEAN ELSE {FALSE}]

Quiet(throws) ==
  [leaf |-> [n \in Leaves |-> "Idle"], cancelAt |-> NoCheck, slow |-> 0,
   reversed |-> FALSE, throws |-> throws]

Throws == IF Has({"Custom"}) THEN BOOLEAN ELSE {FALSE}

ToExecutionState(status) ==
  CASE status = "Idle" -> "Created"
    [] status = "Running" -> "Running"
    [] status = "Success" -> "Completed"
    [] status = "Failure" -> "Failed"
    [] status = "Aborted" -> "Aborted"

\* A call begins with nothing observed.
Begin(s) == [s EXCEPT !.ticked = {}, !.aborted = FALSE, !.threw = FALSE]

-----------------------------------------------------------------------------

Init ==
  /\ tree \in Trees
  /\ st = FreshState(tree)
  /\ status_ = "Idle" /\ initialized_ = FALSE /\ shutdown_ = FALSE
  /\ exec = "Created"
  /\ last = "none"

\* ApplyRuntimeStateLocked closes every call that changes status_.
ApplyRuntimeStateLocked == exec' = ToExecutionState(status_')

\* InitializeLocked on a tree that is neither shut down nor initialized:
\* the node states, the status and initialized_ it leaves.
InitializeLocked(o) ==
  LET root == Initialize(tree, Begin(st), 1, o)
  IN  [st |-> root.s,
       status |-> IF root.r = "Throw" THEN "Failure" ELSE root.r,
       initialized |-> root.r # "Throw"]

TreeInitialize ==
  /\ ~shutdown_ /\ ~initialized_
  /\ \E throws \in Throws :
       LET init == InitializeLocked(Quiet(throws))
       IN  /\ st' = init.st
           /\ status_' = init.status
           /\ initialized_' = init.initialized
  /\ ApplyRuntimeStateLocked
  /\ last' = "Initialize"
  /\ UNCHANGED <<tree, shutdown_>>

\* Initialize() or Tick() of a tree that has been shut down.
AbortLocked ==
  /\ shutdown_
  /\ status_' = "Aborted"
  /\ ApplyRuntimeStateLocked
  /\ st' = Begin(st)
  /\ last' = "Tick"
  /\ UNCHANGED <<tree, initialized_, shutdown_>>

\* Tick(): initialize on first use, look for cancellation, tick the root.
TreeTick ==
  /\ ~shutdown_ /\ ~isTerminal(status_)
  /\ \E o \in Oracles :
       LET init == IF initialized_
                   THEN [st |-> Begin(st), status |-> "Idle", initialized |-> TRUE]
                   ELSE InitializeLocked(o)
           root == Tick(tree, init.st, 1, o)
       IN  /\ initialized_' = init.initialized
           /\ CASE init.status # "Idle" -> st' = init.st /\ status_' = init.status
                [] init.status = "Idle" /\ init.st.cancelled ->
                     st' = init.st /\ status_' = "Aborted"
                [] OTHER -> /\ st' = root.s
                            /\ status_' = IF root.r = "Throw" THEN "Failure" ELSE root.r
  /\ ApplyRuntimeStateLocked
  /\ last' = "Tick"
  /\ UNCHANGED <<tree, shutdown_>>

TreeReset ==
  /\ ~shutdown_
  /\ \E throws \in Throws :
       LET s == Reset(tree, [Begin(st) EXCEPT !.uses[1] = 0], 1, Quiet(throws))
       IN  /\ st' = s
           /\ status_' = IF s.threw THEN "Failure" ELSE "Idle"
           /\ initialized_' = (s.threw /\ initialized_)
  /\ ApplyRuntimeStateLocked
  /\ last' = "Reset"
  /\ UNCHANGED <<tree, shutdown_>>

TreeShutdown ==
  /\ ~shutdown_
  /\ \E throws \in Throws :
       LET s == Shutdown(tree, Begin(st), 1, Quiet(throws))
       IN  /\ st' = s
           /\ status_' = IF s.threw \/ status_ = "Running" THEN "Aborted" ELSE status_
  /\ initialized_' = FALSE /\ shutdown_' = TRUE
  /\ ApplyRuntimeStateLocked
  /\ last' = "Shutdown"
  /\ UNCHANGED tree

-----------------------------------------------------------------------------
(* The world *)

World(s) ==
  /\ st' = s
  /\ last' = "none"
  /\ UNCHANGED <<tree, status_, initialized_, shutdown_, exec>>

\* ExecutionContext::RequestCancellation from any thread.
RequestCancellation ==
  ~st.cancelled /\ World([st EXCEPT !.cancelled = TRUE])

TimePasses ==
  /\ Elapse(tree, st) # st
  /\ World(Elapse(tree, st))

\* A dispatcher worker takes a queued command.
CommandStarts(n) ==
  /\ tree[n].kind = "Command" /\ st.work[n] = "queued"
  /\ World([st EXCEPT !.work[n] = "running"])

\* A command or a mission ends; its future or status becomes readable if the
\* node still holds it.
WorkEnds(n, result) ==
  /\ st.work[n] # "none"
  /\ World([st EXCEPT !.work[n] = "none",
                      !.mem[n].future = IF @ = "pending" THEN result ELSE @])

Next ==
  \/ TreeInitialize \/ TreeTick \/ TreeReset \/ TreeShutdown \/ AbortLocked
  \/ RequestCancellation \/ TimePasses
  \/ \E n \in DOMAIN tree : CommandStarts(n)
  \/ \E n \in DOMAIN tree, result \in {"Completed", "Cancelled", "Failed"} :
       WorkEnds(n, result)

Spec == Init /\ [][Next]_vars

-----------------------------------------------------------------------------
(* Properties *)

TypeOK ==
  /\ status_ \in BTStatus
  /\ initialized_ \in BOOLEAN /\ shutdown_ \in BOOLEAN
  /\ exec \in {"Created", "Running", "Completed", "Failed", "Aborted"}
  /\ \A n \in DOMAIN tree :
       /\ st.mem[n].count \in 0..3 /\ st.mem[n].timer \in NoTimer..tree[n].arg
       /\ st.mem[n].done \in BOOLEAN
       /\ st.mem[n].future \in {"none", "pending", "Completed", "Cancelled", "Failed"}
       /\ st.mem[n].latched \in {"none", "Success", "Failure", "Aborted"}
       /\ st.work[n] \in {"none", "queued", "running", "cancelling"}

\* Reset() leaves no trace of the earlier run in any node: an idle tree that
\* waits for its initialization has every index, counter, timer, latch and
\* future of a newly built one (BehaviorTree::Reset and the Reset of every
\* node class).
ResetIsComplete ==
  status_ = "Idle" /\ ~initialized_ /\ ~shutdown_
    => \A n \in DOMAIN tree : st.mem[n] = FreshNode

\* After Shutdown() no node of the tree holds a future or a mission, nothing
\* of the tree waits in the dispatcher's queue and no mission it started runs
\* unattended; only a command the adapter is already executing may remain
\* (Shutdown of CommandNode and MissionNode, reached through every composite
\* even when a sibling throws).
ShutdownReleasesWork ==
  shutdown_ => \A n \in DOMAIN tree :
    /\ st.mem[n].future = "none" /\ ~st.mem[n].done
    /\ st.work[n] # "queued"
    /\ tree[n].kind = "Mission" => st.work[n] # "running"

\* When any node answers Aborted during a tick, the tree is Aborted: no
\* composite or decorator turns an abort into success, failure or progress.
AbortReachesTheTree ==
  last = "Tick" /\ st.aborted => status_ = "Aborted"

\* A LimiterNode's child is ticked at most max_ticks_ times between two
\* resets, whatever resets, cancellations and retries happen around it.
LimiterBudget ==
  \A n \in DOMAIN tree : tree[n].kind = "Limiter" =>
    \A i \in DOMAIN tree[n].kids : st.uses[tree[n].kids[i]] <= tree[n].arg

\* A memory sequence or selector never ticks again a child it has passed
\* (current_index_), until it finishes or is reset.
MemoryNeverGoesBack ==
  [][last' = "Tick" /\ initialized_ =>
       \A n \in DOMAIN tree : \A i \in 1..Len(tree[n].kids) :
         (/\ tree[n].kind \in {"Sequence", "Selector"}
          /\ tree[n].arg = 1
          /\ i <= st.mem[n].count)
           => tree[n].kids[i] \notin st'.ticked]_vars

RECURSIVE Below(_)

Below(n) == {n} \cup UNION { Below(tree[n].kids[i]) : i \in DOMAIN tree[n].kids }

\* RetryNode and RepeatNode hand every new attempt a clean subtree: when the
\* count of failed attempts or completions rises, everything below is as new.
AttemptsStartFresh ==
  [][\A n \in DOMAIN tree :
       (/\ tree[n].kind \in {"Retry", "Repeat"}
        /\ st'.mem[n].count > st.mem[n].count
        /\ ~st'.threw)
         => \A m \in Below(n) \ {n} : st'.mem[m] = FreshNode]_vars

\* docs/api/behavior_tree_core.md on terminal trees: further ticks return the
\* existing terminal status until Reset() is called.
TerminalUntilReset ==
  [][isTerminal(status_) /\ last' = "Tick" => status_' = status_]_vars

\* docs/api/behavior_tree_core.md on DelayNode: it returns Running until the
\* duration elapses; so once it has elapsed (the node has answered Success)
\* the next tick without reset does not answer Running.
DelayStaysElapsed ==
  [][(/\ tree[1].kind = "Sequence" /\ tree[tree[1].kids[1]].kind = "Delay"
      /\ last' = "Tick" /\ initialized_ /\ ~st.cancelled /\ ~st'.cancelled
      /\ status_ = "Running" /\ tree[1].kids[2] \in st.ticked)
       => tree[1].kids[2] \in st'.ticked]_vars

\* docs/api/behavior_tree_core.md on Initialize(): it marks the runtime
\* context as starting.
InitializeMarksStarting ==
  last = "Initialize" /\ status_ = "Idle" => exec = "Starting"
=============================================================================
