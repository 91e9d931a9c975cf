----------------------------- MODULE Optimizer -----------------------------
(***************************************************************************)
(* The PyTorch DistributedOptimizer (torch/__init__.py) on every rank of a *)
(* job: hooks that run when a gradient has been accumulated submit an      *)
(* allreduce of it, synchronize() submits what is missing and waits, and   *)
(* step() applies the result.  The variant for Adasum computes the change  *)
(* of a parameter in the hook, reduces this, and waits in step().          *)
(*                                                                         *)
(* Horovod is taken as a service: an operation on a name is performed when *)
(* all ranks have submitted it, in any order of the names (Controller.tla).*)
(* A gradient is a vector: how many backward passes of each rank are in    *)
(* it, so that the model can tell what a rank has applied.                 *)
(***************************************************************************)
EXTENDS Integers, Sequences, FiniteSets, SequencesExt, Lists

CONSTANTS
    Size,       \* number of ranks
    Params,     \* the parameters that require a gradient
    DType,      \* the type of each of them
    Uses,       \* sets of parameters that a backward pass may reach
    Programs,   \* the training programs, one for all ranks: see ProgramType
    MaxSteps    \* bound on the iterations of a program

Ranks == 0..(Size - 1)

\* A program: the reduction, whether gradients are compressed to 16 bits, the
\* way it uses the optimizer, backward_passes_per_step in each iteration, and
\* how many passes more it really makes.
ProgramType == [op : {"Average", "Sum", "Adasum"}, half : BOOLEAN,
                style : {"step", "skip", "both", "closure", "schedule"},
                passes : Seq(Nat \ {0}), extra : Int]

ASSUME SizeAssumption == Size \in Nat \ {0, 1}
ASSUME ParamsAssumption == IsFiniteSet(Params) /\ Params # {}
ASSUME UsesAssumption == Uses \subseteq (SUBSET Params) \ {{}}
\* Only set_backward_passes_per_step changes the number of passes.
ASSUME ProgramsAssumption ==
    /\ MaxSteps \in Nat \ {0}
    /\ \A g \in Programs :
          /\ g \in ProgramType /\ Len(g.passes) = MaxSteps
          /\ g.style # "schedule" => \A k \in 1..MaxSteps : g.passes[k] = g.passes[1]

VARIABLES
    program,    \* what all ranks run
    steps,      \* iterations a rank has completed
    at,         \* its place in the calls of this iteration
    hooks,      \* parameters whose hook has still to run in this backward pass
    delay,      \* _allreduce_delay
    handle,     \* _handles: "absent", "none", or the operation: "flying", "done"
    order,      \* the keys of _handles in the order of the dictionary
    next,       \* position in it of the loop that waits
    grad,       \* the gradient of a parameter
    submitted,  \* by parameter: what the ranks have submitted, or NoValue
    output,     \* the result of an operation that is done
    param,      \* the value of a parameter: the sum of what has been applied
    touched,    \* parameters written or read while an operation had them
    computed,   \* backward passes of a rank that reached a parameter, ever
    failed      \* the exception that has ended a rank, or "no"

optVars == <<program, steps, at, hooks, delay, handle, order, next, grad, submitted,
             output, param, touched, computed, failed>>

NoValue == <<>>
Zero == [q \in Ranks |-> 0]
Plus(v, w) == [q \in Ranks |-> v[q] + w[q]]

IsAdasum == program.op = "Adasum"

\* One backward pass of a rank, in units that Average divides by Size.
Pass(r) == [q \in Ranks |-> IF q # r THEN 0 ELSE IF program.op = "Average" THEN Size ELSE 1]

\* What an operation makes of the submitted values.  The combination by Adasum
\* is symmetric and taken to be a sum.
Reduced(values) ==
    LET sum == [q \in Ranks |-> SumOf([i \in 1..Size |-> values[i - 1][q]])]
    IN  IF program.op = "Average" THEN [q \in Ranks |-> sum[q] \div Size] ELSE sum

-----------------------------------------------------------------------------
(* What an iteration of a program calls.  Methods of the optimizer are given *)
(* by the loops they consist of.                                             *)

SynchronizeCalls == IF IsAdasum THEN <<>> ELSE <<"submit", "wait">>

\* step() without a closure, and step(closure): the closure of the base
\* optimizer is called after the synchronisation, that of Adasum before.
Step == IF IsAdasum THEN <<"missing", "finish">> ELSE SynchronizeCalls \o <<"apply">>
StepWith(closure) ==
    IF IsAdasum THEN closure \o Step ELSE SynchronizeCalls \o closure \o <<"apply">>

\* with optimizer.skip_synchronize(): optimizer.step()
SkippedStep == IF IsAdasum THEN <<"skip">> ELSE <<"apply">>

Gradients(k) ==
    <<"zero_grad">> \o [i \in 1..(program.passes[k] + program.extra) |-> "backward"]

Calls(k) ==
    CASE program.style = "step"     -> Gradients(k) \o Step
      [] program.style = "skip"     -> Gradients(k) \o SynchronizeCalls \o SkippedStep
      [] program.style = "both"     -> Gradients(k) \o SynchronizeCalls \o Step
      [] program.style = "closure"  -> StepWith(Gradients(k))
      [] program.style = "schedule" -> <<"set_passes">> \o Gradients(k) \o Step

OptimizerInit ==
    /\ program \in Programs
    /\ steps = [r \in Ranks |-> 0]
    /\ at = [r \in Ranks |-> 1]
    /\ hooks = [r \in Ranks |-> {}]
    /\ delay = [r \in Ranks |-> [p \in Params |-> program.passes[1]]]
    /\ handle = [r \in Ranks |-> [p \in Params |-> "absent"]]
    /\ order = [r \in Ranks |-> <<>>]
    /\ next = [r \in Ranks |-> 1]
    /\ grad = [r \in Ranks |-> [p \in Params |-> Zero]]
    /\ submitted = [p \in Params |-> [r \in Ranks |-> NoValue]]
    /\ output = [r \in Ranks |-> [p \in Params |-> Zero]]
    /\ param = [r \in Ranks |-> [p \in Params |-> Zero]]
    /\ touched = [r \in Ranks |-> {}]
    /\ computed = [r \in Ranks |-> [p \in Params |-> 0]]
    /\ failed = [r \in Ranks |-> "no"]

Running(r) == steps[r] < MaxSteps /\ failed[r] = "no"
Call(r) == Calls(steps[r] + 1)[at[r]]
Doing(r, call) == Running(r) /\ Call(r) = call

\* The call has returned; after the last one the iteration is complete.
Return(r) ==
    IF at[r] < Len(Calls(steps[r] + 1))
    THEN at' = [at EXCEPT ![r] = @ + 1] /\ UNCHANGED steps
    ELSE at' = [at EXCEPT ![r] = 1] /\ steps' = [steps EXCEPT ![r] = @ + 1]

\* An exception ends the program of the rank.
Raise(r, what) ==
    /\ failed' = [failed EXCEPT ![r] = what]
    /\ UNCHANGED <<program, steps, at, delay, handle, order, next, submitted,
                   output, param>>

InFlight(r) == {p \in Params : handle[r][p] \in {"flying", "done"}}

-----------------------------------------------------------------------------
(* Submission. *)

\* _allreduce_grad_async(p) on rank r with gradient g: the operation is
\* performed when the others have submitted it.  `others' is what the caller
\* makes of the handles otherwise.
AllreduceAsync(r, p, g) ==
    LET values == [submitted[p] EXCEPT ![r] = g]
        complete == \A q \in Ranks : values[q] # NoValue
    IN  /\ submitted' = [submitted EXCEPT ![p] =
                IF complete THEN [q \in Ranks |-> NoValue] ELSE values]
        /\ handle' = IF complete
                     THEN [q \in Ranks |-> [handle[q] EXCEPT ![p] = "done"]]
                     ELSE [handle EXCEPT ![r][p] = "flying"]
        /\ output' = IF complete
                     THEN [q \in Ranks |-> [output[q] EXCEPT ![p] = Reduced(values)]]
                     ELSE output
        /\ order' = [order EXCEPT ![r] = IF handle[r][p] = "absent" THEN Append(@, p) ELSE @]

\* The backward pass starts with the forward pass, which reads the parameters.
\* Adasum keeps the change of a parameter, and then the reduced change, in the
\* place of the parameter.
Forward(r) ==
    /\ Doing(r, "backward") /\ hooks[r] = {}
    /\ \E used \in Uses :
        /\ hooks' = [hooks EXCEPT ![r] = used]
        /\ touched' = IF IsAdasum THEN [touched EXCEPT ![r] = @ \cup (used \cap InFlight(r))]
                      ELSE touched
    /\ UNCHANGED <<program, steps, at, delay, handle, order, next, grad, submitted,
                   output, param, computed, failed>>

\* The gradient of p is accumulated and the hook runs.
Hook(r, p) ==
    LET g == Plus(grad[r][p], Pass(r)) IN
    /\ Doing(r, "backward") /\ p \in hooks[r]
    /\ grad' = [grad EXCEPT ![r][p] = g]
    /\ computed' = [computed EXCEPT ![r][p] = @ + 1]
    /\ touched' = IF p \in InFlight(r) THEN [touched EXCEPT ![r] = @ \cup {p}] ELSE touched
    /\ hooks' = [hooks EXCEPT ![r] = @ \ {p}]
    /\ IF delay[r][p] <= 0
       THEN Raise(r, "too_many_passes")
       ELSE /\ delay' = [delay EXCEPT ![r][p] = @ - 1]
            /\ IF delay[r][p] = 1
               THEN AllreduceAsync(r, p, g)
               ELSE /\ handle' = [handle EXCEPT ![r][p] = "none"]
                    /\ order' = [order EXCEPT ![r] =
                            IF handle[r][p] = "absent" THEN Append(@, p) ELSE @]
                    /\ UNCHANGED <<submitted, output>>
            /\ IF hooks[r] = {p} THEN Return(r) ELSE UNCHANGED <<at, steps>>
            /\ UNCHANGED <<program, next, param, failed>>

\* The loop over missing_p, a set, and in synchronize() of the average the loop
\* over the handles that are None.
SubmitRest(r, p) ==
    /\ Doing(r, "submit") \/ Doing(r, "missing")
    /\ \/ handle[r][p] = "absent"
       \/ /\ Doing(r, "submit") /\ \A q \in Params : handle[r][q] # "absent"
          /\ \E i \in DOMAIN order[r] :
                /\ order[r][i] = p /\ handle[r][p] = "none"
                /\ \A j \in 1..(i - 1) : handle[r][order[r][j]] # "none"
    /\ AllreduceAsync(r, p, grad[r][p])
    /\ UNCHANGED <<program, steps, at, hooks, delay, next, grad, param, touched,
                   computed, failed>>

\* Mutant of AllSubmitted: the loop over missing_p is left out.
AllSubmitted_NoMissing(r) ==
    /\ Doing(r, "submit") \/ Doing(r, "missing")
    /\ order[r] # <<>> /\ \A p \in Params : Doing(r, "submit") => handle[r][p] # "none"
    /\ Return(r)
    /\ UNCHANGED <<program, hooks, delay, handle, order, next, grad, submitted,
                   output, param, touched, computed, failed>>

AllSubmitted(r) ==
    /\ Doing(r, "submit") \/ Doing(r, "missing")
    /\ \A p \in Params : /\ handle[r][p] # "absent"
                         /\ Doing(r, "submit") => handle[r][p] # "none"
    /\ Return(r)
    /\ UNCHANGED <<program, hooks, delay, handle, order, next, grad, submitted,
                   output, param, touched, computed, failed>>

-----------------------------------------------------------------------------
(* Waiting. *)

\* After the last handle: _handles.clear().
NextHandle(r) ==
    IF next[r] < Len(order[r])
    THEN next' = [next EXCEPT ![r] = @ + 1] /\ UNCHANGED <<handle, order, steps, at>>
    ELSE /\ next' = [next EXCEPT ![r] = 1]
         /\ order' = [order EXCEPT ![r] = <<>>]
         /\ handle' = [handle EXCEPT ![r] = [p \in Params |-> "absent"]]
         /\ Return(r)

\* Mutant of Wait: the delay is not set again.
Wait_KeepsDelay(r) ==
    LET p == order[r][next[r]] IN
    /\ Doing(r, "wait") /\ handle[r][p] = "done"
    /\ grad' = [grad EXCEPT ![r][p] = output[r][p]]
    /\ NextHandle(r)
    /\ UNCHANGED <<program, hooks, delay, submitted, output, param, touched, computed, failed>>

\* Mutant of Wait: the reduced gradient is not written back.
Wait_NotSet(r) ==
    LET p == order[r][next[r]] IN
    /\ Doing(r, "wait") /\ handle[r][p] = "done"
    /\ delay' = [delay EXCEPT ![r][p] = program.passes[steps[r] + 1]]
    /\ NextHandle(r)
    /\ UNCHANGED <<program, hooks, grad, submitted, output, param, touched, computed, failed>>

\* synchronize(): the wait for one handle.  The gradient is decompressed with
\* the context of the last handle, the type of its gradient; set_() refuses
\* another type.
Wait(r) ==
    LET p == order[r][next[r]] IN
    /\ Doing(r, "wait") /\ handle[r][p] = "done"
    /\ IF program.half /\ DType[Last(order[r])] # DType[p]
       THEN Raise(r, "dtype") /\ UNCHANGED grad
       ELSE /\ delay' = [delay EXCEPT ![r][p] = program.passes[steps[r] + 1]]
            /\ grad' = [grad EXCEPT ![r][p] = output[r][p]]
            /\ NextHandle(r)
            /\ UNCHANGED <<program, submitted, output, param, failed>>
    /\ UNCHANGED <<hooks, touched, computed>>

\* The loop of step() for Adasum: a handle that is None is submitted and waited
\* for before the next one is looked at.
FinishSubmit(r) ==
    LET p == order[r][next[r]] IN
    /\ Doing(r, "finish") /\ handle[r][p] = "none"
    /\ AllreduceAsync(r, p, grad[r][p])
    /\ UNCHANGED <<program, steps, at, hooks, delay, next, grad, param, touched,
                   computed, failed>>

FinishWait(r) ==
    LET p == order[r][next[r]] IN
    /\ Doing(r, "finish") /\ handle[r][p] = "done"
    /\ param' = [param EXCEPT ![r][p] = Plus(@, output[r][p])]
    /\ delay' = [delay EXCEPT ![r][p] = program.passes[steps[r] + 1]]
    /\ NextHandle(r)
    /\ UNCHANGED <<program, hooks, grad, submitted, output, touched, computed, failed>>

\* The step of the base optimizer with the gradients as they are.  Without
\* compression an operation that is done has already replaced the gradient.
Apply(r) ==
    LET now(p) == IF handle[r][p] = "done" /\ ~program.half THEN output[r][p] ELSE grad[r][p]
    IN  /\ Doing(r, "apply")
        /\ param' = [param EXCEPT ![r] = [p \in Params |-> Plus(@[p], now(p))]]
        /\ touched' = [touched EXCEPT ![r] = @ \cup InFlight(r)]
        /\ Return(r)
        /\ UNCHANGED <<program, hooks, delay, handle, order, next, grad, submitted,
                       output, computed, failed>>

-----------------------------------------------------------------------------
(* The other calls. *)

\* Mutant of ZeroGrad: the base optimizer is not called.
ZeroGrad_Keeps(r) ==
    /\ Doing(r, "zero_grad")
    /\ IF order[r] # <<>>
       THEN Raise(r, "zero_grad")
       ELSE /\ Return(r)
            /\ UNCHANGED <<program, delay, handle, order, next, submitted, output,
                           param, failed>>
    /\ UNCHANGED <<hooks, grad, touched, computed>>

ZeroGrad(r) ==
    /\ Doing(r, "zero_grad")
    /\ IF order[r] # <<>>
       THEN Raise(r, "zero_grad") /\ UNCHANGED grad
       ELSE /\ grad' = [grad EXCEPT ![r] = [p \in Params |-> Zero]]
            /\ Return(r)
            /\ UNCHANGED <<program, delay, handle, order, next, submitted, output,
                           param, failed>>
    /\ UNCHANGED <<hooks, touched, computed>>

\* set_backward_passes_per_step
SetPasses(r) ==
    /\ Doing(r, "set_passes")
    /\ delay' = [delay EXCEPT ![r] = [p \in Params |-> program.passes[steps[r] + 1]]]
    /\ Return(r)
    /\ UNCHANGED <<program, hooks, handle, order, next, grad, submitted, output,
                   param, touched, computed, failed>>

\* skip_synchronize() of the Adasum optimizer raises.
RefuseSkip(r) ==
    /\ Doing(r, "skip")
    /\ Raise(r, "skip")
    /\ UNCHANGED <<hooks, grad, touched, computed>>

RankStep(r) ==
    \/ Forward(r) \/ (\E p \in Params : Hook(r, p) \/ SubmitRest(r, p))
    \/ AllSubmitted(r) \/ Wait(r) \/ FinishSubmit(r) \/ FinishWait(r)
    \/ Apply(r) \/ ZeroGrad(r) \/ SetPasses(r) \/ RefuseSkip(r)

OptimizerNext == \E r \in Ranks : RankStep(r)

OptimizerSpec == OptimizerInit /\ [][OptimizerNext]_optVars

\* The program of a rank runs on.
FairOptimizer == OptimizerSpec /\ \A r \in Ranks : WF_optVars(RankStep(r))

-----------------------------------------------------------------------------
(* Properties *)

OptimizerTypeOK ==
    /\ program \in Programs
    /\ steps \in [Ranks -> 0..MaxSteps]
    /\ at \in [Ranks -> Nat] /\ next \in [Ranks -> Nat]
    /\ hooks \in [Ranks -> SUBSET Params] /\ touched \in [Ranks -> SUBSET Params]
    /\ delay \in [Ranks -> [Params -> Nat]] /\ computed \in [Ranks -> [Params -> Nat]]
    /\ handle \in [Ranks -> [Params -> {"absent", "none", "flying", "done"}]]
    /\ order \in [Ranks -> Seq(Params)]
    /\ grad \in [Ranks -> [Params -> [Ranks -> Nat]]]
    /\ output \in [Ranks -> [Params -> [Ranks -> Nat]]]
    /\ param \in [Ranks -> [Params -> [Ranks -> Nat]]]
    /\ submitted \in [Params -> [Ranks -> {NoValue} \cup [Ranks -> Nat]]]
    /\ failed \in [Ranks -> {"no", "too_many_passes", "dtype", "zero_grad", "skip"}]

\* At the start of an iteration.
Rests(r) == at[r] = 1 /\ failed[r] = "no"

\* Ranks that have done the same number of iterations have the same parameters,
\* whichever parameters each of their passes reached and in whatever order their
\* hooks ran; but not if step() is given a closure.
ReplicasAgree ==
    \A q, r \in Ranks :
        Rests(q) /\ Rests(r) /\ steps[q] = steps[r] =>
            param[q] = param[r] \/ (program.style = "closure" /\ ~IsAdasum)

\* What has been applied is the reduction of all backward passes of all ranks,
\* each counted once; but passes made in a closure are not reduced, and a second
\* synchronisation in step() makes a sum of the sums.
EachPassCountsOnce ==
    (\A q, r \in Ranks : Rests(r) /\ steps[q] = steps[r]) =>
        \/ \A r \in Ranks : \A p \in Params : param[r][p] = [q \in Ranks |-> computed[q][p]]
        \/ program.style = "closure" /\ ~IsAdasum
        \/ program.style = "both" /\ program.op = "Sum"

\* No gradient is written, and no parameter read that Adasum has replaced, while
\* an operation has it, unless the rank is told by an exception, in this pass;
\* but a step with a closure applies gradients that are on their way.
TouchIsReported ==
    \A r \in Ranks :
        touched[r] = {} \/ failed[r] = "too_many_passes" \/ hooks[r] \cap touched[r] # {}
            \/ (program.style = "closure" /\ ~IsAdasum)

\* A program that makes as many passes as it has announced, has gradients of one
\* type or does not compress them, and does not ask Adasum to skip anything,
\* gets no exception: all delays and handles are in order for the next iteration.
OnlyMisuseFails ==
    \A r \in Ranks :
        /\ failed[r] # "zero_grad"
        /\ failed[r] = "too_many_passes" => program.extra > 0
        /\ failed[r] = "dtype" => \E p, q \in Params : DType[p] # DType[q]
        /\ failed[r] = "skip" => IsAdasum /\ program.style = "skip"

\* The state is of its type, and the exceptions are just: a misuse that races with
\* an operation is reported, and nothing else is.
OptimizerInv == OptimizerTypeOK /\ TouchIsReported /\ OnlyMisuseFails

\* Two ranks are in step() of Adasum, each waiting for an operation that the
\* other has left for later, since its handle is None: their hooks have run in
\* different orders and not as often as announced.
Crossed ==
    \E q, r \in Ranks : \E i \in DOMAIN order[q], j \in DOMAIN order[r] :
        /\ Doing(q, "finish") /\ next[q] = i /\ handle[r][order[q][i]] = "none"
        /\ Doing(r, "finish") /\ next[r] = j /\ handle[q][order[r][j]] = "none"
        /\ order[q][i] # order[r][j]

\* Every rank completes its iterations, whatever its passes reach and in whatever
\* order its hooks run, unless one is ended by an exception or two ranks of
\* Adasum wait for each other.
StepsReturn ==
    <>((\A r \in Ranks : steps[r] = MaxSteps) \/ (\E r \in Ranks : failed[r] # "no") \/ Crossed)
=============================================================================
