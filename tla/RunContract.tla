---------------------------- MODULE RunContract ----------------------------
(***************************************************************************)
(* What a run promises to its caller and to the server, whatever becomes   *)
(* of the connections it is carried over: the events of the log are seen   *)
(* in order, each once; the handler of a call runs at most once, and only  *)
(* after the call has been seen; and a run that returns its success has    *)
(* seen the whole log and run every call in it.  Once it has returned, the *)
(* synchronous client runs no handler any more; the asynchronous one may,  *)
(* if what it returned was no success.                                     *)
(***************************************************************************)
EXTENDS Integers, Sequences

CONSTANT LateRuns   \* a handler may be run after a failed or raised return

VARIABLES
    log,     \* the events of the run, in order
    seen,    \* how many of them the caller has seen
    done,    \* the calls whose handler has been run
    told     \* "none" until the run returns, then what it returned

contractVars == <<log, seen, done, told>>

Calls(n) == {i \in 1..n : log[i] = "call"}

ContractInit ==
    /\ log = <<>>
    /\ seen = 0
    /\ done = {}
    /\ told = "none"

Grow(kind) ==
    /\ log = <<>> \/ log[Len(log)] \notin {"success", "failure"}
    /\ log' = Append(log, kind)
    /\ UNCHANGED <<seen, done, told>>

See ==
    /\ told = "none"
    /\ seen < Len(log)
    /\ seen' = seen + 1
    /\ UNCHANGED <<log, done, told>>

Runs(call) ==
    /\ call \in Calls(seen) \ done
    /\ done' = done \cup {call}
    /\ UNCHANGED <<log, seen, told>>

Run(call) ==
    /\ told = "none" \/ (LateRuns /\ told # "success")
    /\ Runs(call)

Return(how) ==
    /\ told = "none"
    /\ how = "success" => /\ seen = Len(log) /\ log # <<>>
                          /\ log[Len(log)] = "success"
                          /\ done = Calls(seen)
    /\ told' = how
    /\ UNCHANGED <<log, seen, done>>

ContractNext ==
    \/ \E kind \in {"delta", "call", "success", "failure"} : Grow(kind)
    \/ See
    \/ \E call \in 1..seen : Run(call)
    \/ \E how \in {"success", "failure", "unauthorized", "raised"} : Return(how)

ContractSpec == ContractInit /\ [][ContractNext]_contractVars
=============================================================================
