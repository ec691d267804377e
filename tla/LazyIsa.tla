------------------------------- MODULE LazyIsa ------------------------------
(***************************************************************************)
(* Concurrent Extract calls on one index: the first one builds             *)
(* isa_sample_ under std::call_once, which every other caller waits for.   *)
(* The build allocates the table, then goes through the rows; if the       *)
(* allocation throws, call_once lets the exception out and the flag stays  *)
(* unset, so that the next caller tries again.                             *)
(***************************************************************************)
EXTENDS Integers, FiniteSets

CONSTANTS
    Threads,
    TextLen,       \* text_len_: the suffix array has TextLen + 1 rows
    Rate,          \* sa_sample_rate_
    MaxFailures    \* bound on the allocations that fail

ASSUME IsaAssumption ==
    /\ IsFiniteSet(Threads) /\ Threads # {}
    /\ TextLen \in Nat /\ Rate \in Nat \ {0} /\ MaxFailures \in Nat

Rows == 0..TextLen
Slots == 0..(TextLen \div Rate)
NoTable == <<>>
NoThread == "none"

VARIABLES
    sa,            \* the suffix array: which text position a row stands for
    once,          \* isa_once_: "unset", "running" or "set"
    runner,        \* the thread inside call_once
    isa_sample_,
    r,             \* loop variable of the build
    want,          \* per thread: the slot of its anchor
    row,           \* per thread: the anchor row it read
    failures,      \* allocations that failed so far
    pc

vars == <<sa, once, runner, isa_sample_, r, want, row, failures, pc>>

Sampled == {x \in Rows : sa[x] % Rate = 0}

\* A suffix array is some permutation of the positions.
Permutations == {f \in [Rows -> Rows] : \A x, y \in Rows : f[x] = f[y] => x = y}

Init ==
    /\ sa \in Permutations
    /\ once = "unset" /\ runner = NoThread /\ isa_sample_ = NoTable /\ r = 0
    /\ want = [th \in Threads |-> 0] /\ row = [th \in Threads |-> 0]
    /\ failures = 0
    /\ pc = [th \in Threads |-> "idle"]

Goto(th, label) == pc' = [pc EXCEPT ![th] = label]

\* Extract is called; s is the sampled position it will start from.
Call(th, s) ==
    /\ pc[th] = "idle"
    /\ want' = [want EXCEPT ![th] = s]
    /\ Goto(th, "ensure")
    /\ UNCHANGED <<sa, once, runner, isa_sample_, r, row, failures>>

\* std::call_once: the flag is already set ...
Pass(th) ==
    /\ pc[th] = "ensure" /\ once = "set"
    /\ Goto(th, "anchor")
    /\ UNCHANGED <<sa, once, runner, isa_sample_, r, want, row, failures>>

\* Mutant: only a table that is complete keeps others out.
Mut_MayEnter == once # "set"
MayEnter == once = "unset"

\* Mutant: the flag is set before the table is built.
Mut_Entered == "set"
Entered == "running"

\* ... or nobody is running the initialisation, and this thread does.  While
\* another thread runs it, this one waits.
Enter(th) ==
    /\ pc[th] = "ensure" /\ MayEnter
    /\ once' = Entered /\ runner' = th
    /\ Goto(th, "assign")
    /\ UNCHANGED <<sa, isa_sample_, r, want, row, failures>>

Assign(th) ==
    /\ pc[th] = "assign"
    /\ isa_sample_' = [s \in Slots |-> 0]
    /\ r' = 0
    /\ Goto(th, "fill")
    /\ UNCHANGED <<sa, once, runner, want, row, failures>>

\* The allocation throws: call_once leaves the flag unset and Extract throws.
AssignThrows(th) ==
    /\ pc[th] = "assign" /\ failures < MaxFailures
    /\ failures' = failures + 1
    /\ once' = "unset" /\ runner' = NoThread
    /\ Goto(th, "threw")
    /\ UNCHANGED <<sa, isa_sample_, r, want, row>>

\* Mutant: the slots are filled in the order of the rows.
Mut_SlotOf(x) == Cardinality({y \in Sampled : y < x})
SlotOf(x) == sa[x] \div Rate

\* Mutants: the loop stands still, or skips a row.
Mut_NextRowStands == r
Mut_NextRowSkips == r + 2
NextRow == r + 1

Fill(th) ==
    /\ pc[th] = "fill" /\ r \in Rows
    /\ isa_sample_' = IF r \in Sampled THEN [isa_sample_ EXCEPT ![SlotOf(r)] = r]
                      ELSE isa_sample_
    /\ r' = NextRow
    /\ UNCHANGED <<sa, once, runner, want, row, failures, pc>>

FillEnd(th) ==
    /\ pc[th] = "fill" /\ r \notin Rows
    /\ once' = "set" /\ runner' = NoThread
    /\ Goto(th, "anchor")
    /\ UNCHANGED <<sa, isa_sample_, r, want, row, failures>>

\* Extract reads its anchor row from the table.
Anchor(th) ==
    /\ pc[th] = "anchor"
    /\ row' = [row EXCEPT ![th] = isa_sample_[want[th]]]
    /\ Goto(th, "returned")
    /\ UNCHANGED <<sa, once, runner, isa_sample_, r, want, failures>>

\* The caller takes the result or the exception, and may call again.
Leave(th) ==
    /\ pc[th] \in {"returned", "threw"}
    /\ row' = [row EXCEPT ![th] = 0] /\ want' = [want EXCEPT ![th] = 0]
    /\ Goto(th, "idle")
    /\ UNCHANGED <<sa, once, runner, isa_sample_, r, failures>>

Step(th) == \/ Pass(th) \/ Enter(th) \/ Assign(th) \/ AssignThrows(th)
            \/ Fill(th) \/ FillEnd(th) \/ Anchor(th)

Next == \E th \in Threads : (\E s \in Slots : Call(th, s)) \/ Step(th) \/ Leave(th)

\* A thread inside a call is scheduled again and again; callers may stay away.
Fairness == \A th \in Threads : WF_vars(Step(th))
Spec == Init /\ [][Next]_vars /\ Fairness

-----------------------------------------------------------------------------
\* Types of the table, the flag and the threads' locals.
TypeOK ==
    /\ sa \in [Rows -> Rows]
    /\ once \in {"unset", "running", "set"}
    /\ runner \in Threads \cup {NoThread}
    /\ isa_sample_ = NoTable \/ isa_sample_ \in [Slots -> Rows]
    /\ r \in 0..(TextLen + 1)
    /\ want \in [Threads -> Slots] /\ row \in [Threads -> Rows]
    /\ failures \in 0..MaxFailures
    /\ pc \in [Threads -> {"idle", "ensure", "assign", "fill", "anchor", "returned", "threw"}]

Writing(th) == pc[th] \in {"assign", "fill"}
Reading(th) == pc[th] \in {"anchor"}

\* No thread reads isa_sample_ while another writes it, and no two write it.
NoDataRace ==
    \A x, y \in Threads : x # y /\ Writing(x) => ~Writing(y) /\ ~Reading(y)

\* Every Extract starts from the row of the text position it asked for, also
\* when it did not build the table itself or an earlier build threw.
AnchorExact ==
    \A th \in Threads : pc[th] = "returned" => sa[row[th]] = want[th] * Rate

\* Once the flag is set the table never changes again.
BuiltOnce == [][once = "set" => isa_sample_' = isa_sample_ /\ once' = "set"]_vars

\* Nobody waits for ever: every call returns or throws, even if the thread that
\* was building the table had to give up.
EveryCallEnds == \A th \in Threads : pc[th] = "ensure" ~> pc[th] \in {"returned", "threw"}
=============================================================================
