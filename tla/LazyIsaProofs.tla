---------------------------- MODULE LazyIsaProofs ---------------------------
(***************************************************************************)
(* The lazily built anchor table, for any threads, text length, sample     *)
(* rate and number of failed allocations.  The invariant says who is       *)
(* inside call_once, and that the rows below the loop variable have their  *)
(* slot; that no later row takes a slot away rests on the suffix array     *)
(* being one-to-one, and that every slot is filled on it being onto.       *)
(***************************************************************************)
EXTENDS LazyIsa, FiniteSetTheorems, TLAPS

-----------------------------------------------------------------------------
(***************************************************************************)
(* Division.                                                               *)
(***************************************************************************)

\* Division with remainder.
LEMMA DivMod ==
    ASSUME NEW x \in Nat, NEW d \in Nat \ {0}
    PROVE  /\ x \div d \in Nat
           /\ x % d \in 0..(d - 1)
           /\ x = (x \div d) * d + (x % d)
  OBVIOUS

\* The quotient is the only one with a remainder below d.
LEMMA DivUnique ==
    ASSUME NEW x \in Nat, NEW d \in Nat \ {0}, NEW q \in Nat,
           q * d <= x, x < q * d + d
    PROVE  x \div d = q
  OBVIOUS

\* Multiplication by a natural number is monotonic.
LEMMA MulMono ==
    ASSUME NEW x \in Nat, NEW y \in Nat, NEW d \in Nat, x <= y
    PROVE  /\ x * d \in Nat
           /\ y * d \in Nat
           /\ x * d <= y * d
  OBVIOUS

\* Division is monotonic.
LEMMA DivMono ==
    ASSUME NEW x \in Nat, NEW y \in Nat, NEW d \in Nat \ {0}, x <= y
    PROVE  x \div d <= y \div d
<1>1. SUFFICES ASSUME y \div d < x \div d PROVE FALSE
  BY DivMod
<1>2. (y \div d + 1) * d <= (x \div d) * d
  BY <1>1, DivMod, MulMono
<1>3. (y \div d + 1) * d = (y \div d) * d + d
  BY DivMod
<1> QED  BY <1>2, <1>3, DivMod

-----------------------------------------------------------------------------
(***************************************************************************)
(* The invariant.                                                          *)
(***************************************************************************)

\* Whoever works on the table is the one inside call_once, and whoever reads
\* it has seen the flag set.
Exclusive ==
    /\ \A th \in Threads : Writing(th) => once = "running" /\ runner = th
    /\ \A th \in Threads : Reading(th) => once = "set"

\* The rows below n have their slot.
FilledBelow(n) ==
    /\ isa_sample_ \in [Slots -> Rows]
    /\ \A x \in Rows : x < n /\ sa[x] % Rate = 0 => isa_sample_[SlotOf(x)] = x

Filling == \A th \in Threads : pc[th] = "fill" => FilledBelow(r)
Filled == once = "set" => FilledBelow(TextLen + 1)

IInv == /\ TypeOK /\ sa \in Permutations
        /\ Exclusive /\ Filling /\ Filled /\ AnchorExact

-----------------------------------------------------------------------------
\* A row's slot is in the table, and two sampled rows never share one.
LEMMA SlotsApart ==
    ASSUME sa \in Permutations
    PROVE  /\ \A x \in Rows : SlotOf(x) \in Slots
           /\ \A x, y \in Rows :
                 sa[x] % Rate = 0 /\ sa[y] % Rate = 0 /\ SlotOf(x) = SlotOf(y) => x = y
<1>0. TextLen \in Nat /\ Rate \in Nat \ {0}
  BY IsaAssumption
<1>1. \A x \in Rows : sa[x] \in Nat /\ sa[x] <= TextLen
  BY <1>0 DEF Permutations, Rows
<1>2. ASSUME NEW x \in Rows PROVE SlotOf(x) \in Slots
  <2>1. sa[x] \div Rate <= TextLen \div Rate
    BY <1>0, <1>1, DivMono
  <2>2. sa[x] \div Rate \in Nat /\ TextLen \div Rate \in Nat
    BY <1>0, <1>1, DivMod
  <2> QED BY <2>1, <2>2 DEF SlotOf, Slots
<1>3. ASSUME NEW x \in Rows, NEW y \in Rows,
             sa[x] % Rate = 0, sa[y] % Rate = 0, SlotOf(x) = SlotOf(y)
      PROVE  x = y
  <2>1. /\ sa[x] = (sa[x] \div Rate) * Rate + 0 /\ sa[x] \div Rate \in Nat
        /\ sa[y] = (sa[y] \div Rate) * Rate + 0 /\ sa[y] \div Rate \in Nat
    BY <1>0, <1>1, <1>3, DivMod
  <2>2. sa[x] = sa[y]
    BY <2>1, <1>3 DEF SlotOf
  <2> QED BY <2>2 DEF Permutations
<1> QED BY <1>2, <1>3

\* The text position of every slot has a row, and that row is sampled.
LEMMA SlotHasRow ==
    ASSUME sa \in Permutations, NEW s \in Slots
    PROVE  \E x \in Rows : sa[x] = s * Rate /\ sa[x] % Rate = 0 /\ SlotOf(x) = s
<1>0. TextLen \in Nat /\ Rate \in Nat \ {0}
  BY IsaAssumption
<1>1. s \in Nat /\ s <= TextLen \div Rate /\ TextLen \div Rate \in Nat
      /\ (TextLen \div Rate) * Rate <= TextLen
  BY <1>0, DivMod DEF Slots
<1>2. s * Rate \in Rows
  <2>1. s * Rate \in Nat /\ s * Rate <= (TextLen \div Rate) * Rate
        /\ (TextLen \div Rate) * Rate \in Nat
    BY <1>0, <1>1, MulMono
  <2> QED BY <2>1, <1>0, <1>1 DEF Rows
<1>3. sa \in Surjection(Rows, Rows)
  <2>1. IsFiniteSet(Rows)
    BY <1>0, FS_Interval DEF Rows
  <2>2. sa \in Injection(Rows, Rows)
    BY DEF Permutations, Injection, IsInjective
  <2> QED BY <2>1, <2>2, FS_Injection
<1>4. PICK x \in Rows : sa[x] = s * Rate
  BY <1>2, <1>3 DEF Surjection
<1>5. (s * Rate) \div Rate = s /\ (s * Rate) % Rate = 0
  <2> DEFINE p == s * Rate
             m == p % Rate
  <2>1. p \in Nat
    BY <1>2, <1>0 DEF Rows
  <2>2. p \div Rate = s
    <3>1. s * Rate <= p /\ p < s * Rate + Rate
      BY <1>0, <2>1
    <3> HIDE DEF p
    <3> QED BY <1>0, <1>1, <2>1, <3>1, DivUnique
  <2>3. p = (p \div Rate) * Rate + m /\ m \in 0..(Rate - 1)
    <3> HIDE DEF p
    <3> QED BY <1>0, <2>1, DivMod
  <2>4. p = p + m
    <3> HIDE DEF m
    <3>1. (p \div Rate) * Rate = p
      BY <2>2
    <3> QED BY <2>3, <3>1
  <2>5. m = 0
    <3> HIDE DEF p, m
    <3> QED BY <1>0, <2>1, <2>3, <2>4
  <2> QED BY <2>2, <2>5 DEF m
<1> QED BY <1>4, <1>5 DEF SlotOf

-----------------------------------------------------------------------------
(***************************************************************************)
(* The steps.                                                              *)
(***************************************************************************)
LEMMA InitIInv == Init => IInv
<1> SUFFICES ASSUME Init PROVE IInv
  OBVIOUS
<1>0. TextLen \in Nat /\ Rate \in Nat \ {0} /\ MaxFailures \in Nat
  BY IsaAssumption
<1>1. TextLen \div Rate \in Nat
  BY <1>0, DivMod
<1>2. TypeOK /\ sa \in Permutations
  BY <1>0, <1>1 DEF Init, TypeOK, Permutations, Rows, Slots
<1> QED
  BY <1>2 DEF Init, IInv, Exclusive, Writing, Reading, Filling, Filled, AnchorExact

\* A thread that comes in, goes past the flag or leaves again.
LEMMA OutsideStep ==
    ASSUME IInv, NEW th \in Threads,
           (\E s \in Slots : Call(th, s)) \/ Pass(th) \/ Leave(th)
    PROVE  IInv'
<1>0. TextLen \in Nat /\ Rate \in Nat \ {0} /\ TextLen \div Rate \in Nat
  BY IsaAssumption, DivMod
<1>1. UNCHANGED <<sa, once, runner, isa_sample_, r, failures>>
  BY DEF Call, Pass, Leave
<1>2. TypeOK' /\ (sa \in Permutations)'
  <2>1. 0 \in Slots /\ 0 \in Rows /\ UNCHANGED <<Slots, Rows, Permutations>>
    BY <1>0 DEF Slots, Rows, Permutations
  <2>2. (want \in [Threads -> Slots])' /\ (row \in [Threads -> Rows])'
    BY <2>1 DEF IInv, TypeOK, Call, Pass, Leave
  <2>3. (pc \in [Threads -> {"idle", "ensure", "assign", "fill", "anchor", "returned", "threw"}])'
    BY DEF IInv, TypeOK, Call, Pass, Leave, Goto
  <2> QED BY <1>1, <2>1, <2>2, <2>3 DEF IInv, TypeOK
<1>3. Exclusive'
  BY <1>1 DEF IInv, TypeOK, Exclusive, Writing, Reading, Call, Pass, Leave, Goto
<1>4. Filling' /\ Filled'
  <2>1. FilledBelow(r)' <=> FilledBelow(r)
    BY <1>1 DEF FilledBelow, SlotOf, Slots, Rows
  <2>2. FilledBelow(TextLen + 1)' <=> FilledBelow(TextLen + 1)
    BY <1>1 DEF FilledBelow, SlotOf, Slots, Rows
  <2>3. \A x \in Threads : pc'[x] = "fill" => pc[x] = "fill"
    BY DEF IInv, TypeOK, Call, Pass, Leave, Goto
  <2> QED BY <1>1, <2>1, <2>2, <2>3 DEF IInv, Filling, Filled
<1>5. AnchorExact'
  BY <1>1 DEF IInv, TypeOK, AnchorExact, Call, Pass, Leave, Goto
<1> QED
  BY <1>2, <1>3, <1>4, <1>5 DEF IInv

\* The thread that runs the initialisation enters, allocates or gives up: only
\* one can, because the flag is unset when it enters.
LEMMA RunnerStep ==
    ASSUME IInv, NEW th \in Threads, Enter(th) \/ Assign(th) \/ AssignThrows(th)
    PROVE  IInv'
<1>0. TextLen \in Nat /\ Rate \in Nat \ {0} /\ TextLen \div Rate \in Nat
  BY IsaAssumption, DivMod
<1>1. UNCHANGED <<sa, want, row>> /\ once # "set"
  BY DEF Enter, MayEnter, Assign, AssignThrows, IInv, Exclusive, Writing
<1>2. TypeOK' /\ (sa \in Permutations)'
  <2>1. CASE Enter(th)
    BY <2>1, <1>0 DEF IInv, TypeOK, Permutations, Rows, Slots, Enter, Entered, Goto
  <2>2. CASE Assign(th)
    BY <2>2, <1>0 DEF IInv, TypeOK, Permutations, Rows, Slots, Assign, Goto
  <2>3. CASE AssignThrows(th)
    BY <2>3, <1>0, IsaAssumption
       DEF IInv, TypeOK, Permutations, Rows, Slots, AssignThrows, Goto
  <2> QED BY <2>1, <2>2, <2>3
<1>3. Exclusive'
  BY DEF IInv, TypeOK, Exclusive, Writing, Reading,
         Enter, MayEnter, Entered, Assign, AssignThrows, Goto
<1>4. Filling'
  <2>1. CASE Enter(th)
    BY <2>1 DEF IInv, TypeOK, Filling, Exclusive, Writing, Enter, MayEnter, Goto
  <2>2. CASE Assign(th)
    <3>1. r' = 0 /\ (isa_sample_ \in [Slots -> Rows])'
      BY <2>2, <1>0 DEF Assign, Rows, Slots
    <3>2. \A x \in Rows : ~(x < 0)
      BY <1>0 DEF Rows
    <3>3. FilledBelow(r)'
      BY <3>1, <3>2 DEF FilledBelow, Rows, Slots
    <3> QED BY <3>3 DEF Filling
  <2>3. CASE AssignThrows(th)
    BY <2>3 DEF IInv, TypeOK, Filling, Exclusive, Writing, AssignThrows, Goto
  <2> QED BY <2>1, <2>2, <2>3
<1>5. Filled'
  BY <1>1 DEF Filled, Enter, Entered, Assign, AssignThrows
<1>6. AnchorExact'
  BY <1>1 DEF IInv, TypeOK, AnchorExact, Enter, Assign, AssignThrows, Goto
<1> QED
  BY <1>2, <1>3, <1>4, <1>5, <1>6 DEF IInv

\* One turn of the loop gives row r its slot and takes none away.
LEMMA FillStep ==
    ASSUME IInv, NEW th \in Threads, Fill(th)
    PROVE  IInv'
<1>0. TextLen \in Nat /\ Rate \in Nat \ {0} /\ TextLen \div Rate \in Nat
  BY IsaAssumption, DivMod
<1>1. /\ UNCHANGED <<sa, once, runner, want, row, failures, pc>>
      /\ r \in Rows /\ r' = r + 1 /\ pc[th] = "fill"
      /\ once = "running" /\ FilledBelow(r)
  BY DEF Fill, NextRow, IInv, Exclusive, Writing, Filling
<1>2. /\ \A x \in Rows : SlotOf(x) \in Slots
      /\ \A x, y \in Rows :
            sa[x] % Rate = 0 /\ sa[y] % Rate = 0 /\ SlotOf(x) = SlotOf(y) => x = y
  BY SlotsApart DEF IInv
<1>3. FilledBelow(r)'
  <2>1. (isa_sample_ \in [Slots -> Rows])'
    BY <1>1, <1>2 DEF Fill, FilledBelow, Rows, Slots
  <2>2. ASSUME NEW x \in Rows, x < r + 1, sa[x] % Rate = 0
        PROVE  isa_sample_'[SlotOf(x)] = x
    <3>1. CASE x = r
      BY <3>1, <2>2, <1>1, <1>2 DEF Fill, Sampled, FilledBelow
    <3>2. CASE x < r
      <4>1. isa_sample_[SlotOf(x)] = x
        BY <3>2, <2>2, <1>1 DEF FilledBelow
      <4>2. r \in Sampled => SlotOf(x) # SlotOf(r)
        BY <3>2, <2>2, <1>0, <1>1, <1>2 DEF Sampled, Rows
      <4> QED BY <4>1, <4>2, <1>1, <1>2 DEF Fill, FilledBelow
    <3> QED BY <3>1, <3>2, <2>2, <1>0, <1>1 DEF Rows
  <2> QED
    BY <2>1, <2>2, <1>1 DEF FilledBelow, SlotOf, Rows, Slots
<1>4. TypeOK' /\ (sa \in Permutations)'
  BY <1>0, <1>1, <1>3 DEF IInv, TypeOK, Permutations, Rows, Slots, FilledBelow
<1>5. Exclusive' /\ Filling' /\ Filled' /\ AnchorExact'
  BY <1>1, <1>3 DEF IInv, Exclusive, Writing, Reading, Filling, Filled, AnchorExact
<1> QED
  BY <1>4, <1>5 DEF IInv

\* The loop is over: the flag is set on a table that has every row.
LEMMA FillEndStep ==
    ASSUME IInv, NEW th \in Threads, FillEnd(th)
    PROVE  IInv'
<1>0. TextLen \in Nat /\ Rate \in Nat \ {0} /\ TextLen \div Rate \in Nat
  BY IsaAssumption, DivMod
<1>1. /\ UNCHANGED <<sa, isa_sample_, r, want, row, failures>>
      /\ r = TextLen + 1 /\ pc[th] = "fill" /\ runner = th /\ FilledBelow(r)
      /\ once' = "set" /\ runner' = NoThread /\ pc' = [pc EXCEPT ![th] = "anchor"]
  BY <1>0 DEF FillEnd, Goto, IInv, TypeOK, Exclusive, Writing, Filling, Rows
<1>2. FilledBelow(TextLen + 1)'
  BY <1>1 DEF FilledBelow, SlotOf, Rows, Slots
<1>3. TypeOK' /\ (sa \in Permutations)'
  BY <1>0, <1>1 DEF IInv, TypeOK, Permutations, Rows, Slots
<1>4. \A x \in Threads : ~Writing(x)'
  BY <1>1 DEF IInv, TypeOK, Exclusive, Writing
<1>5. Exclusive' /\ Filling'
  BY <1>1, <1>4 DEF Exclusive, Filling, Writing
<1>6. Filled' /\ AnchorExact'
  BY <1>1, <1>2 DEF IInv, TypeOK, Filled, AnchorExact
<1> QED
  BY <1>3, <1>5, <1>6 DEF IInv

\* The reader finds the row of its position in its slot.
LEMMA AnchorStep ==
    ASSUME IInv, NEW th \in Threads, Anchor(th)
    PROVE  IInv'
<1>0. TextLen \in Nat /\ Rate \in Nat \ {0} /\ TextLen \div Rate \in Nat
  BY IsaAssumption, DivMod
<1>1. /\ UNCHANGED <<sa, once, runner, isa_sample_, r, want, failures>>
      /\ pc[th] = "anchor" /\ once = "set" /\ FilledBelow(TextLen + 1)
      /\ pc' = [pc EXCEPT ![th] = "returned"]
      /\ row' = [row EXCEPT ![th] = isa_sample_[want[th]]]
  BY DEF Anchor, Goto, IInv, Exclusive, Reading, Filled
<1>2. want[th] \in Slots /\ isa_sample_[want[th]] \in Rows
  BY <1>1 DEF IInv, TypeOK, FilledBelow
<1>3. sa[isa_sample_[want[th]]] = want[th] * Rate
  <2>1. PICK x \in Rows : sa[x] = want[th] * Rate /\ sa[x] % Rate = 0 /\ SlotOf(x) = want[th]
    BY <1>2, SlotHasRow DEF IInv
  <2>2. x < TextLen + 1
    BY <1>0 DEF Rows
  <2>3. isa_sample_[want[th]] = x
    BY <2>1, <2>2, <1>1 DEF FilledBelow
  <2> QED BY <2>1, <2>3
<1>4. TypeOK' /\ (sa \in Permutations)'
  BY <1>0, <1>1, <1>2 DEF IInv, TypeOK, Permutations, Rows, Slots
<1>5. Exclusive' /\ Filling'
  BY <1>1 DEF IInv, TypeOK, Exclusive, Filling, Writing, Reading
<1>6. Filled'
  BY <1>1 DEF Filled, FilledBelow, SlotOf, Rows, Slots
<1>7. AnchorExact'
  BY <1>1, <1>2, <1>3 DEF IInv, TypeOK, AnchorExact
<1> QED
  BY <1>4, <1>5, <1>6, <1>7 DEF IInv

\* A step that changes nothing keeps the invariant.
LEMMA StutterStep == IInv /\ UNCHANGED vars => IInv'
BY DEF vars, IInv, TypeOK, Permutations, Rows, Slots, Exclusive, Writing, Reading,
       Filling, Filled, FilledBelow, SlotOf, AnchorExact

\* The invariant holds in every reachable state.
LEMMA Inductive == Spec => []IInv
<1>1. IInv /\ [Next]_vars => IInv'
  BY OutsideStep, RunnerStep, FillStep, FillEndStep, AnchorStep, StutterStep DEF Next, Step
<1> QED
  BY <1>1, InitIInv, PTL DEF Spec

-----------------------------------------------------------------------------
(***************************************************************************)
(* What it shows.                                                          *)
(***************************************************************************)

\* Types of the table, the flag and the threads' locals.
THEOREM TypeCorrect == Spec => []TypeOK
<1>1. IInv => TypeOK
  BY DEF IInv
<1> QED
  BY <1>1, Inductive, PTL

\* However many threads call Extract, no two work on isa_sample_ at a time and
\* none reads it while another writes it.
THEOREM RaceFree == Spec => []NoDataRace
<1>1. IInv => NoDataRace
  BY DEF IInv, Exclusive, NoDataRace, Writing, Reading
<1> QED
  BY <1>1, Inductive, PTL

\* Every Extract starts from the row of the text position it asked for.
THEOREM AnchorCorrect == Spec => []AnchorExact
<1>1. IInv => AnchorExact
  BY DEF IInv
<1> QED
  BY <1>1, Inductive, PTL

\* Once call_once is through, neither the table nor the flag changes again.
THEOREM BuiltOnceCorrect == Spec => BuiltOnce
<1>1. IInv /\ [Next]_vars => [once = "set" => isa_sample_' = isa_sample_ /\ once' = "set"]_vars
  <2> SUFFICES ASSUME IInv, [Next]_vars, once = "set"
               PROVE  isa_sample_' = isa_sample_ /\ once' = "set"
    OBVIOUS
  <2>1. CASE UNCHANGED vars
    BY <2>1 DEF vars
  <2>2. ASSUME NEW th \in Threads,
               (\E s \in Slots : Call(th, s)) \/ Step(th) \/ Leave(th)
        PROVE  isa_sample_' = isa_sample_ /\ once' = "set"
    <3>1. pc[th] \notin {"assign", "fill"}
      BY DEF IInv, Exclusive, Writing
    <3> QED
      BY <2>2, <3>1 DEF Step, Call, Pass, Enter, MayEnter, Assign, AssignThrows, Fill, FillEnd,
                        Anchor, Leave
  <2> QED BY <2>1, <2>2 DEF Next
<1> QED
  BY <1>1, Inductive, PTL DEF Spec, BuiltOnce
=============================================================================
