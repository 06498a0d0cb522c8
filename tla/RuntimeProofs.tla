--------------------------- MODULE RuntimeProofs ----------------------------
(***************************************************************************)
(* Executions and finishes, for any number of them: however a program      *)
(* nests blocks, submits, throws and calls newFinish and endFinish.  Then  *)
(* the program of Runtime: its executions are these, and a call of a       *)
(* function object arrives, in whatever order functions are registered,    *)
(* looked up and submitted.                                                *)
(***************************************************************************)
EXTENDS Runtime, SequenceTheorems, TLAPS

-----------------------------------------------------------------------------
(***************************************************************************)
(* What a stack of monitors holds.                                         *)
(***************************************************************************)

Held(stack) == UNION {ToSet(stack[i]) : i \in DOMAIN stack}

Distinct(stack) ==
    \A i, j \in DOMAIN stack : \A k \in DOMAIN stack[i], l \in DOMAIN stack[j] :
        stack[i][k] = stack[j][l] => i = j /\ k = l

Stack == Seq(Seq(ExeId))

LEMMA PushedEmpty ==
    ASSUME NEW stack \in Stack
    PROVE  /\ Append(stack, <<>>) \in Stack
           /\ Held(Append(stack, <<>>)) = Held(stack)
           /\ Distinct(stack) => Distinct(Append(stack, <<>>))
<1> DEFINE n == Len(stack) + 1
<1>1. /\ Append(stack, <<>>) \in Stack
      /\ DOMAIN Append(stack, <<>>) = 1..n
      /\ DOMAIN stack = 1..(n - 1)
      /\ Append(stack, <<>>)[n] = <<>>
      /\ \A i \in 1..(n - 1) : Append(stack, <<>>)[i] = stack[i]
  BY DEF Stack
<1>2. Held(Append(stack, <<>>)) = Held(stack)
  <2>1. ToSet(<<>>) = {}
    BY DEF ToSet
  <2>2. n \in Nat \ {0}
    BY DEF Stack
  <2> QED
    BY <1>1, <2>1, <2>2 DEF Held
<1>3. Distinct(stack) => Distinct(Append(stack, <<>>))
  <2>1. DOMAIN Append(stack, <<>>)[n] = {}
    BY <1>1
  <2> QED
    BY <1>1, <2>1 DEF Distinct, Stack
<1> QED
  BY <1>1, <1>2, <1>3

LEMMA Popped ==
    ASSUME NEW stack \in Stack, stack # <<>>
    PROVE  /\ Front(stack) \in Stack
           /\ Len(Front(stack)) = Len(stack) - 1
           /\ \A i \in 1..(Len(stack) - 1) : Front(stack)[i] = stack[i]
           /\ Last(stack) = stack[Len(stack)]
           /\ Held(stack) = Held(Front(stack)) \cup ToSet(Last(stack))
           /\ Distinct(stack) =>
                 Distinct(Front(stack)) /\ Held(Front(stack)) \cap ToSet(Last(stack)) = {}
<1> DEFINE n == Len(stack)
<1>1. /\ Front(stack) \in Stack
      /\ DOMAIN Front(stack) = 1..(n - 1)
      /\ Len(Front(stack)) = n - 1
      /\ DOMAIN stack = 1..n
      /\ n \in Nat \ {0}
      /\ \A i \in 1..(n - 1) : Front(stack)[i] = stack[i]
      /\ Last(stack) = stack[n]
  <2> DEFINE T == Seq(ExeId)
  <2>1. stack \in Seq(T)
    BY DEF Stack
  <2> HIDE DEF T
  <2>2. /\ DOMAIN stack = 1..n
        /\ n \in Nat \ {0}
        /\ \A i \in 1..n : stack[i] \in T
    BY <2>1
  <2>3. /\ Front(stack) = [i \in 1..(n - 1) |-> stack[i]]
        /\ Front(stack) \in Seq(T)
    BY <2>1, <2>2 DEF Front
  <2>4. Len(Front(stack)) = n - 1
    BY <2>2, <2>3
  <2>5. Last(stack) = stack[n]
    BY DEF Last
  <2> QED
    BY <2>2, <2>3, <2>4, <2>5 DEF Stack, T
<1> HIDE DEF n
<1>2. Held(stack) = Held(Front(stack)) \cup ToSet(Last(stack))
  BY <1>1 DEF Held
<1>3. Distinct(stack) => Distinct(Front(stack))
  BY <1>1 DEF Distinct
<1>4. Distinct(stack) => Held(Front(stack)) \cap ToSet(Last(stack)) = {}
  <2> SUFFICES ASSUME Distinct(stack),
                      NEW i \in 1..(n - 1), NEW k \in DOMAIN stack[i],
                      NEW l \in DOMAIN stack[n]
               PROVE  stack[i][k] # stack[n][l]
    BY <1>1 DEF Held, ToSet
  <2> QED
    BY <1>1 DEF Distinct
<1> QED
  BY <1>1, <1>2, <1>3, <1>4 DEF n

LEMMA Added ==
    ASSUME NEW stack \in Stack, stack # <<>>, NEW x \in ExeId, x \notin Held(stack)
    PROVE  LET new == InTop(stack, Append(Last(stack), x))
           IN  /\ new \in Stack
               /\ Len(new) = Len(stack)
               /\ \A i \in 1..(Len(stack) - 1) : new[i] = stack[i]
               /\ ToSet(new[Len(stack)]) = ToSet(stack[Len(stack)]) \cup {x}
               /\ Held(new) = Held(stack) \cup {x}
               /\ Distinct(stack) => Distinct(new)
<1> DEFINE n == Len(stack)
           top == stack[n]
           new == InTop(stack, Append(Last(stack), x))
<1>1. /\ n \in Nat \ {0}
      /\ DOMAIN stack = 1..n
      /\ top \in Seq(ExeId)
      /\ Last(stack) = top
  BY DEF Stack, Last
<1>2. /\ new \in Stack
      /\ DOMAIN new = 1..n
      /\ Len(new) = n
      /\ \A i \in 1..(n - 1) : new[i] = stack[i]
      /\ new[n] = Append(top, x)
  <2> DEFINE T == Seq(ExeId)
             end == Append(top, x)
  <2>1. end \in T /\ stack \in Seq(T)
    BY <1>1 DEF Stack
  <2> HIDE DEF T, end
  <2>2. new = [stack EXCEPT ![n] = end]
    BY <1>1 DEF InTop, end
  <2> HIDE DEF n, new
  <2>3. DOMAIN new = 1..n /\ new[n] = end
    BY <1>1, <2>2
  <2>4. new \in Seq(T)
    <3>1. \A i \in 1..n : stack[i] \in T
      BY <1>1, <2>1
    <3>2. new \in [1..n -> T]
      BY <1>1, <2>1, <2>2, <3>1
    <3> QED
      BY <1>1, <3>2
  <2>5. Len(new) = n
    BY <1>1, <2>3, <2>4
  <2>6. \A i \in 1..(n - 1) : new[i] = stack[i]
    BY <1>1, <2>2
  <2> QED
    BY <2>3, <2>4, <2>5, <2>6 DEF Stack, T, end
<1>3. /\ DOMAIN top = 1..Len(top) /\ Len(top) \in Nat
      /\ DOMAIN new[n] = 1..(Len(top) + 1)
      /\ \A k \in DOMAIN top : new[n][k] = top[k]
      /\ new[n][Len(top) + 1] = x
  BY <1>1, <1>2
<1> HIDE DEF n, top, new
<1>4. ToSet(new[n]) = ToSet(top) \cup {x}
  <2>1. DOMAIN new[n] = DOMAIN top \cup {Len(top) + 1}
    BY <1>3
  <2> QED
    BY <1>3, <2>1 DEF ToSet
<1>5. Held(new) = Held(stack) \cup {x}
  <2>1. 1..n = (1..(n - 1)) \cup {n}
    BY <1>1
  <2>2. Held(new) = (UNION {ToSet(new[i]) : i \in 1..(n - 1)}) \cup ToSet(new[n])
    <3>1. DOMAIN new = (1..(n - 1)) \cup {n}
      BY <1>2, <2>1
    <3> QED
      BY <3>1 DEF Held
  <2>3. Held(stack) = (UNION {ToSet(stack[i]) : i \in 1..(n - 1)}) \cup ToSet(top)
    BY <1>1, <2>1 DEF Held, top
  <2>4. UNION {ToSet(new[i]) : i \in 1..(n - 1)} = UNION {ToSet(stack[i]) : i \in 1..(n - 1)}
    BY <1>2
  <2> QED
    BY <1>4, <2>2, <2>3, <2>4
<1>6. Distinct(stack) => Distinct(new)
  <2> SUFFICES ASSUME Distinct(stack),
                      NEW i \in 1..n, NEW j \in 1..n,
                      NEW k \in DOMAIN new[i], NEW l \in DOMAIN new[j],
                      new[i][k] = new[j][l]
               PROVE  i = j /\ k = l
    BY <1>2 DEF Distinct
  <2>1. \A m \in 1..n : \A h \in DOMAIN stack[m] : stack[m][h] # x
    BY <1>1 DEF Held, ToSet
  <2>2. \A m \in 1..n : \A h \in DOMAIN new[m] :
            \/ h \in DOMAIN stack[m] /\ new[m][h] = stack[m][h]
            \/ m = n /\ h = Len(top) + 1 /\ new[m][h] = x
    <3> SUFFICES ASSUME NEW m \in 1..n, NEW h \in DOMAIN new[m]
                 PROVE  \/ h \in DOMAIN stack[m] /\ new[m][h] = stack[m][h]
                        \/ m = n /\ h = Len(top) + 1 /\ new[m][h] = x
      OBVIOUS
    <3>1. CASE m = n
      BY <1>3, <3>1 DEF top
    <3>2. CASE m \in 1..(n - 1)
      BY <1>2, <3>2
    <3> QED
      BY <1>1, <3>1, <3>2
  <2> QED
    BY <1>1, <2>1, <2>2 DEF Distinct
<1> QED
  BY <1>1, <1>2, <1>4, <1>5, <1>6 DEF n, top, new

-----------------------------------------------------------------------------
(***************************************************************************)
(* The invariant.                                                          *)
(***************************************************************************)

Given == 0..(current_id - 1)

\* A program that left the stack to its FinishSugars.
Balanced ==
    raw = 0 =>
        /\ Len(f_stack) = Len(sugars)
        /\ \A i \in DOMAIN sugars : sugars[i] = ToSet(f_stack[i])
        /\ st # "terminated"

\* Neither the types nor EachInOnePlace is inductive alone: blocks that catch have to be
\* nested, and the next id one that no monitor has.
IInv ==
    /\ ExeTypeOK
    /\ \A j, k \in DOMAIN tries : j <= k => tries[j] <= tries[k]
    /\ \A id \in Given : id \in DOMAIN all_exes /\ all_exes[id] # Null
    /\ accepted \subseteq Given
    /\ Distinct(f_stack)
    /\ joined \subseteq accepted
    /\ Held(f_stack) = accepted \ joined
    /\ Balanced
    /\ st \in {"returned", "aborted"} => sugars = <<>>

LEMMA InitIInv == ExeInit => IInv
<1> SUFFICES ASSUME ExeInit
             PROVE  IInv
  OBVIOUS
<1>1. ExeTypeOK
  <2>1. f_stack \in Seq(Seq(ExeId)) /\ sugars \in Seq(SUBSET ExeId) /\ tries \in Seq(Nat)
    BY DEF ExeInit
  <2>2. DOMAIN all_exes = {} /\ DOMAIN tries = {}
    BY DEF ExeInit
  <2> QED
    BY <2>1, <2>2 DEF ExeInit, ExeTypeOK, ExeId
<1>2. Held(f_stack) = {} /\ Distinct(f_stack)
  BY DEF ExeInit, Held, Distinct
<1>3. DOMAIN tries = {} /\ DOMAIN sugars = {} /\ Len(f_stack) = Len(sugars)
  BY DEF ExeInit
<1> QED
  BY <1>1, <1>2, <1>3 DEF ExeInit, IInv, Given, Balanced

\* A new entry in the table keeps its type and what was in it.
LEMMA Putting ==
    ASSUME IInv, NEW id \in ExeId, NEW v \in [f_id : FuncId, s_l : Buffers] \cup {Null},
           all_exes' = Put(all_exes, id, v)
    PROVE  /\ DOMAIN all_exes' \subseteq ExeId
           /\ \A x \in DOMAIN all_exes' :
                 all_exes'[x] \in [f_id : FuncId, s_l : Buffers] \cup {Null}
           /\ DOMAIN all_exes' = DOMAIN all_exes \cup {id}
           /\ all_exes'[id] = v
           /\ \A x \in DOMAIN all_exes : x # id => all_exes'[x] = all_exes[x]
  BY DEF IInv, ExeTypeOK, Put

LEMMA NewExecution ==
    ASSUME IInv, NEW f_id \in FuncId, NEW s_l \in Buffers, newExecution(f_id, s_l)
    PROVE  /\ current_id \in ExeId /\ current_id' = current_id + 1
           /\ DOMAIN all_exes' \subseteq ExeId
           /\ \A x \in DOMAIN all_exes' :
                 all_exes'[x] \in [f_id : FuncId, s_l : Buffers] \cup {Null}
           /\ \A id \in Given' : id \in DOMAIN all_exes' /\ all_exes'[id] # Null
           /\ Given' = Given \cup {current_id} /\ current_id \notin Given
<1> DEFINE e == [f_id |-> f_id, s_l |-> s_l]
<1>1. /\ current_id \in Nat /\ current_id' = current_id + 1
      /\ all_exes' = Put(all_exes, current_id, e)
      /\ e \in [f_id : FuncId, s_l : Buffers]
  BY DEF newExecution, IInv, ExeTypeOK, ExeId
<1>2. e # Null
  BY <1>1, ExecutionAssumption
<1> HIDE DEF e
<1>3. /\ DOMAIN all_exes' \subseteq ExeId
      /\ \A x \in DOMAIN all_exes' :
            all_exes'[x] \in [f_id : FuncId, s_l : Buffers] \cup {Null}
      /\ DOMAIN all_exes' = DOMAIN all_exes \cup {current_id}
      /\ all_exes'[current_id] = e
      /\ \A x \in DOMAIN all_exes : x # current_id => all_exes'[x] = all_exes[x]
  BY <1>1, Putting DEF ExeId
<1>4. Given' = Given \cup {current_id} /\ current_id \notin Given
  BY <1>1 DEF Given
<1>5. \A id \in Given' : id \in DOMAIN all_exes' /\ all_exes'[id] # Null
  BY <1>2, <1>3, <1>4 DEF IInv
<1> QED
  BY <1>1, <1>3, <1>4, <1>5 DEF ExeId

\* A new monitor, alone or with the FinishSugar it belongs to.
LEMMA NewFinish ==
    ASSUME IInv, newFinish
    PROVE  /\ f_stack' \in Stack /\ Distinct(f_stack)'
           /\ Held(f_stack)' = Held(f_stack) /\ joined' = joined
           /\ Len(f_stack') = Len(f_stack) + 1
           /\ \A i \in 1..Len(f_stack) : f_stack'[i] = f_stack[i]
           /\ ToSet(f_stack'[Len(f_stack')]) = {}
<1>1. f_stack \in Stack /\ f_stack' = Append(f_stack, <<>>) /\ joined' = joined
  BY DEF newFinish, IInv, ExeTypeOK, Stack
<1>2. /\ f_stack' \in Stack /\ Distinct(f_stack')
      /\ Held(f_stack') = Held(f_stack)
  BY <1>1, PushedEmpty DEF IInv
<1>3. /\ Len(f_stack') = Len(f_stack) + 1
      /\ \A i \in 1..Len(f_stack) : f_stack'[i] = f_stack[i]
      /\ f_stack'[Len(f_stack')] = <<>>
  BY <1>1 DEF Stack
<1> QED
  BY <1>1, <1>2, <1>3 DEF Held, Distinct, ToSet

\* The top monitor is waited for and goes.
LEMMA EndFinish ==
    ASSUME IInv, f_stack # <<>>, endFinish
    PROVE  /\ f_stack' \in Stack /\ Distinct(f_stack)'
           /\ Held(f_stack)' = accepted \ joined'
           /\ joined' \subseteq accepted
           /\ joined' = joined \cup ToSet(f_stack[Len(f_stack)])
           /\ joined \cap ToSet(f_stack[Len(f_stack)]) = {}
           /\ Len(f_stack') = Len(f_stack) - 1
           /\ \A i \in 1..(Len(f_stack) - 1) : f_stack'[i] = f_stack[i]
<1>1. /\ f_stack \in Stack /\ f_stack' = Front(f_stack)
      /\ joined' = joined \cup ToSet(Last(f_stack))
      /\ Distinct(f_stack) /\ joined \subseteq accepted
      /\ Held(f_stack) = accepted \ joined
  BY DEF endFinish, IInv, ExeTypeOK, Stack
<1>2. /\ Front(f_stack) \in Stack
      /\ Len(Front(f_stack)) = Len(f_stack) - 1
      /\ \A i \in 1..(Len(f_stack) - 1) : Front(f_stack)[i] = f_stack[i]
      /\ Last(f_stack) = f_stack[Len(f_stack)]
      /\ Held(f_stack) = Held(Front(f_stack)) \cup ToSet(Last(f_stack))
      /\ Distinct(Front(f_stack)) /\ Held(Front(f_stack)) \cap ToSet(Last(f_stack)) = {}
  BY <1>1, Popped
<1>3. Held(f_stack') = accepted \ joined' /\ joined' \subseteq accepted
  BY <1>1, <1>2
<1>4. Held(f_stack)' = Held(f_stack') /\ Distinct(f_stack)' = Distinct(f_stack')
  BY DEF Held, Distinct
<1> QED
  BY <1>1, <1>2, <1>3, <1>4

-----------------------------------------------------------------------------
(***************************************************************************)
(* Each action keeps it.                                                   *)
(***************************************************************************)

\* What is common to the actions that leave the executions alone.
Executions ==
    /\ current_id \in ExeId
    /\ DOMAIN all_exes \subseteq ExeId
    /\ \A id \in DOMAIN all_exes : all_exes[id] \in [f_id : FuncId, s_l : Buffers] \cup {Null}
    /\ \A id \in Given : id \in DOMAIN all_exes /\ all_exes[id] # Null
    /\ accepted \subseteq Given

Monitors ==
    /\ f_stack \in Stack
    /\ Distinct(f_stack)
    /\ joined \subseteq accepted
    /\ Held(f_stack) = accepted \ joined

Blocks ==
    /\ sugars \in Seq(SUBSET ExeId)
    /\ tries \in Seq(Nat)
    /\ \A j \in DOMAIN tries : tries[j] <= Len(sugars)
    /\ \A j, k \in DOMAIN tries : j <= k => tries[j] <= tries[k]
    /\ throwing \in BOOLEAN
    /\ st \in {"running", "returned", "aborted", "terminated"}
    /\ raw \in Nat
    /\ st \in {"returned", "aborted"} => sugars = <<>>

LEMMA Parts == IInv <=> Executions /\ Monitors /\ Blocks /\ Balanced
<1>1. IInv => Executions /\ Monitors /\ Blocks /\ Balanced
  BY DEF IInv, ExeTypeOK, Executions, Monitors, Blocks, Stack
<1>2. Executions /\ Given \subseteq ExeId => accepted \subseteq ExeId
  BY DEF Executions
<1>3. Executions => Given \subseteq ExeId
  BY DEF Executions, Given, ExeId
<1>4. Executions /\ Monitors /\ Blocks /\ Balanced => IInv
  BY <1>2, <1>3 DEF IInv, ExeTypeOK, Executions, Monitors, Blocks, Stack
<1> QED
  BY <1>1, <1>4

LEMMA PartsNext == IInv' <=> Executions' /\ Monitors' /\ Blocks' /\ Balanced'
  BY Parts, PTL

LEMMA SameExecutions == Executions /\ UNCHANGED <<hubVars, accepted>> => Executions'
  BY DEF Executions, hubVars, Given

LEMMA SameMonitors == Monitors /\ UNCHANGED <<stackVars, accepted>> => Monitors'
  BY DEF Monitors, stackVars, Held, Distinct

LEMMA SameBlocks == Blocks /\ UNCHANGED <<blockVars, raw>> => Blocks'
  BY DEF Blocks, blockVars

LEMMA RawNewFinishStep == IInv /\ RawNewFinish => IInv'
<1> SUFFICES ASSUME IInv, RawNewFinish
             PROVE  Executions' /\ Monitors' /\ Blocks' /\ Balanced'
  BY PartsNext
<1> USE Parts DEF RawNewFinish
<1>1. Executions'
  BY SameExecutions
<1>2. Monitors'
  BY NewFinish DEF Monitors, Distinct, Held
<1>3. Blocks' /\ raw' > 0
  BY DEF Blocks, blockVars
<1> QED
  BY <1>1, <1>2, <1>3 DEF Balanced

LEMMA RawEndFinishStep == IInv /\ RawEndFinish => IInv'
<1> SUFFICES ASSUME IInv, RawEndFinish
             PROVE  Executions' /\ Monitors' /\ Blocks' /\ Balanced'
  BY PartsNext
<1> USE Parts DEF RawEndFinish
<1>1. Executions'
  BY SameExecutions
<1>2. Monitors'
  <2>1. CASE f_stack = <<>>
    BY <2>1, SameMonitors
  <2>2. CASE f_stack # <<>>
    BY <2>2, EndFinish DEF Monitors, Distinct, Held
  <2> QED
    BY <2>1, <2>2
<1>3. Blocks' /\ raw' > 0
  <2>1. throwing' \in BOOLEAN
    BY DEF Blocks
  <2> QED
    BY <2>1 DEF Blocks
<1> QED
  BY <1>1, <1>2, <1>3 DEF Balanced

LEMMA EnterFinishStep == IInv /\ EnterFinish => IInv'
<1> SUFFICES ASSUME IInv, EnterFinish
             PROVE  Executions' /\ Monitors' /\ Blocks' /\ Balanced'
  BY PartsNext
<1> USE Parts DEF EnterFinish
<1>1. Executions'
  BY SameExecutions
<1>2. Monitors'
  BY NewFinish DEF Monitors, Distinct, Held
<1>3. /\ sugars' \in Seq(SUBSET ExeId)
      /\ Len(sugars') = Len(sugars) + 1
      /\ \A i \in 1..Len(sugars) : sugars'[i] = sugars[i]
      /\ sugars'[Len(sugars')] = {}
  BY DEF Blocks
<1>4. Blocks'
  BY <1>3 DEF Blocks, Running
<1>5. Balanced'
  <2>1. Len(f_stack) \in Nat
    BY DEF Monitors, Stack
  <2>2. /\ Len(f_stack') = Len(f_stack) + 1
        /\ \A i \in 1..Len(f_stack) : f_stack'[i] = f_stack[i]
        /\ ToSet(f_stack'[Len(f_stack')]) = {}
    BY NewFinish
  <2>3. DOMAIN sugars = 1..Len(sugars) /\ DOMAIN sugars' = 1..(Len(sugars) + 1)
    BY <1>3 DEF Blocks
  <2>4. raw' = raw /\ st' = st
    OBVIOUS
  <2> SUFFICES ASSUME raw = 0
               PROVE  /\ Len(f_stack') = Len(sugars')
                      /\ \A i \in DOMAIN sugars' : sugars'[i] = ToSet(f_stack'[i])
    BY <2>4 DEF Balanced, Running, ToSet
  <2>5. Len(f_stack) = Len(sugars) /\ \A i \in 1..Len(sugars) : sugars[i] = ToSet(f_stack[i])
    BY <2>3 DEF Balanced
  <2>6. \A i \in 1..Len(sugars) : sugars'[i] = ToSet(f_stack'[i])
    BY <1>3, <2>2, <2>5
  <2>7. sugars'[Len(sugars) + 1] = ToSet(f_stack'[Len(sugars) + 1])
    BY <1>3, <2>2, <2>5
  <2> QED
    BY <2>1, <2>2, <1>3, <2>3, <2>5, <2>6, <2>7
<1> QED
  BY <1>1, <1>2, <1>4, <1>5

LEMMA LeaveFinishStep == IInv /\ LeaveFinish => IInv'
<1> SUFFICES ASSUME IInv, LeaveFinish
             PROVE  Executions' /\ Monitors' /\ Blocks' /\ Balanced'
  BY PartsNext
<1> USE Parts DEF LeaveFinish
<1>1. Executions'
  BY SameExecutions
<1>2. CASE f_stack = <<>>
  <2>1. Monitors'
    BY <1>2, SameMonitors
  <2>2. raw # 0
    BY <1>2 DEF Balanced, Blocks
  <2>3. Blocks' /\ Balanced'
    BY <1>2, <2>2 DEF Blocks, Balanced
  <2> QED
    BY <1>1, <2>1, <2>3
<1>3. CASE f_stack # <<>>
  <2>1. Monitors'
    BY <1>3, EndFinish DEF Monitors, Distinct, Held
  <2>2. /\ sugars' \in Seq(SUBSET ExeId)
        /\ Len(sugars') = Len(sugars) - 1
        /\ \A i \in 1..(Len(sugars) - 1) : sugars'[i] = sugars[i]
        /\ DOMAIN sugars = 1..Len(sugars)
        /\ DOMAIN sugars' = 1..(Len(sugars) - 1)
        /\ Len(sugars) \in Nat \ {0}
    BY <1>3 DEF Blocks, Front
  <2>3. \A j \in DOMAIN tries : tries[j] <= Len(sugars) - 1
    <3>1. tries = <<>> \/ tries[Len(tries)] # Len(sugars)
      BY DEF in_try, Last
    <3>2. DOMAIN tries = 1..Len(tries) /\ Len(tries) \in Nat
      BY DEF Blocks
    <3>3. \A j \in DOMAIN tries : /\ tries[j] \in Nat /\ tries[j] <= Len(sugars)
                                 /\ tries[j] <= tries[Len(tries)]
      BY <3>2 DEF Blocks
    <3> QED
      BY <2>2, <3>1, <3>2, <3>3
  <2>4. Blocks'
    BY <1>3, <2>2, <2>3 DEF Blocks
  <2>5. Balanced'
    <3>1. /\ Len(f_stack') = Len(f_stack) - 1
          /\ \A i \in 1..(Len(f_stack) - 1) : f_stack'[i] = f_stack[i]
      BY <1>3, EndFinish
    <3>2. raw' = raw /\ st' = st
      BY <1>3
    <3> SUFFICES ASSUME raw = 0
                 PROVE  /\ Len(f_stack') = Len(sugars')
                        /\ \A i \in DOMAIN sugars' : sugars'[i] = ToSet(f_stack'[i])
      BY <3>2 DEF Balanced, ToSet
    <3> QED
      BY <2>2, <3>1 DEF Balanced
  <2> QED
    BY <1>1, <2>1, <2>4, <2>5
<1> QED
  BY <1>2, <1>3

LEMMA EnterTryStep == IInv /\ EnterTry => IInv'
<1> SUFFICES ASSUME IInv, EnterTry
             PROVE  Executions' /\ Monitors' /\ Blocks' /\ Balanced'
  BY PartsNext
<1> USE Parts DEF EnterTry
<1>1. /\ DOMAIN tries = 1..Len(tries) /\ Len(tries) \in Nat /\ Len(sugars) \in Nat
      /\ tries' \in Seq(Nat)
      /\ DOMAIN tries' = 1..(Len(tries) + 1)
      /\ \A j \in 1..Len(tries) : tries'[j] = tries[j]
      /\ tries'[Len(tries) + 1] = Len(sugars)
  BY DEF Blocks
<1>2. Blocks'
  <2>1. \A j \in DOMAIN tries' : tries'[j] <= Len(sugars)
    BY <1>1 DEF Blocks
  <2>2. \A j, k \in DOMAIN tries' : j <= k => tries'[j] <= tries'[k]
    BY <1>1, <2>1 DEF Blocks
  <2> QED
    BY <1>1, <2>1, <2>2 DEF Blocks
<1> QED
  BY <1>2, SameExecutions, SameMonitors DEF Balanced, stackVars, ToSet

LEMMA LeaveTryStep == IInv /\ LeaveTry => IInv'
<1> SUFFICES ASSUME IInv, LeaveTry
             PROVE  Executions' /\ Monitors' /\ Blocks' /\ Balanced'
  BY PartsNext
<1>1. Executions /\ Monitors /\ Blocks /\ Balanced
  BY Parts
<1>2. /\ DOMAIN tries = 1..Len(tries) /\ Len(tries) \in Nat \ {0}
      /\ tries' \in Seq(Nat)
      /\ DOMAIN tries' = 1..(Len(tries) - 1)
      /\ \A j \in 1..(Len(tries) - 1) : tries'[j] = tries[j]
  BY <1>1 DEF LeaveTry, Blocks, in_try, Front
<1>3. Blocks'
  <2>1. throwing' \in BOOLEAN /\ UNCHANGED <<sugars, st, raw>>
    BY DEF LeaveTry
  <2>2. \A j \in DOMAIN tries' : j \in DOMAIN tries /\ tries'[j] = tries[j]
    BY <1>2
  <2>3. /\ \A j, k \in DOMAIN tries' : j <= k => tries'[j] <= tries'[k]
        /\ \A j \in DOMAIN tries' : tries'[j] <= Len(sugars)
    BY <1>1, <2>2 DEF Blocks
  <2> QED
    BY <1>1, <1>2, <2>1, <2>3 DEF Blocks
<1> QED
  BY <1>1, <1>3, SameExecutions, SameMonitors DEF LeaveTry, Balanced, stackVars, ToSet

LEMMA ThrowStep == IInv /\ Throw => IInv'
<1> SUFFICES ASSUME IInv, Throw
             PROVE  Executions' /\ Monitors' /\ Blocks' /\ Balanced'
  BY PartsNext
<1> QED
  BY Parts, SameExecutions, SameMonitors DEF Throw, Blocks, Balanced, stackVars, ToSet

LEMMA EndMainStep == IInv /\ EndMain => IInv'
<1> SUFFICES ASSUME IInv, EndMain
             PROVE  Executions' /\ Monitors' /\ Blocks' /\ Balanced'
  BY PartsNext
<1>1. st' \in {"aborted", "returned"}
  BY DEF EndMain
<1> QED
  BY <1>1, Parts, SameExecutions, SameMonitors DEF EndMain, Blocks, Balanced, stackVars, ToSet

LEMMA GetReturnValueStep ==
    ASSUME IInv, NEW id \in 0..current_id, getReturnValue(id)
    PROVE  IInv'
<1> SUFFICES Executions' /\ Monitors' /\ Blocks' /\ Balanced'
  BY PartsNext
<1> USE Parts DEF getReturnValue
<1>1. Executions'
  <2>1. CASE id \in DOMAIN all_exes
    BY <2>1, SameExecutions DEF hubVars
  <2>2. CASE id \notin DOMAIN all_exes
    <3>1. id \in ExeId /\ id \notin Given
      BY <2>2 DEF Executions, ExeId
    <3>2. /\ DOMAIN all_exes' \subseteq ExeId
          /\ \A x \in DOMAIN all_exes' :
                all_exes'[x] \in [f_id : FuncId, s_l : Buffers] \cup {Null}
          /\ DOMAIN all_exes' = DOMAIN all_exes \cup {id}
          /\ \A x \in DOMAIN all_exes : x # id => all_exes'[x] = all_exes[x]
      BY <2>2, <3>1, Putting
    <3>3. Given' = Given /\ current_id' = current_id /\ accepted' = accepted
      BY DEF Given
    <3>4. \A x \in Given' : x \in DOMAIN all_exes' /\ all_exes'[x] # Null
      BY <3>1, <3>2, <3>3 DEF Executions
    <3> QED
      BY <3>2, <3>3, <3>4 DEF Executions
  <2> QED
    BY <2>1, <2>2
<1>2. Blocks'
  <2>1. throwing' \in BOOLEAN
    OBVIOUS
  <2> QED
    BY <2>1 DEF Blocks
<1> QED
  BY <1>1, <1>2, SameMonitors DEF Balanced, stackVars, ToSet

LEMMA BlockedSubmitStep ==
    ASSUME IInv, NEW f_id \in FuncId, NEW s_l \in Buffers, BlockedSubmit(f_id, s_l)
    PROVE  IInv'
<1> SUFFICES Executions' /\ Monitors' /\ Blocks' /\ Balanced'
  BY PartsNext
<1> USE Parts DEF BlockedSubmit
<1>1. Executions'
  BY NewExecution DEF Executions, ExeId
<1>2. Monitors'
  BY SameMonitors
<1>3. Blocks'
  BY SameBlocks
<1>4. Balanced'
  BY DEF Balanced, stackVars, blockVars, ToSet
<1> QED
  BY <1>1, <1>2, <1>3, <1>4

LEMMA AsyncSubmitStep ==
    ASSUME IInv, NEW f_id \in FuncId, NEW s_l \in Buffers, AsyncSubmit(f_id, s_l)
    PROVE  IInv'
<1> SUFFICES Executions' /\ Monitors' /\ Blocks' /\ Balanced'
  BY PartsNext
<1> USE Parts DEF AsyncSubmit
<1>1. newExecution(f_id, s_l) /\ UNCHANGED <<joined, tries, st, raw>>
  OBVIOUS
<1>2. CASE f_stack = <<>>
  <2>1. Executions'
    BY <1>2, NewExecution DEF Executions, ExeId
  <2>2. Monitors'
    BY <1>2, SameMonitors DEF stackVars
  <2>3. Blocks'
    BY <1>2 DEF Blocks
  <2>4. Balanced'
    BY <1>2 DEF Balanced, ToSet
  <2> QED
    BY <2>1, <2>2, <2>3, <2>4
<1>3. CASE f_stack # <<>>
  <2> DEFINE n == Len(f_stack)
  <2>1. /\ f_stack' = InTop(f_stack, Append(Last(f_stack), current_id))
        /\ sugars' = IF sugars = <<>> THEN sugars
                     ELSE InTop(sugars, Last(sugars) \cup {current_id})
        /\ accepted' = accepted \cup {current_id}
        /\ UNCHANGED throwing
    BY <1>3
  <2>2. /\ current_id \in ExeId /\ current_id \notin accepted
        /\ accepted \cup {current_id} \subseteq Given'
    BY <1>1, NewExecution DEF Executions
  <2>3. Executions'
    BY <1>1, <2>1, <2>2, NewExecution DEF Executions, ExeId
  <2>4. current_id \notin Held(f_stack) /\ f_stack \in Stack
    BY <2>2 DEF Monitors
  <2>5. /\ f_stack' \in Stack
        /\ Len(f_stack') = n
        /\ \A i \in 1..(n - 1) : f_stack'[i] = f_stack[i]
        /\ ToSet(f_stack'[n]) = ToSet(f_stack[n]) \cup {current_id}
        /\ Held(f_stack') = Held(f_stack) \cup {current_id}
        /\ Distinct(f_stack')
    BY <1>3, <2>1, <2>2, <2>4, Added DEF Monitors
  <2>6. Monitors'
    <3>1. /\ Held(f_stack') = accepted' \ joined'
          /\ joined' \subseteq accepted'
      BY <1>1, <2>1, <2>2, <2>5 DEF Monitors
    <3> QED
      BY <2>5, <3>1 DEF Monitors, Held, Distinct
  <2>7. CASE sugars = <<>>
    <3>1. raw # 0
      BY <1>3, <2>4, <2>7 DEF Balanced, Stack
    <3>2. Blocks' /\ Balanced'
      BY <1>1, <2>1, <2>7, <3>1 DEF Blocks, Balanced
    <3> QED
      BY <2>3, <2>6, <3>2
  <2>8. CASE sugars # <<>>
    <3> DEFINE m == Len(sugars)
               new == Last(sugars) \cup {current_id}
    <3>1. /\ m \in Nat \ {0}
          /\ DOMAIN sugars = 1..m
          /\ sugars \in Seq(SUBSET ExeId)
          /\ new = sugars[m] \cup {current_id}
          /\ new \in SUBSET ExeId
          /\ sugars' = [sugars EXCEPT ![m] = new]
      BY <2>1, <2>2, <2>8 DEF Blocks, InTop, Last
    <3> HIDE DEF m, new
    <3>2. /\ sugars' \in Seq(SUBSET ExeId)
          /\ Len(sugars') = m
          /\ DOMAIN sugars' = 1..m
          /\ \A i \in 1..(m - 1) : sugars'[i] = sugars[i]
          /\ sugars'[m] = new
      BY <3>1
    <3>3. Blocks'
      BY <1>1, <2>1, <2>8, <3>1, <3>2 DEF Blocks, m
    <3>4. Balanced'
      <4> SUFFICES ASSUME raw = 0
                   PROVE  /\ Len(f_stack') = m
                          /\ \A i \in 1..m : sugars'[i] = ToSet(f_stack'[i])
        BY <1>1, <3>2 DEF Balanced, ToSet
      <4>1. n = m /\ \A i \in 1..m : sugars[i] = ToSet(f_stack[i])
        BY <3>1 DEF Balanced, m
      <4> HIDE DEF n
      <4>2. \A i \in 1..(m - 1) : sugars'[i] = ToSet(f_stack'[i])
        BY <2>5, <3>1, <3>2, <4>1
      <4>3. sugars'[m] = ToSet(f_stack'[m])
        BY <2>5, <3>1, <3>2, <4>1
      <4> QED
        BY <2>5, <3>1, <4>1, <4>2, <4>3
    <3> QED
      BY <2>3, <2>6, <3>3, <3>4
  <2> QED
    BY <2>7, <2>8
<1> QED
  BY <1>2, <1>3

LEMMA NextIInv == IInv /\ [ExeNext]_exeVars => IInv'
<1> SUFFICES ASSUME IInv, [ExeNext]_exeVars
             PROVE  IInv'
  OBVIOUS
<1>1. CASE blocks
  BY <1>1, RawNewFinishStep, RawEndFinishStep, EnterFinishStep, LeaveFinishStep,
     EnterTryStep, LeaveTryStep, ThrowStep, EndMainStep, GetReturnValueStep DEF blocks
<1>2. CASE \E f_id \in FuncId, s_l \in Buffers :
              AsyncSubmit(f_id, s_l) \/ BlockedSubmit(f_id, s_l)
  BY <1>2, AsyncSubmitStep, BlockedSubmitStep
<1>3. CASE UNCHANGED exeVars
  <2>1. /\ UNCHANGED <<hubVars, accepted>> /\ UNCHANGED <<stackVars, accepted>>
        /\ UNCHANGED <<blockVars, raw>>
    BY <1>3 DEF exeVars
  <2>2. Balanced'
    BY <1>3, Parts DEF Balanced, ToSet, exeVars, stackVars, blockVars
  <2> QED
    BY <2>1, <2>2, Parts, PartsNext, SameExecutions, SameMonitors, SameBlocks
<1> QED
  BY <1>1, <1>2, <1>3 DEF ExeNext

-----------------------------------------------------------------------------
(***************************************************************************)
(* Theorems.                                                               *)
(***************************************************************************)

\* Every reachable state satisfies the invariant.
THEOREM Invariance == ExeSpec => []IInv
  BY InitIInv, NextIInv, PTL DEF ExeSpec

\* The variables keep their types, and a block that catches is inside of no more
\* blocks than there are.
THEOREM TypeCorrect == ExeSpec => []ExeTypeOK
<1>1. IInv => ExeTypeOK
  BY DEF IInv
<1> QED
  BY <1>1, Invariance, PTL

\* However finishes are used, an execution whose submission returned is in exactly one
\* open monitor, once, until the one it is in is waited for.
THEOREM OnePlace == ExeSpec => []EachInOnePlace
<1>1. IInv => EachInOnePlace
  BY DEF IInv, EachInOnePlace, Distinct, Held
<1> QED
  BY <1>1, Invariance, PTL

\* FinishSugars alone keep the monitors in step with the blocks, exceptions included.
THEOREM Balance == ExeSpec => []SugarBalanced
<1>1. IInv => SugarBalanced
  BY DEF IInv, Balanced, SugarBalanced
<1> QED
  BY <1>1, Invariance, PTL

\* A program that uses FinishSugars alone ends when all it submitted was waited for.
THEOREM Awaited == ExeSpec => []AllAwaited
<1>1. IInv => AllAwaited
  <2> SUFFICES ASSUME IInv, Ended, raw = 0
               PROVE  accepted = joined
    BY DEF AllAwaited
  <2>1. sugars = <<>> /\ Len(f_stack) = Len(sugars) /\ f_stack \in Stack
    BY DEF IInv, Balanced, Ended, ExeTypeOK, Stack
  <2>2. DOMAIN f_stack = {}
    BY <2>1 DEF Stack
  <2>3. Held(f_stack) = {}
    BY <2>2 DEF Held
  <2> QED
    BY <2>3 DEF IInv
<1> QED
  BY <1>1, Invariance, PTL

\* The execution of a task is always in the table, though lookups of ids that are yet
\* to be given write to it.
THEOREM Present == ExeSpec => []NoneMissing
<1>1. IInv => NoneMissing
  BY DEF IInv, NoneMissing, Given
<1> QED
  BY <1>1, Invariance, PTL

\* No submission is lost, in the hub or in the stack of finishes.
THEOREM Kept == ExeSpec => []ExecutionsKept
  BY OnePlace, Present, PTL DEF ExecutionsKept

\* FinishSugars alone keep the stack and leave nothing to wait for.
THEOREM Finished == ExeSpec => []FinishesKept
  BY Balance, Awaited, PTL DEF FinishesKept

LEMMA FinishStep == IInv /\ [ExeNext]_exeVars => [raw' > 0 \/ Finish!Next]_<<sugars, joined>>
<1> SUFFICES ASSUME IInv, [ExeNext]_exeVars
             PROVE  [raw' > 0 \/ Finish!Next]_<<sugars, joined>>
  OBVIOUS
<1>0. raw' \in Nat
  BY NextIInv DEF IInv, ExeTypeOK
<1> SUFFICES ASSUME raw' = 0
             PROVE  Finish!Next \/ UNCHANGED <<sugars, joined>>
  BY <1>0
<1>1. CASE EnterFinish
  BY <1>1 DEF EnterFinish, newFinish, Finish!Next, Finish!Enter
<1>2. CASE LeaveFinish
  <2>1. CASE f_stack = <<>>
    BY <1>2, <2>1 DEF LeaveFinish, stackVars
  <2>2. CASE f_stack # <<>>
    <3>1. raw = 0 /\ sugars # <<>> /\ sugars' = Front(sugars) /\ endFinish
      BY <1>2, <2>2 DEF LeaveFinish
    <3>2. Len(f_stack) = Len(sugars) /\ sugars \in Seq(SUBSET ExeId)
      BY <3>1 DEF IInv, Balanced, ExeTypeOK
    <3>3. sugars[Len(sugars)] = ToSet(f_stack[Len(f_stack)])
      BY <3>1, <3>2 DEF IInv, Balanced
    <3>4. /\ joined' = joined \cup sugars[Len(sugars)]
          /\ joined \cap sugars[Len(sugars)] = {}
      BY <2>2, <3>1, <3>3, EndFinish
    <3> QED
      BY <3>1, <3>4 DEF Finish!Next, Finish!Leave, Front
  <2> QED
    BY <2>1, <2>2
<1>3. ASSUME NEW f_id \in FuncId, NEW s_l \in Buffers, AsyncSubmit(f_id, s_l)
      PROVE  Finish!Next \/ UNCHANGED <<sugars, joined>>
  <2>1. CASE sugars' = sugars
    BY <1>3, <2>1 DEF AsyncSubmit
  <2>2. CASE sugars' # sugars
    <3>1. /\ raw = 0 /\ sugars # <<>> /\ joined' = joined
          /\ sugars' = [sugars EXCEPT ![Len(sugars)] = Last(sugars) \cup {current_id}]
      BY <1>3, <2>2 DEF AsyncSubmit, InTop
    <3>2. current_id \in 0..MaxExes /\ current_id \notin accepted
      BY <1>3, ExecutionAssumption
      DEF AsyncSubmit, newExecution, IInv, ExeTypeOK, ExeId, Given
    <3>3. current_id \notin joined
      BY <3>2 DEF IInv
    <3>4. \A i \in DOMAIN sugars : sugars[i] \subseteq accepted
      <4>1. /\ Len(f_stack) = Len(sugars) /\ sugars \in Seq(SUBSET ExeId)
            /\ f_stack \in Stack
            /\ \A i \in DOMAIN sugars : sugars[i] = ToSet(f_stack[i])
        BY <3>1 DEF IInv, Balanced, ExeTypeOK, Stack
      <4>2. DOMAIN sugars = DOMAIN f_stack
        BY <4>1 DEF Stack
      <4> QED
        BY <4>1, <4>2 DEF IInv, Held
    <3>5. Finish!Spawn(current_id)
      BY <3>1, <3>2, <3>3, <3>4 DEF Finish!Spawn, Last
    <3> QED
      BY <3>2, <3>5 DEF Finish!Next
  <2> QED
    BY <2>1, <2>2
<1>4. ASSUME NEW f_id \in FuncId, NEW s_l \in Buffers, BlockedSubmit(f_id, s_l)
      PROVE  UNCHANGED <<sugars, joined>>
  BY <1>4 DEF BlockedSubmit, stackVars, blockVars
<1>5. CASE RawNewFinish \/ RawEndFinish
  BY <1>5 DEF RawNewFinish, RawEndFinish, IInv, ExeTypeOK
<1>6. CASE EnterTry \/ LeaveTry \/ Throw \/ EndMain \/ \E id \in 0..current_id : getReturnValue(id)
  BY <1>6 DEF EnterTry, LeaveTry, Throw, EndMain, getReturnValue, stackVars
<1>7. CASE UNCHANGED exeVars
  BY <1>7 DEF exeVars, stackVars, blockVars
<1> QED
  BY <1>1, <1>2, <1>3, <1>4, <1>5, <1>6, <1>7 DEF ExeNext, blocks

\* The blocks with a FinishSugar are finishes, for as long as a program leaves newFinish
\* and endFinish to them.
THEOREM IsFinish == ExeSpec => FinishSpec
<1>1. ExeInit => Finish!Init
  BY DEF ExeInit, Finish!Init
<1> QED
  BY <1>1, FinishStep, Invariance, PTL DEF ExeSpec, FinishSpec

-----------------------------------------------------------------------------
(***************************************************************************)
(* The program of Runtime: executions, and the functions behind them.      *)
(***************************************************************************)

\* An id was given to one name, and what is in the table under it is of this name, or the
\* null pointer of a look-up that came first and stays.
IdsRight ==
    /\ current \in Nat
    /\ DOMAIN id_lookup \subseteq {mangled[f] : f \in Func}
    /\ \A n \in DOMAIN id_lookup : id_lookup[n] \in 0..(current - 1)
    /\ \A m, n \in DOMAIN id_lookup : id_lookup[m] = id_lookup[n] => m = n
    /\ DOMAIN f_table \subseteq Nat
    /\ \A id \in DOMAIN f_table : f_table[id] # nullptr =>
          /\ f_table[id] \in Func
          /\ mangled[f_table[id]] \in DOMAIN id_lookup
          /\ id_lookup[mangled[f_table[id]]] = id

\* The entry of a function f whose registration returned.
Entered(f) ==
    /\ f \in Func
    /\ mangled[f] \in DOMAIN id_lookup
    /\ id_lookup[mangled[f]] \in DOMAIN f_table
    /\ f_table[id_lookup[mangled[f]]] # nullptr

\* The execution with this id is one of the function and arguments of s.
ExecutionOf(s, id) ==
    /\ s.f \in Func /\ s.args = Args[s.f]
    /\ mangled[s.f] \in DOMAIN id_lookup
    /\ all_exes[id] = [f_id |-> id_lookup[mangled[s.f]], s_l |-> serialized(s.f)]

\* A function of this type, with these arguments, was submitted as execution e.
RanFor(f, args, e) ==
    /\ e + 1 \in DOMAIN submitted
    /\ mangled[f] = mangled[submitted[e + 1].f]
    /\ args = submitted[e + 1].args

RanInv == ran # Nothing => \A e \in ran.exes : RanFor(ran.f, ran.args, e)

FuncInv ==
    /\ IdsRight
    /\ \A f \in registered : Entered(f)
    /\ submitted \in Seq([f : Func, args : {Args[f] : f \in Func}])
    /\ Len(submitted) = current_id
    /\ \A i \in DOMAIN submitted : ExecutionOf(submitted[i], i - 1)
    /\ RanInv

LEMMA Enumerated ==
    ASSUME NEW n \in Nat, NEW s, s = [i \in 1..n |-> s[i]]
    PROVE  s \in Seq({s[i] : i \in 1..n}) /\ Len(s) = n /\ DOMAIN s = 1..n
<1> DEFINE S == {s[i] : i \in 1..n}
<1>1. s \in [1..n -> S]
  OBVIOUS
<1> HIDE DEF S
<1>2. s \in Seq(S) /\ DOMAIN s = 1..n
  BY <1>1, IsASeq
<1> QED
  BY <1>2, LenProperties DEF S

\* The arguments that were serialized for a function are those that it gets.
LEMMA RoundTrip ==
    ASSUME NEW f \in Func, NEW g \in Func, mangled[f] = mangled[g]
    PROVE  deSerializeArguments(g, serialized(f)) = {Args[f]}
<1> DEFINE n == Len(ArgTypes[f])
<1>1. /\ ArgTypes[g] = ArgTypes[f]
      /\ n \in Nat
      /\ Args[f] = [i \in 1..n |-> Args[f][i]]
  BY FunctionAssumption, RuntimeAssumption
<1>2. /\ Len(serialized(f)) = n
      /\ \A i \in 1..n : loaded(ArgTypes[f][i], serialized(f)[i]) = {Args[f][i]}
  <2>1. DOMAIN Args[f] = 1..n
    BY <1>1
  <2>2. serialized(f) = [i \in 1..n |-> saved(ArgTypes[f][i], Args[f][i])]
    BY <2>1 DEF serialized, serializeList
  <2>3. \A i \in 1..n : loaded(ArgTypes[f][i], saved(ArgTypes[f][i], Args[f][i])) = {Args[f][i]}
    BY <2>1, RuntimeAssumption
  <2>4. Len(serialized(f)) = n
    BY <1>1, <2>2, Enumerated
  <2> QED
    BY <2>2, <2>3, <2>4
<1> HIDE DEF n
<1> DEFINE boxed == [i \in 1..Len(ArgTypes[g]) |-> loaded(ArgTypes[g][i], serialized(f)[i])]
<1>3. /\ DOMAIN boxed = 1..n
      /\ \A i \in 1..n : boxed[i] = {Args[f][i]}
      /\ Len(serialized(f)) = Len(ArgTypes[g])
  BY <1>1, <1>2 DEF n
<1>4. deSerializeArguments(g, serialized(f)) =
         IF Len(serialized(f)) # Len(ArgTypes[g]) \/ \E i \in DOMAIN boxed : boxed[i] = {} THEN {}
         ELSE {[i \in DOMAIN boxed |-> CHOOSE v \in boxed[i] : TRUE]}
  BY DEF deSerializeArguments
<1> HIDE DEF boxed
<1>5. deSerializeArguments(g, serialized(f)) =
         {[i \in 1..n |-> CHOOSE v \in boxed[i] : TRUE]}
  BY <1>3, <1>4
<1>6. \A i \in 1..n : (CHOOSE v \in boxed[i] : TRUE) = Args[f][i]
  BY <1>3
<1> QED
  BY <1>1, <1>5, <1>6 DEF n

LEMMA GetId ==
    ASSUME IdsRight, NEW f \in Func, getIdfromMangled(f)
    PROVE  /\ current' \in Nat
           /\ DOMAIN id_lookup' = DOMAIN id_lookup \cup {mangled[f]}
           /\ \A n \in DOMAIN id_lookup : id_lookup'[n] = id_lookup[n]
           /\ id_lookup'[mangled[f]] = function_id(f)
           /\ function_id(f) \in FuncId
           /\ \A n \in DOMAIN id_lookup' : id_lookup'[n] \in 0..(current' - 1)
           /\ \A m, n \in DOMAIN id_lookup' : id_lookup'[m] = id_lookup'[n] => m = n
<1> DEFINE name == mangled[f]
<1>1. /\ DOMAIN id_lookup' = DOMAIN id_lookup \cup {name}
      /\ \A n \in DOMAIN id_lookup : id_lookup'[n] = id_lookup[n]
      /\ name \notin DOMAIN id_lookup => id_lookup'[name] = current
      /\ current' = IF name \in DOMAIN id_lookup THEN current ELSE current + 1
  BY DEF getIdfromMangled, Inserted
<1>2. id_lookup'[name] = function_id(f)
  BY <1>1 DEF function_id
<1> HIDE DEF name
<1> QED
  BY <1>1, <1>2 DEF IdsRight, FuncId, name

\* The invariant on ids when the table is as it was, or has one more entry: a function or
\* the null pointer.
LEMMA TableGrows ==
    ASSUME IdsRight, \A f \in registered : Entered(f),
           current' \in Nat,
           DOMAIN id_lookup' \subseteq {mangled[f] : f \in Func},
           DOMAIN id_lookup \subseteq DOMAIN id_lookup',
           \A n \in DOMAIN id_lookup : id_lookup'[n] = id_lookup[n],
           \A n \in DOMAIN id_lookup' : id_lookup'[n] \in 0..(current' - 1),
           \A m, n \in DOMAIN id_lookup' : id_lookup'[m] = id_lookup'[n] => m = n,
           NEW id \in Nat, NEW g \in Func \cup {nullptr},
           g # nullptr => mangled[g] \in DOMAIN id_lookup' /\ id_lookup'[mangled[g]] = id,
           \/ f_table' = f_table
           \/ f_table' = Inserted(f_table, id, g)
    PROVE  IdsRight' /\ \A f \in registered : Entered(f)'
<1>1. /\ DOMAIN f_table' \subseteq DOMAIN f_table \cup {id}
      /\ DOMAIN f_table \subseteq DOMAIN f_table'
      /\ \A i \in DOMAIN f_table : f_table'[i] = f_table[i]
      /\ id \in DOMAIN f_table' \ DOMAIN f_table => f_table'[id] = g
  BY DEF Inserted
<1>2. \A i \in DOMAIN f_table' : f_table'[i] # nullptr =>
          /\ f_table'[i] \in Func
          /\ mangled[f_table'[i]] \in DOMAIN id_lookup'
          /\ id_lookup'[mangled[f_table'[i]]] = i
  BY <1>1 DEF IdsRight
<1>3. IdsRight'
  BY <1>1, <1>2 DEF IdsRight
<1>4. \A f \in registered : Entered(f)'
  BY <1>1 DEF Entered
<1> QED
  BY <1>3, <1>4

LEMMA RegisterStep ==
    ASSUME IdsRight, \A f \in registered : Entered(f), NEW f \in Func, Register(f)
    PROVE  IdsRight' /\ \A g \in registered' : Entered(g)'
<1>1. /\ getIdfromMangled(f)
      /\ f_table' = Inserted(f_table, function_id(f), f)
      /\ registered' = IF registrable(f) THEN registered \cup {f} ELSE registered
  BY DEF Register, register_func
<1>2. /\ current' \in Nat
      /\ DOMAIN id_lookup' = DOMAIN id_lookup \cup {mangled[f]}
      /\ \A n \in DOMAIN id_lookup : id_lookup'[n] = id_lookup[n]
      /\ id_lookup'[mangled[f]] = function_id(f)
      /\ function_id(f) \in Nat
      /\ \A n \in DOMAIN id_lookup' : id_lookup'[n] \in 0..(current' - 1)
      /\ \A m, n \in DOMAIN id_lookup' : id_lookup'[m] = id_lookup'[n] => m = n
  BY <1>1, GetId DEF FuncId
<1> DEFINE id == function_id(f)
<1> HIDE DEF id
<1>3. IdsRight' /\ \A g \in registered : Entered(g)'
  <2>1. DOMAIN id_lookup' \subseteq {mangled[g] : g \in Func}
    BY <1>2 DEF IdsRight
  <2>2. id \in Nat /\ f_table' = Inserted(f_table, id, f) /\ id_lookup'[mangled[f]] = id
    BY <1>1, <1>2 DEF id
  <2> QED
    BY <1>2, <2>1, <2>2, TableGrows
<1>4. registrable(f) => Entered(f)'
  <2> SUFFICES ASSUME registrable(f)
               PROVE  Entered(f)'
    OBVIOUS
  <2>1. id \in DOMAIN f_table' /\ f_table'[id] = f
    BY <1>1 DEF registrable, Inserted, id
  <2>2. id_lookup'[mangled[f]] = id
    BY <1>2 DEF id
  <2> QED
    BY <1>2, <2>1, <2>2, FunctionAssumption DEF Entered
<1> QED
  BY <1>1, <1>3, <1>4

LEMMA LookupStep ==
    ASSUME IdsRight, \A f \in registered : Entered(f), NEW id \in 0..current, Lookup(id)
    PROVE  IdsRight' /\ \A f \in registered' : Entered(f)'
<1>1. /\ f_table' = Inserted(f_table, id, nullptr)
      /\ UNCHANGED <<id_lookup, current, registered>>
  BY DEF Lookup, getFuncObj, libVars
<1>2. id \in Nat
  BY DEF IdsRight
<1>3. /\ current' \in Nat
      /\ DOMAIN id_lookup' \subseteq {mangled[f] : f \in Func}
      /\ \A n \in DOMAIN id_lookup' : id_lookup'[n] \in 0..(current' - 1)
      /\ \A m, n \in DOMAIN id_lookup' : id_lookup'[m] = id_lookup'[n] => m = n
  BY <1>1 DEF IdsRight
<1>4. IdsRight' /\ \A f \in registered : Entered(f)'
  BY <1>1, <1>2, <1>3, TableGrows
<1> QED
  BY <1>1, <1>4

LEMMA SubmitStep ==
    ASSUME IInv, FuncInv, NEW f \in Func, RemoteSubmit(f),
           newExecution(function_id(f), serialized(f))
    PROVE  FuncInv'
<1> DEFINE id == function_id(f)
           s == [f |-> f, args |-> Args[f]]
<1>1. /\ getIdfromMangled(f)
      /\ submitted' = Append(submitted, s)
      /\ UNCHANGED <<f_table, registered, ran>>
      /\ current_id' = current_id + 1
      /\ all_exes' = Put(all_exes, current_id, [f_id |-> id, s_l |-> serialized(f)])
  BY DEF RemoteSubmit, newExecution
<1>2. /\ current' \in Nat
      /\ DOMAIN id_lookup' = DOMAIN id_lookup \cup {mangled[f]}
      /\ \A n \in DOMAIN id_lookup : id_lookup'[n] = id_lookup[n]
      /\ id_lookup'[mangled[f]] = id
      /\ \A n \in DOMAIN id_lookup' : id_lookup'[n] \in 0..(current' - 1)
      /\ \A m, n \in DOMAIN id_lookup' : id_lookup'[m] = id_lookup'[n] => m = n
  BY <1>1, GetId DEF FuncInv
<1>3. /\ submitted \in Seq([f : Func, args : {Args[g] : g \in Func}])
      /\ Len(submitted) = current_id
      /\ \A i \in DOMAIN submitted : ExecutionOf(submitted[i], i - 1)
  BY DEF FuncInv
<1>4. /\ submitted' \in Seq([f : Func, args : {Args[g] : g \in Func}])
      /\ Len(submitted') = current_id'
      /\ DOMAIN submitted = 1..current_id
      /\ DOMAIN submitted' = 1..(current_id + 1)
      /\ \A i \in 1..current_id : submitted'[i] = submitted[i]
      /\ submitted'[current_id + 1] = s
      /\ current_id \in Nat
  <2> DEFINE T == [f : Func, args : {Args[g] : g \in Func}]
  <2>1. s \in T
    OBVIOUS
  <2> HIDE DEF T, s
  <2>2. submitted \in Seq(T) /\ submitted' = Append(submitted, s) /\ Len(submitted) = current_id
    BY <1>1, <1>3 DEF T
  <2> QED
    BY <1>1, <2>1, <2>2 DEF T
<1> HIDE DEF id
<1>5. IdsRight' /\ \A g \in registered' : Entered(g)'
  <2>1. IdsRight /\ \A g \in registered : Entered(g)
    BY DEF FuncInv
  <2>2. DOMAIN id_lookup' \subseteq {mangled[g] : g \in Func}
    BY <1>2, <2>1 DEF IdsRight
  <2>3. f_table' = f_table /\ registered' = registered
    BY <1>1
  <2>4. 0 \in Nat /\ nullptr \in Func \cup {nullptr}
    OBVIOUS
  <2>5. IdsRight' /\ \A g \in registered : Entered(g)'
    BY <1>2, <2>1, <2>2, <2>3, <2>4, TableGrows
  <2> QED
    BY <2>3, <2>5
<1>6. \A i \in DOMAIN submitted' : ExecutionOf(submitted[i], i - 1)'
  <2>1. \A x \in 0..(current_id - 1) : all_exes'[x] = all_exes[x]
    BY <1>1, <1>4 DEF IInv, Given, Put
  <2>2. all_exes'[current_id] = [f_id |-> id, s_l |-> serialized(f)]
    BY <1>1 DEF Put, id
  <2>3. ASSUME NEW i \in 1..current_id
        PROVE  ExecutionOf(submitted[i], i - 1)'
    <3>1. ExecutionOf(submitted[i], i - 1) /\ submitted'[i] = submitted[i]
      BY <1>3, <1>4
    <3>2. all_exes'[i - 1] = all_exes[i - 1]
      BY <1>4, <2>1
    <3>3. submitted'[i].f = submitted[i].f /\ submitted'[i].args = submitted[i].args
      BY <3>1
    <3> QED
      BY <1>2, <3>1, <3>2, <3>3 DEF ExecutionOf
  <2>4. ASSUME NEW i \in {current_id + 1}
        PROVE  ExecutionOf(submitted[i], i - 1)'
    <3>1. submitted'[i].f = f /\ submitted'[i].args = Args[f]
      BY <1>4
    <3>2. all_exes'[i - 1] = [f_id |-> id, s_l |-> serialized(f)]
      BY <1>4, <2>2
    <3> QED
      BY <1>2, <3>1, <3>2 DEF ExecutionOf
  <2> QED
    BY <1>4, <2>3, <2>4
<1>7. RanInv'
  BY <1>1, <1>4 DEF FuncInv, RanInv, RanFor
<1> QED
  BY <1>4, <1>5, <1>6, <1>7 DEF FuncInv

LEMMA KeptFuncs ==
    ASSUME IInv, FuncInv, UNCHANGED <<funcVars, submitted, registered, current_id>>,
           \A id \in Given : all_exes'[id] = all_exes[id], RanInv'
    PROVE  FuncInv'
<1>1. /\ UNCHANGED <<id_lookup, current, f_table, submitted, registered, current_id>>
  BY DEF funcVars
<1>2. IdsRight' /\ \A f \in registered' : Entered(f)'
  BY <1>1 DEF FuncInv, IdsRight, Entered
<1>3. \A i \in DOMAIN submitted' : ExecutionOf(submitted[i], i - 1)'
  <2>1. \A i \in DOMAIN submitted : i - 1 \in Given
    BY DEF FuncInv, Given, IInv, ExeTypeOK, ExeId
  <2> QED
    BY <1>1, <2>1 DEF FuncInv, ExecutionOf
<1> QED
  BY <1>1, <1>2, <1>3 DEF FuncInv

\* A function that runs for executions that it was submitted as.
LEMMA RunStep ==
    ASSUME IInv, FuncInv, NEW id, NEW bvs, NEW exes, Run(id, bvs, exes),
           \A e \in exes : RanFor(get_function_object(id), bvs, e)
    PROVE  FuncInv'
<1> DEFINE f == get_function_object(id)
<1>1. /\ UNCHANGED <<exeVars, funcVars, submitted, registered>>
      /\ ran' = IF bindArguments(f, bvs) = {} THEN Nothing
                ELSE [f |-> f, exes |-> exes,
                      args |-> CHOOSE args \in bindArguments(f, bvs) : TRUE]
  BY DEF Run
<1>2. RanInv'
  <2>1. CASE Len(bvs) # Len(ArgTypes[f])
    BY <1>1, <2>1 DEF bindArguments, RanInv
  <2>2. CASE Len(bvs) = Len(ArgTypes[f])
    <3>1. bindArguments(f, bvs) = {bvs}
      BY <2>2 DEF bindArguments
    <3>2. ran' = [f |-> f, exes |-> exes, args |-> bvs]
      BY <1>1, <3>1
    <3>3. \A e \in exes : RanFor(f, bvs, e)
      OBVIOUS
    <3> HIDE DEF f
    <3>4. submitted' = submitted
      BY <1>1
    <3> QED
      BY <3>2, <3>3, <3>4 DEF RanInv, RanFor
  <2> QED
    BY <2>1, <2>2
<1>3. current_id' = current_id /\ all_exes' = all_exes
  BY <1>1 DEF exeVars, hubVars
<1> QED
  BY <1>1, <1>2, <1>3, KeptFuncs

\* Of all lists that Buffering makes, a function takes the whole one only.
LEMMA WholeOrNone ==
    ASSUME NEW f \in Func, NEW g \in Func, mangled[f] = mangled[g],
           NEW buffers \in Buffering(serialized(f)), NEW bvs \in deSerializeArguments(g, buffers)
    PROVE  bvs = Args[f]
<1> DEFINE n == Len(ArgTypes[f])
           s == serialized(f)
           S == {s[i] : i \in 1..n}
<1>1. ArgTypes[g] = ArgTypes[f] /\ n \in Nat
  BY FunctionAssumption, RuntimeAssumption
<1>2. s \in Seq(S) /\ Len(s) = n /\ DOMAIN s = 1..n
  <2>1. Args[f] = [i \in 1..n |-> Args[f][i]]
    BY RuntimeAssumption
  <2>2. s = [i \in 1..n |-> saved(ArgTypes[f][i], Args[f][i])]
    BY <2>1 DEF serialized, serializeList
  <2>3. s = [i \in 1..n |-> s[i]]
    BY <2>2
  <2> HIDE DEF s, n
  <2> QED
    BY <1>1, <2>3, Enumerated DEF n
<1>3. Len(buffers) = n
  BY <1>1 DEF deSerializeArguments
<1> HIDE DEF n, s, S
<1>4. buffers = s
  <2>1. CASE buffers = s \o s
    <3>1. Len(s \o s) = n + n
      BY <1>2, ConcatProperties
    <3>2. n = 0
      BY <1>1, <1>3, <2>1, <3>1
    <3>3. s = <<>>
      BY <1>2, <3>2, EmptySeq
    <3> QED
      BY <2>1, <3>3
  <2>2. ASSUME NEW k \in 0..Len(s), buffers = SubSeq(s, 1, k)
        PROVE  buffers = s
    <3>1. \A i \in 1..k : s[i] \in S
      BY <1>1, <1>2
    <3>2. Len(SubSeq(s, 1, k)) = k
      BY <1>1, <1>2, <3>1, SubSeqProperties
    <3>3. k = Len(s)
      BY <1>2, <1>3, <2>2, <3>2
    <3> QED
      BY <1>2, <2>2, <3>3, SubSeqFull
  <2> QED
    BY <2>1, <2>2 DEF Buffering, s
<1> QED
  BY <1>4, RoundTrip DEF s

\* A call with the buffers of an execution.
LEMMA SerializedStep ==
    ASSUME IInv, FuncInv, NEW id, NEW e \in 0..(current_id - 1), CallSerialized(id, e)
    PROVE  FuncInv'
<1> DEFINE g == get_function_object(id)
           s == submitted[e + 1]
<1>1. PICK buffers \in Buffering(all_exes[e].s_l) :
          /\ g # nullptr
          /\ \E bvs \in deSerializeArguments(g, buffers) :
                Run(id, bvs, {x \in {e} : all_exes[x].f_id = id})
  BY DEF CallSerialized
<1>2. PICK bvs \in deSerializeArguments(g, buffers) :
          Run(id, bvs, {x \in {e} : all_exes[x].f_id = id})
  BY <1>1
<1>3. /\ e + 1 \in DOMAIN submitted
      /\ s.f \in Func /\ s.args = Args[s.f]
      /\ mangled[s.f] \in DOMAIN id_lookup
      /\ all_exes[e].f_id = id_lookup[mangled[s.f]] /\ all_exes[e].s_l = serialized(s.f)
  <2>1. e + 1 \in DOMAIN submitted /\ (e + 1) - 1 = e
    BY DEF FuncInv, IInv, ExeTypeOK, ExeId
  <2>2. ExecutionOf(s, e)
    BY <2>1 DEF FuncInv
  <2> QED
    BY <2>1, <2>2 DEF ExecutionOf
<1> HIDE DEF s
<1>4. ASSUME all_exes[e].f_id = id
      PROVE  mangled[g] = mangled[s.f] /\ bvs = s.args
  <2>1. g \in Func /\ mangled[g] \in DOMAIN id_lookup /\ id_lookup[mangled[g]] = id
    BY <1>1 DEF get_function_object, FuncInv, IdsRight
  <2> HIDE DEF g
  <2>2. \A m, k \in DOMAIN id_lookup : id_lookup[m] = id_lookup[k] => m = k
    BY DEF FuncInv, IdsRight
  <2>3. mangled[g] = mangled[s.f]
    BY <1>3, <1>4, <2>1, <2>2
  <2> QED
    BY <1>2, <1>3, <2>1, <2>3, WholeOrNone
<1>5. \A x \in {y \in {e} : all_exes[y].f_id = id} : RanFor(g, bvs, x)
  BY <1>3, <1>4 DEF RanFor, s
<1> QED
  BY <1>2, <1>5, RunStep

\* A step of the program is one of Execution.
LEMMA ExeStep == FuncInv /\ [Next]_vars => [ExeNext]_exeVars
<1> SUFFICES ASSUME FuncInv, [Next]_vars
             PROVE  [ExeNext]_exeVars
  OBVIOUS
<1>1. ASSUME strings
      PROVE  UNCHANGED exeVars
  BY <1>1 DEF strings, Split, Format, ReadHostFile, StartUp, Cookie, Calls
<1>2. ASSUME NEW f \in Func, getIdfromMangled(f)
      PROVE  function_id(f) \in FuncId /\ serialized(f) \in Buffers
  BY <1>2, GetId, RuntimeAssumption DEF FuncInv, serialized
<1>3. ASSUME finishes
      PROVE  ExeNext
  <2>1. CASE blocks
    BY <2>1 DEF ExeNext
  <2>2. ASSUME NEW f \in Func, Submit(f)
        PROVE  ExeNext
    BY <1>2, <2>2 DEF Submit, BlockedRemote, RemoteSubmit, ExeNext
  <2>3. (CHOOSE f \in Func : TRUE) \in Func
    BY RuntimeAssumption
  <2> QED
    BY <1>3, <2>1, <2>2, <2>3 DEF finishes
<1>4. ASSUME functions
      PROVE  [ExeNext]_exeVars
  <2>1. ASSUME NEW f \in Func, Register(f) \/ BlockedRemote(f)
        PROVE  [ExeNext]_exeVars
    BY <1>2, <2>1 DEF Register, BlockedRemote, RemoteSubmit, ExeNext
  <2>2. ASSUME NEW id \in 0..current, Lookup(id)
        PROVE  UNCHANGED exeVars
    BY <2>2 DEF Lookup
  <2>3. ASSUME NEW id, NEW bvs, NEW exes, Run(id, bvs, exes)
        PROVE  UNCHANGED exeVars
    BY <2>3 DEF Run
  <2> QED
    BY <1>4, <2>1, <2>2, <2>3 DEF functions, CallSerialized, CallBoxed
<1>5. ASSUME UNCHANGED vars
      PROVE  UNCHANGED exeVars
  BY <1>5 DEF vars
<1> QED
  BY <1>1, <1>3, <1>4, <1>5 DEF Next

LEMMA BlocksKeep ==
    ASSUME IInv, blocks
    PROVE  current_id' = current_id /\ \A id \in Given : all_exes'[id] = all_exes[id]
<1>1. CASE UNCHANGED hubVars
  BY <1>1 DEF hubVars
<1>2. ASSUME NEW id \in 0..current_id, getReturnValue(id)
      PROVE  current_id' = current_id /\ \A x \in Given : all_exes'[x] = all_exes[x]
  <2>1. \A x \in Given : x \in DOMAIN all_exes
    BY DEF IInv
  <2> QED
    BY <1>2, <2>1 DEF getReturnValue, Put
<1> QED
  BY <1>1, <1>2 DEF blocks, RawNewFinish, RawEndFinish, EnterFinish, LeaveFinish, EnterTry,
     LeaveTry, Throw, EndMain

LEMMA NextFuncInv == IInv /\ FuncInv /\ [Next]_vars => FuncInv'
<1> SUFFICES ASSUME IInv, FuncInv, [Next]_vars
             PROVE  FuncInv'
  OBVIOUS
<1>1. ASSUME UNCHANGED <<exeVars, funcVars, submitted, registered, ran>>
      PROVE  FuncInv'
  <2>1. current_id' = current_id /\ all_exes' = all_exes /\ RanInv'
    BY <1>1 DEF exeVars, hubVars, FuncInv, RanInv, RanFor
  <2> QED
    BY <1>1, <2>1, KeptFuncs
<1>2. CASE strings
  BY <1>1, <1>2 DEF strings, Split, Format, ReadHostFile, StartUp, Cookie, Calls
<1>3. ASSUME NEW f \in Func, Submit(f) \/ BlockedRemote(f)
      PROVE  FuncInv'
  BY <1>3, SubmitStep DEF Submit, BlockedRemote, AsyncSubmit, BlockedSubmit
<1>4. CASE finishes
  <2>1. CASE blocks /\ UNCHANGED <<funcVars, libVars>>
    BY <2>1, BlocksKeep, KeptFuncs DEF libVars, FuncInv, RanInv, RanFor
  <2>2. (CHOOSE f \in Func : TRUE) \in Func
    BY RuntimeAssumption
  <2> QED
    BY <1>3, <1>4, <2>1, <2>2 DEF finishes
<1>5. CASE functions
  <2>1. ASSUME UNCHANGED <<exeVars, submitted, ran>>,
               \A n \in DOMAIN id_lookup :
                   n \in DOMAIN id_lookup' /\ id_lookup'[n] = id_lookup[n],
               IdsRight' /\ \A f \in registered' : Entered(f)'
        PROVE  FuncInv'
    <3>1. UNCHANGED <<submitted, ran, current_id, all_exes>>
      BY <2>1 DEF exeVars, hubVars
    <3>2. \A i \in DOMAIN submitted' : ExecutionOf(submitted[i], i - 1)'
      BY <2>1, <3>1 DEF FuncInv, ExecutionOf
    <3> QED
      BY <2>1, <3>1, <3>2 DEF FuncInv, RanInv, RanFor
  <2>2. ASSUME NEW f \in Func, Register(f)
        PROVE  FuncInv'
    <3>1. IdsRight' /\ \A g \in registered' : Entered(g)'
      BY <2>2, RegisterStep DEF FuncInv
    <3>2. \A n \in DOMAIN id_lookup : n \in DOMAIN id_lookup' /\ id_lookup'[n] = id_lookup[n]
      BY <2>2 DEF Register, register_func, getIdfromMangled, Inserted
    <3> QED
      BY <2>1, <2>2, <3>1, <3>2 DEF Register
  <2>3. ASSUME NEW id \in 0..current, Lookup(id)
        PROVE  FuncInv'
    <3>1. IdsRight' /\ \A g \in registered' : Entered(g)'
      BY <2>3, LookupStep DEF FuncInv
    <3> QED
      BY <2>1, <2>3, <3>1 DEF Lookup, getFuncObj, libVars
  <2>4. CASE \E f \in Func : BlockedRemote(f)
    BY <1>3, <2>4
  <2>5. ASSUME NEW id, NEW g \in Func, CallBoxed(id, g)
        PROVE  FuncInv'
    BY <2>5, RunStep DEF CallBoxed
  <2> QED
    BY <1>5, <2>2, <2>3, <2>4, <2>5, SerializedStep DEF functions
<1>6. CASE UNCHANGED vars
  BY <1>1, <1>6 DEF vars, libVars
<1> QED
  BY <1>2, <1>4, <1>5, <1>6 DEF Next

LEMMA InitFuncInv == Init => FuncInv
<1> SUFFICES ASSUME Init
             PROVE  FuncInv
  OBVIOUS
<1>1. /\ DOMAIN id_lookup = {} /\ DOMAIN f_table = {} /\ current = 0
      /\ registered = {} /\ ran = Nothing
  BY DEF Init, FuncInit
<1>2. /\ submitted \in Seq([f : Func, args : {Args[f] : f \in Func}])
      /\ Len(submitted) = 0 /\ DOMAIN submitted = {} /\ current_id = 0
  BY DEF Init, ExeInit
<1> QED
  BY <1>1, <1>2 DEF FuncInv, IdsRight, RanInv

\* What a program does with the runtime are executions and finishes as Execution has them.
THEOREM RunsExecutions == Spec => ExeSpec
<1>1. Init => ExeInit
  BY DEF Init
<1>2. IInv /\ FuncInv /\ [Next]_vars => IInv' /\ FuncInv'
  BY ExeStep, NextIInv, NextFuncInv
<1>3. Init => IInv /\ FuncInv
  BY <1>1, InitIInv, InitFuncInv
<1> QED
  BY <1>1, <1>2, <1>3, ExeStep, PTL DEF Spec, ExeSpec

\* The ids, the table and the submissions stay in step.
THEOREM FuncInvariance == Spec => []FuncInv
<1>1. Init => IInv /\ FuncInv
  BY InitIInv, InitFuncInv DEF Init
<1>2. IInv /\ FuncInv /\ [Next]_vars => IInv' /\ FuncInv'
  BY ExeStep, NextIInv, NextFuncInv
<1> QED
  BY <1>1, <1>2, PTL DEF Spec

LEMMA Callable == FuncInv => SubmittedCallable
<1> SUFFICES ASSUME FuncInv, NEW i \in DOMAIN submitted, NEW h \in registered,
                    mangled[h] = mangled[submitted[i].f]
             PROVE  LET f == submitted[i].f
                        g == get_function_object(all_exes[i - 1].f_id)
                    IN  /\ g # nullptr /\ mangled[g] = mangled[f]
                        /\ deSerializeArguments(g, all_exes[i - 1].s_l) = {submitted[i].args}
  BY DEF SubmittedCallable
<1> DEFINE f == submitted[i].f
           id == id_lookup[mangled[f]]
           g == f_table[id]
<1>1. /\ f \in Func /\ submitted[i].args = Args[f]
      /\ mangled[f] \in DOMAIN id_lookup
      /\ all_exes[i - 1].f_id = id /\ all_exes[i - 1].s_l = serialized(f)
  <2>1. ExecutionOf(submitted[i], i - 1)
    BY DEF FuncInv
  <2> QED
    BY <2>1 DEF ExecutionOf
<1>2. id \in DOMAIN f_table /\ g # nullptr
  BY DEF FuncInv, Entered
<1>3. get_function_object(id) = g
  BY <1>2 DEF get_function_object
<1>4. g \in Func /\ mangled[g] = mangled[f]
  BY <1>1, <1>2 DEF FuncInv, IdsRight
<1>5. deSerializeArguments(g, serialized(f)) = {Args[f]}
  BY <1>1, <1>4, RoundTrip
<1> HIDE DEF f, id, g
<1> QED
  BY <1>1, <1>2, <1>3, <1>4, <1>5 DEF f

\* Whatever is registered, looked up and submitted, in any order, an execution finds a
\* function of the type of the one it was submitted for, if any is registered, and its own
\* arguments; and no function runs for it that is of another type or has other arguments.
THEOREM CallsArrive == Spec => []CallsRight
<1>1. IInv /\ FuncInv => CallsRight
  <2>1. IInv /\ FuncInv => TypeOK
    <3> SUFFICES ASSUME IInv, FuncInv
                 PROVE  TypeOK
      OBVIOUS
    <3>1. ExeTypeOK
      BY DEF IInv
    <3>2. \A id \in DOMAIN f_table : f_table[id] \in Func \cup {nullptr}
      BY DEF FuncInv, IdsRight
    <3>3. registered \subseteq Func /\ \A i \in DOMAIN submitted : submitted[i].f \in Func
      BY DEF FuncInv, Entered, ExecutionOf
    <3> QED
      BY <3>1, <3>2, <3>3 DEF FuncInv, IdsRight, TypeOK
  <2>2. FuncInv => RunsAsSubmitted
    BY DEF FuncInv, RanInv, RanFor, RunsAsSubmitted
  <2> QED
    BY <2>1, <2>2, Callable DEF CallsRight
<1> QED
  BY <1>1, FuncInvariance, RunsExecutions, Invariance, PTL

\* So the executions of a program are kept and its finishes end when they may.
THEOREM ProgramKeeps == Spec => []ExecutionsKept /\ []FinishesKept /\ FinishSpec
  BY RunsExecutions, Kept, Finished, IsFinish, PTL

=============================================================================
