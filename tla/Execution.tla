------------------------------ MODULE Execution ------------------------------
(***************************************************************************)
(* Executions and finishes (thallium.hpp, thallium.cpp): the one thread    *)
(* that runs ti_main, the blocks it is in, and the singletons its          *)
(* submissions go through.                                                 *)
(*                                                                         *)
(* A submitted function is recorded and not yet run anywhere, and wait     *)
(* does not wait (thallium.cpp:27).  The types a blocking call can return  *)
(* have at least a byte.                                                   *)
(*                                                                         *)
(* An exception ends the blocks from the inside out until one catches it,  *)
(* a step for each.  Blocks are told by two sequences: sugars for those    *)
(* with a FinishSugar, and in tries how many of these each block that      *)
(* catches is inside of.  The exceptions of a program are std::exceptions, *)
(* as all that the library raises are: TI_MAIN catches no others           *)
(* (thallium.hpp:220).                                                     *)
(***************************************************************************)
EXTENDS Integers, SequencesExt

CONSTANTS
    Buffers,
    Null,         \* the null pointer
    MaxExes,      \* bounds of the model: executions,
    MaxBlocks,    \* blocks that are open,
    MaxRaw        \* and calls of newFinish and endFinish besides a FinishSugar's

ExeId == Nat
FuncId == Nat

ASSUME ExecutionAssumption ==
    /\ Null \notin [f_id : FuncId, s_l : Buffers]
    /\ MaxExes \in Nat /\ MaxBlocks \in Nat /\ MaxRaw \in Nat

VARIABLES
    current_id, all_exes, f_stack,
    sugars,     \* sugars[i]: the tasks submitted in the i-th block with a FinishSugar
    tries,      \* tries[j]: how many sugars the j-th block that catches is inside of
    throwing,   \* an exception is on its way
    st,         \* how the process runs or has ended
    accepted,   \* the asynchronous executions whose submission returned
    joined,     \* those that a monitor has waited for
    raw         \* how many calls of newFinish and endFinish were the program's own

hubVars == <<current_id, all_exes>>
stackVars == <<f_stack, joined>>
blockVars == <<sugars, tries, throwing, st>>
exeVars == <<hubVars, stackVars, blockVars, accepted, raw>>

ExeTypeOK ==
    /\ current_id \in ExeId
    /\ DOMAIN all_exes \subseteq ExeId
    /\ \A id \in DOMAIN all_exes : all_exes[id] \in [f_id : FuncId, s_l : Buffers] \cup {Null}
    /\ f_stack \in Seq(Seq(ExeId))
    /\ sugars \in Seq(SUBSET ExeId)
    /\ tries \in Seq(Nat)
    /\ \A j \in DOMAIN tries : tries[j] <= Len(sugars)
    /\ throwing \in BOOLEAN
    /\ st \in {"running", "returned", "aborted", "terminated"}
    /\ accepted \in SUBSET ExeId
    /\ joined \in SUBSET ExeId
    /\ raw \in Nat

ExeInit ==
    /\ current_id = 0
    /\ all_exes = <<>>
    /\ f_stack = <<>>
    /\ sugars = <<>>
    /\ tries = <<>>
    /\ throwing = FALSE
    /\ st = "running"
    /\ accepted = {}
    /\ joined = {}
    /\ raw = 0

Running == st = "running" /\ ~throwing

\* The innermost block is one that catches.
in_try == tries # <<>> /\ Last(tries) = Len(sugars)

InTop(s, x) == [s EXCEPT ![Len(s)] = x]

-----------------------------------------------------------------------------
(***************************************************************************)
(* FinishStack                                                             *)
(***************************************************************************)

newFinish == f_stack' = Append(f_stack, <<>>) /\ UNCHANGED joined

endFinish_keeps ==
    /\ joined' = joined \cup ToSet(Last(f_stack))
    /\ UNCHANGED f_stack

\* get_top()->waitAll(), delete_top(), when the stack is not empty.
endFinish ==
    /\ joined' = joined \cup ToSet(Last(f_stack))
    /\ f_stack' = Front(f_stack)

RawNewFinish ==
    /\ Running
    /\ raw < MaxRaw
    /\ raw' = raw + 1
    /\ newFinish
    /\ UNCHANGED <<hubVars, blockVars, accepted>>

\* get_top raises when the stack is empty.
RawEndFinish ==
    /\ Running
    /\ raw < MaxRaw
    /\ raw' = raw + 1
    /\ IF f_stack = <<>> THEN throwing' = TRUE /\ UNCHANGED stackVars
       ELSE endFinish /\ UNCHANGED throwing
    /\ UNCHANGED <<hubVars, sugars, tries, st, accepted>>

-----------------------------------------------------------------------------
(***************************************************************************)
(* Blocks                                                                  *)
(***************************************************************************)

\* FinishSugar::FinishSugar
EnterFinish ==
    /\ Running
    /\ Len(sugars) + Len(tries) < MaxBlocks
    /\ newFinish
    /\ sugars' = Append(sugars, {})
    /\ UNCHANGED <<hubVars, tries, throwing, st, accepted, raw>>

LeaveFinish_unwound ==
    /\ st = "running" /\ sugars # <<>> /\ ~in_try
    /\ IF f_stack = <<>> THEN st' = "terminated" /\ UNCHANGED <<stackVars, sugars>>
       ELSE /\ IF throwing THEN UNCHANGED stackVars ELSE endFinish
            /\ sugars' = Front(sugars) /\ UNCHANGED st
    /\ UNCHANGED <<hubVars, tries, throwing, accepted, raw>>

\* FinishSugar::~FinishSugar, at the end of its block or for an exception.  As any
\* destructor it does not let an exception out: std::terminate.
LeaveFinish ==
    /\ st = "running" /\ sugars # <<>> /\ ~in_try
    /\ IF f_stack = <<>> THEN st' = "terminated" /\ UNCHANGED <<stackVars, sugars>>
       ELSE endFinish /\ sugars' = Front(sugars) /\ UNCHANGED st
    /\ UNCHANGED <<hubVars, tries, throwing, accepted, raw>>

EnterTry ==
    /\ Running
    /\ Len(sugars) + Len(tries) < MaxBlocks
    /\ tries' = Append(tries, Len(sugars))
    /\ UNCHANGED <<hubVars, stackVars, sugars, throwing, st, accepted, raw>>

\* At its end, or because it catches.
LeaveTry ==
    /\ st = "running" /\ in_try
    /\ tries' = Front(tries)
    /\ throwing' = FALSE
    /\ UNCHANGED <<hubVars, stackVars, sugars, st, accepted, raw>>

Throw ==
    /\ Running
    /\ throwing' = TRUE
    /\ UNCHANGED <<hubVars, stackVars, sugars, tries, st, accepted, raw>>

\* TI_MAIN, when ti_main returns or lets an exception out.
EndMain ==
    /\ st = "running" /\ sugars = <<>> /\ tries = <<>>
    /\ st' = IF throwing THEN "aborted" ELSE "returned"
    /\ UNCHANGED <<hubVars, stackVars, sugars, tries, throwing, accepted, raw>>

-----------------------------------------------------------------------------
(***************************************************************************)
(* Submissions                                                             *)
(***************************************************************************)

Put(f, k, v) == [x \in DOMAIN f \cup {k} |-> IF x = k THEN v ELSE f[x]]

newExecution(f_id, s_l) ==
    /\ Running
    /\ current_id < MaxExes
    /\ current_id' = current_id + 1
    /\ all_exes' = Put(all_exes, current_id, [f_id |-> f_id, s_l |-> s_l])

AsyncSubmit_bottom(f_id, s_l) ==
    /\ newExecution(f_id, s_l)
    /\ IF f_stack = <<>>
       THEN throwing' = TRUE /\ UNCHANGED <<f_stack, sugars, accepted>>
       ELSE /\ f_stack' = [f_stack EXCEPT ![1] = Append(@, current_id)]
            /\ sugars' = IF sugars = <<>> THEN sugars
                         ELSE InTop(sugars, Last(sugars) \cup {current_id})
            /\ accepted' = accepted \cup {current_id}
            /\ UNCHANGED throwing
    /\ UNCHANGED <<joined, tries, st, raw>>

\* AsyncExecManager::submitExecution.  Without a finish it raises when the
\* execution is in the table already.
AsyncSubmit(f_id, s_l) ==
    /\ newExecution(f_id, s_l)
    /\ IF f_stack = <<>>
       THEN throwing' = TRUE /\ UNCHANGED <<f_stack, sugars, accepted>>
       ELSE /\ f_stack' = InTop(f_stack, Append(Last(f_stack), current_id))
            /\ sugars' = IF sugars = <<>> THEN sugars
                         ELSE InTop(sugars, Last(sugars) \cup {current_id})
            /\ accepted' = accepted \cup {current_id}
            /\ UNCHANGED throwing
    /\ UNCHANGED <<joined, tries, st, raw>>

\* BlockedExecManager::submitExecution
BlockedSubmit(f_id, s_l) ==
    /\ newExecution(f_id, s_l)
    /\ UNCHANGED <<stackVars, blockVars, accepted, raw>>

\* all_exes[id] inserts a null pointer for an unknown id; nothing can be made of the
\* empty Buffer that wait returns.
getReturnValue(id) ==
    /\ Running
    /\ all_exes' = IF id \in DOMAIN all_exes THEN all_exes ELSE Put(all_exes, id, Null)
    /\ throwing' = TRUE
    /\ UNCHANGED <<current_id, stackVars, sugars, tries, st, accepted, raw>>

-----------------------------------------------------------------------------
blocks ==
    \/ RawNewFinish \/ RawEndFinish
    \/ EnterFinish \/ LeaveFinish \/ EnterTry \/ LeaveTry \/ Throw
    \/ EndMain
    \/ \E id \in 0..current_id : getReturnValue(id)

ExeNext ==
    \/ blocks
    \/ \E f_id \in FuncId, s_l \in Buffers : AsyncSubmit(f_id, s_l) \/ BlockedSubmit(f_id, s_l)

ExeSpec == ExeInit /\ [][ExeNext]_exeVars

-----------------------------------------------------------------------------
(***************************************************************************)
(* Properties                                                              *)
(***************************************************************************)

Ended == st \in {"returned", "aborted", "terminated"}

\* Whatever a program does with finishes, an execution whose submission returned is in
\* exactly one open monitor, or has been waited for and is in none.
EachInOnePlace ==
    /\ \A i, j \in DOMAIN f_stack : \A k \in DOMAIN f_stack[i], l \in DOMAIN f_stack[j] :
          f_stack[i][k] = f_stack[j][l] => i = j /\ k = l
    /\ joined \subseteq accepted
    /\ UNION {ToSet(f_stack[i]) : i \in DOMAIN f_stack} = accepted \ joined

\* The execution behind the id of a task is never missing, though a wait for an id
\* that is yet to be given leaves a null pointer in its place.
NoneMissing == \A id \in 0..(current_id - 1) : id \in DOMAIN all_exes /\ all_exes[id] # Null

\* No submission is lost, whatever a program does: the hub keeps its execution, and the
\* stack of finishes its id until it is waited for.
ExecutionsKept == EachInOnePlace /\ NoneMissing

\* A program that uses FinishSugar alone has one monitor for each, with the tasks
\* submitted in it, and no destructor of one ends the process.
SugarBalanced ==
    raw = 0 =>
        /\ Len(f_stack) = Len(sugars)
        /\ \A i \in DOMAIN sugars :
              sugars[i] = ToSet(f_stack[i])
        /\ st # "terminated"

\* Such a program does not end, by an exception either, before all that it submitted
\* asynchronously was waited for.
AllAwaited == Ended /\ raw = 0 => accepted = joined

\* FinishSugar does what newFinish and endFinish leave to the program, when the blocks
\* end normally and when exceptions end them.
FinishesKept == SugarBalanced /\ AllAwaited

\* The blocks with a FinishSugar are finishes, until the program calls newFinish or
\* endFinish itself.
Finish == INSTANCE Finish WITH Task <- 0..MaxExes, blocks <- sugars, done <- joined

FinishSpec == Finish!Init /\ [][raw' > 0 \/ Finish!Next]_<<sugars, joined>>

=============================================================================
