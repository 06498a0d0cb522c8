---------------------------- MODULE FunctionTable -----------------------------
(***************************************************************************)
(* Function objects (function_object.hpp): the ids of functions, the table *)
(* of FuncManager, and how a call is made of serialized arguments.         *)
(*                                                                         *)
(* An id belongs to the mangled name of a function's type: two functions   *)
(* of one type share it.  There is at most one of each in f_table.         *)
(***************************************************************************)
EXTENDS Integers, SequencesExt

CONSTANTS
    Func,
    mangled,        \* mangled[f]: the name of the type of f
    ArgTypes,       \* ArgTypes[f]: the types of its arguments
    nullptr,
    saved(_, _),    \* of the archives: the bytes of a value of a type,
    loaded(_, _)    \* and the value in a buffer, none when it is too short

ASSUME FunctionAssumption ==
    /\ nullptr \notin Func
    /\ \A f, g \in Func : mangled[f] = mangled[g] => ArgTypes[f] = ArgTypes[g]

VARIABLES
    id_lookup, current,   \* of FuncIdGen
    f_table               \* of FuncManager; a null pointer where an unknown id was looked up

funcVars == <<id_lookup, current, f_table>>

FuncInit == id_lookup = <<>> /\ current = 0 /\ f_table = <<>>

function_id(f) ==
    IF mangled[f] \in DOMAIN id_lookup THEN id_lookup[mangled[f]] ELSE current

\* A key that is there keeps its value.
Inserted(f, k, v) == [x \in DOMAIN f \cup {k} |-> IF x \in DOMAIN f THEN f[x] ELSE v]

getIdfromMangled_always(f) ==
    /\ id_lookup' = [x \in DOMAIN id_lookup \cup {mangled[f]} |->
                         IF x = mangled[f] THEN current ELSE id_lookup[x]]
    /\ current' = current + 1

\* What function_id leaves behind.
getIdfromMangled(f) ==
    /\ id_lookup' = Inserted(id_lookup, mangled[f], current)
    /\ current' = IF mangled[f] \in DOMAIN id_lookup THEN current ELSE current + 1

\* addFunc raises when there is an entry, a null pointer also.
registrable(f) == function_id(f) \notin DOMAIN f_table

register_func(f) ==
    /\ getIdfromMangled(f)
    /\ f_table' = Inserted(f_table, function_id(f), f)

\* f_table[f_id]
get_function_object(id) == IF id \in DOMAIN f_table THEN f_table[id] ELSE nullptr

getFuncObj(id) ==
    /\ f_table' = Inserted(f_table, id, nullptr)
    /\ UNCHANGED <<id_lookup, current>>

serializeList(Ts, vs) == [i \in DOMAIN vs |-> saved(Ts[i], vs[i])]

\* The boxed arguments of f, or none when there are too few buffers, too many, or one
\* is too short.
deSerializeArguments(f, buffers) ==
    LET bvs == [i \in 1..Len(ArgTypes[f]) |-> loaded(ArgTypes[f][i], buffers[i])]
    IN  IF Len(buffers) # Len(ArgTypes[f]) \/ \E i \in DOMAIN bvs : bvs[i] = {} THEN {}
        ELSE {[i \in DOMAIN bvs |-> CHOOSE v \in bvs[i] : TRUE]}

\* operator(): with which arguments f runs.
bindArguments(f, bvs) == IF Len(bvs) # Len(ArgTypes[f]) THEN {} ELSE {bvs}

=============================================================================
