------------------------------- MODULE Runtime --------------------------------
(***************************************************************************)
(* A program over the runtime's libraries: one thread that calls the       *)
(* functions on strings, the function table and the submissions, each call *)
(* as a caller may make it.  The archives are what saved and loaded are.   *)
(*                                                                         *)
(* To keep apart what does not interact, uses tells which of them a        *)
(* behaviour calls: one function on strings or messages; finishes with     *)
(* executions of any one function; or functions and executions of them,    *)
(* within one finish.                                                      *)
(***************************************************************************)
EXTENDS Text, FunctionTable, Execution

CONSTANTS
    Strings,     \* what the functions on strings are called with
    Lines,       \* lines of host files
    Tokens,      \* pieces of format strings
    Ports,       \* values of the variables of the environment
    Bytes,       \* of cookies
    Args         \* Args[f]: the arguments f is called with

Char == UNION {ToSet(s) : s \in Strings \cup Lines \cup Tokens}

\* The strings are finite.  What stands for a raised error and for the end of a format
\* string are no characters.
ASSUME TextAssumption ==
    /\ Strings \cup Lines \cup Tokens \subseteq Seq(Char)
    /\ {"raised", "end"} \cap Char = {}
    /\ Bytes \subseteq 0..255

\* The pieces of format strings: a doubled brace, a position, any other character.
ASSUME TokenAssumption ==
    \A t \in Tokens : \/ t \in {<<"{", "{">>, <<"}", "}">>, <<"{", "}">>}
                     \/ \E c \in Char \ {"{", "}"} : t = <<c>>

\* A function has the arguments of its types.  Each comes back from the bytes it is saved
\* as, which is what Program checks of the archives.
ASSUME RuntimeAssumption ==
    /\ Func # {}
    /\ \A f \in Func :
          /\ Len(ArgTypes[f]) \in Nat
          /\ Args[f] = [i \in 1..Len(ArgTypes[f]) |-> Args[f][i]]
          /\ serializeList(ArgTypes[f], Args[f]) \in Buffers
          /\ \A i \in DOMAIN Args[f] :
                loaded(ArgTypes[f][i], saved(ArgTypes[f][i], Args[f][i])) = {Args[f][i]}

VARIABLES
    uses,
    call,        \* the last call of a function on strings or messages, and its result
    submitted,   \* submitted[i]: the function and arguments of the execution i - 1
    registered,  \* the functions whose registration returned
    ran          \* the last run of a function, and the execution it was the call of

libVars == <<uses, call, submitted, registered, ran>>
vars == <<exeVars, funcVars, libVars>>

NoCall == [op |-> "none"]
Nothing == [f |-> nullptr]

Init ==
    /\ ExeInit
    /\ FuncInit
    /\ uses \in {"strings", "finishes", "functions"}
    /\ call = NoCall
    /\ submitted = <<>>
    /\ registered = {}
    /\ ran = Nothing

TypeOK ==
    /\ ExeTypeOK
    /\ DOMAIN id_lookup \subseteq {mangled[f] : f \in Func}
    /\ current \in Nat
    /\ DOMAIN f_table \subseteq Nat
    /\ \A id \in DOMAIN f_table : f_table[id] \in Func \cup {nullptr}
    /\ \A i \in DOMAIN submitted : submitted[i].f \in Func
    /\ Len(submitted) = current_id
    /\ registered \subseteq Func

-----------------------------------------------------------------------------
(***************************************************************************)
(* Functions on strings and messages                                       *)
(***************************************************************************)

Calls(op, args, result) ==
    /\ call' = [op |-> op, args |-> args, result |-> result]
    /\ UNCHANGED <<exeVars, funcVars, uses, submitted, registered, ran>>

Split == \E s, sep \in Strings :
    Calls("string_split", <<s, sep>>, string_split(s, sep))

Format == \E fmt \in BoundedSeq(Tokens, 4), n \in 0..3 :
    LET args == [i \in 1..n |-> <<Hex[i]>>]
    IN  Calls("format", <<fmt, args>>, format(FlattenSeq(fmt), args))

ReadHostFile == \E file \in BoundedSeq(Lines, 2) :
    Calls("read_host_file", file, read_host_file(file))

StartUp == \E host, port \in Ports : Calls("thallium_init", <<host, port>>, thallium_init(host, port))

Cookie == \E a, b \in Bytes :
    Calls("cookie", <<a, b>>, FirstConCookie(to_printable(<<a, b>>), 2))

strings ==
    /\ uses = "strings" /\ call = NoCall
    /\ Split \/ Format \/ ReadHostFile \/ StartUp \/ Cookie

-----------------------------------------------------------------------------
(***************************************************************************)
(* Submissions.  The id is made first, then the arguments are serialized.  *)
(***************************************************************************)

RemoteSubmit(f) ==
    /\ getIdfromMangled(f)
    /\ submitted' = Append(submitted, [f |-> f, args |-> Args[f]])
    /\ UNCHANGED <<f_table, uses, call, registered, ran>>

serialized(f) == serializeList(ArgTypes[f], Args[f])

BlockedRemote(f) == RemoteSubmit(f) /\ BlockedSubmit(function_id(f), serialized(f))

Submit(f) ==
    \/ RemoteSubmit(f) /\ AsyncSubmit(function_id(f), serialized(f))
    \/ BlockedRemote(f)

finishes ==
    /\ uses = "finishes"
    /\ \/ blocks /\ UNCHANGED <<funcVars, libVars>>
       \/ Submit(CHOOSE f \in Func : TRUE)

-----------------------------------------------------------------------------
(***************************************************************************)
(* Functions.  The program catches what these calls raise.                 *)
(***************************************************************************)

Register(f) ==
    /\ register_func(f)
    /\ registered' = IF registrable(f) THEN registered \cup {f} ELSE registered
    /\ UNCHANGED <<exeVars, uses, call, submitted, ran>>

Lookup(id) ==
    /\ getFuncObj(id)
    /\ UNCHANGED <<exeVars, libVars>>

\* operator() of the function object under an id, for the executions in exes, if any.
Run(id, bvs, exes) ==
    LET f == get_function_object(id)
    IN  /\ f # nullptr
        /\ ran' = IF bindArguments(f, bvs) = {} THEN Nothing
                  ELSE [f |-> f, exes |-> exes,
                        args |-> CHOOSE args \in bindArguments(f, bvs) : TRUE]
        /\ UNCHANGED <<exeVars, funcVars, uses, call, submitted, registered>>

\* With the buffers of an execution, all or some of them, or twice as many; under the id that the
\* execution has, or another.
Buffering(s_l) == {s_l \o s_l} \cup {SubSeq(s_l, 1, n) : n \in 0..Len(s_l)}

CallSerialized(id, e) == \E buffers \in Buffering(all_exes[e].s_l) :
    /\ get_function_object(id) # nullptr
    /\ \E bvs \in deSerializeArguments(get_function_object(id), buffers) :
          Run(id, bvs, {x \in {e} : all_exes[x].f_id = id})

\* With values the program boxed itself: their types are not compared, so they have to
\* be those of the first arguments.
CallBoxed(id, g) ==
    /\ get_function_object(id) # nullptr
    /\ LET Ts == ArgTypes[get_function_object(id)]
       IN  IsPrefix(Ts, ArgTypes[g]) \/ IsPrefix(ArgTypes[g], Ts)
    /\ Run(id, Args[g], {})

functions ==
    /\ uses = "functions" /\ Running
    /\ \/ \E f \in Func : Register(f) \/ BlockedRemote(f)
       \/ \E id \in 0..current :
             \/ Lookup(id)
             \/ \E e \in 0..(current_id - 1) : CallSerialized(id, e)
             \/ \E g \in Func : CallBoxed(id, g)

-----------------------------------------------------------------------------
Next == strings \/ finishes \/ functions

Spec == Init /\ [][Next]_vars

-----------------------------------------------------------------------------
(***************************************************************************)
(* Properties                                                              *)
(***************************************************************************)

\* An execution of a function of a type that is registered, before or after it was
\* submitted, has the id of a function object of this type, which gets the arguments
\* it was submitted with.
SubmittedCallable ==
    \A i \in DOMAIN submitted :
        LET f == submitted[i].f
            g == get_function_object(all_exes[i - 1].f_id)
        IN  (\E h \in registered : mangled[h] = mangled[f]) =>
                /\ g # nullptr /\ mangled[g] = mangled[f]
                /\ deSerializeArguments(g, all_exes[i - 1].s_l) = {submitted[i].args}

\* When a function runs for an execution, it is one of the type that was submitted, and has
\* the arguments that were submitted with it, all of them: with buffers missing or left
\* over it does not run ("arity doesnt match", function_object.cpp:19).
RunsAsSubmitted ==
    ran # Nothing => \A e \in ran.exes :
        LET s == submitted[e + 1]
        IN  mangled[ran.f] = mangled[s.f] /\ ran.args = s.args

\* However functions were registered, looked up and submitted, an execution reaches a
\* function of the type of the one it was submitted for, if any is registered, with its
\* arguments.  It need not be that function: functions of one type share an id.
CallsRight == TypeOK /\ SubmittedCallable /\ RunsAsSubmitted

\* What is split is joined again by the same separator, which is in none of the parts;
\* string_join stops at a NUL.
Within(t, s) == \E i \in 1..(Len(s) - Len(t) + 1) : SubSeq(s, i, i + Len(t) - 1) = t

SplitJoins ==
    call.op = "string_split" /\ <<>> \notin ToSet(call.args) =>
        /\ string_join(call.result, call.args[2]) = c_str(call.args[1])
        /\ \A part \in ToSet(call.result) : ~Within(call.args[2], part)

\* A format string made of the documented pieces takes as many arguments as it has
\* positions, in their order, and raises with fewer or more.
FormatRight ==
    call.op = "format" =>
        LET fmt == call.args[1]
            args == call.args[2]
            before(i) == Cardinality({j \in 1..i : fmt[j] = <<"{", "}">>})
            put(i) == CASE fmt[i] = <<"{", "}">> -> args[before(i)]
                        [] fmt[i] \in {<<"{", "{">>, <<"}", "}">>} -> <<Head(fmt[i])>>
                        [] OTHER -> fmt[i]
        IN  call.result = IF before(Len(fmt)) # Len(args) THEN Raised
                          ELSE FlattenSeq([i \in DOMAIN fmt |-> put(i)])

\* A line of a host file names a host, without the blanks around it, and may give the
\* number of its processes after a colon.
Names(line, e) ==
    LET colons == {i \in DOMAIN line : line[i] = ":"}
        end    == IF colons = {} THEN Len(line) + 1 ELSE Min(colons)
    IN  /\ Cardinality(colons) <= 1
        /\ \E i, j \in 1..(end - 1) :
              /\ i <= j /\ e.hostname = SubSeq(line, i, j)
              /\ line[i] \notin Space /\ line[j] \notin Space
              /\ \A k \in 1..(end - 1) : line[k] \notin Space => k \in i..j
        /\ IF colons = {} THEN e.process_num = 1
           ELSE \E i, j \in (end + 1)..Len(line) :
                   /\ i <= j
                   /\ \A k \in (end + 1)..(i - 1) :
                         line[k] \in Space \/ (k = i - 1 /\ line[k] = "+")
                   /\ \A k \in i..j : line[k] \in Digits
                   /\ j < Len(line) => line[j + 1] \notin Digits
                   /\ e.process_num > 0 /\ stoi(SubSeq(line, i, j)) = {e.process_num}

\* The hosts are those of the lines that are not blank, in their order, and a file with
\* a line that names none is refused, as is one without any.
HostFileRight ==
    call.op = "read_host_file" =>
        LET file == call.args
            blank(l) == ToSet(l) \subseteq Space
            upto(i) == Cardinality({j \in 1..i : ~blank(file[j])})
        IN  /\ \A hosts \in call.result :
                  /\ hosts # <<>> /\ Len(hosts) = upto(Len(file))
                  /\ \A i \in DOMAIN file : ~blank(file[i]) => Names(file[i], hosts[upto(i)])
            /\ call.result = {} =>
                  \/ upto(Len(file)) = 0
                  \/ \E i \in DOMAIN file :
                        ~blank(file[i]) /\ ~\E e \in parse_host_file_entry(file[i]) : Names(file[i], e)

\* A cookie is read back as it was printed.
CookieRight == call.op = "cookie" => call.result = {call.args}

\* What is split, formatted, read from a host file or printed is what it should be, for
\* those who call these functions.
StringsRight == SplitJoins /\ FormatRight /\ HostFileRight /\ CookieRight

\* The start goes on with the host and the port that the two variables of the environment
\* give: "Invalid coordinator port: {} = {}" names ENVNAME_COORD_PORT and its value
\* (thallium.cpp:131-132).
StartChecked ==
    call.op = "thallium_init" =>
        \A ctx \in call.result :
            /\ ctx.coordinator_host \in call.args[1]
            /\ \E port \in call.args[2] : ctx.coordinator_port = port_to_int(port)

=============================================================================
