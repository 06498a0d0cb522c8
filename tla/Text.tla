-------------------------------- MODULE Text --------------------------------
(***************************************************************************)
(* The functions on strings of common.hpp, and what the start of a process *)
(* does with them: host names, ports, lines of a host file, cookies.       *)
(*                                                                         *)
(* A string is the sequence of its characters.  A function that raises an  *)
(* exception yields Raised, or the empty set where it otherwise yields the *)
(* singleton of its result.                                                *)
(***************************************************************************)
EXTENDS Integers, SequencesExt, FiniteSetsExt

CONSTANTS
    Letter,      \* the letters
    MaxName,     \* length of a host name, 255
    MaxLabel,    \* length of a label of one, 63
    INT_MAX

Space == {" ", "\t", "\n", "\r"}
NUL == "\\0"
Hex == <<"0", "1", "2", "3", "4", "5", "6", "7",
         "8", "9", "A", "B", "C", "D", "E", "F">>
Digits == {Hex[i] : i \in 1..10}
Value(c) == CHOOSE i \in 0..15 : Hex[i + 1] = c

Raised == <<"raised">>

-----------------------------------------------------------------------------
string_trim_front(s, cutset) ==
    LET kept == {i \in DOMAIN s : s[i] \notin cutset}
    IN  IF kept = {} THEN <<>> ELSE SubSeq(s, Min(kept), Len(s))

\* find_first_not_of, find_last_not_of
string_trim(s, cutset) ==
    LET kept == {i \in DOMAIN s : s[i] \notin cutset}
    IN  IF kept = {} THEN <<>> ELSE SubSeq(s, Min(kept), Max(kept))

string_split_by_one(s, sep) ==
    LET find(from) == {i \in from..(Len(s) - Len(sep) + 1) :
                          SubSeq(s, i, i + Len(sep) - 1) = sep}
        rest[from \in 1..(Len(s) + 1)] ==
            IF find(from) = {} THEN <<SubSeq(s, from, Len(s))>>
            ELSE LET found == Min(find(from))
                 IN  <<SubSeq(s, from, found - 1)>> \o rest[found + 1]
    IN  IF s = <<>> \/ sep = <<>> THEN <<s>> ELSE rest[1]

string_split(s, sep) ==
    LET find(from) == {i \in from..(Len(s) - Len(sep) + 1) :
                          SubSeq(s, i, i + Len(sep) - 1) = sep}
        rest[from \in 1..(Len(s) + 1)] ==
            IF find(from) = {} THEN <<SubSeq(s, from, Len(s))>>
            ELSE LET found == Min(find(from))
                 IN  <<SubSeq(s, from, found - 1)>> \o rest[found + Len(sep)]
    IN  IF s = <<>> \/ sep = <<>> THEN <<s>> ELSE rest[1]

\* A string constructed from a char pointer ends before the first NUL.
c_str(s) ==
    LET nul == {i \in DOMAIN s : s[i] = NUL}
    IN  IF nul = {} THEN s ELSE SubSeq(s, 1, Min(nul) - 1)

string_join(list, sep) ==
    IF list = <<>> THEN <<>>
    ELSE c_str(FoldLeft(LAMBDA joined, s : joined \o sep \o s, Head(list), Tail(list)))

\* "{{" and "}}" stand for one brace.
doubled(c, next) == c \in {"{", "}"} /\ next = c

(***************************************************************************)
(* format.  rest[<<pos, k>>] is what is put out for the rest of fmt when k *)
(* arguments are used.  A '{' that opens nothing is an error once all are  *)
(* used, and is dropped before that.                                       *)
(***************************************************************************)
format(fmt, args) ==
    LET at(pos) == IF pos \in DOMAIN fmt THEN fmt[pos] ELSE "end"
        rest[p \in (1..(Len(fmt) + 1)) \X (0..Len(args))] ==
            LET pos == p[1]
                k   == p[2]
            IN  CASE at(pos) = "end" -> IF k < Len(args) THEN Raised ELSE <<>>
                  [] doubled(at(pos), at(pos + 1)) -> <<at(pos)>> \o rest[<<pos + 2, k>>]
                  [] at(pos) = "{" /\ at(pos + 1) = "}" ->
                        IF k < Len(args) THEN args[k + 1] \o rest[<<pos + 2, k + 1>>] ELSE Raised
                  [] at(pos) = "{" /\ at(pos + 1) \notin {"{", "}"} ->
                        IF k < Len(args) /\ at(pos + 1) # "end" THEN rest[<<pos + 1, k>>]
                        ELSE Raised
                  [] at(pos) = "}" /\ ~doubled(at(pos), at(pos + 1)) -> Raised
                  [] OTHER -> <<at(pos)>> \o rest[<<pos + 1, k>>]
        out == rest[<<1, 0>>]
    IN  IF Contains(out, "raised") THEN Raised ELSE out

-----------------------------------------------------------------------------
\* std::stoi takes the number that a string begins with.
stoi(s) ==
    LET t      == string_trim_front(s, Space)
        signed == t # <<>> /\ t[1] \in {"-", "+"}
        body   == IF signed THEN Tail(t) ELSE t
        n      == Max({i \in 0..Len(body) : \A j \in 1..i : body[j] \in Digits})
        number == FoldLeft(LAMBDA v, c : 10 * v + Value(c), 0, SubSeq(body, 1, n))
    IN  IF n = 0 \/ number > INT_MAX THEN {}
        ELSE {IF signed /\ t[1] = "-" THEN -number ELSE number}

valid_hostname(name) ==
    /\ Len(name) <= MaxName
    /\ \A label \in ToSet(string_split(name, <<".">>)) :
          /\ Len(label) \in 1..MaxLabel
          /\ ToSet(label) \subseteq Digits \cup Letter \cup {"-"}
          /\ label[1] # "-"

valid_port(port) == port \in 1..65535

port_to_int(s) ==
    IF ToSet(s) \subseteq Digits /\ \E p \in stoi(s) : valid_port(p)
    THEN CHOOSE p \in stoi(s) : TRUE ELSE -1

-----------------------------------------------------------------------------
parse_host_file_entry(line) ==
    LET splited  == string_split(line, <<":">>)
        hostname == string_trim(splited[1], Space)
        numbers  == IF Len(splited) = 1 THEN {1} ELSE stoi(string_trim(splited[2], Space))
    IN  IF Len(splited) > 2 \/ hostname = <<>> THEN {}
        ELSE {[hostname |-> hostname, process_num |-> n] : n \in {i \in numbers : i > 0}}

\* Blank lines are passed over.  Without an entry the file is invalid.
read_host_file(lines) ==
    LET read(hosts, line) ==
            IF string_trim(line, Space) = <<>> THEN hosts
            ELSE {Append(h, e) : h \in hosts, e \in parse_host_file_entry(line)}
    IN  FoldLeft(read, {<<>>}, lines) \ {<<>>}

(***************************************************************************)
(* The Context, unless the process quits.  A variable of the environment   *)
(* is the set of its value, which is empty when it is not set.  The port   *)
(* is read from the host's (thallium.cpp:130).                             *)
(***************************************************************************)
thallium_init(env_coord_host, env_coord_port) ==
    {[coordinator_host |-> host, coordinator_port |-> port_to_int(host)] :
        host \in {h \in env_coord_host : /\ valid_hostname(h)
                                         /\ env_coord_port # {}
                                         /\ port_to_int(h) # -1}}

\* The digits of each byte, the high one first.
to_printable(data) ==
    FlattenSeq([i \in DOMAIN data |-> <<Hex[data[i] \div 16 + 1], Hex[(data[i] % 16) + 1]>>])

FirstConCookie(printable, data_len) ==
    IF Len(printable) # 2 * data_len \/ ~(ToSet(printable) \subseteq ToSet(Hex)) THEN {}
    ELSE {[i \in 1..data_len |->
              16 * Value(printable[2 * i - 1]) + Value(printable[2 * i])]}

=============================================================================
