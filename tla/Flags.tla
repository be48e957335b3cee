-------------------------------- MODULE Flags --------------------------------
(***************************************************************************)
(* parseFlags of cli/flags.go, and how cli/cli.go puts $ARGS together from *)
(* what it finds.                                                          *)
(*                                                                         *)
(* An argument is a sequence of the pieces that parseFlags cuts it into: a *)
(* dash, an equals sign, the name of an option, a letter, or a word.  The  *)
(* loop takes an argument at a time; an option with a value attached puts  *)
(* the value in its own place and goes back, to read it as the next one.   *)
(***************************************************************************)
EXTENDS Integers, SequencesExt

CONSTANTS
    Kind,          \* of each option, what its field in flagopts is
    Short,         \* the option of a letter that stands for one
    Letters,       \* of the alphabet
    Integer,       \* the arguments that are read as integers
    CommandLines   \* <<what is meant, arguments that say so, and how far these come with how much of it>>

Long  == DOMAIN Kind
Lists == {o \in Long : Kind[o] = "rest"}

\* The table of flagopts: the lists are --args and --jsonargs, which have no letters.
ASSUME OptionsAssumption ==
    /\ \A o \in Long : Kind[o] \in {"bool", "string", "int", "list", "rest", "map"}
    /\ Lists = {"args", "jsonargs"}
    /\ DOMAIN Short \subseteq Letters
    /\ \A l \in DOMAIN Short : Short[l] \in Long \ Lists
    /\ {"-", "="} \cap (Long \cup Letters) = {}

VARIABLES meant,     \* what the arguments say
          argv,      \* args, with the values put in place
          at,        \* how many of them have been read: i
          short,     \* shortopts
          rest,      \* the query and the files
          vals,      \* the fields of opts
          mapKeys,
          active,    \* positionalVal: the list that collects the words, or none
          optsDone,
          status     \* "parsing", "done", or "error"

flagVars == <<meant, argv, at, short, rest, vals, mapKeys, active, optsDone, status>>

Unset == [o \in Long |-> IF Kind[o] = "map" THEN {} ELSE <<>>]

FlagsStart(meaning, arguments) ==
    /\ meant = meaning
    /\ argv = arguments
    /\ at = 0
    /\ short = <<>>
    /\ rest = <<>>
    /\ vals = Unset
    /\ mapKeys = {}
    /\ active = "none"
    /\ optsDone = FALSE
    /\ status = "parsing"

FlagsInit == \E c \in CommandLines : FlagsStart(c[1], c[2])

Missing == <<"">>    \* the zero value that fills a list up

\* Refuse the command line.
Refuse ==
    /\ status' = "error"
    /\ UNCHANGED <<meant, argv, at, short, rest, vals, mapKeys, active, optsDone>>

Operands(o) == CASE Kind[o] \in {"bool", "rest"} -> 0
                 [] Kind[o] = "map" -> 2
                 [] OTHER -> 1

\* Mutant: the list is not filled up.
Unpadded(list, n) == list

\* list filled up to n elements.
Padded(list, n) == list \o [j \in 1 .. n - Len(list) |-> Missing]

\* The switch at S: the value of option o, whose last argument read is av[j].
Set(o, j, av) ==
    LET last == j + Operands(o)
    IN  /\ \/ /\ last > Len(av) \/ (Kind[o] = "int" /\ av[last] \notin Integer)
              /\ status' = "error"
              /\ UNCHANGED <<at, vals, mapKeys, active>>
           \/ /\ last <= Len(av)
              /\ Kind[o] = "int" => av[last] \in Integer
              /\ at' = last
              /\ vals' =
                    CASE Kind[o] = "bool" -> [vals EXCEPT ![o] = <<"true">>]
                      [] Kind[o] \in {"string", "int"} -> [vals EXCEPT ![o] = av[last]]
                      [] Kind[o] = "list" -> [vals EXCEPT ![o] = Append(@, av[last])]
                      [] Kind[o] = "rest" ->
                            [vals EXCEPT ![o] = IF active = "none" THEN @ ELSE Padded(@, Len(vals[active]))]
                      [] Kind[o] = "map" ->
                            [vals EXCEPT ![o] =
                                IF av[last - 1] \in mapKeys THEN @ ELSE @ \cup {<<av[last - 1], av[last]>>}]
              /\ mapKeys' = IF Kind[o] = "map" THEN mapKeys \cup {av[last - 1]} ELSE mapKeys
              /\ active' = IF Kind[o] = "rest" THEN o ELSE active
              /\ UNCHANGED status
        /\ argv' = av
        /\ UNCHANGED <<meant, rest, optsDone>>

-------------------------------------------------------------------------------
Parsing == status = "parsing" /\ short = <<>> /\ at < Len(argv)
Arg     == argv[at + 1]

IsLong(a)  == Len(a) > 2 /\ a[1] = "-" /\ a[2] = "-"
IsShort(a) == Len(a) > 1 /\ a[1] = "-" /\ a[2] # "-"

Before(a, e) == SubSeq(a, 3, e - 1)
After(a, e)  == SubSeq(a, e + 1, Len(a))

\* strings.IndexByte(a, '='), 0 if there is none.
EqualsAt(a) == IF \E e \in 3 .. Len(a) : a[e] = "=" THEN CHOOSE e \in 3 .. Len(a) :
                    a[e] = "=" /\ \A d \in 3 .. e - 1 : a[d] # "=" ELSE 0

\* What stands for one option: its name as a single piece.
Names(piece, o) == piece = <<o>>

\* The value that follows a letter in the same argument.
Attached(s) == SubSeq(s, IF s[2] = "=" THEN 3 ELSE 2, Len(s))

\* The letters of a group end at the first whose option takes a value; a piece before it that is
\* not a letter means that this is no group of options.
Grouped(a) ==
    \A k \in 2 .. Len(a) :
        (a[k] \notin Letters /\ a[k] \notin DOMAIN Short) =>
            \E j \in 2 .. k - 1 : a[j] \in DOMAIN Short /\ Kind[Short[a[j]]] # "bool"

EndOptions ==
    /\ Parsing
    /\ ~optsDone
    /\ Arg = <<"-", "-">>
    /\ optsDone' = TRUE
    /\ at' = at + 1
    /\ UNCHANGED <<meant, argv, short, rest, vals, mapKeys, active, status>>

LongOption(o) ==
    /\ Parsing
    /\ ~optsDone /\ IsLong(Arg)
    /\ Names(SubSeq(Arg, 3, Len(Arg)), o)
    /\ Set(o, at + 1, argv)
    /\ UNCHANGED short

\* --option=value: the value takes the argument's place, to be read again.
LongEquals(o) ==
    /\ Parsing
    /\ ~optsDone /\ IsLong(Arg)
    /\ EqualsAt(Arg) # 0
    /\ Names(Before(Arg, EqualsAt(Arg)), o)
    /\ IF Kind[o] = "bool" THEN Refuse
       ELSE /\ Set(o, at, [argv EXCEPT ![at + 1] = After(Arg, EqualsAt(Arg))])
            /\ UNCHANGED short

LongUnknown ==
    /\ Parsing
    /\ ~optsDone /\ IsLong(Arg)
    /\ \A o \in Long : ~Names(SubSeq(Arg, 3, Len(Arg)), o)
    /\ EqualsAt(Arg) # 0 => \A o \in Long : ~Names(Before(Arg, EqualsAt(Arg)), o)
    /\ Refuse

\* One dash: a group of letters, also if it is only one.
ShortGroup ==
    /\ Parsing
    /\ ~optsDone /\ IsShort(Arg) /\ Grouped(Arg)
    /\ short' = Tail(Arg)
    /\ at' = at + 1
    /\ UNCHANGED <<meant, argv, rest, vals, mapKeys, active, optsDone, status>>

\* The loop at L: the next letter; a value attached to it is put in the argument's place.
ShortOption ==
    /\ status = "parsing" /\ short # <<>>
    /\ IF Head(short) \notin DOMAIN Short THEN Refuse
       ELSE LET o == Short[Head(short)]
            IN  IF Kind[o] # "bool" /\ Len(short) > 1
                THEN /\ Set(o, at - 1, [argv EXCEPT ![at] = Attached(short)])
                     /\ short' = <<>>
                ELSE /\ Set(o, at, argv)
                     /\ short' = Tail(short)

\* No option: a word for the active list once there is a query, or the query or a file.
Word ==
    /\ Parsing
    /\ \/ optsDone
       \/ ~IsLong(Arg) /\ Arg # <<"-", "-">> /\ ~(IsShort(Arg) /\ Grouped(Arg))
    /\ IF active # "none" /\ rest # <<>>
       THEN vals' = [vals EXCEPT ![active] = Append(@, Arg)] /\ UNCHANGED rest
       ELSE rest' = Append(rest, Arg) /\ UNCHANGED vals
    /\ at' = at + 1
    /\ UNCHANGED <<meant, argv, short, mapKeys, active, optsDone, status>>

ParsingEnds ==
    /\ status = "parsing" /\ short = <<>> /\ at = Len(argv)
    /\ status' = "done"
    /\ UNCHANGED <<meant, argv, at, short, rest, vals, mapKeys, active, optsDone>>

FlagsNext ==
    \/ EndOptions
    \/ \E o \in Long : LongOption(o) \/ LongEquals(o)
    \/ LongUnknown
    \/ ShortGroup
    \/ ShortOption
    \/ Word
    \/ ParsingEnds

FlagsSpec == FlagsInit /\ [][FlagsNext]_flagVars

\* $ARGS.positional: --args with the values of --jsonargs put where they belong.
Positional ==
    LET Put(list, j) ==
            IF vals.jsonargs[j] = Missing THEN list
            ELSE IF j <= Len(list) THEN [list EXCEPT ![j] = <<"json", vals.jsonargs[j]>>]
            ELSE Append(list, <<"json", vals.jsonargs[j]>>)
        positional[j \in 0 .. Len(vals.jsonargs)] ==
            IF j = 0 THEN [i \in DOMAIN vals.args |-> <<"string", vals.args[i]>>] ELSE Put(positional[j - 1], j)
    IN  positional[Len(vals.jsonargs)]

-------------------------------------------------------------------------------
(* What is meant: a sequence of                                            *)
(*   <<"set", option, values>>, <<"list", option>>, <<"word", argument>>.  *)
(* The last may be <<"wrong">>, something that is refused.                 *)

Wrong == meant # <<>> /\ Last(meant)[1] = "wrong"

\* The elements of a set of numbers, the least first.
Ascending(K) == [j \in 1 .. Cardinality(K) |-> CHOOSE k \in K : Cardinality({i \in K : i <= k}) = j]

\* Where option o is set among the first n.
Sets(o, n) == {k \in 1 .. n : meant[k][1] = "set" /\ meant[k][2] = o}

\* The list that collects words before the k-th, and whether there is a query by then.
ListBefore(k) ==
    LET lists == {j \in 1 .. k - 1 : meant[j][1] = "list"}
    IN  IF lists = {} THEN "none" ELSE meant[Max(lists)][2]

Words(n) == {k \in 1 .. n : meant[k][1] = "word"}

Collected(k) == ListBefore(k) # "none" /\ \E j \in 1 .. k - 1 : meant[j][1] = "word"

Listed(k) == <<IF ListBefore(k) = "args" THEN "string" ELSE "json", meant[k][2]>>

MeantPositional(n) == LET ks == Ascending({k \in Words(n) : Collected(k)})
                      IN  [j \in DOMAIN ks |-> Listed(ks[j])]

MeantRest(n) == LET ks == Ascending({k \in Words(n) : ~Collected(k)})
                IN  [j \in DOMAIN ks |-> meant[ks[j]][2]]

\* The bindings of an option like --arg; the first for a name counts, whichever of them gives it.
Binds(k) == meant[k][1] = "set" /\ Kind[meant[k][2]] = "map"
First(k) == \A j \in 1 .. k - 1 : ~(Binds(j) /\ meant[j][3][1] = meant[k][3][1])

MeantMap(o, n) == {meant[k][3] : k \in {k \in Sets(o, n) : First(k)}}

-------------------------------------------------------------------------------
FlagsTypeOK ==
    /\ at \in 0 .. Len(argv)
    /\ DOMAIN vals = Long
    /\ active \in Lists \cup {"none"}
    /\ optsDone \in BOOLEAN
    /\ status \in {"parsing", "done", "error"}

\* A command line is refused exactly when something in it is wrong, however its options are spelled
\* (parseFlags: reading a value that was put back never runs past the end or reads it twice).
RefusedWhenWrong == status # "parsing" => (status = "error") = Wrong

\* The words of $ARGS.positional are those after --args and --jsonargs, in the order of the
\* command line and each as a string or as JSON, though they are kept in two lists
\* (the padding in parseFlags, the merge in runInternal).
PositionalInOrder ==
    status = "done" =>
        /\ Positional = MeantPositional(Len(meant))
        /\ rest = MeantRest(Len(meant))

\* Each option has the value that was given to it, also if it looks like an option; a variable has the first value
\* that one of --arg and --argjson gives it.
ValuesMeant ==
    status = "done" =>
        \A o \in Long : LET ks == Sets(o, Len(meant))
                         IN  CASE Kind[o] \in {"bool", "string", "int"} ->
                                    vals[o] = IF ks = {} THEN <<>> ELSE meant[Max(ks)][3][1]
                               [] Kind[o] = "list" ->
                                    vals[o] = [j \in DOMAIN Ascending(ks) |-> meant[Ascending(ks)[j]][3][1]]
                               [] Kind[o] = "map" -> vals[o] = MeantMap(o, Len(meant))
                               [] OTHER -> TRUE

\* What parseFlags makes of a command line is what it says, in whatever spelling and order it says so: wrong ones are
\* refused and no others, each option has its value, and the words go where the options before them send them.
CommandLineMeant == FlagsTypeOK /\ RefusedWhenWrong /\ PositionalInOrder /\ ValuesMeant
===============================================================================
