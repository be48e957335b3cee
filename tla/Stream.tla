-------------------------------- MODULE Stream --------------------------------
(***************************************************************************)
(* jsonStream of cli/stream.go: --stream turns the tokens of the JSON      *)
(* decoder into events, a path with the value found there, and a path      *)
(* alone when an array or object ends.  Each call of next goes on until    *)
(* it has an event or the decoder has an error.                            *)
(*                                                                         *)
(* Input may stop after any token of a document, or go on with a character *)
(* that is an error there.                                                 *)
(***************************************************************************)
EXTENDS Documents

VARIABLES doc,     \* the document of which the input is a part
          given,   \* how many of its tokens the input has
          tokens,  \* what the decoder has not returned yet
          path,    \* s.path
          states,  \* s.states
          events,  \* what next has returned
          phase,   \* "idle" between calls of next, "loop" within, "over" after an error
          err      \* the error: "EOF", "UnexpectedEOF", "SyntaxError" or none

streamVars == <<doc, given, tokens, path, states, events, phase, err>>

States == {"TopValue", "ArrayStart", "ArrayValue", "ArrayEnd", "ArrayEmptyEnd", "ObjectStart",
           "ObjectKey", "ObjectValue", "ObjectEnd", "ObjectEmptyEnd"}

Leaf(p, v) == [path |-> p, leaf |-> v]

\* Mutant: the event at the end of an array or object has the path of that, not of its last element.
ClosingAround(p) == [path |-> Front(p), leaf |-> <<>>]

Closing(p) == [path |-> p, leaf |-> <<>>]

-------------------------------------------------------------------------------
StreamStart(d, n, bad) ==
    /\ doc = d
    /\ given = n
    /\ tokens = SubSeq(TextOf(d), 1, n) \o bad
    /\ path = <<>>
    /\ states = <<"TopValue">>
    /\ events = <<>>
    /\ phase = "idle"
    /\ err = "none"

StreamInit ==
    \E d \in Documents : \E n \in 0 .. Len(d.tokens), bad \in {<<>>, <<BadChar>>} : StreamStart(d, n, bad)

Top == Last(states)
WithTop(s) == Front(states) \o <<s>>

\* dec.More(): there is something ahead, and it does not close an array or object.
More == tokens # <<>> /\ Head(tokens) \notin {"endArray", "endObject"}

\* next before its loop: what ended with the last event is left, and in an array the
\* index goes on, in an object the key goes, if another value follows.
Call ==
    /\ phase = "idle"
    /\ LET ended == Top \in {"ArrayEnd", "ArrayEmptyEnd", "ObjectEnd", "ObjectEmptyEnd"}
           left  == IF Top \in {"ArrayEnd", "ObjectEnd"} THEN Front(path) ELSE path
           below == IF ended THEN Front(states) ELSE states
       IN  /\ states' = below
           /\ path' = CASE More /\ Last(below) = "ArrayValue" ->
                               Front(left) \o <<At(Last(left)[2] + 1)>>
                        [] More /\ Last(below) = "ObjectValue" -> Front(left)
                        [] OTHER -> left
    /\ phase' = "loop"
    /\ UNCHANGED <<doc, given, tokens, events, err>>

Take ==
    /\ phase = "loop"
    /\ tokens # <<>>
    /\ tokens' = Tail(tokens)
    /\ UNCHANGED <<doc, given, err>>

Return(event) ==
    /\ events' = Append(events, event)
    /\ phase' = "idle"

Continue == UNCHANGED <<events, phase>>

\* The state of what an array or object begins in.
Entered ==
    CASE Top = "ArrayStart" -> WithTop("ArrayValue")
      [] Top = "ObjectKey" -> WithTop("ObjectValue")
      [] OTHER -> states

OpenArray ==
    /\ Take
    /\ Head(tokens) = "beginArray"
    /\ states' = Append(Entered, "ArrayStart")
    /\ path' = Append(path, At(0))
    /\ Continue

OpenObject ==
    /\ Take
    /\ Head(tokens) = "beginObject"
    /\ states' = Append(Entered, "ObjectStart")
    /\ UNCHANGED path
    /\ Continue

CloseArray ==
    /\ Take
    /\ Head(tokens) = "endArray"
    /\ \/ /\ Top = "ArrayStart"
          /\ states' = WithTop("ArrayEmptyEnd")
          /\ path' = Front(path)
          /\ Return(Leaf(path', <<"arr", <<>>>>))
       \/ /\ Top # "ArrayStart"
          /\ states' = WithTop("ArrayEnd")
          /\ UNCHANGED path
          /\ Return(Closing(path))

CloseObject ==
    /\ Take
    /\ Head(tokens) = "endObject"
    /\ \/ /\ Top = "ObjectStart"
          /\ states' = WithTop("ObjectEmptyEnd")
          /\ Return(Leaf(path, <<"obj", <<>>>>))
       \/ /\ Top # "ObjectStart"
          /\ states' = WithTop("ObjectEnd")
          /\ Return(Closing(path))
    /\ UNCHANGED path

\* Any other token: a key where an object expects one, a value elsewhere.
ReadKey ==
    /\ Take
    /\ Head(tokens) \notin Delims \cup {BadChar}
    /\ Top \in {"ObjectStart", "ObjectValue"}
    /\ states' = WithTop("ObjectKey")
    /\ path' = Append(path, Key(Head(tokens)))
    /\ Continue

ReadValue ==
    /\ Take
    /\ Head(tokens) \notin Delims \cup {BadChar}
    /\ Top \notin {"ObjectStart", "ObjectValue"}
    /\ states' = WithTop(CASE Top \in {"ArrayStart", "ArrayValue"} -> "ArrayValue"
                           [] Top = "ObjectKey" -> "ObjectValue"
                           [] OTHER -> "TopValue")
    /\ UNCHANGED path
    /\ Return(Leaf(path, <<"atom", Head(tokens)>>))

\* The decoder has an error: jsonInputIter keeps it and calls next no more.
Fail ==
    /\ phase = "loop"
    /\ tokens \in {<<>>, <<BadChar>>}
    /\ err' = IF tokens # <<>> THEN "SyntaxError"
              ELSE IF Top # "TopValue" THEN "UnexpectedEOF" ELSE "EOF"
    /\ phase' = "over"
    /\ UNCHANGED <<doc, given, tokens, path, states, events>>

StreamNext ==
    \/ Call
    \/ OpenArray
    \/ OpenObject
    \/ CloseArray
    \/ CloseObject
    \/ ReadKey
    \/ ReadValue
    \/ Fail

StreamSpec == StreamInit /\ [][StreamNext]_streamVars

-------------------------------------------------------------------------------
StreamTypeOK ==
    /\ given \in 0 .. Len(doc.tokens)
    /\ states \in Seq(States)
    /\ phase \in {"idle", "loop", "over"}
    /\ err \in {"none", "EOF", "UnexpectedEOF", "SyntaxError"}

\* What --stream prints are the events of the document, in order and none twice, and all of
\* those known by then when the input ends or fails (jsonStream.next): nothing of
\* what was read before an error is lost, nothing is made up after it.
EventsMeant ==
    /\ IsPrefix(events, Known(doc, given))
    /\ phase = "over" => events = Known(doc, given)

\* The end of the input is an error exactly when it is within a value.
EndsWithinValue ==
    phase = "over" => (err = "EOF") = (tokens = <<>> /\ Complete(doc, given))

\* Between two calls s.states has an element for each array and object around, and s.path one for each
\* but those that have no element or end with this event.
PathFollowsStates ==
    phase = "idle" =>
        /\ \A i \in 2 .. Len(states) - 1 : states[i] \in {"ArrayValue", "ObjectValue"}
        /\ Len(path) = Cardinality({i \in 2 .. Len(states) :
                                       states[i] \notin {"ArrayEmptyEnd", "ObjectEmptyEnd"}})

\* --stream gives the events of the input however it ends, and the path and the states of jsonStream, which are
\* kept apart, go on together (jsonStream.next).
StreamMeant == StreamTypeOK /\ EventsMeant /\ EndsWithinValue /\ PathFollowsStates
===============================================================================
