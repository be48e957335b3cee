------------------------------- MODULE Documents -------------------------------
(***************************************************************************)
(* JSON documents as they are written, whoever reads them.  A document is  *)
(* a row of tokens and of the values these belong to.  The first value is  *)
(* the document itself, with the values at top level as its parts: it      *)
(* begins before the first token and ends after the last.                  *)
(*                                                                         *)
(* A token is a delimiter, an atom or a key; the decoder gives no other    *)
(* hint which of these a string is.                                        *)
(***************************************************************************)
EXTENDS Integers, SequencesExt

CONSTANT Documents

Delims  == {"beginArray", "endArray", "beginObject", "endObject"}
BadChar == "bad"    \* a character that is a syntax error wherever it comes

At(i)  == <<"index", i>>
Key(k) == <<"key", k>>
Step   == ({"index"} \X Nat) \cup ({"key"} \X STRING)

Roles == {"opens", "closes", "key", "atom"}

\* A token: what it does for which of the values.
Token == [role : Roles, of : Nat, text : STRING]

\* A value: where it is, in which other value, from its first token to its last, and of what parts.
Valued == [kind : {"top", "arr", "obj", "atom"}, path : Seq(Step), within : Nat, first : Nat, last : Nat, parts : Seq(Nat)]

Tok(role, of, text) == [role |-> role, of |-> of, text |-> text]

\* What the decoder returns.
TextOf(d) == [i \in DOMAIN d.tokens |-> d.tokens[i].text]

-------------------------------------------------------------------------------
(* How the tokens of a value follow one another.                           *)

\* The last token of the first i parts of value v.
Behind(d, v, i) == IF i = 0 THEN d.values[v].first ELSE d.values[d.values[v].parts[i]].last

IsText(t) == t \notin Delims \cup {BadChar}

IsWritten(d, v) ==
    LET x == d.values[v]
    IN  CASE x.kind = "top"  -> v = 1 /\ x.path = <<>> /\ x.first = 0 /\ x.last = Len(d.tokens) + 1
          [] x.kind = "atom" -> /\ x.last = x.first
                                /\ IsText(d.tokens[x.first].text)
                                /\ d.tokens[x.first] = Tok("atom", v, d.tokens[x.first].text)
          [] x.kind = "arr"  -> d.tokens[x.first] = Tok("opens", v, "beginArray") /\ d.tokens[x.last] = Tok("closes", v, "endArray")
          [] x.kind = "obj"  -> d.tokens[x.first] = Tok("opens", v, "beginObject") /\ d.tokens[x.last] = Tok("closes", v, "endObject")

\* Part i of value v begins after the one before, in an object with a key.
IsPart(d, v, i) ==
    LET x == d.values[v]
        w == x.parts[i]
        y == d.values[w]
        b == Behind(d, v, i - 1)
    IN  /\ w \in 2 .. Len(d.values)
        /\ y.within = v
        /\ CASE x.kind = "top" -> y.first = b + 1 /\ y.path = <<>>
             [] x.kind = "arr" -> y.first = b + 1 /\ y.path = Append(x.path, At(i - 1))
             [] x.kind = "obj" -> /\ y.first = b + 2
                                  /\ IsText(d.tokens[b + 1].text)
                                  /\ d.tokens[b + 1] = Tok("key", w, d.tokens[b + 1].text)
                                  /\ y.path = Append(x.path, Key(d.tokens[b + 1].text))

IsDocument(d) ==
    /\ d = [tokens |-> d.tokens, values |-> d.values]
    /\ d.tokens \in Seq(Token) /\ d.values \in Seq(Valued)
    /\ \A i \in 1 .. Len(d.tokens) : d.tokens[i].of \in 2 .. Len(d.values)
    /\ Len(d.values) > 0 /\ d.values[1].kind = "top"
    /\ \A v \in 1 .. Len(d.values) :
          LET x == d.values[v]
          IN  /\ IsWritten(d, v)
              /\ x.kind # "top" => x.first \in 1 .. Len(d.tokens) /\ x.last \in 1 .. Len(d.tokens)
              /\ x.kind # "atom" => x.last = Behind(d, v, Len(x.parts)) + 1
              /\ x.kind = "atom" => x.parts = <<>>
              /\ \A i \in 1 .. Len(x.parts) : IsPart(d, v, i)

ASSUME DocumentsAssumption == \A d \in Documents : IsDocument(d)

-------------------------------------------------------------------------------
(* What a document means as events: a path with the atom or the empty      *)
(* array or object there, and at the end of any other the path of its      *)
(* last part.                                                              *)

Event(p, leaf) == [path |-> p, leaf |-> leaf]

\* What is known with token n.
EventsAt(d, n) ==
    LET t == d.tokens[n]
        x == d.values[t.of]
    IN  CASE t.role = "atom" -> <<Event(x.path, <<"atom", t.text>>)>>
          [] t.role = "closes" /\ x.parts = <<>> -> <<Event(x.path, <<x.kind, <<>>>>)>>
          [] t.role = "closes" /\ x.parts # <<>> -> <<Event(d.values[Last(x.parts)].path, <<>>)>>
          [] OTHER -> <<>>

\* Those known after n tokens.
Known(d, n) ==
    LET known[i \in 0 .. n] == IF i = 0 THEN <<>> ELSE known[i - 1] \o EventsAt(d, i)
    IN  known[n]

\* With n tokens the document may be over.
Complete(d, n) ==
    n = 0 \/ (d.tokens[n].role \in {"atom", "closes"} /\ d.values[d.tokens[n].of].within = 1)
===============================================================================
