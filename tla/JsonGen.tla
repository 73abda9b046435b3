------------------------------- MODULE JsonGen -------------------------------
(***************************************************************************)
(* The JSON generator every request body is made with                      *)
(* (src/src/json_gen.c): a stack of scopes, two flags that decide where    *)
(* commas go, and a buffer that grows by doubling.  One action per         *)
(* function of the interface; any of them may be called at any time.       *)
(***************************************************************************)
EXTENDS Integers, Sequences, SequencesExt

CONSTANTS
  MaxScopes,      \* size of gen->scopes (32 in the code)
  Capacity,       \* size of the first buffer (32 in the code)
  Lengths,        \* lengths of escaped keys and values
  MaxCalls        \* bound on the calls to one generator

ASSUME JsonGenAssumption ==
  /\ MaxScopes \in Nat
  /\ Capacity \in Nat \ {0}
  /\ Lengths \subseteq Nat
  /\ MaxCalls \in Nat

Opens == {"begin_object", "begin_array"}
Closes == {"end_object", "end_array"}
Values == Opens \cup {"scalar"}
Calls == Values \cup Closes \cup {"objmember"}

VARIABLES
  scopes,               \* gen->scopes: "object" or "array"
  await_object_value,
  first_elem,
  buffer_size, buffer_capacity,
  out,                  \* the tokens in the buffer
  aborted,              \* an assertion failed
  overrun,              \* history: a write went past the buffer
  calls                 \* history: the calls made

flags == <<await_object_value, first_elem>>
storage == <<buffer_size, buffer_capacity, out, overrun>>
generator == <<scopes, flags, storage, aborted, calls>>

InitGen ==
  /\ scopes = <<>>
  /\ await_object_value = FALSE
  /\ first_elem = TRUE
  /\ buffer_size = 0 /\ buffer_capacity = Capacity
  /\ out = <<>>
  /\ aborted = FALSE /\ overrun = FALSE
  /\ calls = <<>>

-----------------------------------------------------------------------------
(* The buffer *)

\* fit: double the capacity until n characters fit behind the first s.
Fit(cap, s, n) ==
  LET double[k \in 0..s + n] == IF k = 0 THEN cap ELSE 2 * double[k - 1]
      enough == CHOOSE k \in 0..s + n :
                  /\ double[k] - s >= n
                  /\ \A j \in 0..k - 1 : double[j] - s < n
  IN  double[enough]

\* A token: its kind, its length, and whether printf ends it with a NUL.
Text(kind, length, nul) == [kind |-> kind, length |-> length, nul |-> nul]

Comma == Text("comma", 2, 0)
Brace(kind) == Text(kind, 1, 0)

\* Mutant: no room for the NUL of vsnprintf.
MutRoom(token) == token.length

\* append_str copies the characters, append_strf lets vsnprintf write a NUL
\* behind them; both make room first.
Room(token) == token.length + token.nul

Written == [size |-> buffer_size, capacity |-> buffer_capacity, out |-> out,
            overrun |-> overrun]

Write(buf, token) ==
  LET cap == Fit(buf.capacity, buf.size, Room(token))
  IN  [size |-> buf.size + token.length,
       capacity |-> cap,
       out |-> Append(buf.out, token.kind),
       overrun |-> buf.overrun \/ buf.size + token.length + token.nul > cap]

Becomes(buf) ==
  /\ buffer_size' = buf.size
  /\ buffer_capacity' = buf.capacity
  /\ out' = buf.out
  /\ overrun' = buf.overrun

-----------------------------------------------------------------------------
(* The interface *)

Call(name) ==
  /\ ~aborted /\ Len(calls) < MaxCalls
  /\ calls' = Append(calls, name)

Scope == IF scopes = <<>> THEN "none" ELSE Last(scopes)

\* Mutant: a comma between a key and its value.
MutCommaIfNeeded ==
  IF ~first_elem /\ scopes # <<>> THEN Write(Written, Comma) ELSE Written

\* put_comma_if_needed
CommaIfNeeded ==
  IF ~await_object_value /\ ~first_elem /\ scopes # <<>>
    THEN Write(Written, Comma) ELSE Written

Abort == aborted' = TRUE /\ UNCHANGED <<scopes, flags, storage>>

KeyPosition == Scope = "object" /\ ~await_object_value

Begin(name, scope, brace) ==
  /\ Call(name) /\ ~KeyPosition /\ Len(scopes) < MaxScopes
  /\ Becomes(Write(CommaIfNeeded, Brace(brace)))
  /\ scopes' = Append(scopes, scope)
  /\ first_elem' = TRUE
  /\ UNCHANGED <<await_object_value, aborted>>

BeginObject == Begin("begin_object", "object", "lbrace")
BeginArray == Begin("begin_array", "array", "lbracket")

\* "Cannot put a json object [array] into a json object key"
BeginAborts ==
  \E name \in Opens : Call(name) /\ KeyPosition /\ Abort

\* push_scope fails when the comma is written already.
BeginTooDeep ==
  /\ \E name \in Opens : Call(name)
  /\ ~KeyPosition /\ Len(scopes) = MaxScopes
  /\ Becomes(CommaIfNeeded)
  /\ first_elem' = FALSE
  /\ UNCHANGED <<scopes, await_object_value, aborted>>

ValueDone == await_object_value' = FALSE /\ first_elem' = FALSE

End(name, scope, brace) ==
  /\ Call(name) /\ Scope = scope
  /\ scopes' = Front(scopes)
  /\ Becomes(Write(Written, Brace(brace)))
  /\ ValueDone
  /\ UNCHANGED aborted

EndObject == End("end_object", "object", "rbrace")
EndArray == End("end_array", "array", "rbracket")

\* "unbalanced json scopes"
EndAborts ==
  \/ Call("end_object") /\ Scope # "object" /\ Abort
  \/ Call("end_array") /\ Scope # "array" /\ Abort

\* The key in quotes, a colon and a blank.
ObjMember ==
  /\ Call("objmember") /\ Scope = "object"
  /\ \E n \in Lengths : Becomes(Write(CommaIfNeeded, Text("key", n + 4, 1)))
  /\ first_elem' = FALSE
  /\ await_object_value' = TRUE
  /\ UNCHANGED <<scopes, aborted>>

\* "gcli_jsongen_objmember called outside object scope"
ObjMemberAborts == Call("objmember") /\ Scope # "object" /\ Abort

\* What gcli_jsongen_number, _id, _bool and _string print, and the null that
\* gcli_jsongen_null copies.
ScalarTexts == {Text("value", n, 1) : n \in Lengths} \cup {Text("value", 4, 0)}

Scalar ==
  /\ Call("scalar")
  /\ \E text \in ScalarTexts : Becomes(Write(CommaIfNeeded, text))
  /\ ValueDone
  /\ UNCHANGED <<scopes, aborted>>

NextGen ==
  \/ BeginObject \/ BeginArray \/ BeginAborts \/ BeginTooDeep
  \/ EndObject \/ EndArray \/ EndAborts
  \/ ObjMember \/ ObjMemberAborts
  \/ Scalar

SpecGen == InitGen /\ [][NextGen]_generator

-----------------------------------------------------------------------------
(* A correct use of the generator, and the JSON text it stands for. *)

ScopeOf(call) == IF call \in {"begin_object", "end_object"} THEN "object"
                                                            ELSE "array"

\* The scopes that are open after n calls.
Open ==
  LET after[n \in 0..Len(calls)] ==
        IF n = 0 THEN <<>>
        ELSE CASE calls[n] \in Opens ->
                    Append(after[n - 1], ScopeOf(calls[n]))
               [] calls[n] \in Closes /\ after[n - 1] # <<>> ->
                    Front(after[n - 1])
               [] OTHER -> after[n - 1]
  IN  after

\* Call n puts a key into an object only, and not after a key; a value after
\* a key, or outside objects; it closes what is open, and not after a key.
GoodCall(n) ==
  LET open == Open[n - 1]
      inObject == open # <<>> /\ Last(open) = "object"
      afterKey == n > 1 /\ calls[n - 1] = "objmember"
  IN  CASE calls[n] = "objmember" -> inObject /\ ~afterKey
        [] calls[n] \in Values ->
             /\ inObject => afterKey
             /\ calls[n] \in Opens => Len(open) < MaxScopes
        [] calls[n] \in Closes ->
             open # <<>> /\ Last(open) = ScopeOf(calls[n]) /\ ~afterKey

WellUsed == \A n \in 1..Len(calls) : GoodCall(n)

Token(call) ==
  CASE call = "begin_object" -> "lbrace"
    [] call = "end_object" -> "rbrace"
    [] call = "begin_array" -> "lbracket"
    [] call = "end_array" -> "rbracket"
    [] call = "objmember" -> "key"
    [] call = "scalar" -> "value"

\* JSON has a comma between two members or elements of the same scope: where
\* a call that starts one follows a call that ended one.
CommaBefore(n) ==
  /\ n > 1 /\ Open[n - 1] # <<>>
  /\ calls[n - 1] \in Closes \cup {"scalar"}
  /\ calls[n] \notin Closes

Json ==
  FlattenSeq([n \in 1..Len(calls) |->
    (IF CommaBefore(n) THEN <<"comma">> ELSE <<>>) \o <<Token(calls[n])>>])

-----------------------------------------------------------------------------
\* A generator that is used correctly writes the JSON text its calls stand
\* for, with every comma in its place at any depth up to the size of the
\* scope stack, and no assertion fails.
WritesJson == WellUsed => ~aborted /\ out = Json

\* Nothing is written past the scope stack or the buffer, vsnprintf's NUL
\* included, however the lengths fall on the capacity.
StaysInBuffer ==
  /\ Len(scopes) <= MaxScopes
  /\ buffer_size <= buffer_capacity /\ ~overrun

=============================================================================
