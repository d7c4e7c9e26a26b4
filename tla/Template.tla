------------------------------ MODULE Template ------------------------------
(***************************************************************************)
(* The template engine: references to outputs of earlier steps in the      *)
(* params of an API-native step are replaced, in one pass over each value. *)
(* The engine is checked against a definition that does not scan.          *)
(*                                                                         *)
(* Text is a sequence of tokens: a brace, a blank, any other character, or *)
(* a body "steps.<name>.outputs.<output>" that the pattern accepts, which  *)
(* is one token.  A body the pattern does not accept is other characters.  *)
(***************************************************************************)
EXTENDS Integers, Sequences, SequencesExt

CONSTANTS
    Inputs,    \* the params of a step: functions from keys to text
    Statuses   \* lists of step entries: name and outputs

Open  == <<"{">>
Close == <<"}">>
Blank == <<" ">>
Other == <<"x">>
Body(name, output) == <<"steps", name, output>>

Token     == {Open, Close, Blank, Other} \union ({"steps"} \X STRING \X STRING)
IsText(v) == v \in Seq(Token)

ASSUME TextAssumption ==
    /\ \A p \in Inputs : \A k \in DOMAIN p : IsText(p[k])
    /\ \A s \in Statuses : Len(s) \in Nat /\ \A i \in 1..Len(s) :
           \A o \in DOMAIN s[i].outputs : IsText(s[i].outputs[o])

VARIABLES
    params,    \* rs.Step.Params
    statuses,  \* taskRun.Status.Steps
    todo,      \* the keys the loop has not visited
    key,       \* the key it is at, as a set of at most one
    pos,       \* how far its value is scanned
    result,    \* the new text up to there
    missing,   \* the references without an output
    resolved,  \* the new params
    answer     \* what ResolveTemplates returns, "" until then

vars == <<params, statuses, todo, key, pos, result, missing, resolved, answer>>

-----------------------------------------------------------------------------

\* Do the tokens i..j of v match?  Two braces, blanks, a body, blanks, two braces.
templatePattern(v, i, j) ==
    \E b \in (i + 2)..(j - 2) :
        /\ v[i] = Open /\ v[i + 1] = Open /\ v[j - 1] = Close /\ v[j] = Close
        /\ v[b][1] = "steps"
        /\ \A n \in (i + 2)..(j - 2) \ {b} : v[n] = Blank

\* Where a match that begins at i ends; nowhere, or at one place.
Ends(v, i) == {j \in i..Len(v) : templatePattern(v, i, j)}

\* The body of the match i..j, as the key of the index.
Reference(v, i, j) ==
    LET b == CHOOSE n \in i..j : v[n][1] = "steps" IN <<v[b][2], v[b][3]>>

\* A later entry overwrites an earlier one.
buildOutputIndex(ss) ==
    LET Holders(r) == {i \in 1..Len(ss) : ss[i].name = r[1] /\ r[2] \in DOMAIN ss[i].outputs}
        refs == UNION {{<<ss[i].name, o>> : o \in DOMAIN ss[i].outputs} : i \in 1..Len(ss)}
    IN  [r \in refs |-> ss[Max(Holders(r))].outputs[r[2]]]

-----------------------------------------------------------------------------
(* What is promised, without scanning.                                     *)

Spans(v) == {s \in (1..Len(v)) \X (1..Len(v)) : templatePattern(v, s[1], s[2])}

Unresolved(v, index) == {s \in Spans(v) : Reference(v, s[1], s[2]) \notin DOMAIN index}

\* Each reference is replaced by the output as it is; the rest stays.
Expansion(v, index) ==
    FlattenSeq([i \in 1..Len(v) |->
        IF \E s \in Spans(v) : s[1] = i
        THEN index[Reference(v, i, CHOOSE j \in i..Len(v) : <<i, j>> \in Spans(v))]
        ELSE IF \E s \in Spans(v) : i \in s[1]..s[2] THEN <<>> ELSE <<v[i]>>])

-----------------------------------------------------------------------------
(* ResolveTemplates.                                                       *)

\* Mutated form: an output that holds references is expanded in its turn.
OutputExpanded(r, index) ==
    IF Unresolved(index[r], index) = {} THEN Expansion(index[r], index) ELSE index[r]

Output(r, index) == index[r]

\* Go visits a map in any order.
NextParam ==
    /\ answer = "" /\ key = {}
    /\ \E k \in todo : key' = {k}
    /\ pos' = 1 /\ result' = <<>> /\ missing' = <<>>
    /\ UNCHANGED <<params, statuses, todo, resolved, answer>>

Key   == CHOOSE k \in key : TRUE
Value == params[Key]

Scanning == answer = "" /\ key # {} /\ pos <= Len(Value)

\* The text between matches.
Literal ==
    /\ Scanning /\ Ends(Value, pos) = {}
    /\ result' = Append(result, Value[pos])
    /\ pos' = pos + 1
    /\ UNCHANGED <<params, statuses, todo, key, missing, resolved, answer>>

\* Mutated form: the first missing reference hides the ones after it.
MissingFirst(r) == IF missing = <<>> THEN <<r>> ELSE missing

Missing(r) == Append(missing, r)

\* A match: replaced by the output, or kept and noted.
Match ==
    /\ Scanning
    /\ \E j \in Ends(Value, pos) :
           LET r     == Reference(Value, pos, j)
               index == buildOutputIndex(statuses)
           IN  /\ \/ /\ r \in DOMAIN index
                     /\ result' = result \o Output(r, index)
                     /\ UNCHANGED missing
                  \/ /\ r \notin DOMAIN index
                     /\ result' = result \o SubSeq(Value, pos, j)
                     /\ missing' = Missing(r)
               /\ pos' = j + 1
    /\ UNCHANGED <<params, statuses, todo, key, resolved, answer>>

\* Mutated form: a param with nothing left to resolve is not copied.
ResolvedForgotten == resolved

Resolved == [k \in DOMAIN resolved \union key |-> IF k \in key THEN result ELSE resolved[k]]

\* The first param with a missing reference ends the loop.
EndOfValue ==
    /\ answer = "" /\ key # {} /\ pos > Len(Value)
    /\ \/ /\ missing # <<>>
          /\ answer' = "error"
          /\ UNCHANGED <<todo, key, resolved>>
       \/ /\ missing = <<>>
          /\ resolved' = Resolved
          /\ todo' = todo \ key /\ key' = {}
          /\ UNCHANGED answer
    /\ UNCHANGED <<params, statuses, pos, result, missing>>

ReturnResolved ==
    /\ answer = "" /\ key = {} /\ todo = {}
    /\ answer' = "ok"
    /\ UNCHANGED <<params, statuses, todo, key, pos, result, missing, resolved>>

Init ==
    /\ params \in Inputs /\ statuses \in Statuses
    /\ todo = DOMAIN params /\ key = {}
    /\ pos = 1 /\ result = <<>> /\ missing = <<>>
    /\ resolved = <<>> /\ answer = ""

Next == NextParam \/ Literal \/ Match \/ EndOfValue \/ ReturnResolved

Spec == Init /\ [][Next]_vars

-----------------------------------------------------------------------------
(* Properties.                                                             *)

\* Every variable has its type, and a param is resolved or still to do.
TypeOK ==
    /\ \A k \in DOMAIN params : IsText(params[k])
    /\ todo \subseteq DOMAIN params /\ key \subseteq todo
    /\ DOMAIN resolved = DOMAIN params \ todo
    /\ pos \in Nat /\ IsText(result)
    /\ answer \in {"", "ok", "error"}

\* In whatever order the params are visited: without an error every
\* reference is replaced, by the output it names and not by what that output
\* refers to, and all other text is kept: a step never gets half of a template.
Substituted ==
    answer = "ok" =>
        LET index == buildOutputIndex(statuses)
        IN  \A k \in DOMAIN params : /\ Unresolved(params[k], index) = {}
                                     /\ resolved[k] = Expansion(params[k], index)

\* With an error, the param at fault has references without an output, and the
\* error names all of them in their order.
MissingReported ==
    answer = "error" =>
        LET bad == Unresolved(Value, buildOutputIndex(statuses))
        IN  /\ bad # {}
            /\ missing = [n \in 1..Len(missing) |->
                             LET s == CHOOSE x \in bad :
                                          Cardinality({y \in bad : y[1] < x[1]}) = n - 1
                             IN  Reference(Value, s[1], s[2])]
            /\ Len(missing) = Cardinality(bad)
=============================================================================
