----------------------------- MODULE MCTemplate -----------------------------
(***************************************************************************)
(* Values made of up to four pieces, whole references and fragments of     *)
(* them, so that pieces meet in a way that makes or breaks a reference.    *)
(***************************************************************************)
EXTENDS Template

A == Body("build", "tag")     \* has an output
B == Body("build", "digest")  \* has none
C == Body("build", "sha")     \* has one, which the output of A mentions

Ref(b) == <<Open, Open, b, Close, Close>>

Pieces == {<<Open>>, <<Close>>, <<Blank>>, <<A>>, <<B>>,
           Ref(A), Ref(B), <<Open, Open, Blank>>, <<Blank, Close, Close>>}

Values == {FlattenSeq(p) : p \in UNION {[1..n -> Pieces] : n \in 0..4}}
Few    == {<<>>, <<Other>>, Ref(A), Ref(B), Ref(A) \o Ref(B), Ref(B) \o <<Other>> \o Ref(B)}

MCInputs == {[p \in {"value"} |-> v] : v \in Values} \union [{"key", "value"} -> Few]
            \union {<<>>}

Entry(n, os) == [name |-> n, outputs |-> os]

\* The output looks like a reference to another one; a second entry of the same
\* name, as two steps of one name have, holds nothing.
MCStatuses == {<<Entry("build", [o \in {"tag", "sha"} |-> IF o = "tag" THEN Ref(C) ELSE <<Other>>]),
                 Entry("build", <<>>)>>}
=============================================================================
