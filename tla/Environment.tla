------------------------------- MODULE Environment -------------------------------
(***************************************************************************)
(* Environment variables.  A value is the sequence that splitting its text *)
(* at commas gives, so <<"">> is the empty text; a variable that is not    *)
(* set has the value <<>>.  A conversion rule is a variable, too: its name *)
(* is a record of the parts the code looks at.                             *)
(***************************************************************************)
EXTENDS Naturals, Sequences, TLC

CONSTANT Numbers  \* [texts of digits -> what Number() and parseInt make of them]

\* isStringNumber admits digits only.
ASSUME NumbersAssumption == \A text \in DOMAIN Numbers : Numbers[text] \in Nat

\* Formats as they are sent and as the names of rules spell them.
Upper == "pdf" :> "PDF" @@ "png" :> "PNG" @@ "odt" :> "ODT" @@ "mp4" :> "MP4"

\* CONVERT_TO_<to>_WITH, CONVERT_FROM_<from>_TO_<to>_WITH, and any other name.
Mono(to)        == [shape |-> "mono", from |-> "", to |-> to]
Multi(from, to) == [shape |-> "multi", from |-> from, to |-> to]
Other(from, to) == [shape |-> "other", from |-> from, to |-> to]

Unset == <<>>
Empty == <<"">>

Value(env, name) == IF name \in DOMAIN env.vars THEN env.vars[name] ELSE Unset

Rule(env, key) == IF key \in DOMAIN env.rules THEN env.rules[key] ELSE Unset

\* !value
Falsy(value) == value \in {Unset, Empty}

\* isStringNumber, which the parser of the worker does not use.
IsStringNumber(value) == Len(value) = 1 /\ value[1] \in DOMAIN Numbers

NumberOf(value) == Numbers[value[1]]

NumberOr(value, default) == IF Falsy(value) THEN default ELSE NumberOf(value)
================================================================================
