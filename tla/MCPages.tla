------------------------------ MODULE MCPages ------------------------------
(* A small instance of Pages for TLC. *)
EXTENDS Pages

CONSTANTS ip, old, new

Bare == [ns |-> {}, glue |-> {}, synth |-> {}, ds |-> FALSE, txt |-> FALSE,
         malformed |-> FALSE, parked |-> {}]

\* Addresses of its own; delegated to a nameserver under name 1, signed; with
\* glue and parked under the new rules; malformed.
Direct == [Bare EXCEPT !.synth = {ip}]
Under1 == [Bare EXCEPT !.ns = {1}, !.ds = TRUE]
Glued  == [Bare EXCEPT !.ns = {1}, !.glue = {ip}, !.ds = TRUE, !.parked = {new}]
Broken == [Bare EXCEPT !.ns = {4}, !.malformed = TRUE, !.txt = TRUE]

SomeResources == {Direct, Under1, Glued, Broken}
SomeStarts == {<<Direct, None, Under1>>}
=============================================================================
