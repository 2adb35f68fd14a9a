------------------------------ MODULE DnsData -------------------------------
(* What clients ask for and resolvers answer with. *)
EXTENDS Integers

CONSTANT Name   \* names that clients ask for
ASSUME NameAssumption == Name # {}

\* An answer without records, or an A record with no address in it.
NoAddress == 0
=============================================================================
