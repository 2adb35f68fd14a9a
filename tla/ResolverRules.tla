--------------------------- MODULE ResolverRules ----------------------------
(***************************************************************************)
(* The rules of a resolver from the configuration to its matcher: parseRule*)
(* makes one list of the lines and the files they include (RuleInclude),   *)
(* and NewDomainMatcher reads that list into the trees it matches with     *)
(* (DomainMatcher).  ParseRule runs a second time in NewDomainMatcher, on  *)
(* a list that includes nothing any more, and changes nothing.             *)
(*                                                                         *)
(* What a line says is chosen when the matcher reads it, since the parse   *)
(* looks at nothing but its kind; the same text says the same every time.  *)
(***************************************************************************)
EXTENDS DomainMatcher, RuleInclude

VARIABLES unread,  \* the rules NewDomainMatcher has still to read
          says     \* what those of them say whose text it has met before

rulesVars == <<includeVars, matcherVars, unread, says>>

RulesInit == /\ MatcherInit
             /\ IncludeInit
             /\ unread = <<>>
             /\ says = [t \in {} |-> {}]

ParseRules == Parse /\ UNCHANGED <<matcherVars, unread, says>>

\* Nothing but the rules is left of the parse.
HandOver == /\ status = "parsed"
            /\ Len(parsed) <= MaxRules
            /\ unread' = parsed
            /\ status' = "handed"
            /\ parsed' = <<>>
            /\ files' = [l \in RuleList |-> <<>>]
            /\ changes' = 0
            /\ UNCHANGED <<stack, visited, matcherVars, says>>

Meaning(t) == IF t \in DOMAIN says THEN {says[t]} ELSE Rule

ReadRule == /\ unread # <<>>
            /\ \E r \in Meaning(Head(unread)) :
                 /\ AddRule(r)
                 /\ says' = [t \in ToSet(Tail(unread)) \cap (DOMAIN says \cup {Head(unread)}) |->
                               IF t = Head(unread) THEN r ELSE says[t]]
            /\ unread' = Tail(unread)
            /\ UNCHANGED includeVars

RulesNext == ParseRules \/ HandOver \/ ReadRule

RulesSpec == RulesInit /\ [][RulesNext]_rulesVars
=============================================================================
