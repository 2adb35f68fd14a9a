---------------------------- MODULE RuleInclude -----------------------------
(***************************************************************************)
(* The rule list of a resolver (config/config.go: parseRule): a line is a  *)
(* rule or includes a file, whose lines are parsed in its place.  parseRule*)
(* calls itself; its activations are a stack here, and what they have      *)
(* collected is one sequence, in the order in which the lines are met.     *)
(*                                                                         *)
(* A file may be missing, unreadable or behind a URL that does not answer, *)
(* and may be changed while the parse goes on: a file is read whole when   *)
(* its include is met, and again when it is included again.  An include or *)
(* a v2fly line without a name and a URL that is none fail the parse as a  *)
(* missing file does, and are one here.  Blank lines and comments are left *)
(* out; what a v2fly line with a name adds is V2flyCache's.                *)
(***************************************************************************)
EXTENDS Integers, Sequences, FiniteSets, SequencesExt

CONSTANTS Text,        \* what a line that is a rule may say
          File,        \* what can be included
          Config,      \* the list in the configuration
          MaxLines,    \* bound on the lines of a list
          MaxChanges   \* changes of a file during the parse

ASSUME IncludeAssumption == /\ Text \cap File = {} /\ Config \notin File
                            /\ IsFiniteSet(File)
                            /\ MaxLines \in Nat /\ MaxChanges \in Nat

RuleList == File \cup {Config}
Lines == UNION {[1..k -> Text \cup File] : k \in 0..MaxLines}
Missing == <<"missing">>

VARIABLES files,    \* the lines of every list
          stack,    \* activations of parseRule: their list, the lines left
          visited,  \* the files being parsed
          parsed,
          status,   \* parsing, parsed, error, or handed to the matcher
          changes

includeVars == <<files, stack, visited, parsed, status, changes>>

Activation(l, lines) == [of |-> l, rest |-> lines]
Top == Last(stack)

IncludeInit == /\ files \in [RuleList -> Lines \cup {Missing}]
               /\ files[Config] # Missing
               /\ stack = <<Activation(Config, files[Config])>>
               /\ visited = {}
               /\ parsed = <<>>
               /\ status = "parsing"
               /\ changes = 0

-----------------------------------------------------------------------------
\* The top activation is at a line of this kind.
AtLine(lines) == status = "parsing" /\ Top.rest # <<>> /\ Head(Top.rest) \in lines

\* The caller goes on behind its include.
Behind == [stack EXCEPT ![Len(stack)].rest = Tail(@)]

Plain == /\ AtLine(Text)
         /\ parsed' = Append(parsed, Head(Top.rest))
         /\ stack' = Behind
         /\ UNCHANGED <<files, visited, status, changes>>

SeenAbove(f) == f = Top.of
Seen(f) == f \in visited
Readable(f) == files[f] # Missing

Include == /\ AtLine(File)
           /\ LET f == Head(Top.rest)
              IN  /\ ~Seen(f) /\ Readable(f)
                  /\ visited' = visited \cup {f}
                  /\ stack' = Append(Behind, Activation(f, files[f]))
           /\ UNCHANGED <<files, parsed, status, changes>>

\* A cycle, or a list that has no name or cannot be read, fails every activation.
Fail == /\ AtLine(File)
        /\ LET f == Head(Top.rest) IN Seen(f) \/ ~Readable(f)
        /\ status' = "error"
        /\ parsed' = <<>>
        /\ stack' = <<>>
        /\ visited' = {}
        /\ UNCHANGED <<files, changes>>

StillVisited(f) == visited
NoLonger(f) == visited \ {f}

Return == /\ status = "parsing" /\ Top.rest = <<>>
          /\ stack' = Front(stack)
          /\ visited' = NoLonger(Top.of)
          /\ status' = IF Len(stack) = 1 THEN "parsed" ELSE "parsing"
          /\ UNCHANGED <<files, parsed, changes>>

Change == /\ status = "parsing"
          /\ changes < MaxChanges
          /\ changes' = changes + 1
          /\ \E f \in File, lines \in Lines \cup {Missing} :
               files' = [files EXCEPT ![f] = lines]
          /\ UNCHANGED <<stack, visited, parsed, status>>

Parse == Plain \/ Include \/ Fail \/ Return \/ Change

-----------------------------------------------------------------------------
(* What an include stands for.                                             *)

Included(l) == IF files[l] = Missing THEN {} ELSE ToSet(files[l]) \cap File

\* The files a list includes, by whatever detour: those in every set that has
\* what it includes and what its own members include.
Below(l) == {f \in File : \A S \in SUBSET File :
                            /\ Included(l) \subseteq S
                            /\ \A g \in S : Included(g) \subseteq S
                            => f \in S}
Proper == \A l \in {Config} \cup Below(Config) : files[l] # Missing /\ l \notin Below(l)

\* The rules of some lines, if those of every file are in rules.
FlatLines(rules, lines) ==
    FlattenSeq([i \in DOMAIN lines |->
                  IF lines[i] \in File THEN rules[lines[i]] ELSE <<lines[i]>>])

\* The rules of every list, each include replaced by the rules of its file: as
\* deep as there are lists.
Flat == LET flat[n \in 0..Cardinality(RuleList)] ==
                [l \in RuleList |-> IF n = 0 THEN <<>> ELSE FlatLines(flat[n - 1], files[l])]
        IN  flat[Cardinality(RuleList)]

IncludeTypeOK ==
    /\ files \in [RuleList -> Lines \cup {Missing}]
    /\ \A i \in DOMAIN stack : stack[i].of \in RuleList /\ stack[i].rest \in Lines
    /\ visited \subseteq File
    /\ parsed \in Seq(Text)
    /\ status \in {"parsing", "parsed", "error", "handed"}
    /\ changes \in 0..MaxChanges

\* A list that includes nothing missing and not itself, by whatever detour, is
\* parsed to its rules in their places, a file included twice without a cycle
\* too; any other is an error (USAGE.md:227, config.go:554-612).
ParsedIsFlat ==
    [][changes = 0 /\ status = "parsing" /\ status' # status
         => IF status' = "parsed" THEN Proper /\ parsed' = Flat[Config] ELSE ~Proper]_includeVars

\* The parse never goes deeper than there are files, whatever they are changed
\* to meanwhile (config.go:579-590).
DepthBounded == Len(stack) <= Cardinality(File) + 1

\* Stronger than what the code does: a list with lines leaves rules.  One of an
\* empty file, or of a file read while it is being written, leaves none, and a
\* resolver without rules accepts everything (matcher.go:190).
LinesLeaveRules ==
    [][status' = "parsed" /\ status = "parsing" /\ files[Config] # <<>>
         => parsed' # <<>>]_includeVars
=============================================================================
