---------------------------- MODULE PortalEditor ----------------------------
(***************************************************************************)
(* The configuration editor of the web portal (web/portal/src/Config.tsx,  *)
(* Panel.tsx, api.ts) in one or more browser tabs: the draft, the version  *)
(* it was loaded with, and the requests in flight while the user goes on   *)
(* editing.                                                                *)
(*                                                                         *)
(* A draft is the version it was loaded from and the edits made since.     *)
(* The server has the file and the version check of handleConfigPost; what *)
(* else happens there is ConfigControl's.  Anybody else may change the     *)
(* file, another tab included.  Selection, drag and layout are left out.   *)
(***************************************************************************)
EXTENDS Integers, FiniteSets

CONSTANTS Tab,
          MaxEdits,    \* edits of the user
          MaxWrites,   \* changes of the file by others
          MaxFaults,   \* requests or responses that fail
          MaxKeys      \* changes of the server's api key

ASSUME PortalAssumption == /\ MaxEdits \in Nat /\ MaxWrites \in Nat
                           /\ MaxFaults \in Nat /\ MaxKeys \in Nat

(* Save and Validate exclude each other, so that one slot has the request  *)
(* of either.  Two loads can be under way at once, which is also the bound *)
(* on loads.                                                               *)
LoadSlot == {"load1", "load2"}
Slot == LoadSlot \cup {"act"}
Edits == 1..MaxEdits
Status == {"", "ok", "error", "conflict"}
Answer == {"none", "ok", "auth", "conflict", "refused", "http", "error"}

VARIABLES disk,    \* the file, as its version
          tab,     \* the state of each component
          call,    \* its requests: none, sent or answered
          key,     \* how the tab's api key stands to the server's
          writes, faults, keys,
          made,    \* history: edits made
          saved,   \* history: edits that have reached the file
          given,   \* history: edits the user has given up by a reload
          late     \* history: edits made while an answer that replaces the draft
                   \* was under way

bounds == <<writes, faults, keys>>
history == <<made, saved, given, late>>
vars == <<disk, tab, call, key, bounds, history>>

\* A page of another origin is foreign to a server that has no key: it may read
\* the configuration and not write it.
Key == {"right", "wrong", "foreign"}

NoCall == [pc |-> "none", kind |-> "load", version |-> 0, base |-> 0, draft |-> {},
           answer |-> "none"]
Sent(kind) == [NoCall EXCEPT !.pc = "sent", !.kind = kind]

\* The component before it is mounted, and the effect that mounting runs.
Unmounted == [loading |-> FALSE, loadError |-> FALSE, loaded |-> FALSE,
              version |-> 0, base |-> 0, draft |-> {}, dirty |-> FALSE,
              busy |-> FALSE, justSaved |-> FALSE, status |-> "", needKey |-> FALSE,
              conflicted |-> FALSE]

Init == /\ disk = 1
        /\ tab = [t \in Tab |-> [Unmounted EXCEPT !.loading = TRUE]]
        /\ call = [t \in Tab |-> [s \in Slot |-> IF s = "load1" THEN Sent("load") ELSE NoCall]]
        /\ key \in [Tab -> {"right", "wrong"}] \cup [Tab -> {"right", "foreign"}]
        /\ writes = 0 /\ faults = 0 /\ keys = 0
        /\ made = {} /\ saved = {} /\ given = {} /\ late = {}

-----------------------------------------------------------------------------
(* loadConfig and what calls it: the effect of mounting or of a new key,   *)
(* the retry button, and the reload button of the conflict notice.         *)

LoadConfig(t, state) ==
    \E s \in LoadSlot :
        /\ call[t][s].pc = "none"
        /\ call' = [call EXCEPT ![t][s] = Sent("load")]
        /\ tab' = [tab EXCEPT ![t] = [state EXCEPT !.loading = TRUE, !.loadError = FALSE,
                                                   !.status = ""]]

NeedsLoadAlways(t) == ~tab[t].loading
NeedsLoad(t) == ~tab[t].loaded /\ ~tab[t].loading /\ ~tab[t].loadError

\* The key given may be a wrong one again; a server without one looks at none.
SubmitKey(t) ==
    /\ tab[t].needKey
    /\ \E k \in Key : /\ k = "foreign" <=> key[t] = "foreign"
                     /\ key' = [key EXCEPT ![t] = k]
    /\ LET state == [tab[t] EXCEPT !.needKey = FALSE] IN
       IF NeedsLoad(t) THEN LoadConfig(t, state)
       ELSE tab' = [tab EXCEPT ![t] = state] /\ UNCHANGED call
    /\ UNCHANGED <<disk, bounds, history>>

Reload(t) == /\ \/ tab[t].loadError
                \/ ~tab[t].loadError /\ tab[t].status = "conflict"
             /\ LoadConfig(t, tab[t])
             /\ given' = given \cup tab[t].draft
             /\ UNCHANGED <<disk, key, bounds, made, saved, late>>

-----------------------------------------------------------------------------
(* The user.  The section of the resolvers is not there after a load has   *)
(* failed, and its list not while one runs; Validate needs a loaded        *)
(* configuration, Save a dirty one without a conflict.                     *)

ReplacesDraft(t) == \/ \E s \in LoadSlot : call[t][s].pc # "none"
                    \/ call[t]["act"].pc # "none" /\ call[t]["act"].kind # "validate"

Edit(t) == /\ tab[t].loaded /\ ~tab[t].loading /\ ~tab[t].loadError
           /\ \E e \in Edits :
                /\ e = Cardinality(made) + 1
                /\ made' = made \cup {e}
                /\ late' = IF ReplacesDraft(t) THEN late \cup {e} ELSE late
                /\ tab' = [tab EXCEPT ![t].draft = @ \cup {e}, ![t].dirty = TRUE,
                                      ![t].justSaved = FALSE,
                                      ![t].status = IF @ = "ok" THEN "" ELSE @]
           /\ UNCHANGED <<disk, call, key, bounds, saved, given>>

Act(t, request) == /\ ~tab[t].busy /\ ~tab[t].loadError
                   /\ call' = [call EXCEPT ![t]["act"] = request]
                   /\ tab' = [tab EXCEPT ![t].busy = TRUE, ![t].status = ""]
                   /\ UNCHANGED <<disk, key, bounds, history>>

Validate(t) == tab[t].loaded /\ Act(t, Sent("validate"))

Save(t) == /\ tab[t].dirty /\ tab[t].status # "conflict"
           /\ Act(t, [Sent("post") EXCEPT !.version = tab[t].version, !.base = tab[t].base,
                                          !.draft = tab[t].draft])

-----------------------------------------------------------------------------
(* The server.  A request with a wrong key (401), and a write of a foreign *)
(* page (403), is refused before it is looked at; a save is refused for a  *)
(* version that is not the file's or for resolvers that are not valid, and *)
(* when the swap fails after the file has been written.                    *)

Answered(t, s, answer, version) ==
    call' = [call EXCEPT ![t][s].pc = "back", ![t][s].answer = answer, ![t][s].version = version]

Trusted(t, s) == \/ key[t] = "right"
                 \/ key[t] = "foreign" /\ call[t][s].kind \in {"load", "refetch"}

Refuse(t, s) == /\ call[t][s].pc = "sent" /\ ~Trusted(t, s)
                /\ Answered(t, s, "auth", 0)
                /\ UNCHANGED <<disk, tab, key, bounds, history>>

ServeGet(t, s) == /\ call[t][s].pc = "sent" /\ call[t][s].kind \in {"load", "refetch"}
                  /\ Trusted(t, s)
                  /\ Answered(t, s, "ok", disk)
                  /\ UNCHANGED <<disk, tab, key, bounds, history>>

ServeValidate(t) == /\ call[t]["act"].pc = "sent" /\ call[t]["act"].kind = "validate"
                    /\ Trusted(t, "act")
                    /\ \E answer \in {"ok", "refused"} : Answered(t, "act", answer, 0)
                    /\ UNCHANGED <<disk, tab, key, bounds, history>>

ServePost(t) ==
    LET c == call[t]["act"] IN
    /\ c.pc = "sent" /\ c.kind = "post" /\ Trusted(t, "act")
    /\ \/ /\ c.version # disk
          /\ Answered(t, "act", "conflict", disk)
          /\ UNCHANGED <<disk, saved>>
       \/ /\ c.version = disk
          /\ Answered(t, "act", "refused", 0)
          /\ UNCHANGED <<disk, saved>>
       \/ /\ c.version = disk
          /\ disk' = disk + 1
          /\ saved' = saved \cup c.draft
          /\ \/ Answered(t, "act", "ok", disk')
             \/ Answered(t, "act", "refused", 0)
    /\ UNCHANGED <<tab, key, bounds, made, given, late>>

\* The server fails, or the request or the response is lost.
Fault(t, s) == /\ faults < MaxFaults /\ faults' = faults + 1
               /\ call[t][s].pc # "none" /\ call[t][s].answer \notin {"http", "error"}
               /\ \/ call[t][s].pc = "sent" /\ Answered(t, s, "http", 0)
                  \/ Answered(t, s, "error", 0)
               /\ UNCHANGED <<disk, tab, key, writes, keys, history>>

OtherWrite == /\ writes < MaxWrites /\ writes' = writes + 1
              /\ disk' = disk + 1
              /\ UNCHANGED <<tab, call, key, faults, keys, history>>

\* The server gets another key, or none any more.
KeyChanges == /\ keys < MaxKeys /\ keys' = keys + 1
              /\ key' \in {[t \in Tab |-> "wrong"]} \cup [Tab -> {"right", "foreign"}]
              /\ UNCHANGED <<disk, tab, call, writes, faults, history>>

-----------------------------------------------------------------------------
(* The answers arrive.  applyLoaded puts version and draft in together.    *)

Applied(state, version) ==
    [state EXCEPT !.version = version, !.base = version, !.draft = {}, !.dirty = FALSE,
                  !.justSaved = FALSE, !.conflicted = FALSE]

LoadDone(t, s) ==
    /\ s \in LoadSlot /\ call[t][s].pc = "back"
    /\ tab' = [tab EXCEPT ![t] =
          CASE call[t][s].answer = "ok" ->
                 [Applied(@, call[t][s].version) EXCEPT !.loaded = TRUE, !.loading = FALSE]
            [] call[t][s].answer = "auth" -> [@ EXCEPT !.needKey = TRUE, !.loading = FALSE]
            [] OTHER -> [@ EXCEPT !.loadError = TRUE, !.loading = FALSE]]
    /\ call' = [call EXCEPT ![t][s] = NoCall]
    /\ UNCHANGED <<disk, key, bounds, history>>

VersionAdopted(t, version) == version
VersionAfterConflict(t, version) == tab[t].version

DirtyReset(t) == FALSE
DirtyUnread(t) == tab[t].dirty

Ended(t, kind) == call[t]["act"].pc = "back" /\ call[t]["act"].kind = kind
Done(t, state) == /\ tab' = [tab EXCEPT ![t] = [state EXCEPT !.busy = FALSE]]
                  /\ call' = [call EXCEPT ![t]["act"] = NoCall]
                  /\ UNCHANGED <<disk, key, bounds, history>>

\* What the handlers share: a wrong key asks for another and says no more, any
\* other failure is an error.
Unhappy(t) == IF call[t]["act"].answer = "auth" THEN [tab[t] EXCEPT !.needKey = TRUE]
              ELSE [tab[t] EXCEPT !.status = "error"]

ValidateDone(t) ==
    /\ Ended(t, "validate")
    /\ Done(t, IF call[t]["act"].answer = "ok" THEN [tab[t] EXCEPT !.status = "ok"] ELSE Unhappy(t))

\* After a save the configuration is fetched again.
Saved(t) == /\ Ended(t, "post") /\ call[t]["act"].answer = "ok"
            /\ call' = [call EXCEPT ![t]["act"] = Sent("refetch")]
            /\ UNCHANGED <<disk, tab, key, bounds, history>>

Conflict(t) ==
    /\ Ended(t, "post") /\ call[t]["act"].answer = "conflict"
    /\ Done(t, [tab[t] EXCEPT !.status = "conflict", !.conflicted = TRUE,
                              !.version = VersionAfterConflict(t, call[t]["act"].version)])

NotSaved(t) == /\ Ended(t, "post") /\ call[t]["act"].answer \notin {"ok", "conflict"}
               /\ Done(t, Unhappy(t))

\* A refetch that the server cannot answer leaves draft and version as they are.
Refetched(t) ==
    /\ Ended(t, "refetch")
    /\ LET c == call[t]["act"]
           state == IF c.answer = "ok" THEN Applied(tab[t], c.version)
                    ELSE [tab[t] EXCEPT !.dirty = DirtyUnread(t)]
       IN Done(t, IF c.answer \in {"ok", "http"}
                  THEN [state EXCEPT !.justSaved = TRUE, !.status = "ok"]
                  ELSE Unhappy(t))

-----------------------------------------------------------------------------
User(t) == SubmitKey(t) \/ Reload(t) \/ Edit(t) \/ Validate(t) \/ Save(t)
Server(t) == ServeValidate(t) \/ ServePost(t) \/ \E s \in Slot : Refuse(t, s) \/ ServeGet(t, s)
Arrival(t) == \/ ValidateDone(t) \/ Saved(t) \/ Conflict(t) \/ NotSaved(t) \/ Refetched(t)
              \/ \E s \in LoadSlot : LoadDone(t, s)

Next == \/ \E t \in Tab : User(t) \/ Server(t) \/ Arrival(t) \/ \E s \in Slot : Fault(t, s)
        \/ OtherWrite \/ KeyChanges

Spec == Init /\ [][Next]_vars

\* Requests are answered and answers arrive; a user need not do anything.
FairSpec == Spec /\ \A t \in Tab : WF_vars(Server(t)) /\ WF_vars(Arrival(t))

-----------------------------------------------------------------------------
TypeOK ==
    /\ disk \in Nat
    /\ tab \in [Tab -> [loading : BOOLEAN, loadError : BOOLEAN, loaded : BOOLEAN,
                        version : Nat, base : Nat, draft : SUBSET Edits, dirty : BOOLEAN,
                        busy : BOOLEAN, justSaved : BOOLEAN, status : Status,
                        needKey : BOOLEAN, conflicted : BOOLEAN]]
    /\ call \in [Tab -> [Slot -> [pc : {"none", "sent", "back"},
                                  kind : {"load", "refetch", "validate", "post"},
                                  version : Nat, base : Nat, draft : SUBSET Edits,
                                  answer : Answer]]]
    /\ \A t \in Tab : tab[t].busy <=> call[t]["act"].pc # "none"
    /\ key \in [Tab -> Key]
    /\ writes \in 0..MaxWrites /\ faults \in 0..MaxFaults /\ keys \in 0..MaxKeys
    /\ made \subseteq Edits /\ saved \subseteq made
    /\ given \subseteq made /\ late \subseteq made

(* A save that is accepted replaces the version its draft was loaded from: *)
(* whatever conflicts, reloads and overlapping loads came before, nobody's *)
(* change is overwritten unseen (Config.tsx:265-267).                      *)
NoBlindOverwrite ==
    [][\A t \in Tab : disk' # disk /\ call[t]["act"] # call'[t]["act"]
                      => call[t]["act"].base = disk]_vars

(* An edit made while nothing that replaces the draft is under way is in   *)
(* the file, in a draft, or has been given up by a reload: a wrong key, a  *)
(* conflict or a failed request never takes it away (Panel.tsx:34).        *)
NoSilentLoss == made \ late \subseteq saved \cup given \cup UNION {tab[t].draft : t \in Tab}

(* The page may be left without a question only when the draft has nothing *)
(* that the file has not had (Panel.tsx:18).                               *)
CleanMeansSaved == \A t \in Tab : ~tab[t].dirty => tab[t].draft \subseteq saved

(* The badge says saved of edits that have been, except those made while   *)
(* the save was under way.                                                 *)
SavedBadgeIsTrue == \A t \in Tab : tab[t].justSaved => tab[t].draft \subseteq saved \cup late

(* The buttons come back after every request, also one with a wrong key.   *)
BusyEnds == \A t \in Tab : tab[t].busy ~> ~tab[t].busy

-----------------------------------------------------------------------------
(* What a comment or the page says and the code does not do.               *)

(* After a conflict nothing is saved before the configuration has been     *)
(* loaded again (Config.tsx:151).                                          *)
ConflictLocksSave ==
    [][\A t \in Tab : call[t]["act"].pc = "none" /\ call'[t]["act"].kind = "post"
                      => ~tab[t].conflicted]_vars

(* A conflict means that somebody else has changed the file                *)
(* (Config.tsx:471).                                                       *)
ConflictMeansElsewhere == Cardinality(Tab) = 1 /\ writes = 0 => \A t \in Tab : ~tab[t].conflicted

(* No edit is lost unless the user gives it up.                            *)
NoEditLost == made \subseteq saved \cup given \cup UNION {tab[t].draft : t \in Tab}
=============================================================================
