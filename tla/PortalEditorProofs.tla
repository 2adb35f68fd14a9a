-------------------------- MODULE PortalEditorProofs --------------------------
(***************************************************************************)
(* The configuration editor with any number of tabs, edits, changes by     *)
(* others, faults and changes of the key: no save replaces a version its   *)
(* draft does not come from, no edit is lost in silence unless it was made *)
(* while an answer that replaces the draft was under way, and neither the  *)
(* question on leaving nor the badge lies about what the file has had.     *)
(***************************************************************************)
EXTENDS PortalEditor, TLAPS

\* The editor has a version only together with the draft that was made of it,
\* and a save is sent with both.
VersionIsBase == \A t \in Tab :
    /\ tab[t].version = tab[t].base
    /\ call[t]["act"].pc = "sent" /\ call[t]["act"].kind = "post"
          => call[t]["act"].version = call[t]["act"].base

\* Edits are made in drafts, in those of loaded configurations.
DraftsAreMade == \A t \in Tab :
    /\ tab[t].draft \subseteq made
    /\ \A s \in Slot : call[t][s].draft \subseteq made
    /\ ~tab[t].loaded => tab[t].draft = {}

\* A load takes away what was given up when it was asked for, or came later.
LoadsGivenUp == \A t \in Tab, s \in LoadSlot :
    call[t][s].pc # "none" => tab[t].draft \subseteq given \cup late

\* A save takes away what it has brought to the file, or came later.
SavesCover == \A t \in Tab : call[t]["act"].pc # "none" =>
    /\ call[t]["act"].kind = "post" =>
         /\ tab[t].draft \subseteq call[t]["act"].draft \cup late
         /\ call[t]["act"].answer = "ok" => call[t]["act"].draft \subseteq saved
    /\ call[t]["act"].kind = "refetch" => tab[t].draft \subseteq saved \cup late

IndInv == /\ TypeOK /\ VersionIsBase /\ DraftsAreMade /\ LoadsGivenUp /\ SavesCover
          /\ NoSilentLoss /\ CleanMeansSaved /\ SavedBadgeIsTrue

TabState == [loading : BOOLEAN, loadError : BOOLEAN, loaded : BOOLEAN,
             version : Nat, base : Nat, draft : SUBSET Edits, dirty : BOOLEAN,
             busy : BOOLEAN, justSaved : BOOLEAN, status : Status,
             needKey : BOOLEAN, conflicted : BOOLEAN]
Call == [pc : {"none", "sent", "back"}, kind : {"load", "refetch", "validate", "post"},
         version : Nat, base : Nat, draft : SUBSET Edits, answer : Answer]

-----------------------------------------------------------------------------
(* Facts about calls.                                                      *)

\* The types of the two records.
LEMMA Types == TypeOK => /\ tab \in [Tab -> TabState]
                         /\ call \in [Tab -> [Slot -> Call]]
                         /\ disk \in Nat
  BY DEF TypeOK, TabState, Call

\* A request without a draft.
LEMMA SentFacts ==
    ASSUME NEW kind \in {"load", "refetch", "validate", "post"}
    PROVE  /\ NoCall \in Call /\ NoCall.pc = "none" /\ NoCall.draft = {}
           /\ Sent(kind) \in Call /\ Sent(kind).pc = "sent" /\ Sent(kind).kind = kind
           /\ Sent(kind).draft = {} /\ Sent(kind).answer = "none"
  BY DEF NoCall, Sent, Call, Answer

\* The slots.
LEMMA SlotFacts == "act" \in Slot /\ "act" \notin LoadSlot /\ LoadSlot \subseteq Slot
  BY DEF Slot, LoadSlot

\* The call of one slot changes.
LEMMA CallEffect ==
    ASSUME TypeOK, NEW t \in Tab, NEW s \in Slot, NEW c \in Call,
           call' = [call EXCEPT ![t][s] = c]
    PROVE  /\ call' \in [Tab -> [Slot -> Call]]
           /\ call'[t][s] = c
           /\ \A r \in Slot : r # s => call'[t][r] = call[t][r]
           /\ \A u \in Tab : u # t => call'[u] = call[u]
  BY Types

\* An answer changes nothing else of the call.
LEMMA AnswerEffect ==
    ASSUME TypeOK, NEW t \in Tab, NEW s \in Slot, NEW answer \in Answer, NEW version \in Nat,
           Answered(t, s, answer, version)
    PROVE  /\ call' \in [Tab -> [Slot -> Call]]
           /\ call'[t][s].pc = "back" /\ call'[t][s].answer = answer
           /\ call'[t][s].kind = call[t][s].kind /\ call'[t][s].draft = call[t][s].draft
           /\ \A r \in Slot : r # s => call'[t][r] = call[t][r]
           /\ \A u \in Tab : u # t => call'[u] = call[u]
  <1> DEFINE c == [call[t][s] EXCEPT !.pc = "back", !.answer = answer, !.version = version]
  <1>1. call[t] \in [Slot -> Call] /\ call[t][s] \in Call
    BY Types
  <1>2. /\ c \in Call /\ c.pc = "back" /\ c.answer = answer
        /\ c.kind = call[t][s].kind /\ c.draft = call[t][s].draft
    BY <1>1 DEF Call
  <1>3. call' = [call EXCEPT ![t][s] = c]
    BY <1>1, Types DEF Answered, Call
  <1> HIDE DEF c
  <1> QED
    BY <1>2, <1>3, CallEffect, ZenonT(30)

\* The state of one tab changes.
LEMMA TabEffect ==
    ASSUME TypeOK, NEW t \in Tab, NEW state \in TabState, tab' = [tab EXCEPT ![t] = state]
    PROVE  /\ tab' \in [Tab -> TabState] /\ tab'[t] = state
           /\ \A u \in Tab : u # t => tab'[u] = tab[u]
  BY Types

-----------------------------------------------------------------------------
(* The kinds of steps.                                                     *)

\* A server that answers, or fails to, changes neither drafts nor the file; no
\* save is said to have succeeded.
LEMMA AnswerInv ==
    ASSUME IndInv, NEW t \in Tab, NEW s \in Slot, NEW answer \in Answer, NEW version \in Nat,
           call[t][s].pc # "none", answer = "ok" => call[t][s].kind # "post",
           Answered(t, s, answer, version),
           UNCHANGED <<disk, tab, writes, keys, history>>,
           key' \in [Tab -> Key], faults' \in 0..MaxFaults
    PROVE  IndInv'
  <1> USE SlotFacts DEF IndInv, history
  <1>1. /\ call' \in [Tab -> [Slot -> Call]]
        /\ call'[t][s].pc = "back" /\ call'[t][s].answer = answer
        /\ call'[t][s].kind = call[t][s].kind /\ call'[t][s].draft = call[t][s].draft
        /\ \A r \in Slot : r # s => call'[t][r] = call[t][r]
        /\ \A u \in Tab : u # t => call'[u] = call[u]
    BY AnswerEffect
  <1>2. \A u \in Tab : call'[u]["act"].pc # "none" <=> call[u]["act"].pc # "none"
    <2>1. CASE s = "act"
      BY <1>1, <2>1
    <2>2. CASE s # "act"
      BY <1>1, <2>2
    <2> QED
      BY <2>1, <2>2
  <1>3. TypeOK'
    BY <1>1, <1>2 DEF TypeOK, Call
  <1>4. VersionIsBase'
    <2>1. CASE s = "act"
      BY <1>1, <2>1 DEF VersionIsBase
    <2>2. CASE s # "act"
      BY <1>1, <2>2 DEF VersionIsBase
    <2> QED
      BY <2>1, <2>2
  <1>5. DraftsAreMade'
    <2>1. \A u \in Tab, r \in Slot : call'[u][r].draft = call[u][r].draft
      BY <1>1
    <2> QED
      BY <2>1 DEF DraftsAreMade
  <1>6. LoadsGivenUp'
    BY <1>1 DEF LoadsGivenUp
  <1>7. SavesCover'
    BY <1>1 DEF SavesCover
  <1>8. NoSilentLoss' /\ CleanMeansSaved' /\ SavedBadgeIsTrue'
    BY DEF NoSilentLoss, CleanMeansSaved, SavedBadgeIsTrue
  <1> QED
    BY <1>3, <1>4, <1>5, <1>6, <1>7, <1>8

\* The end of a save or a validation: what leaves the draft is saved or late.
LEMMA DoneInv ==
    ASSUME IndInv, NEW t \in Tab, NEW state \in TabState, Done(t, state),
           state.version = state.base, state.loaded = tab[t].loaded,
           state.draft \subseteq tab[t].draft,
           tab[t].draft \subseteq state.draft \cup saved \cup late,
           ~state.dirty => state.draft \subseteq saved,
           state.justSaved => state.draft \subseteq saved \cup late
    PROVE  IndInv'
  <1> USE SlotFacts DEF IndInv, history, bounds
  <1> DEFINE after == [state EXCEPT !.busy = FALSE]
  <1>1. /\ after \in TabState /\ ~after.busy
        /\ after.version = state.version /\ after.base = state.base
        /\ after.loaded = state.loaded /\ after.draft = state.draft
        /\ after.dirty = state.dirty /\ after.justSaved = state.justSaved
    BY DEF TabState
  <1>2. tab' = [tab EXCEPT ![t] = after] /\ call' = [call EXCEPT ![t]["act"] = NoCall]
        /\ UNCHANGED <<disk, key, bounds, history>>
    BY DEF Done
  <1> HIDE DEF after
  <1>3. /\ tab' \in [Tab -> TabState] /\ tab'[t] = after
        /\ \A u \in Tab : u # t => tab'[u] = tab[u]
    BY <1>1, <1>2, TabEffect
  <1>4. /\ call' \in [Tab -> [Slot -> Call]]
        /\ call'[t]["act"].pc = "none" /\ call'[t]["act"].draft = {}
        /\ \A r \in Slot : r # "act" => call'[t][r] = call[t][r]
        /\ \A u \in Tab : u # t => call'[u] = call[u]
    <2>1. NoCall \in Call /\ NoCall.pc = "none" /\ NoCall.draft = {} /\ "act" \in Slot
      BY SentFacts
    <2>2. call' = [call EXCEPT ![t]["act"] = NoCall] 
          /\ call \in [Tab -> [Slot -> Call]]
      BY <1>2, Types
    <2> HIDE DEF IndInv
    <2>3. /\ call' \in [Tab -> [Slot -> Call]] /\ call'[t]["act"] = NoCall
          /\ \A r \in Slot : r # "act" => call'[t][r] = call[t][r]
          /\ \A u \in Tab : u # t => call'[u] = call[u]
      BY <2>1, <2>2
    <2> QED
      BY <2>1, <2>3
  <1> USE <1>1, <1>2, <1>3, <1>4
  <1>5. TypeOK'
    BY DEF TypeOK, TabState, Call
  <1>6. VersionIsBase' /\ DraftsAreMade'
    BY DEF VersionIsBase, DraftsAreMade
  <1>7. LoadsGivenUp'
    BY DEF LoadsGivenUp
  <1>8. SavesCover'
    BY DEF SavesCover
  <1>9. NoSilentLoss'
    BY DEF NoSilentLoss
  <1>10. CleanMeansSaved' /\ SavedBadgeIsTrue'
    BY DEF CleanMeansSaved, SavedBadgeIsTrue
  <1> QED
    BY <1>5, <1>6, <1>7, <1>8, <1>9, <1>10

\* A load begins when its draft has been given up.
LEMMA LoadConfigInv ==
    ASSUME IndInv, NEW t \in Tab, NEW state \in TabState, LoadConfig(t, state),
           state.version = tab[t].version, state.base = tab[t].base,
           state.draft = tab[t].draft, state.loaded = tab[t].loaded,
           state.dirty = tab[t].dirty, state.justSaved = tab[t].justSaved,
           state.busy = tab[t].busy,
           key' \in [Tab -> Key], UNCHANGED <<disk, bounds, made, saved, late>>,
           given \subseteq given', given' \subseteq made,
           tab[t].draft \subseteq given' \cup late
    PROVE  IndInv'
  <1> USE SlotFacts DEF IndInv, bounds
  <1> DEFINE after == [state EXCEPT !.loading = TRUE, !.loadError = FALSE, !.status = ""]
  <1>1. /\ after \in TabState /\ after.busy = tab[t].busy
        /\ after.version = tab[t].version /\ after.base = tab[t].base
        /\ after.loaded = tab[t].loaded /\ after.draft = tab[t].draft
        /\ after.dirty = tab[t].dirty /\ after.justSaved = tab[t].justSaved
    BY DEF TabState, Status
  <1>2. PICK s \in LoadSlot : /\ call' = [call EXCEPT ![t][s] = Sent("load")]
                              /\ tab' = [tab EXCEPT ![t] = after]
    BY DEF LoadConfig
  <1> HIDE DEF after
  <1>3. /\ tab' \in [Tab -> TabState] /\ tab'[t] = after
        /\ \A u \in Tab : u # t => tab'[u] = tab[u]
    BY <1>1, <1>2, TabEffect
  <1>4. /\ call' \in [Tab -> [Slot -> Call]]
        /\ call'[t][s].pc = "sent" /\ call'[t][s].draft = {}
        /\ \A r \in Slot : r # s => call'[t][r] = call[t][r]
        /\ \A u \in Tab : u # t => call'[u] = call[u]
    <2>1. /\ s \in Slot /\ Sent("load") \in Call
          /\ Sent("load").pc = "sent" /\ Sent("load").draft = {}
      BY SentFacts
    <2>2. call' = [call EXCEPT ![t][s] = Sent("load")] 
          /\ call \in [Tab -> [Slot -> Call]]
      BY <1>2, Types
    <2> HIDE DEF IndInv
    <2>3. /\ call' \in [Tab -> [Slot -> Call]] /\ call'[t][s] = Sent("load")
          /\ \A r \in Slot : r # s => call'[t][r] = call[t][r]
          /\ \A u \in Tab : u # t => call'[u] = call[u]
      BY <2>1, <2>2
    <2> QED
      BY <2>1, <2>3
  <1> USE <1>1, <1>3, <1>4
  <1>5. \A u \in Tab : call'[u]["act"] = call[u]["act"]
    OBVIOUS
  <1>6. TypeOK'
    <2>1. \A u \in Tab : tab[u].busy <=> call[u]["act"].pc # "none"
      BY DEF TypeOK
    <2>2. \A u \in Tab : tab'[u].busy = tab[u].busy
      OBVIOUS
    <2> QED
      BY <1>5, <2>1, <2>2 DEF TypeOK, TabState, Call
  <1>7. VersionIsBase' /\ DraftsAreMade'
    <2>1. \A u \in Tab : /\ tab'[u].version = tab[u].version /\ tab'[u].base = tab[u].base
                         /\ tab'[u].draft = tab[u].draft /\ tab'[u].loaded = tab[u].loaded
      OBVIOUS
    <2>2. \A u \in Tab, r \in Slot : call'[u][r].draft = {} \/ call'[u][r] = call[u][r]
      OBVIOUS
    <2>3. VersionIsBase'
      BY <1>5, <2>1 DEF VersionIsBase
    <2>4. DraftsAreMade'
      <3>1. ASSUME NEW u \in Tab
            PROVE  /\ tab'[u].draft \subseteq made /\ (~tab'[u].loaded => tab'[u].draft = {})
                   /\ \A r \in Slot : call'[u][r].draft \subseteq made
        <4>1. tab'[u].draft \subseteq made /\ (~tab'[u].loaded => tab'[u].draft = {})
          BY <2>1 DEF DraftsAreMade
        <4>2. \A r \in Slot : call[u][r].draft \subseteq made
          BY DEF DraftsAreMade
        <4>3. ASSUME NEW r \in Slot
              PROVE  call'[u][r].draft \subseteq made
          BY <2>2, <4>2
        <4> QED
          BY <4>1, <4>3
      <3> QED
        BY <3>1 DEF DraftsAreMade
    <2> QED
      BY <2>3, <2>4
  <1>8. LoadsGivenUp'
    BY DEF LoadsGivenUp
  <1>9. SavesCover'
    BY DEF SavesCover
  <1>10. NoSilentLoss'
    BY DEF NoSilentLoss
  <1>11. CleanMeansSaved' /\ SavedBadgeIsTrue'
    <2>1. \A u \in Tab : /\ tab'[u].dirty = tab[u].dirty /\ tab'[u].draft = tab[u].draft
                         /\ tab'[u].justSaved = tab[u].justSaved
      OBVIOUS
    <2> QED
      BY <2>1 DEF CleanMeansSaved, SavedBadgeIsTrue
  <1> QED
    BY <1>6, <1>7, <1>8, <1>9, <1>10, <1>11

\* A request is sent: a save with the version and the draft of the tab.
LEMMA ActInv ==
    ASSUME IndInv, NEW t \in Tab, NEW request \in Call, Act(t, request),
           request.pc = "sent", request.kind \in {"validate", "post"},
           request.answer = "none",
           request.kind = "post" => request.version = request.base,
           request.draft \subseteq made,
           request.kind = "post" => request.draft = tab[t].draft
    PROVE  IndInv'
  <1> USE SlotFacts DEF IndInv, history, bounds
  <1> DEFINE after == [tab[t] EXCEPT !.busy = TRUE, !.status = ""]
  <1>1. /\ after \in TabState /\ after.busy
        /\ after.version = tab[t].version /\ after.base = tab[t].base
        /\ after.loaded = tab[t].loaded /\ after.draft = tab[t].draft
        /\ after.dirty = tab[t].dirty /\ after.justSaved = tab[t].justSaved
    BY Types, ZenonT(30) DEF TabState, Status
  <1>2. /\ call' = [call EXCEPT ![t]["act"] = request]
        /\ tab' = [tab EXCEPT ![t] = after]
        /\ UNCHANGED <<disk, key, bounds, history>>
    BY Types DEF Act, TabState
  <1> HIDE DEF after
  <1>3. /\ tab' \in [Tab -> TabState] /\ tab'[t] = after
        /\ \A u \in Tab : u # t => tab'[u] = tab[u]
    BY <1>1, <1>2, TabEffect
  <1>4. /\ call' \in [Tab -> [Slot -> Call]] /\ call'[t]["act"] = request
        /\ \A r \in Slot : r # "act" => call'[t][r] = call[t][r]
        /\ \A u \in Tab : u # t => call'[u] = call[u]
    BY <1>2, CallEffect, ZenonT(30)
  <1> USE <1>1, <1>2, <1>3, <1>4
  <1>5. TypeOK'
    BY DEF TypeOK, TabState, Call
  <1>6. VersionIsBase' /\ DraftsAreMade'
    BY DEF VersionIsBase, DraftsAreMade
  <1>7. LoadsGivenUp'
    BY DEF LoadsGivenUp
  <1>8. SavesCover'
    BY DEF SavesCover
  <1>9. NoSilentLoss'
    BY DEF NoSilentLoss
  <1>10. CleanMeansSaved' /\ SavedBadgeIsTrue'
    BY DEF CleanMeansSaved, SavedBadgeIsTrue
  <1> QED
    BY <1>5, <1>6, <1>7, <1>8, <1>9, <1>10

-----------------------------------------------------------------------------
(* The steps.                                                              *)

\* The requests of the user.
LEMMA RequestsInv ==
    ASSUME IndInv, NEW t \in Tab, SubmitKey(t) \/ Reload(t) \/ Validate(t) \/ Save(t)
    PROVE  IndInv'
  <1> USE Types DEF IndInv
  <1>1. CASE SubmitKey(t)
    <2> DEFINE state == [tab[t] EXCEPT !.needKey = FALSE]
    <2>1. /\ state \in TabState /\ state.busy = tab[t].busy
          /\ state.version = tab[t].version /\ state.base = tab[t].base
          /\ state.loaded = tab[t].loaded /\ state.draft = tab[t].draft
          /\ state.dirty = tab[t].dirty /\ state.justSaved = tab[t].justSaved
      BY DEF TabState
    <2>2. key' \in [Tab -> Key] /\ UNCHANGED <<disk, bounds, history>>
      BY <1>1 DEF SubmitKey, TypeOK
    <2>3. CASE NeedsLoad(t)
      <3>1. tab[t].draft = {}
        BY <2>3 DEF NeedsLoad, DraftsAreMade
      <3>2. LoadConfig(t, state)
        BY <1>1, <2>3 DEF SubmitKey
      <3>3. given \subseteq made
        BY DEF TypeOK
      <3> HIDE DEF state
      <3> QED
        BY <2>1, <2>2, <3>1, <3>2, <3>3, LoadConfigInv DEF history
    <2>4. CASE ~NeedsLoad(t)
      <3>1. tab' = [tab EXCEPT ![t] = state] /\ UNCHANGED call
        BY <1>1, <2>4 DEF SubmitKey
      <3> HIDE DEF state
      <3>2. /\ tab' \in [Tab -> TabState] /\ tab'[t] = state
            /\ \A u \in Tab : u # t => tab'[u] = tab[u]
        BY <2>1, <3>1, TabEffect
      <3> USE <2>1, <2>2, <3>1, <3>2 DEF history, bounds
      <3>3. TypeOK'
        BY DEF TypeOK, TabState
      <3>4. VersionIsBase' /\ DraftsAreMade' /\ LoadsGivenUp'
        BY DEF VersionIsBase, DraftsAreMade, LoadsGivenUp
      <3>5. SavesCover'
        BY DEF SavesCover
      <3>6. NoSilentLoss'
        BY DEF NoSilentLoss
      <3>7. CleanMeansSaved' /\ SavedBadgeIsTrue'
        BY DEF CleanMeansSaved, SavedBadgeIsTrue
      <3> QED
        BY <3>3, <3>4, <3>5, <3>6, <3>7
    <2> QED
      BY <2>3, <2>4
  <1>2. CASE Reload(t)
    <2>1. tab[t] \in TabState /\ key \in [Tab -> Key]
      BY DEF TypeOK
    <2>2. tab[t].draft \subseteq made /\ given \subseteq made
      BY DEF DraftsAreMade, TypeOK
    <2>3. /\ LoadConfig(t, tab[t]) /\ given' = given \cup tab[t].draft
          /\ UNCHANGED <<disk, key, bounds, made, saved, late>>
      BY <1>2 DEF Reload
    <2> QED
      BY <2>1, <2>2, <2>3, LoadConfigInv
  <1>3. CASE Validate(t)
    <2>1. Act(t, Sent("validate"))
      BY <1>3 DEF Validate
    <2> QED
      BY <2>1, SentFacts, ActInv
  <1>4. CASE Save(t)
    <2> DEFINE request == [Sent("post") EXCEPT !.version = tab[t].version, !.base = tab[t].base,
                                               !.draft = tab[t].draft]
    <2>1. Act(t, request)
      BY <1>4 DEF Save
    <2>2. /\ request \in Call /\ request.pc = "sent" /\ request.kind = "post"
          /\ request.answer = "none" /\ request.draft = tab[t].draft
          /\ request.version = tab[t].version /\ request.base = tab[t].base
      BY SentFacts DEF Call, TabState
    <2>3. tab[t].version = tab[t].base /\ tab[t].draft \subseteq made
      BY DEF VersionIsBase, DraftsAreMade
    <2> HIDE DEF request
    <2> QED
      BY <2>1, <2>2, <2>3, ActInv
  <1> QED
    BY <1>1, <1>2, <1>3, <1>4

\* Edit: an edit goes into the draft, and is late if something is on its way
\* that replaces the draft.
LEMMA EditInv ==
    ASSUME IndInv, NEW t \in Tab, Edit(t)
    PROVE  IndInv'
  <1> USE Types, SlotFacts DEF IndInv
  <1>1. PICK e \in Edits :
          /\ made' = made \cup {e}
          /\ late' = IF ReplacesDraft(t) THEN late \cup {e} ELSE late
          /\ tab' = [tab EXCEPT ![t].draft = @ \cup {e}, ![t].dirty = TRUE,
                                ![t].justSaved = FALSE,
                                ![t].status = IF @ = "ok" THEN "" ELSE @]
    BY DEF Edit
  <1>2. UNCHANGED <<disk, call, key, bounds, saved, given>> /\ tab[t].loaded
    BY DEF Edit
  <1>3. late \subseteq late' /\ late' \subseteq late \cup {e}
        /\ (ReplacesDraft(t) => e \in late')
    BY <1>1
  <1> DEFINE after == [tab[t] EXCEPT !.draft = tab[t].draft \cup {e}, !.dirty = TRUE,
                                     !.justSaved = FALSE,
                                     !.status = IF tab[t].status = "ok" THEN ""
                                                ELSE tab[t].status]
  <1>4. /\ after \in TabState /\ after.busy = tab[t].busy
        /\ after.version = tab[t].version /\ after.base = tab[t].base
        /\ after.loaded = tab[t].loaded /\ after.draft = tab[t].draft \cup {e}
        /\ after.dirty /\ ~after.justSaved
    BY ZenonT(30) DEF TabState, Status
  <1>5. tab' = [tab EXCEPT ![t] = after]
    BY <1>1 DEF TabState
  <1> HIDE DEF after
  <1>6. /\ tab' \in [Tab -> TabState] /\ tab'[t] = after
        /\ \A u \in Tab : u # t => tab'[u] = tab[u]
    BY <1>4, <1>5, TabEffect
  <1> USE <1>2, <1>4, <1>6 DEF bounds
  <1>7. TypeOK'
    BY <1>1, <1>3, ZenonT(30) DEF TypeOK, TabState
  <1>8. VersionIsBase' /\ DraftsAreMade'
    BY <1>1, ZenonT(30) DEF VersionIsBase, DraftsAreMade
  <1>9. LoadsGivenUp'
    BY <1>3 DEF LoadsGivenUp, ReplacesDraft
  <1>10. SavesCover'
    BY <1>3 DEF SavesCover, ReplacesDraft
  <1>11. NoSilentLoss'
    <2>1. made' \ late' \subseteq (made \ late) \cup {e}
      BY <1>1, <1>3
    <2>2. UNION {tab[u].draft : u \in Tab} \subseteq UNION {tab'[u].draft : u \in Tab}
      OBVIOUS
    <2>3. e \in UNION {tab'[u].draft : u \in Tab}
      OBVIOUS
    <2> QED
      BY <2>1, <2>2, <2>3 DEF NoSilentLoss
  <1>12. CleanMeansSaved' /\ SavedBadgeIsTrue'
    BY <1>3 DEF CleanMeansSaved, SavedBadgeIsTrue
  <1> QED
    BY <1>7, <1>8, <1>9, <1>10, <1>11, <1>12

\* The server and the network.
LEMMA AnswersInv ==
    ASSUME IndInv, NEW t \in Tab, NEW s \in Slot,
           Refuse(t, s) \/ ServeGet(t, s) \/ ServeValidate(t) \/ Fault(t, s)
    PROVE  IndInv'
  <1> USE SlotFacts DEF IndInv, bounds
  <1>1. /\ key \in [Tab -> Key] /\ faults \in 0..MaxFaults /\ disk \in Nat
        /\ 0 \in Nat /\ {"auth", "ok", "refused", "http", "error"} \subseteq Answer
    BY DEF TypeOK, Answer
  <1>2. CASE Refuse(t, s)
    BY <1>1, <1>2, AnswerInv DEF Refuse
  <1>3. CASE ServeGet(t, s)
    BY <1>1, <1>3, AnswerInv DEF ServeGet
  <1>4. CASE ServeValidate(t)
    BY <1>1, <1>4, AnswerInv DEF ServeValidate
  <1>5. CASE Fault(t, s)
    <2>1. faults' \in 0..MaxFaults
      BY <1>1, <1>5, PortalAssumption DEF Fault
    <2> QED
      BY <1>1, <1>5, <2>1, AnswerInv DEF Fault
  <1> QED
    BY <1>2, <1>3, <1>4, <1>5

\* ServePost: a save that is accepted has brought its draft to the file.
LEMMA ServePostInv ==
    ASSUME IndInv, NEW t \in Tab, ServePost(t)
    PROVE  IndInv'
  <1> USE Types, SlotFacts DEF IndInv
  <1>1. /\ UNCHANGED <<tab, key, bounds, made, given, late>>
        /\ call[t]["act"].pc = "sent" /\ call[t]["act"].kind = "post"
    BY DEF ServePost
  <1>2. PICK answer \in {"conflict", "refused", "ok"}, version \in Nat :
          /\ Answered(t, "act", answer, version)
          /\ answer = "ok" => saved' = saved \cup call[t]["act"].draft
          /\ saved \subseteq saved' /\ saved' \subseteq saved \cup call[t]["act"].draft
          /\ disk' \in Nat
    BY DEF ServePost
  <1>3. answer \in Answer
    BY DEF Answer
  <1>4. /\ call' \in [Tab -> [Slot -> Call]]
        /\ call'[t]["act"].pc = "back" /\ call'[t]["act"].answer = answer
        /\ call'[t]["act"].kind = "post" /\ call'[t]["act"].draft = call[t]["act"].draft
        /\ \A r \in Slot : r # "act" => call'[t][r] = call[t][r]
        /\ \A u \in Tab : u # t => call'[u] = call[u]
    BY <1>1, <1>2, <1>3, AnswerEffect
  <1> USE <1>1, <1>2, <1>4 DEF bounds
  <1>5. TypeOK'
    <2>1. saved' \subseteq made
      BY DEF TypeOK, DraftsAreMade
    <2>2. \A u \in Tab : tab[u].busy <=> call[u]["act"].pc # "none"
      BY DEF TypeOK
    <2>3. \A u \in Tab : call'[u]["act"].pc # "none" <=> call[u]["act"].pc # "none"
      OBVIOUS
    <2> QED
      BY <2>1, <2>2, <2>3 DEF TypeOK, Call
  <1>6. VersionIsBase' /\ DraftsAreMade'
    BY ZenonT(30) DEF VersionIsBase, DraftsAreMade
  <1>7. LoadsGivenUp'
    BY DEF LoadsGivenUp
  <1>8. SavesCover'
    BY DEF SavesCover
  <1>9. NoSilentLoss'
    BY DEF NoSilentLoss
  <1>10. CleanMeansSaved' /\ SavedBadgeIsTrue'
    BY DEF CleanMeansSaved, SavedBadgeIsTrue
  <1> QED
    BY <1>5, <1>6, <1>7, <1>8, <1>9, <1>10

\* Somebody else changes the file, or the key: no tab knows of it.
LEMMA OthersInv ==
    ASSUME IndInv, OtherWrite \/ KeyChanges
    PROVE  IndInv'
  <1> USE DEF IndInv, OtherWrite, KeyChanges, history
  <1>1. TypeOK'
    <2>1. CASE OtherWrite
      <3>1. disk' \in Nat /\ writes' \in 0..MaxWrites
        BY <2>1, PortalAssumption DEF TypeOK
      <3> QED
        BY <2>1, <3>1 DEF TypeOK
    <2>2. CASE KeyChanges
      <3>1. key' \in [Tab -> Key] /\ keys' \in 0..MaxKeys
        BY <2>2, PortalAssumption DEF TypeOK, Key
      <3> QED
        BY <2>2, <3>1 DEF TypeOK
    <2> QED
      BY <2>1, <2>2
  <1>2. VersionIsBase' /\ DraftsAreMade' /\ LoadsGivenUp' /\ SavesCover'
    BY DEF VersionIsBase, DraftsAreMade, LoadsGivenUp, SavesCover
  <1>3. NoSilentLoss' /\ CleanMeansSaved' /\ SavedBadgeIsTrue'
    BY DEF NoSilentLoss, CleanMeansSaved, SavedBadgeIsTrue
  <1> QED
    BY <1>1, <1>2, <1>3

\* What applyLoaded makes of a tab.
LEMMA AppliedFacts ==
    ASSUME NEW state \in TabState, NEW version \in Nat
    PROVE  /\ Applied(state, version) \in TabState
           /\ Applied(state, version).version = version
           /\ Applied(state, version).base = version
           /\ Applied(state, version).draft = {}
           /\ ~Applied(state, version).justSaved
           /\ Applied(state, version).loaded = state.loaded
           /\ Applied(state, version).busy = state.busy
  BY DEF Applied, TabState

\* LoadDone: what a load takes away has been given up, or came later.
LEMMA LoadDoneInv ==
    ASSUME IndInv, NEW t \in Tab, NEW s \in LoadSlot, LoadDone(t, s)
    PROVE  IndInv'
  <1> USE Types, SlotFacts DEF IndInv
  <1>1. /\ call[t][s].pc # "none" /\ call[t][s].version \in Nat
        /\ call' = [call EXCEPT ![t][s] = NoCall]
        /\ UNCHANGED <<disk, key, bounds, history>>
    BY DEF LoadDone, Call
  <1>2. PICK after \in TabState :
          /\ tab' = [tab EXCEPT ![t] = after]
          /\ after.busy = tab[t].busy
          /\ \/ /\ after.version = after.base /\ after.draft = {} /\ ~after.justSaved
                /\ after.loaded
             \/ /\ after.version = tab[t].version /\ after.base = tab[t].base
                /\ after.draft = tab[t].draft /\ after.loaded = tab[t].loaded
                /\ after.dirty = tab[t].dirty /\ after.justSaved = tab[t].justSaved
    <2> DEFINE new == Applied(tab[t], call[t][s].version)
               loaded == [new EXCEPT !.loaded = TRUE, !.loading = FALSE]
               refused == [tab[t] EXCEPT !.needKey = TRUE, !.loading = FALSE]
               failed == [tab[t] EXCEPT !.loadError = TRUE, !.loading = FALSE]
    <2>1. /\ loaded \in TabState /\ loaded.version = loaded.base /\ loaded.draft = {}
          /\ ~loaded.justSaved /\ loaded.loaded /\ loaded.busy = tab[t].busy
      <3>1. /\ new \in TabState /\ new.version = new.base /\ new.draft = {}
            /\ ~new.justSaved /\ new.busy = tab[t].busy
        BY <1>1, AppliedFacts, SMTT(20)
      <3> HIDE DEF new
      <3> QED
        BY <3>1 DEF TabState
    <2>2. /\ refused \in TabState /\ refused.busy = tab[t].busy
          /\ refused.version = tab[t].version /\ refused.base = tab[t].base
          /\ refused.draft = tab[t].draft /\ refused.loaded = tab[t].loaded
          /\ refused.dirty = tab[t].dirty /\ refused.justSaved = tab[t].justSaved
      BY ZenonT(30) DEF TabState
    <2>3. /\ failed \in TabState /\ failed.busy = tab[t].busy
          /\ failed.version = tab[t].version /\ failed.base = tab[t].base
          /\ failed.draft = tab[t].draft /\ failed.loaded = tab[t].loaded
          /\ failed.dirty = tab[t].dirty /\ failed.justSaved = tab[t].justSaved
      BY ZenonT(30) DEF TabState
    <2>4. \/ tab' = [tab EXCEPT ![t] = loaded]
          \/ tab' = [tab EXCEPT ![t] = refused]
          \/ tab' = [tab EXCEPT ![t] = failed]
      BY DEF LoadDone
    <2> HIDE DEF loaded, refused, failed
    <2> QED
      BY <2>1, <2>2, <2>3, <2>4
  <1>3. /\ tab' \in [Tab -> TabState] /\ tab'[t] = after
        /\ \A u \in Tab : u # t => tab'[u] = tab[u]
    BY <1>2, TabEffect
  <1>4. /\ call' \in [Tab -> [Slot -> Call]]
        /\ call'[t][s].pc = "none" /\ call'[t][s].draft = {}
        /\ \A r \in Slot : r # s => call'[t][r] = call[t][r]
        /\ \A u \in Tab : u # t => call'[u] = call[u]
    BY <1>1, CallEffect, SentFacts
  <1>5. tab[t].draft \subseteq given \cup late
    BY <1>1 DEF LoadsGivenUp
  <1> USE <1>1, <1>2, <1>3, <1>4 DEF history, bounds
  <1>6. TypeOK'
    BY DEF TypeOK, TabState, Call
  <1>7. VersionIsBase' /\ DraftsAreMade'
    BY DEF VersionIsBase, DraftsAreMade
  <1>8. LoadsGivenUp'
    BY DEF LoadsGivenUp
  <1>9. SavesCover'
    BY DEF SavesCover
  <1>10. NoSilentLoss'
    BY <1>5 DEF NoSilentLoss
  <1>11. CleanMeansSaved' /\ SavedBadgeIsTrue'
    BY DEF CleanMeansSaved, SavedBadgeIsTrue
  <1> QED
    BY <1>6, <1>7, <1>8, <1>9, <1>10, <1>11

\* Saved: what the draft has beyond the save is late.
LEMMA SavedInv ==
    ASSUME IndInv, NEW t \in Tab, Saved(t)
    PROVE  IndInv'
  <1> USE Types, SlotFacts DEF IndInv
  <1>1. /\ call' = [call EXCEPT ![t]["act"] = Sent("refetch")]
        /\ UNCHANGED <<disk, tab, key, bounds, history>>
        /\ call[t]["act"].pc = "back" /\ call[t]["act"].kind = "post"
        /\ call[t]["act"].answer = "ok"
    BY DEF Saved, Ended
  <1>2. /\ call' \in [Tab -> [Slot -> Call]]
        /\ call'[t]["act"].pc = "sent" /\ call'[t]["act"].kind = "refetch"
        /\ call'[t]["act"].draft = {}
        /\ \A r \in Slot : r # "act" => call'[t][r] = call[t][r]
        /\ \A u \in Tab : u # t => call'[u] = call[u]
    BY <1>1, CallEffect, SentFacts
  <1>3. tab[t].draft \subseteq saved \cup late
    BY <1>1 DEF SavesCover
  <1> USE <1>1, <1>2 DEF history, bounds
  <1>4. TypeOK'
    BY DEF TypeOK, Call
  <1>5. VersionIsBase' /\ DraftsAreMade'
    BY DEF VersionIsBase, DraftsAreMade
  <1>6. LoadsGivenUp'
    BY DEF LoadsGivenUp
  <1>7. SavesCover'
    BY <1>3 DEF SavesCover
  <1>8. NoSilentLoss' /\ CleanMeansSaved' /\ SavedBadgeIsTrue'
    BY DEF NoSilentLoss, CleanMeansSaved, SavedBadgeIsTrue
  <1> QED
    BY <1>4, <1>5, <1>6, <1>7, <1>8

\* What the handlers share leaves draft and version alone.
LEMMA UnhappyFacts ==
    ASSUME TypeOK, NEW t \in Tab
    PROVE  /\ Unhappy(t) \in TabState
           /\ Unhappy(t).version = tab[t].version /\ Unhappy(t).base = tab[t].base
           /\ Unhappy(t).draft = tab[t].draft /\ Unhappy(t).loaded = tab[t].loaded
           /\ Unhappy(t).dirty = tab[t].dirty /\ Unhappy(t).justSaved = tab[t].justSaved
  BY Types, ZenonT(30) DEF Unhappy, TabState, Status

\* The ends of validations and saves.
LEMMA EndsInv ==
    ASSUME IndInv, NEW t \in Tab,
           ValidateDone(t) \/ Conflict(t) \/ NotSaved(t) \/ Refetched(t)
    PROVE  IndInv'
  <1> USE Types, SlotFacts DEF IndInv
  <1>1. /\ tab[t] \in TabState /\ call[t]["act"] \in Call
        /\ tab[t].version = tab[t].base
        /\ ~tab[t].dirty => tab[t].draft \subseteq saved
        /\ tab[t].justSaved => tab[t].draft \subseteq saved \cup late
    BY DEF VersionIsBase, CleanMeansSaved, SavedBadgeIsTrue
  <1>2. CASE Done(t, Unhappy(t))
    BY <1>1, <1>2, UnhappyFacts, DoneInv
  <1>3. CASE ValidateDone(t) /\ ~Done(t, Unhappy(t))
    <2> DEFINE state == [tab[t] EXCEPT !.status = "ok"]
    <2>1. /\ state \in TabState /\ state.version = tab[t].version /\ state.base = tab[t].base
          /\ state.draft = tab[t].draft /\ state.loaded = tab[t].loaded
          /\ state.dirty = tab[t].dirty /\ state.justSaved = tab[t].justSaved
      BY <1>1 DEF TabState, Status
    <2>2. Done(t, state)
      BY <1>3 DEF ValidateDone
    <2> HIDE DEF state
    <2> QED
      BY <1>1, <2>1, <2>2, DoneInv
  <1>4. CASE Conflict(t)
    <2> DEFINE state == [tab[t] EXCEPT !.status = "conflict", !.conflicted = TRUE,
                                       !.version = tab[t].version]
    <2>1. /\ state \in TabState /\ state.version = tab[t].version /\ state.base = tab[t].base
          /\ state.draft = tab[t].draft /\ state.loaded = tab[t].loaded
          /\ state.dirty = tab[t].dirty /\ state.justSaved = tab[t].justSaved
      BY <1>1 DEF TabState, Status
    <2>2. Done(t, state)
      BY <1>4 DEF Conflict, VersionAfterConflict
    <2> HIDE DEF state
    <2> QED
      BY <1>1, <2>1, <2>2, DoneInv
  <1>5. CASE Refetched(t) /\ ~Done(t, Unhappy(t))
    <2>1. tab[t].draft \subseteq saved \cup late
      BY <1>5 DEF Refetched, Ended, SavesCover
    <2>2. CASE call[t]["act"].answer = "ok"
      <3> DEFINE new == Applied(tab[t], call[t]["act"].version)
                 state == [new EXCEPT !.justSaved = TRUE, !.status = "ok"]
      <3>1. call[t]["act"].version \in Nat
        BY <1>1 DEF Call
      <3>2. /\ state \in TabState /\ state.version = state.base
            /\ state.draft = {} /\ state.loaded = tab[t].loaded
        <4>1. /\ new \in TabState /\ new.version = new.base /\ new.draft = {}
              /\ new.loaded = tab[t].loaded
          <5>1. tab[t] \in TabState
            BY <1>1
          <5>2. new.loaded = tab[t].loaded
            BY <3>1, <5>1, AppliedFacts
          <5>3. new \in TabState
            BY <3>1, <5>1, AppliedFacts
          <5>4. new.draft = {}
            BY <3>1, <5>1, AppliedFacts
          <5>5. new.version = call[t]["act"].version /\ new.base = call[t]["act"].version
            BY <3>1, <5>1, AppliedFacts
          <5> QED
            BY <5>2, <5>3, <5>4, <5>5
        <4> HIDE DEF new
        <4> QED
          BY <4>1 DEF TabState, Status
      <3>3. Done(t, state)
        BY <1>5, <2>2 DEF Refetched
      <3> HIDE DEF state
      <3> QED
        BY <2>1, <3>2, <3>3, DoneInv
    <2>3. CASE call[t]["act"].answer # "ok"
      <3> DEFINE unread == [tab[t] EXCEPT !.dirty = tab[t].dirty]
                 state == [unread EXCEPT !.justSaved = TRUE, !.status = "ok"]
      <3>1. /\ state \in TabState /\ state.version = tab[t].version /\ state.base = tab[t].base
            /\ state.draft = tab[t].draft /\ state.loaded = tab[t].loaded
            /\ state.dirty = tab[t].dirty
        BY <1>1 DEF TabState, Status
      <3>2. Done(t, state)
        BY <1>5, <2>3 DEF Refetched, DirtyUnread
      <3> HIDE DEF state
      <3> QED
        BY <1>1, <2>1, <3>1, <3>2, DoneInv
    <2> QED
      BY <2>2, <2>3
  <1>6. CASE NotSaved(t)
    BY <1>2, <1>6 DEF NotSaved
  <1> QED
    BY <1>2, <1>3, <1>4, <1>5, <1>6

-----------------------------------------------------------------------------
(* The results.                                                            *)

\* Every tab begins with an empty draft, which a load replaces.
THEOREM InitInv == Init => IndInv
  <1> SUFFICES ASSUME Init PROVE IndInv
    OBVIOUS
  <1>1. /\ tab = [t \in Tab |-> [Unmounted EXCEPT !.loading = TRUE]]
        /\ call = [t \in Tab |-> [s \in Slot |-> IF s = "load1" THEN Sent("load") ELSE NoCall]]
        /\ disk = 1 /\ made = {} /\ saved = {} /\ given = {} /\ late = {}
    BY DEF Init
  <1> DEFINE state == [Unmounted EXCEPT !.loading = TRUE]
  <1>2. /\ state \in TabState /\ state.version = state.base /\ state.draft = {}
        /\ ~state.busy /\ ~state.justSaved
    BY DEF Unmounted, TabState, Status
  <1>3. \A t \in Tab : tab[t] = state
    BY <1>1
  <1>4. \A t \in Tab : call[t] \in [Slot -> Call] /\ call[t]["act"].pc = "none"
                       /\ \A s \in Slot : call[t][s].draft = {}
    BY <1>1, SentFacts, SlotFacts DEF LoadSlot
  <1> HIDE DEF state
  <1>5. TypeOK
    <2>1. tab \in [Tab -> TabState] /\ call \in [Tab -> [Slot -> Call]]
      BY <1>1, <1>2, <1>3, <1>4
    <2>2. \A t \in Tab : tab[t].busy <=> call[t]["act"].pc # "none"
      BY <1>2, <1>3, <1>4
    <2>3. /\ writes \in 0..MaxWrites /\ faults \in 0..MaxFaults /\ keys \in 0..MaxKeys
          /\ disk \in Nat /\ key \in [Tab -> Key]
      BY PortalAssumption DEF Init, Key
    <2> QED
      BY <1>1, <2>1, <2>2, <2>3 DEF TypeOK, TabState, Call
  <1>6. VersionIsBase /\ DraftsAreMade /\ LoadsGivenUp /\ SavesCover
    BY <1>1, <1>2, <1>3, <1>4 DEF VersionIsBase, DraftsAreMade, LoadsGivenUp, SavesCover
  <1>7. NoSilentLoss /\ CleanMeansSaved /\ SavedBadgeIsTrue
    BY <1>1, <1>2, <1>3 DEF NoSilentLoss, CleanMeansSaved, SavedBadgeIsTrue
  <1> QED
    BY <1>5, <1>6, <1>7 DEF IndInv

\* Every step preserves the invariant.
THEOREM NextInv == IndInv /\ [Next]_vars => IndInv'
  <1> SUFFICES ASSUME IndInv, [Next]_vars PROVE IndInv'
    OBVIOUS
  <1>1. ASSUME NEW t \in Tab, User(t) PROVE IndInv'
    BY <1>1, RequestsInv, EditInv DEF User
  <1>2. ASSUME NEW t \in Tab, Server(t) PROVE IndInv'
    BY <1>2, AnswersInv, ServePostInv, SlotFacts DEF Server
  <1>3. ASSUME NEW t \in Tab, Arrival(t) PROVE IndInv'
    BY <1>3, SavedInv, EndsInv, LoadDoneInv DEF Arrival
  <1>4. ASSUME NEW t \in Tab, NEW s \in Slot, Fault(t, s) PROVE IndInv'
    BY <1>4, AnswersInv
  <1>5. CASE UNCHANGED vars
    BY <1>5 DEF vars, bounds, history, IndInv, TypeOK, VersionIsBase, DraftsAreMade,
           LoadsGivenUp, SavesCover, NoSilentLoss, CleanMeansSaved, SavedBadgeIsTrue
  <1> QED
    BY <1>1, <1>2, <1>3, <1>4, <1>5, OthersInv DEF Next

\* The invariant holds in every reachable state.
THEOREM Invariance == Spec => []IndInv
  BY InitInv, NextInv, PTL DEF Spec

\* No edit is lost in silence: one made while nothing was under way that
\* replaces the draft is in the file, in a draft, or given up by a reload.
THEOREM EditsSurvive == Spec => []NoSilentLoss
  <1>1. IndInv => NoSilentLoss
    BY DEF IndInv
  <1> QED
    BY <1>1, Invariance, PTL

\* A draft that is not dirty has nothing that the file has not had.
THEOREM CleanIsSaved == Spec => []CleanMeansSaved
  <1>1. IndInv => CleanMeansSaved
    BY DEF IndInv
  <1> QED
    BY <1>1, Invariance, PTL

\* The badge is right about all edits but the late ones.
THEOREM BadgeIsTrue == Spec => []SavedBadgeIsTrue
  <1>1. IndInv => SavedBadgeIsTrue
    BY DEF IndInv
  <1> QED
    BY <1>1, Invariance, PTL

\* A save that is accepted replaces the version its draft was loaded from.
THEOREM SavesReplaceTheirBase == Spec => NoBlindOverwrite
  <1> DEFINE Seen == \A t \in Tab : disk' # disk /\ call[t]["act"] # call'[t]["act"]
                                    => call[t]["act"].base = disk
  <1>1. IndInv /\ [Next]_vars => [Seen]_vars
    <2> SUFFICES ASSUME IndInv, Next, NEW t \in Tab, disk' # disk,
                        call[t]["act"] # call'[t]["act"]
                 PROVE  call[t]["act"].base = disk
      OBVIOUS
    <2> USE SlotFacts DEF IndInv
    <2>1. PICK u \in Tab : ServePost(u)
      <3>1. ~OtherWrite /\ ~KeyChanges
        BY DEF OtherWrite, KeyChanges
      <3>2. ASSUME NEW u \in Tab, User(u) PROVE FALSE
        BY <3>2 DEF User, SubmitKey, Reload, Edit, Validate, Save, Act
      <3>3. ASSUME NEW u \in Tab, Arrival(u) PROVE FALSE
        BY <3>3 DEF Arrival, ValidateDone, Saved, Conflict, NotSaved, Refetched, LoadDone,
               Done
      <3>4. ASSUME NEW u \in Tab, NEW s \in Slot, Fault(u, s) \/ Refuse(u, s) \/ ServeGet(u, s)
            PROVE  FALSE
        BY <3>4 DEF Fault, Refuse, ServeGet
      <3>5. \A u \in Tab : ~ServeValidate(u)
        BY DEF ServeValidate
      <3> QED
        BY <3>1, <3>2, <3>3, <3>4, <3>5 DEF Next, Server
    <2>2. PICK answer \in Answer, version \in Nat : Answered(u, "act", answer, version)
      BY <2>1, Types DEF ServePost, Answer
    <2>3. u = t
      BY <2>2, AnswerEffect
    <2> QED
      BY <2>1, <2>3 DEF ServePost, VersionIsBase
  <1> QED
    BY <1>1, Invariance, PTL DEF Spec, NoBlindOverwrite
=============================================================================
