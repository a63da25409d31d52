---------------------------- MODULE VoiceLibrary ----------------------------
(***************************************************************************)
(* The voices of a series and the cast of an episode: characters with their*)
(* reference clips, the analysis that gives each cue a character           *)
(* (voice_library/analysis.py), the user's corrections                     *)
(* (voice_library/service.py), and the bindings a dub is queued with       *)
(* (JobService.start_manual_dub).  SQLite has one writer: an analysis holds *)
(* the lock from its DELETE to its first commit, over the clips it awaits;  *)
(* another coroutine that writes meanwhile stops the event loop, waits out  *)
(* the 30 seconds of the busy timeout and fails.                           *)
(***************************************************************************)
EXTENDS Naturals, FiniteSets

CONSTANTS
  VlChars,   \* characters
  VlCues,    \* cues of the subtitle: 1..n
  VlLabel,   \* the speaker label of each cue: a character or VlNobody
  VlRefs,    \* bound on the references of a character: 1..n
  VlRuns     \* requests that may analyse, as coroutines

VlNobody == "nobody"
VlFree == 0
ASSUME VlAssumption ==
  /\ VlCues \in Nat \ {0} /\ VlRefs \in Nat \ {0} /\ VlFree \notin VlRuns
  /\ VlLabel \in [1..VlCues -> VlChars \cup {VlNobody}] /\ "none" \notin VlChars

VARIABLES
  vlChar,   \* characters and their references
  vlCast,   \* the committed rows of the episode: a character, "open", or "none"
  vlRun,    \* the requests
  vlLock,   \* the request that holds the write lock
  vlTorn,   \* the cast may be partial (history)
  vlBound   \* the bindings of the last dub that was queued

vlVars == <<vlChar, vlCast, vlRun, vlLock, vlTorn, vlBound>>

VlIdle == [at |-> "idle", cue |-> 1, rows |-> [q \in 1..VlCues |-> "none"],
           alone |-> FALSE, dub |-> FALSE]
VlUnknown == [known |-> FALSE, approved |-> FALSE, refs |-> 0, good |-> {}, canonical |-> {}]
VlRows == VlChars \cup {"open", "none"}

VlRequests == [at : {"idle", "run", "clip"}, cue : 1..(VlCues + 1),
               rows : [1..VlCues -> VlRows], alone : BOOLEAN, dub : BOOLEAN]

VlTypeOK ==
  /\ \A c \in VlChars : /\ vlChar[c].refs \in 0..VlRefs
                        /\ vlChar[c].good \cup vlChar[c].canonical \subseteq 1..vlChar[c].refs
  /\ vlCast \in [1..VlCues -> VlRows] /\ vlRun \in [VlRuns -> VlRequests]
  /\ vlLock \in VlRuns \cup {VlFree} /\ vlTorn \in BOOLEAN
  /\ DOMAIN vlBound \in {{}, 1..VlCues}

VlInit ==
  /\ vlChar = [c \in VlChars |-> VlUnknown]
  /\ vlCast = [q \in 1..VlCues |-> "none"]
  /\ vlRun = [r \in VlRuns |-> VlIdle]
  /\ vlLock = VlFree /\ vlTorn = FALSE /\ vlBound = <<>>
-----------------------------------------------------------------------------
(* Readiness and bindings.                                                  *)
VlApproved(c) == vlChar[c].approved
\* canonical_reference: approved and canonical, the newest one.
VlVoice(c) ==
  LET usable == vlChar[c].good \cap vlChar[c].canonical
  IN IF usable = {} \/ ~VlApproved(c) THEN 0
     ELSE CHOOSE r \in usable : \A s \in usable : s <= r

VlCastRows(cast) == {q \in 1..VlCues : cast[q] # "none"}
\* Mutant: an approved character is taken to have a voice.
VlReadyByStatus(cast) == \A q \in VlCastRows(cast) : cast[q] \in VlChars /\ VlApproved(cast[q])
VlReady(cast) ==   \* no open cue, and a voice for every row
  \A q \in VlCastRows(cast) : cast[q] \in VlChars /\ VlVoice(cast[q]) # 0

VlBindings(cast) ==
  [q \in 1..VlCues |-> IF cast[q] \in VlChars THEN VlVoice(cast[q]) ELSE 0]
VlAnyApproved == \E c \in VlChars : VlApproved(c)

\* start_manual_dub once there is a cast: refused unless it is ready.
VlQueue(cast) == vlBound' = IF VlReady(cast) THEN VlBindings(cast) ELSE vlBound
-----------------------------------------------------------------------------
(* assign_episode_cues.  No other coroutine is between two awaits.          *)
VlTurn(r) == \A s \in VlRuns \ {r} : vlRun[s].at # "run"
VlLockedOut(r) == vlLock \notin {VlFree, r}

\* The session is closed and rolled back; what it committed stays.
VlAborts(r) ==
  /\ vlRun' = [vlRun EXCEPT ![r] = VlIdle]
  /\ vlLock' = IF vlLock = r THEN VlFree ELSE vlLock

VlDelete(r, dub) ==
  LET others == \E s \in VlRuns \ {r} : vlRun[s].at # "idle"
  IN /\ vlRun[r].at = "idle" /\ VlTurn(r)
     /\ IF VlLockedOut(r) THEN UNCHANGED <<vlRun, vlLock, vlTorn>>
        ELSE /\ vlRun' = [s \in VlRuns |->
                  IF s = r THEN [VlIdle EXCEPT !.at = "run", !.alone = ~others, !.dub = dub]
                  ELSE [vlRun[s] EXCEPT !.alone = FALSE]]
             /\ vlLock' = r /\ vlTorn' = (vlTorn \/ others)
     /\ UNCHANGED <<vlChar, vlCast, vlBound>>

VlAnalyse(r) == VlDelete(r, FALSE)

\* A commit writes the rows added so far, after the DELETE if that is still open;
\* a cue that has a row already breaks the unique constraint.
VlKept(r) == IF vlLock = r THEN [q \in 1..VlCues |-> "none"] ELSE vlCast
VlClash(r) == \E q \in 1..VlCues : vlRun[r].rows[q] # "none" /\ VlKept(r)[q] # "none"
VlWritten(r) ==
  [q \in 1..VlCues |-> IF vlRun[r].rows[q] # "none" THEN vlRun[r].rows[q] ELSE VlKept(r)[q]]

VlAdd(r, row, pending) ==
  [vlRun[r] EXCEPT !.at = "run", !.cue = @ + 1, !.rows = [pending EXCEPT ![vlRun[r].cue] = row]]

VlLabelled(r) ==   \* upsert_character commits: from here on the cast is partial
  LET q == vlRun[r].cue
  IN /\ vlRun[r].at = "run" /\ q <= VlCues /\ VlLabel[q] # VlNobody
     /\ IF VlLockedOut(r) \/ VlClash(r) THEN VlAborts(r) /\ UNCHANGED <<vlChar, vlCast, vlTorn>>
        ELSE /\ vlCast' = VlWritten(r)
             /\ vlChar' = [vlChar EXCEPT ![VlLabel[q]].known = TRUE]
             /\ vlRun' = [vlRun EXCEPT ![r] = VlAdd(r, VlLabel[q], VlIdle.rows)]
             /\ vlLock' = VlFree /\ vlTorn' = TRUE
     /\ UNCHANGED vlBound

VlClip(r) ==   \* ffmpeg is awaited
  /\ vlRun[r].at = "run" /\ vlRun[r].cue <= VlCues /\ VlLabel[vlRun[r].cue] = VlNobody
  /\ vlRun' = [vlRun EXCEPT ![r].at = "clip"]
  /\ UNCHANGED <<vlChar, vlCast, vlLock, vlTorn, vlBound>>

VlMatch(r) ==   \* a character with approved references, or nobody
  /\ vlRun[r].at = "clip" /\ VlTurn(r)
  /\ \E row \in {"open"} \cup {c \in VlChars : vlChar[c].good # {}} :
       vlRun' = [vlRun EXCEPT ![r] = VlAdd(r, row, vlRun[r].rows)]
  /\ UNCHANGED <<vlChar, vlCast, vlLock, vlTorn, vlBound>>

VlEnd(r) ==
  /\ vlRun[r].at = "run" /\ vlRun[r].cue = VlCues + 1
  /\ IF VlLockedOut(r) \/ VlClash(r) THEN VlAborts(r) /\ UNCHANGED <<vlCast, vlTorn, vlBound>>
     ELSE /\ vlCast' = VlWritten(r)
          /\ vlRun' = [vlRun EXCEPT ![r] = VlIdle]
          /\ vlLock' = IF vlLock = r THEN VlFree ELSE vlLock
          /\ vlTorn' = (vlTorn /\ ~vlRun[r].alone)
          /\ IF vlRun[r].dub THEN VlQueue(VlWritten(r)) ELSE UNCHANGED vlBound
  /\ UNCHANGED vlChar

VlInterrupted(r) ==   \* the process stops, or the request is cancelled
  /\ vlRun[r].at = "clip"
  /\ VlAborts(r)
  /\ UNCHANGED <<vlChar, vlCast, vlTorn, vlBound>>
-----------------------------------------------------------------------------
(* Requests in threads wait for the lock.                                   *)
VlFrame == UNCHANGED <<vlRun, vlLock>>

VlCreate(c) ==
  /\ vlLock = VlFree
  /\ vlChar' = [vlChar EXCEPT ![c].known = TRUE]
  /\ UNCHANGED <<vlCast, vlTorn, vlBound>> /\ VlFrame

VlAdopt(c, canonical) ==   \* a new reference is not approved yet
  /\ vlLock = VlFree /\ vlChar[c].known /\ vlChar[c].refs < VlRefs
  /\ LET r == vlChar[c].refs + 1
     IN vlChar' = [vlChar EXCEPT ![c].refs = r,
                                 ![c].canonical = IF canonical THEN {r} ELSE @]
  /\ UNCHANGED <<vlCast, vlTorn, vlBound>> /\ VlFrame

VlApprove(c, r, canonical) ==
  /\ vlLock = VlFree /\ r <= vlChar[c].refs
  /\ vlChar' = [vlChar EXCEPT ![c].approved = TRUE, ![c].good = @ \cup {r},
                              ![c].canonical = IF canonical THEN {r} ELSE @]
  /\ UNCHANGED <<vlCast, vlTorn, vlBound>> /\ VlFrame

VlAssign(q, row) ==   \* a cue without a row gets one
  /\ vlLock = VlFree /\ row \in {"open"} \cup {c \in VlChars : vlChar[c].known}
  /\ vlCast' = [vlCast EXCEPT ![q] = row]
  /\ vlTorn' = (vlTorn \/ vlCast[q] = "none")
  /\ UNCHANGED <<vlChar, vlBound>> /\ VlFrame

VlDub(r) ==   \* start_manual_dub: analyses first when there is no cast
  /\ vlRun[r].at = "idle" /\ VlTurn(r)
  /\ IF VlAnyApproved /\ VlCastRows(vlCast) = {} THEN VlDelete(r, TRUE)
     ELSE /\ IF VlAnyApproved THEN VlQueue(vlCast) ELSE vlBound' = <<>>
          /\ UNCHANGED <<vlChar, vlCast, vlTorn>> /\ VlFrame
-----------------------------------------------------------------------------
VlAnalysis(r) == VlLabelled(r) \/ VlClip(r) \/ VlMatch(r) \/ VlEnd(r)
VlUser ==
  \/ \E r \in VlRuns : VlAnalyse(r) \/ VlDub(r)
  \/ \E c \in VlChars : \/ VlCreate(c)
                        \/ \E canonical \in BOOLEAN :
                             VlAdopt(c, canonical) \/ \E r \in 1..VlRefs : VlApprove(c, r, canonical)
  \/ \E q \in 1..VlCues, row \in VlChars \cup {"open"} : VlAssign(q, row)
VlNext == VlUser \/ \E r \in VlRuns : VlAnalysis(r) \/ VlInterrupted(r)

VlSpec == VlInit /\ [][VlNext]_vlVars
\* A clip is cut or times out after 30 seconds.
VlFair == \A r \in VlRuns : SF_vlVars(VlAnalysis(r))
-----------------------------------------------------------------------------
\* The pipeline fails at the first cue without a voice, hours into a dub: a dub
\* that was queued with voices has one for every cue of the subtitle, if the
\* last analysis ran alone and to its end.
VlDubCovered ==
  [][~vlTorn' /\ vlBound' # vlBound /\ vlBound' # <<>> => \A q \in 1..VlCues : vlBound'[q] # 0]_vlVars

\* An analysis comes to an end whoever else writes.
VlEnds == \A r \in VlRuns : vlRun[r].at # "idle" ~> vlRun[r].at = "idle"

\* release_session_connection is there "so SQLite is not pinned across awaits"
\* (db/__init__.py:64); an analysis does not call it.
VlNotPinned == \A r \in VlRuns : vlRun[r].at = "clip" => vlLock # r
=============================================================================
