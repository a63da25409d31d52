------------------------------ MODULE Catalogue ------------------------------
(***************************************************************************)
(* The cached list of a provider's models and prices: coroutines that want *)
(* it, the lock of its refresh, the second look behind the lock, and what  *)
(* a failed refresh leaves (services/model_catalog.py, get_models).        *)
(***************************************************************************)
EXTENDS Naturals

CONSTANT CaCallers

VARIABLES
  caAge,     \* the cache: none, within 6 hours, older, or marked stale
  caRecent,  \* the last successful refresh is less than 5 minutes ago
  caCaller   \* the coroutines in get_models

caVars == <<caAge, caRecent, caCaller>>

CaIdle == [at |-> "idle", forced |-> FALSE]
CaTypeOK ==
  /\ caAge \in {"never", "fresh", "old", "stale"} /\ caRecent \in BOOLEAN
  /\ caCaller \in [CaCallers -> [at : {"idle", "lock", "fetch"}, forced : BOOLEAN]]
CaInit ==
  /\ caAge = "never" /\ caRecent = FALSE
  /\ caCaller = [c \in CaCallers |-> CaIdle]
-----------------------------------------------------------------------------
CaGo(c, at) == caCaller' = [caCaller EXCEPT ![c].at = at]
CaServed(c) == caCaller' = [caCaller EXCEPT ![c] = CaIdle]
CaUnlocked == \A d \in CaCallers : caCaller[d].at # "fetch"

CaAsk(c) ==   \* a fresh cache is answered at once, unless a refresh is asked for
  /\ caCaller[c].at = "idle"
  /\ \E forced \in BOOLEAN :
       /\ forced \/ caAge # "fresh"
       /\ caCaller' = [caCaller EXCEPT ![c] = [at |-> "lock", forced |-> forced]]
  /\ UNCHANGED <<caAge, caRecent>>

\* Mutant: the cache is not looked at again behind the lock.
CaLockedOnce(c) ==
  /\ caCaller[c].at = "lock" /\ CaUnlocked
  /\ CaGo(c, "fetch")
  /\ UNCHANGED <<caAge, caRecent>>

CaLocked(c) ==   \* five minutes at least between two refreshes nobody asked for
  /\ caCaller[c].at = "lock" /\ CaUnlocked
  /\ IF ~caCaller[c].forced /\ (caAge = "fresh" \/ (caRecent /\ caAge # "never"))
       THEN CaServed(c)
       ELSE CaGo(c, "fetch")
  /\ UNCHANGED <<caAge, caRecent>>

CaFetched(c) ==
  /\ caCaller[c].at = "fetch"
  /\ CaServed(c)
  /\ caAge' = "fresh" /\ caRecent' = TRUE

CaFails(c) ==   \* the models kept are marked stale; without any the error is raised
  /\ caCaller[c].at = "fetch"
  /\ CaServed(c)
  /\ caAge' = IF caAge = "never" THEN "never" ELSE "stale"
  /\ UNCHANGED caRecent

CaTime ==
  /\ caRecent' = FALSE
  /\ caAge' \in (IF caAge = "fresh" THEN {"fresh", "old"} ELSE {caAge})
  /\ UNCHANGED caCaller

CaNext == CaTime \/ \E c \in CaCallers : CaAsk(c) \/ CaLocked(c) \/ CaFetched(c) \/ CaFails(c)
CaSpec == CaInit /\ [][CaNext]_caVars
-----------------------------------------------------------------------------
\* Nobody is asked twice: one request is under way at a time, and one that no
\* user asked for finds a cache that is not fresh and no success of the last five
\* minutes, for as long as it lasts, although its coroutine decided to refresh
\* before it waited for another's.
CaFetchedOnce ==
  \A c \in CaCallers : caCaller[c].at = "fetch" =>
    /\ \A d \in CaCallers : caCaller[d].at = "fetch" => d = c
    /\ caCaller[c].forced \/ (caAge # "fresh" /\ ~caRecent)
=============================================================================
