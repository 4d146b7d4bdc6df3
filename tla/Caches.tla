------------------------------- MODULE Caches -------------------------------
(***************************************************************************)
(* A cache (src/pkg/cache/cache.go): NewFastCache or NewLeanCache makes    *)
(* it, and it stays what it is.                                            *)
(***************************************************************************)
EXTENDS FastCache, LeanCache

VARIABLE lean     \* which of the two it is

cachesVars == <<cacheVars, lean>>

NewCache == CacheInit /\ lean \in BOOLEAN

CachesNext ==
  /\ \/ ~lean /\ FastNext
     \/ lean /\ LeanNext
  /\ UNCHANGED lean

CachesSpec == NewCache /\ [][CachesNext]_cachesVars

-----------------------------------------------------------------------------
\* LeanCache.Item looks again under the write lock before it reports a miss: an item
\* that another goroutine put there meanwhile is found.
LeanMissesHeld == lean => MissesHeld
=============================================================================
