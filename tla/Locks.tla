-------------------------------- MODULE Locks --------------------------------
(* CacheService.withLock: a function under a lock in Redis.                     *)
(*                                                                            *)
(* acquireLock is one SET NX EX with a random token, releaseLock one script     *)
(* that deletes the key if the token is still the caller's.  Redis drops the    *)
(* key when its time is up, whoever is still inside, and a process may die at   *)
(* any point.                                                                  *)
EXTENDS Naturals

CONSTANTS Lockers,    \* calls of withLock with one name, each with a token of its own
          LockTtl,    \* ttlSeconds
          NoLocker

ASSUME LockAssumption == LockTtl \in Nat \ {0} /\ NoLocker \notin Lockers

VARIABLES key,   \* the key in Redis: whose token it holds, for how long still
          call   \* call[l]: where it is, for how long its lock is its own

lockVars == <<key, call>>

NoKey == [token |-> NoLocker, ttl |-> 0]

LocksInit ==
    /\ key = NoKey
    /\ call = [l \in Lockers |-> [step |-> "new", left |-> 0]]

------------------------------------------------------------------------------
\* RedisService.setNX, by acquireLock.
SetNX(token) == IF key = NoKey THEN [token |-> token, ttl |-> LockTtl] ELSE key

Acquires(l) ==
    /\ call[l].step = "new"
    /\ key = NoKey
    /\ key' = SetNX(l)
    /\ call' = [call EXCEPT ![l] = [step |-> "inside", left |-> LockTtl]]

\* `lock busy`: the caller may try once more.
FindsItBusy(l) ==
    /\ call[l].step = "new"
    /\ key # NoKey
    /\ key' = SetNX(l)
    /\ \E again \in {"new", "done"} : call' = [call EXCEPT ![l].step = again]

\* fn returns or throws, and the finally begins.
Returns(l) ==
    /\ call[l].step = "inside"
    /\ call' = [call EXCEPT ![l].step = "leaving"]
    /\ UNCHANGED key

\* Mutant: the key is deleted, whose token it may hold.
DeletedByAnyone(token) == NoKey

\* RELEASE_LOCK_LUA.
ReleasedByToken(token) == IF key.token = token THEN NoKey ELSE key

Releases(l) ==
    /\ call[l].step = "leaving"
    /\ key' = ReleasedByToken(l)
    /\ call' = [call EXCEPT ![l] = [step |-> "done", left |-> 0]]

\* The process dies, or the script does not reach Redis.
Dies(l) ==
    /\ call[l].step \in {"inside", "leaving"}
    /\ call' = [call EXCEPT ![l] = [step |-> "done", left |-> 0]]
    /\ UNCHANGED key

\* A second: the key expires with the time of the call that set it, which does not notice.
SecondPasses ==
    /\ key # NoKey
    /\ key' = IF key.ttl = 1 THEN NoKey ELSE [key EXCEPT !.ttl = @ - 1]
    /\ call' = [l \in Lockers |-> [call[l] EXCEPT !.left = IF @ > 0 THEN @ - 1 ELSE 0]]

LocksNext ==
    \/ \E l \in Lockers : Acquires(l) \/ FindsItBusy(l) \/ Returns(l) \/ Releases(l) \/ Dies(l)
    \/ SecondPasses

LocksSpec == LocksInit /\ [][LocksNext]_lockVars

------------------------------------------------------------------------------
\* A call that has not run out of its time is alone with those that have: a late release, a crash
\* or a second holder takes nobody's lock away before its time (the comment of releaseLock).
LockIsNotTakenAway ==
    \A l \in Lockers : call[l].step = "inside" /\ call[l].left > 0 => key.token = l
==============================================================================
