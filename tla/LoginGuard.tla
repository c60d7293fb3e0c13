----------------------------- MODULE LoginGuard ------------------------------
(* What a failed login costs: the failure counter and the lock of one account,  *)
(* the failure counter and the ban of one IP address, under thresholds that an  *)
(* administrator changes while logins are in flight.                            *)
(*                                                                            *)
(* LoginService.verifyCredentials and IpBlacklistService.recordSuspicious-      *)
(* Activity, one step per statement; every threshold comes from RuntimeConfig.  *)
EXTENDS RuntimeConfig

CONSTANTS LoginMaxFailed,         \* security.login.max_failed
          IpSuspiciousThreshold,  \* security.ip.suspicious_threshold
          IpBanSeconds,           \* security.ip.ban_seconds
          NotANumber,             \* a value of type string that no comparison can satisfy
          Updater,                \* the administrator's update of the account
          Profiles,               \* the sets of clients that are active together
          MaxCount                \* bound on both counters

ASSUME LoginAssumption ==
    /\ Keys = {LoginMaxFailed, IpSuspiciousThreshold, IpBanSeconds}
    /\ Values \subseteq Nat \cup {NotANumber}
    /\ \A k \in Keys : Default[k] \in Nat
    /\ MaxCount \in Nat

VARIABLES account,  \* failedLoginCount, lockedUntil and status of the account
          lapsed,   \* the lock that a full counter calls for ran out or was lost on the way
          ip,       \* the address: its failKey, the TTL of it, and its ban
          leaked,   \* a request died between INCR and EXPIRE
          login,    \* login[r]: the progress of a login
          stale,    \* what EndUserService.update has read and will save
          clients   \* the active ones among Readers, Editors and Updater

guardVars == <<account, lapsed, ip, leaked, login, stale, clients>>
vars == <<configVars, guardVars>>

Counts == 0..MaxCount

NoUpdate == [step |-> "none"]

LoginSteps == {"idle", "admitted", "verify", "counted", "threshold", "lock", "reset",
               "record", "ipThreshold", "banSeconds", "expire", "judge", "clear"}

\* count: the account's or the address's counter as this login has seen it.
Login == [step : LoginSteps, count : Counts, threshold : Nat \cup {NotANumber}]

\* A counter in Redis with a TTL exists.
TypeOK ==
    /\ ConfigTypeOK
    /\ account \in [failed : Counts, locked : BOOLEAN, active : BOOLEAN]
    /\ lapsed \in BOOLEAN
    /\ ip \in [hits : Counts, expires : BOOLEAN, ban : {"none", "timed", "forever"}]
    /\ ip.expires => ip.hits > 0
    /\ leaked \in BOOLEAN
    /\ login \in [Readers -> Login]
    /\ stale \in [step : {"none"}] \cup [step : {"read"}, failed : Counts, locked : BOOLEAN,
                                         active : BOOLEAN]
    /\ clients \in Profiles

Idle == [step |-> "idle", count |-> 0, threshold |-> 0]

Init ==
    /\ ConfigInit
    /\ account = [failed |-> 0, locked |-> FALSE, active |-> TRUE]
    /\ lapsed = FALSE
    /\ ip = [hits |-> 0, expires |-> FALSE, ban |-> "none"]
    /\ leaked = FALSE
    /\ login = [r \in Readers |-> Idle]
    /\ stale = NoUpdate
    /\ clients \in Profiles

\* count >= threshold, as JavaScript compares them.
Reaches(count, threshold) == threshold # NotANumber /\ count >= threshold

At(r, step) == login[r].step = step
Goes(r, step) == login' = [login EXCEPT ![r].step = step]
Failed == [Idle EXCEPT !.step = "record"]
Ends(r) == login' = [login EXCEPT ![r] = Idle]

------------------------------------------------------------------------------
(* verifyCredentials                                                           *)

\* isBlocked; a banned address gets no further, and nothing is recorded.
PassesIpGate(r) ==
    /\ At(r, "idle")
    /\ ip.ban = "none"
    /\ Goes(r, "admitted")
    /\ UNCHANGED <<configVars, account, lapsed, ip, leaked, stale, clients>>

\* The account is read: unknown, locked or not active is a failure like another.
Resolves(r, known) ==
    /\ At(r, "admitted")
    /\ Goes(r, IF known /\ ~account.locked /\ account.active THEN "verify" ELSE "record")
    /\ UNCHANGED <<configVars, account, lapsed, ip, leaked, stale, clients>>

\* A wrong password: incrementFailedLogin's UPDATE, an increment in the database.
FailsPassword(r) ==
    /\ At(r, "verify")
    /\ account.failed < MaxCount
    /\ account' = [account EXCEPT !.failed = @ + 1]
    /\ Goes(r, "counted")
    /\ UNCHANGED <<configVars, lapsed, ip, leaked, stale, clients>>

\* incrementFailedLogin's SELECT, and the threshold asked for.
ReadsCount(r) ==
    /\ At(r, "counted")
    /\ login' = [login EXCEPT ![r] = [@ EXCEPT !.step = "threshold", !.count = account.failed]]
    /\ Ask(r, LoginMaxFailed)
    /\ UNCHANGED <<row, cache, edit, suspect, account, lapsed, ip, leaked, stale, clients>>

\* Mutant: the lock comes one failure late.
ComparesLate(r) ==
    /\ At(r, "threshold")
    /\ Answered(r)
    /\ login' = [login EXCEPT ![r] =
           IF Answer(r) # NotANumber /\ @.count > Answer(r) THEN [@ EXCEPT !.step = "lock"]
                                                            ELSE Failed]
    /\ lapsed' = (lapsed \/ Answer(r) = NotANumber)
    /\ AnswerTaken(r)
    /\ UNCHANGED <<row, cache, edit, suspect, account, ip, leaked, stale, clients>>

Compares(r) ==
    /\ At(r, "threshold")
    /\ Answered(r)
    /\ login' = [login EXCEPT ![r] =
           IF Reaches(@.count, Answer(r)) THEN [@ EXCEPT !.step = "lock"] ELSE Failed]
    /\ lapsed' = (lapsed \/ Answer(r) = NotANumber)
    /\ AnswerTaken(r)
    /\ UNCHANGED <<row, cache, edit, suspect, account, ip, leaked, stale, clients>>

LockUser(r) ==
    /\ At(r, "lock")
    /\ account' = [account EXCEPT !.locked = TRUE]
    /\ lapsed' = FALSE
    /\ login' = [login EXCEPT ![r] = Failed]
    /\ UNCHANGED <<configVars, ip, leaked, stale, clients>>

\* The right password.
Succeeds(r) ==
    /\ At(r, "verify")
    /\ Goes(r, "reset")
    /\ UNCHANGED <<configVars, account, lapsed, ip, leaked, stale, clients>>

ResetFailedLogin(r) ==
    /\ At(r, "reset")
    /\ account' = [account EXCEPT !.failed = 0, !.locked = FALSE]
    /\ lapsed' = FALSE
    /\ Ends(r)
    /\ UNCHANGED <<configVars, ip, leaked, stale, clients>>

------------------------------------------------------------------------------
(* recordFailure: recordSuspiciousActivity                                     *)

AsksIpThreshold(r) ==
    /\ At(r, "record")
    /\ Goes(r, "ipThreshold")
    /\ Ask(r, IpSuspiciousThreshold)
    /\ UNCHANGED <<row, cache, edit, suspect, account, lapsed, ip, leaked, stale, clients>>

AsksBanSeconds(r) ==
    /\ At(r, "ipThreshold")
    /\ Answered(r)
    /\ login' = [login EXCEPT ![r] = [@ EXCEPT !.step = "banSeconds", !.threshold = Answer(r)]]
    /\ Ask(r, IpBanSeconds)
    /\ UNCHANGED <<row, cache, edit, suspect, account, lapsed, ip, leaked, stale, clients>>

\* Mutant: EXPIRE belongs to the second hit.
IncrExpiresLate(r) ==
    /\ At(r, "banSeconds")
    /\ Answered(r)
    /\ ip.hits < MaxCount
    /\ ip' = [ip EXCEPT !.hits = @ + 1]
    /\ login' = [login EXCEPT ![r].count = ip.hits + 1,
                              ![r].step = IF ip.hits = 1 THEN "expire" ELSE "judge"]
    /\ UNCHANGED <<configVars, account, lapsed, leaked, stale, clients>>

\* INCR.
Incr(r) ==
    /\ At(r, "banSeconds")
    /\ Answered(r)
    /\ ip.hits < MaxCount
    /\ ip' = [ip EXCEPT !.hits = @ + 1]
    /\ login' = [login EXCEPT ![r].count = ip.hits + 1,
                              ![r].step = IF ip.hits = 0 THEN "expire" ELSE "judge"]
    /\ UNCHANGED <<configVars, account, lapsed, leaked, stale, clients>>

\* EXPIRE, which does nothing to a counter that is gone.
Expire(r) ==
    /\ At(r, "expire")
    /\ ip' = [ip EXCEPT !.expires = ip.hits > 0]
    /\ Goes(r, "judge")
    /\ UNCHANGED <<configVars, account, lapsed, leaked, stale, clients>>

StaysBelow(r) ==
    /\ At(r, "judge")
    /\ ~Reaches(login[r].count, login[r].threshold)
    /\ Ends(r)
    /\ AnswerTaken(r)
    /\ UNCHANGED <<row, cache, edit, suspect, account, lapsed, ip, leaked, stale, clients>>

\* block: RedisService.set sets no TTL for 0 seconds, and Redis refuses one that is no number.
Block(r) ==
    /\ At(r, "judge")
    /\ Reaches(login[r].count, login[r].threshold)
    /\ IF Answer(r) = NotANumber
       THEN Ends(r) /\ UNCHANGED ip
       ELSE /\ ip' = [ip EXCEPT !.ban = IF Answer(r) = 0 THEN "forever" ELSE "timed"]
            /\ Goes(r, "clear")
    /\ AnswerTaken(r)
    /\ UNCHANGED <<row, cache, edit, suspect, account, lapsed, leaked, stale, clients>>

\* DEL of the counter.
ClearsCounter(r) ==
    /\ At(r, "clear")
    /\ ip' = [ip EXCEPT !.hits = 0, !.expires = FALSE]
    /\ Ends(r)
    /\ UNCHANGED <<configVars, account, lapsed, leaked, stale, clients>>

------------------------------------------------------------------------------
(* What happens around a login                                                 *)

\* The process dies, or a statement is rejected.
LoginDies(r) ==
    /\ login[r].step # "idle"
    /\ Ends(r)
    /\ AnswerTaken(r)
    /\ lapsed' = (lapsed \/ login[r].step \in {"counted", "threshold", "lock"})
    /\ leaked' = (leaked \/ login[r].step = "expire")
    /\ UNCHANGED <<row, cache, edit, suspect, account, ip, stale, clients>>

LockExpires ==
    /\ account.locked
    /\ account' = [account EXCEPT !.locked = FALSE]
    /\ lapsed' = TRUE
    /\ UNCHANGED <<configVars, ip, leaked, login, stale, clients>>

WindowEnds ==
    /\ ip.expires
    /\ ip' = [ip EXCEPT !.hits = 0, !.expires = FALSE]
    /\ UNCHANGED <<configVars, account, lapsed, leaked, login, stale, clients>>

BanEnds ==
    /\ ip.ban = "timed"
    /\ ip' = [ip EXCEPT !.ban = "none"]
    /\ UNCHANGED <<configVars, account, lapsed, leaked, login, stale, clients>>

\* EndUserService.update reads the whole row and sets the status ...
UpdateReads(active) ==
    /\ stale.step = "none"
    /\ stale' = [step |-> "read", failed |-> account.failed, locked |-> account.locked,
                 active |-> active]
    /\ UNCHANGED <<configVars, account, lapsed, ip, leaked, login, clients>>

\* ... and save() writes every column in which the row differs from what was read.
UpdateSaves ==
    /\ stale.step = "read"
    /\ account' = [failed |-> stale.failed, locked |-> stale.locked, active |-> stale.active]
    /\ lapsed' = (lapsed \/ account.failed # stale.failed \/ account.locked # stale.locked)
    /\ stale' = NoUpdate
    /\ UNCHANGED <<configVars, ip, leaked, login, clients>>

LoginStep(r) ==
    \/ PassesIpGate(r) \/ \E known \in BOOLEAN : Resolves(r, known)
    \/ FailsPassword(r) \/ ReadsCount(r) \/ Compares(r) \/ LockUser(r)
    \/ Succeeds(r) \/ ResetFailedLogin(r)
    \/ AsksIpThreshold(r) \/ AsksBanSeconds(r) \/ Incr(r) \/ Expire(r)
    \/ StaysBelow(r) \/ Block(r) \/ ClearsCounter(r)
    \/ LoginDies(r)

AccountStep == (\E active \in BOOLEAN : UpdateReads(active)) \/ UpdateSaves

Next ==
    \/ \E r \in Readers \cap clients : LoginStep(r) \/ (ReaderStep(r) /\ UNCHANGED guardVars)
    \/ \E e \in Editors \cap clients : EditorStep(e) /\ UNCHANGED guardVars
    \/ \E k \in Edited : EntryExpires(k) /\ UNCHANGED guardVars
    \/ LockExpires \/ WindowEnds \/ BanEnds
    \/ Updater \in clients /\ AccountStep

Spec == Init /\ [][Next]_vars

------------------------------------------------------------------------------
Thresholds == {v \in Values \cup {Default[LoginMaxFailed]} : v # NotANumber}

\* Without a highest threshold no counter is full, and one of 0 locks an account that has not failed.
ASSUME ThresholdAssumption == \E m \in Thresholds : m > 0 /\ \A v \in Thresholds : v <= m

\* The highest number that max_failed can resolve to.
Largest == CHOOSE v \in Thresholds : \A w \in Thresholds : w <= v

\* An account whose counter has reached every threshold is locked, unless a login that has
\* counted such a failure is still on its way to lockUser, or its lock has run out, died on the
\* way, was compared with a value that is no number, or an update() saved older columns over it
\* (LoginService.verifyCredentials: the increment, the SELECT, the comparison and the lock are
\* four steps that other logins, a success and an update interleave with).
FullCounterLocks ==
    account.failed >= Largest =>
        \/ account.locked
        \/ lapsed
        \/ \E r \in Readers :
               \/ At(r, "counted")
               \/ login[r].step \in {"threshold", "lock"} /\ login[r].count >= Largest

\* A counter of an IP address has a TTL unless the login that created it is about to set it, or
\* died before it did (recordSuspiciousActivity: INCR and EXPIRE are two calls, and another
\* login's DEL and INCR may come between them).
CounterExpires ==
    ip.hits > 0 => ip.expires \/ leaked \/ \E r \in Readers : At(r, "expire")
==============================================================================
