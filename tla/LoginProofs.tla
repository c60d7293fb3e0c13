------------------------------- MODULE LoginProofs -------------------------------
(***************************************************************************)
(* What is proved of logins: configuration and counters (LoginGuard), and tokens*)
(* in time (Tokens), for any number of requests, keys, thresholds, tokens and*)
(* lifetimes.                                                              *)
(***************************************************************************)
EXTENDS LoginGuard, Tokens, TLAPS

(***************************************************************************)
(* The cached configuration.                                               *)
(***************************************************************************)

\* An editor has written the row of k and has yet to invalidate its entry.
ToInvalidate(k) == \E e \in Editors : edit[e].step = "written" /\ edit[e].key = k

\* A request that reads: what it has asked for, and what it has seen of the row.
ReaderTyped(x) ==
    /\ x.step \in {"asked", "missed", "loaded"} => x.key \in Edited
    /\ x.step = "loaded" =>
           x = [step |-> "loaded", key |-> x.key, seen |-> x.seen, overtaken |-> x.overtaken]

EditorTyped(x) == x.step \in {"found", "written"} => x.key \in Edited

ConfigTyped ==
    /\ row = [k \in Edited |-> row[k]]
    /\ cache = [k \in Edited |-> cache[k]]
    /\ suspect = [k \in Edited |-> suspect[k]]
    /\ reading = [r \in Readers |-> reading[r]]
    /\ \A r \in Readers : ReaderTyped(reading[r])
    /\ edit = [e \in Editors |-> edit[e]]
    /\ \A e \in Editors : EditorTyped(edit[e])

\* What a reader is about to store is the row as it is, or it has been overtaken, or will be.
Current(x) ==
    x.step = "loaded" => x.seen = Snapshot(row[x.key]) \/ x.overtaken = TRUE \/ ToInvalidate(x.key)

\* One entry of CachedConfigIsCurrent.
EntryCurrent(k) ==
    cache[k] = NoEntry \/ cache[k].kept = Snapshot(row[k]) \/ ToInvalidate(k) \/ suspect[k]

ConfigInv ==
    /\ ConfigTyped
    /\ \A r \in Readers : Current(reading[r])
    /\ \A k \in Edited : EntryCurrent(k)

LEMMA InvSuffices == ConfigInv => CachedConfigIsCurrent
  BY DEF ConfigInv, EntryCurrent, ToInvalidate, CachedConfigIsCurrent

\* A step that moves one reader on.
LEMMA ReaderMoves ==
    ASSUME ConfigInv, UNCHANGED <<row, edit>>, NEW r \in Readers, NEW x,
           reading' = [reading EXCEPT ![r] = x],
           ReaderTyped(x), Current(x)
    PROVE  /\ reading' = [q \in Readers |-> reading'[q]]
           /\ \A q \in Readers : ReaderTyped(reading'[q]) /\ Current(reading[q])'
           /\ edit' = [e \in Editors |-> edit'[e]]
           /\ \A e \in Editors : EditorTyped(edit'[e])
  <1>1. reading'[r] = x /\ \A q \in Readers \ {r} : reading'[q] = reading[q]
    BY DEF ConfigInv, ConfigTyped
  <1>2. reading' = [q \in Readers |-> reading'[q]]
    BY DEF ConfigInv, ConfigTyped
  <1>3. \A q \in Readers : ReaderTyped(reading'[q]) /\ Current(reading'[q])
    BY <1>1 DEF ConfigInv, ConfigTyped
  <1>4. ASSUME NEW q \in Readers PROVE Current(reading[q])'
    BY <1>3 DEF Current, ToInvalidate, Snapshot
  <1> QED
    BY <1>2, <1>3, <1>4 DEF ConfigInv, ConfigTyped

\* A step that moves one reader on and leaves what is cached.
LEMMA QuietReader ==
    ASSUME ConfigInv, UNCHANGED <<row, cache, edit, suspect>>, NEW r \in Readers, NEW x,
           reading' = [reading EXCEPT ![r] = x],
           ReaderTyped(x), Current(x)
    PROVE  ConfigInv'
  <1>1. ConfigTyped' /\ \A q \in Readers : Current(reading[q])'
    BY ReaderMoves DEF ConfigInv, ConfigTyped, ReaderTyped, EditorTyped
  <1>2. ASSUME NEW k \in Edited PROVE EntryCurrent(k)'
    BY DEF ConfigInv, EntryCurrent, Snapshot, ToInvalidate, NoEntry
  <1> QED
    BY <1>1, <1>2 DEF ConfigInv

LEMMA ReaderSteps == ASSUME ConfigInv, NEW r \in Readers, ReaderStep(r) PROVE ConfigInv'
  <1>0. ReaderTyped(reading[r]) /\ Current(reading[r])
    BY DEF ConfigInv, ConfigTyped
  <1>1. CASE ReaderHits(r)
    BY <1>1, QuietReader DEF ReaderHits, ReaderTyped, Current
  <1>2. CASE ReaderMisses(r)
    BY <1>0, <1>2, QuietReader DEF ReaderMisses, ReaderTyped, Current
  <1>3. CASE ReaderFallsBack(r)
    BY <1>3, QuietReader DEF ReaderFallsBack, ReaderTyped, Current
  <1>4. CASE ReaderLoads(r)
    BY <1>0, <1>4, QuietReader DEF ReaderLoads, ReaderTyped, Current
  <1>5. CASE ReaderStores(r)
    <2>0. PICK k, x : k = reading[r].key /\ x = [step |-> "resolved", value |-> Resolve(k, reading[r].seen)]
      OBVIOUS
    <2>1. /\ k \in Edited /\ Current(reading[r]) /\ reading[r].step = "loaded"
          /\ reading' = [reading EXCEPT ![r] = x] /\ UNCHANGED <<row, edit>>
      BY <1>0, <1>5, <2>0 DEF ReaderStores, ReaderTyped
    <2>2. ReaderTyped(x) /\ Current(x)
      BY <2>0 DEF ReaderTyped, Current
    <2>3. CASE UNCHANGED <<cache, suspect>>
      BY <2>1, <2>2, <2>3, QuietReader
    <2>4. CASE /\ cache' = [cache EXCEPT ![k] = [kept |-> reading[r].seen]]
               /\ suspect' = [suspect EXCEPT ![k] = reading[r].overtaken]
      <3>1. /\ cache'[k] = [kept |-> reading[r].seen] /\ suspect'[k] = reading[r].overtaken
            /\ \A j \in Edited \ {k} : cache'[j] = cache[j] /\ suspect'[j] = suspect[j]
            /\ cache' = [j \in Edited |-> cache'[j]] /\ suspect' = [j \in Edited |-> suspect'[j]]
        BY <2>1, <2>4 DEF ConfigInv, ConfigTyped
      <3>2. ConfigTyped' /\ \A q \in Readers : Current(reading[q])'
        BY <2>1, <2>2, <3>1, ReaderMoves DEF ConfigInv, ConfigTyped, ReaderTyped, EditorTyped
      <3>3. ASSUME NEW j \in Edited, j # k PROVE EntryCurrent(j)'
        BY <2>1, <3>1, <3>3 DEF ConfigInv, EntryCurrent, Snapshot, ToInvalidate, NoEntry
      <3>4. EntryCurrent(k)'
        <4>1. reading[r].seen = Snapshot(row[k]) \/ reading[r].overtaken = TRUE \/ ToInvalidate(k)
          BY <2>0, <2>1 DEF Current
        <4>2. cache'[k].kept = reading[r].seen /\ Snapshot(row[k])' = Snapshot(row[k])
              /\ ToInvalidate(k)' = ToInvalidate(k)
          BY <2>1, <3>1 DEF Snapshot, ToInvalidate
        <4> QED
          BY <3>1, <4>1, <4>2 DEF EntryCurrent
      <3> QED
        BY <3>2, <3>3, <3>4 DEF ConfigInv
    <2> QED
      BY <1>5, <2>0, <2>3, <2>4 DEF ReaderStores
  <1> QED
    BY <1>1, <1>2, <1>3, <1>4, <1>5 DEF ReaderStep

\* A step of an editor that has nothing to invalidate yet: what it writes, it will invalidate.
LEMMA EditorWrites ==
    ASSUME ConfigInv, UNCHANGED <<cache, reading, suspect>>, NEW e \in Editors, NEW x,
           edit' = [edit EXCEPT ![e] = x], edit[e].step # "written", EditorTyped(x),
           row' = [k \in Edited |-> row'[k]],
           \A k \in Edited : row'[k] = row[k] \/ (x.step = "written" /\ x.key = k)
    PROVE  ConfigInv'
  <1>1. edit'[e] = x /\ \A d \in Editors \ {e} : edit'[d] = edit[d]
    BY DEF ConfigInv, ConfigTyped
  <1>2. ConfigTyped'
    BY <1>1 DEF ConfigInv, ConfigTyped, ReaderTyped, EditorTyped
  <1>3. ASSUME NEW k \in Edited
        PROVE  /\ ToInvalidate(k) => ToInvalidate(k)'
               /\ Snapshot(row[k])' = Snapshot(row[k]) \/ ToInvalidate(k)'
    BY <1>1 DEF ToInvalidate, Snapshot
  <1>4. ASSUME NEW q \in Readers PROVE Current(reading[q])'
    <2>1. Current(reading[q]) /\ ReaderTyped(reading[q]) /\ reading'[q] = reading[q]
      BY DEF ConfigInv, ConfigTyped
    <2>2. CASE reading[q].step = "loaded"
      <3>1. reading[q].key \in Edited
        BY <2>1, <2>2 DEF ReaderTyped
      <3> QED
        BY <1>3, <2>1, <2>2, <3>1 DEF Current
    <2> QED
      BY <2>1, <2>2 DEF Current
  <1>5. ASSUME NEW k \in Edited PROVE EntryCurrent(k)'
    <2>1. EntryCurrent(k) /\ cache' = cache /\ suspect' = suspect
      BY DEF ConfigInv
    <2> QED
      BY <1>3, <2>1 DEF EntryCurrent, NoEntry
  <1> QED
    BY <1>2, <1>4, <1>5 DEF ConfigInv

\* An editor that is done: its readers have been overtaken, its entry is gone or suspect.
LEMMA EditorIsDone ==
    ASSUME ConfigInv, NEW e \in Editors, NEW k \in Edited, NEW gone \in BOOLEAN,
           edit' = [edit EXCEPT ![e] = NoEdit], edit[e].key = k,
           UNCHANGED row, reading' = Overtaken(k),
           cache' = IF gone THEN [cache EXCEPT ![k] = NoEntry] ELSE cache,
           suspect' = [suspect EXCEPT ![k] = ~gone]
    PROVE  ConfigInv'
  <1>1. edit'[e] = NoEdit /\ \A d \in Editors \ {e} : edit'[d] = edit[d]
    BY DEF ConfigInv, ConfigTyped
  <1>2. /\ suspect'[k] = ~gone /\ (gone => cache'[k] = NoEntry)
        /\ \A j \in Edited \ {k} : cache'[j] = cache[j] /\ suspect'[j] = suspect[j]
    BY DEF ConfigInv, ConfigTyped
  <1>3. ASSUME NEW q \in Readers
        PROVE  /\ reading'[q] = reading[q] \/
                    reading'[q] = [step |-> "loaded", key |-> k, seen |-> reading[q].seen, overtaken |-> TRUE]
               /\ reading[q].step = "loaded" /\ reading[q].key = k => reading'[q].overtaken = TRUE
               /\ ~(reading[q].step = "loaded" /\ reading[q].key = k) => reading'[q] = reading[q]
               /\ reading'[q].step = reading[q].step
    <2>1. ReaderTyped(reading[q])
      BY DEF ConfigInv, ConfigTyped
    <2>2. reading'[q] = IF reading[q].step = "loaded" /\ reading[q].key = k
                        THEN [reading[q] EXCEPT !.overtaken = TRUE] ELSE reading[q]
      BY DEF Overtaken
    <2> QED
      BY <2>1, <2>2 DEF ReaderTyped
  <1>4. ASSUME NEW j \in Edited, j # k PROVE ToInvalidate(j)' <=> ToInvalidate(j)
    BY <1>1, <1>4 DEF ToInvalidate, NoEdit
  <1>5. ConfigTyped'
    <2>1. ASSUME NEW q \in Readers PROVE ReaderTyped(reading'[q])
      <3>1. ReaderTyped(reading[q])
        BY DEF ConfigInv, ConfigTyped
      <3>2. CASE reading'[q] = [step |-> "loaded", key |-> k, seen |-> reading[q].seen, overtaken |-> TRUE]
        BY <3>2 DEF ReaderTyped
      <3> QED
        BY <1>3, <3>1, <3>2
    <2>2. reading' = [q \in Readers |-> reading'[q]]
      BY DEF Overtaken
    <2>3. \A d \in Editors : EditorTyped(edit'[d])
      BY <1>1 DEF ConfigInv, ConfigTyped, EditorTyped, NoEdit
    <2>4. /\ edit' = [d \in Editors |-> edit'[d]]
          /\ cache' = [j \in Edited |-> cache'[j]] /\ suspect' = [j \in Edited |-> suspect'[j]]
          /\ row' = [j \in Edited |-> row'[j]]
      BY DEF ConfigInv, ConfigTyped
    <2> QED
      BY <2>1, <2>2, <2>3, <2>4 DEF ConfigTyped, ReaderTyped, EditorTyped
  <1>6. ASSUME NEW q \in Readers PROVE Current(reading[q])'
    <2>1. Current(reading[q]) /\ ReaderTyped(reading[q])
      BY DEF ConfigInv, ConfigTyped
    <2>2. CASE reading[q].step = "loaded" /\ reading[q].key # k
      <3>1. reading[q].key \in Edited /\ reading'[q] = reading[q]
        BY <1>3, <2>1, <2>2 DEF ReaderTyped
      <3>2. Snapshot(row[reading[q].key])' = Snapshot(row[reading[q].key])
        BY <3>1 DEF Snapshot
      <3> QED
        BY <1>4, <2>1, <2>2, <3>1, <3>2 DEF Current
    <2>3. CASE ~(reading[q].step = "loaded" /\ reading[q].key # k)
      BY <1>3, <2>3 DEF Current
    <2> QED
      BY <2>2, <2>3
  <1>7. ASSUME NEW j \in Edited PROVE EntryCurrent(j)'
    <2>1. CASE j = k /\ gone
      BY <1>2, <2>1 DEF EntryCurrent, NoEntry
    <2>3. CASE j = k /\ ~gone
      <3>1. suspect'[k]
        BY <1>2, <2>3
      <3> QED
        BY <2>3, <3>1 DEF EntryCurrent
    <2>2. CASE j # k
      <3>1. EntryCurrent(j) /\ cache'[j] = cache[j] /\ suspect'[j] = suspect[j]
            /\ Snapshot(row[j])' = Snapshot(row[j])
        BY <1>2, <2>2 DEF ConfigInv, Snapshot
      <3> QED
        BY <1>4, <2>2, <3>1 DEF EntryCurrent, NoEntry
    <2> QED
      BY <2>1, <2>2, <2>3
  <1> QED
    BY <1>5, <1>6, <1>7 DEF ConfigInv

LEMMA EditorSteps == ASSUME ConfigInv, NEW e \in Editors, EditorStep(e) PROVE ConfigInv'
  <1>0. EditorTyped(edit[e]) /\ row = [k \in Edited |-> row[k]] /\ edit = [d \in Editors |-> edit[d]]
    BY DEF ConfigInv, ConfigTyped
  <1>1. ASSUME NEW k \in Edited, NEW v \in Values, NEW enabled \in {"keep", "on", "off"},
               SetReads(e, k, v, enabled)
        PROVE  ConfigInv'
    <2>1. PICK x : x = edit'[e]
      OBVIOUS
    <2>2. x.step = "found" /\ x.key = k /\ edit' = [edit EXCEPT ![e] = x]
      BY <1>0, <1>1, <2>1 DEF SetReads
    <2>3. edit[e].step # "written" /\ UNCHANGED <<row, cache, reading, suspect>>
      BY <1>1 DEF SetReads
    <2>4. EditorTyped(x) /\ row' = [j \in Edited |-> row'[j]]
      BY <1>0, <2>2, <2>3 DEF EditorTyped
    <2> QED
      BY <2>2, <2>3, <2>4, EditorWrites
  <1>2. CASE SetSaves(e)
    <2>1. PICK k \in Edited : k = edit[e].key
      BY <1>0, <1>2 DEF SetSaves, EditorTyped
    <2>2. CASE edit[e].exists \/ row[k].state = "absent"
      <3>1. PICK x : x = [step |-> "written", key |-> k]
        OBVIOUS
      <3>2. edit' = [edit EXCEPT ![e] = x] /\ UNCHANGED <<cache, reading, suspect>> /\ edit[e].step # "written"
        BY <1>2, <2>1, <2>2, <3>1 DEF SetSaves
      <3>3. row' = [j \in Edited |-> row'[j]] /\ \A j \in Edited : row'[j] = row[j] \/ j = k
        BY <1>0, <1>2, <2>1, <2>2 DEF SetSaves
      <3>4. EditorTyped(x) /\ \A j \in Edited : row'[j] = row[j] \/ (x.step = "written" /\ x.key = j)
        BY <3>1, <3>3 DEF EditorTyped
      <3> QED
        BY <3>2, <3>3, <3>4, EditorWrites
    <2>3. CASE ~(edit[e].exists \/ row[k].state = "absent")
      <3>1. edit' = [edit EXCEPT ![e] = NoEdit] /\ UNCHANGED <<row, cache, reading, suspect>> /\ edit[e].step # "written"
        BY <1>2, <2>1, <2>3 DEF SetSaves
      <3> QED
        BY <1>0, <3>1, EditorWrites DEF EditorTyped, NoEdit
    <2> QED
      BY <2>2, <2>3
  <1>3. ASSUME NEW k \in Edited, SoftDeletes(e, k) PROVE ConfigInv'
    <2>1. PICK x : x = [step |-> "written", key |-> k]
      OBVIOUS
    <2>2. edit' = [edit EXCEPT ![e] = x] /\ UNCHANGED <<cache, reading, suspect>> /\ edit[e].step # "written"
      BY <1>3, <2>1 DEF SoftDeletes
    <2>3. row' = [j \in Edited |-> row'[j]] /\ \A j \in Edited : row'[j] = row[j] \/ j = k
      BY <1>0, <1>3 DEF SoftDeletes
    <2>4. EditorTyped(x) /\ \A j \in Edited : row'[j] = row[j] \/ (x.step = "written" /\ x.key = j)
      BY <2>1, <2>3 DEF EditorTyped
    <2> QED
      BY <2>2, <2>3, <2>4, EditorWrites
  <1>4. CASE Invalidate(e)
    <2>1. PICK k \in Edited : k = edit[e].key
      BY <1>0, <1>4 DEF Invalidate, EditorTyped
    <2>2. cache' = [cache EXCEPT ![k] = NoEntry] /\ suspect' = [suspect EXCEPT ![k] = ~TRUE]
          /\ reading' = Overtaken(k) /\ edit' = [edit EXCEPT ![e] = NoEdit] /\ UNCHANGED row
      BY <1>4, <2>1 DEF Invalidate
    <2> QED
      BY <2>1, <2>2, EditorIsDone
  <1>5. CASE InvalidateFails(e)
    <2>1. PICK k \in Edited : k = edit[e].key
      BY <1>0, <1>5 DEF InvalidateFails, EditorTyped
    <2>2. UNCHANGED <<row, cache>> /\ suspect' = [suspect EXCEPT ![k] = ~FALSE]
          /\ reading' = Overtaken(k) /\ edit' = [edit EXCEPT ![e] = NoEdit]
      BY <1>5, <2>1 DEF InvalidateFails
    <2> QED
      BY <2>1, <2>2, EditorIsDone
  <1> QED
    BY <1>1, <1>2, <1>3, <1>4, <1>5 DEF EditorStep

LEMMA Expires == ASSUME ConfigInv, NEW k \in Edited, EntryExpires(k) PROVE ConfigInv'
  <1>1. /\ cache'[k] = NoEntry
        /\ \A j \in Edited \ {k} : cache'[j] = cache[j] /\ suspect'[j] = suspect[j]
        /\ UNCHANGED <<row, reading, edit>>
    BY DEF EntryExpires, ConfigInv, ConfigTyped
  <1>2. ConfigTyped'
    <2>1. cache' = [j \in Edited |-> cache'[j]] /\ suspect' = [j \in Edited |-> suspect'[j]]
      BY DEF EntryExpires, ConfigInv, ConfigTyped
    <2> QED
      BY <1>1, <2>1 DEF ConfigInv, ConfigTyped, ReaderTyped, EditorTyped
  <1>3. ASSUME NEW q \in Readers PROVE Current(reading[q])'
    BY <1>1 DEF ConfigInv, Current, ToInvalidate, Snapshot
  <1>4. ASSUME NEW j \in Edited PROVE EntryCurrent(j)'
    BY <1>1 DEF ConfigInv, EntryCurrent, ToInvalidate, Snapshot, NoEntry
  <1> QED
    BY <1>2, <1>3, <1>4 DEF ConfigInv

LEMMA ConfigStays == ASSUME ConfigInv, UNCHANGED configVars PROVE ConfigInv'
  <1>1. UNCHANGED <<row, cache, reading, edit, suspect>>
    BY DEF configVars
  <1>2. ConfigTyped'
    BY <1>1 DEF ConfigInv, ConfigTyped, ReaderTyped, EditorTyped
  <1>3. ASSUME NEW q \in Readers PROVE Current(reading[q])'
    BY <1>1 DEF ConfigInv, Current, ToInvalidate, Snapshot
  <1>4. ASSUME NEW j \in Edited PROVE EntryCurrent(j)'
    BY <1>1 DEF ConfigInv, EntryCurrent, ToInvalidate, Snapshot, NoEntry
  <1> QED
    BY <1>2, <1>3, <1>4 DEF ConfigInv

\* A login asks, takes its answer, or leaves the configuration alone.
LEMMA LoginAsks ==
    ASSUME ConfigInv, NEW r \in Readers, LoginStep(r) PROVE ConfigInv'
  <1>1. CASE UNCHANGED configVars
    BY <1>1, ConfigStays
  <1>2. CASE AnswerTaken(r) /\ UNCHANGED <<row, cache, edit, suspect>>
    BY <1>2, QuietReader DEF AnswerTaken, NoReading, ReaderTyped, Current
  <1>3. ASSUME NEW k, Ask(r, k), UNCHANGED <<row, cache, edit, suspect>> PROVE ConfigInv'
    <2>1. CASE k \in Edited
      BY <1>3, <2>1, QuietReader DEF Ask, ReaderTyped, Current
    <2>2. CASE k \notin Edited
      BY <1>3, <2>2, QuietReader DEF Ask, ReaderTyped, Current
    <2> QED
      BY <2>1, <2>2
  <1> QED
    BY <1>1, <1>2, <1>3
    DEF LoginStep, PassesIpGate, Resolves, FailsPassword, ReadsCount, Compares, LockUser, Succeeds,
        ResetFailedLogin, AsksIpThreshold, AsksBanSeconds, Incr, Expire, StaysBelow, Block,
        ClearsCounter, LoginDies

LEMMA ConfigInvHolds == Spec => []ConfigInv
  <1>1. Init => ConfigInv
    <2> SUFFICES ASSUME Init PROVE ConfigInv
      OBVIOUS
    <2>1. ConfigTyped
      BY DEF Init, ConfigInit, ConfigTyped, ReaderTyped, EditorTyped, NoReading, NoEdit
    <2>2. \A q \in Readers : Current(reading[q])
      BY DEF Init, ConfigInit, Current, NoReading
    <2>3. \A k \in Edited : EntryCurrent(k)
      BY DEF Init, ConfigInit, EntryCurrent
    <2> QED
      BY <2>1, <2>2, <2>3 DEF ConfigInv
  <1>2. ConfigInv /\ [Next]_vars => ConfigInv'
    <2> SUFFICES ASSUME ConfigInv, [Next]_vars PROVE ConfigInv'
      OBVIOUS
    <2>1. CASE UNCHANGED configVars
      BY <2>1, ConfigStays
    <2>2. ASSUME NEW r \in Readers, LoginStep(r) \/ ReaderStep(r) PROVE ConfigInv'
      BY <2>2, LoginAsks, ReaderSteps
    <2>3. ASSUME NEW e \in Editors, EditorStep(e) PROVE ConfigInv'
      BY <2>3, EditorSteps
    <2>4. ASSUME NEW k \in Edited, EntryExpires(k) PROVE ConfigInv'
      BY <2>4, Expires
    <2>5. LockExpires \/ WindowEnds \/ BanEnds \/ AccountStep \/ UNCHANGED vars => UNCHANGED configVars
      BY DEF LockExpires, WindowEnds, BanEnds, AccountStep, UpdateReads, UpdateSaves, vars
    <2> QED
      BY <2>1, <2>2, <2>3, <2>4, <2>5 DEF Next
  <1> QED
    BY <1>1, <1>2, PTL DEF Spec

\* An entry in Redis is its row as it is now, unless an editor has yet to invalidate it or an
\* invalidation was lost or came between a reader's SELECT and its write (RuntimeConfigService).
THEOREM CachedConfigHolds == Spec => []CachedConfigIsCurrent
  BY ConfigInvHolds, InvSuffices, PTL

(***************************************************************************)
(* The counter of an address.                                              *)
(***************************************************************************)

LoginRecord(x) == x = [step |-> x.step, count |-> x.count, threshold |-> x.threshold]

LoginTyped ==
    /\ login = [r \in Readers |-> login[r]]
    /\ \A r \in Readers : LoginRecord(login[r])

CounterInv ==
    /\ LoginTyped
    /\ ip = [hits |-> ip.hits, expires |-> ip.expires, ban |-> ip.ban]
    /\ ip.hits \in Nat
    /\ CounterExpires

\* A step of a login other than one that is about to set the TTL.
LEMMA CounterStays ==
    ASSUME CounterInv, NEW r \in Readers, NEW x, login' = [login EXCEPT ![r] = x], LoginRecord(x),
           login[r].step # "expire", UNCHANGED ip, leaked => leaked'
    PROVE  CounterInv'
  <1>1. login'[r] = x /\ \A q \in Readers \ {r} : login'[q] = login[q]
    BY DEF CounterInv, LoginTyped
  <1>2. LoginTyped'
    BY <1>1 DEF CounterInv, LoginTyped, LoginRecord
  <1>3. CounterExpires'
    BY <1>1 DEF CounterInv, CounterExpires, At
  <1> QED
    BY <1>2, <1>3 DEF CounterInv

\* The same, where the counter is dropped or has its TTL already.
LEMMA CounterIsSafe ==
    ASSUME CounterInv, NEW r \in Readers, NEW x, login' = [login EXCEPT ![r] = x], LoginRecord(x),
           ip' = [hits |-> ip'.hits, expires |-> ip'.expires, ban |-> ip'.ban], ip'.hits \in Nat,
           ip'.hits > 0 => ip'.expires \/ leaked' \/ x.step = "expire"
    PROVE  CounterInv'
  <1>1. login'[r] = x /\ \A q \in Readers \ {r} : login'[q] = login[q]
    BY DEF CounterInv, LoginTyped
  <1>2. LoginTyped'
    BY <1>1 DEF CounterInv, LoginTyped, LoginRecord
  <1>3. CounterExpires'
    BY <1>1 DEF CounterExpires, At
  <1> QED
    BY <1>2, <1>3 DEF CounterInv

LEMMA CounterSteps == ASSUME CounterInv, NEW r \in Readers, LoginStep(r) PROVE CounterInv'
  <1> DEFINE was == login[r]
  <1>0. /\ LoginRecord(login[r]) /\ login = [q \in Readers |-> login[q]]
        /\ ip = [hits |-> ip.hits, expires |-> ip.expires, ban |-> ip.ban] /\ ip.hits \in Nat
    BY DEF CounterInv, LoginTyped
  <1>1. ASSUME NEW step, Goes(r, step), UNCHANGED <<ip, leaked>>, login[r].step # "expire"
        PROVE  CounterInv'
    <2>1. PICK x : x = [login[r] EXCEPT !.step = step]
      OBVIOUS
    <2>2. login' = [login EXCEPT ![r] = x] /\ LoginRecord(x)
      BY <1>0, <1>1, <2>1 DEF Goes, LoginRecord
    <2> QED
      BY <1>1, <2>2, CounterStays
  <1>2. ASSUME NEW x, login' = [login EXCEPT ![r] = x], x \in {Idle, Failed}, UNCHANGED <<ip, leaked>>,
               login[r].step # "expire"
        PROVE  CounterInv'
    BY <1>2, CounterStays DEF Idle, Failed, LoginRecord
  <1>3. CASE \/ PassesIpGate(r) \/ \E known \in BOOLEAN : Resolves(r, known)
             \/ FailsPassword(r) \/ Succeeds(r) \/ AsksIpThreshold(r)
    BY <1>1, <1>3 DEF PassesIpGate, Resolves, FailsPassword, Succeeds, AsksIpThreshold, At
  <1>4. CASE LockUser(r) \/ ResetFailedLogin(r) \/ StaysBelow(r)
    BY <1>2, <1>4 DEF LockUser, ResetFailedLogin, StaysBelow, Ends, At
  <1>5. CASE ReadsCount(r)
    <2>1. PICK x : x = [login[r] EXCEPT !.step = "threshold", !.count = account.failed]
      OBVIOUS
    <2>2. login' = [login EXCEPT ![r] = x] /\ LoginRecord(x)
      BY <1>0, <1>5, <2>1 DEF ReadsCount, LoginRecord
    <2> QED
      BY <1>5, <2>2, CounterStays DEF ReadsCount, At
  <1>6. CASE Compares(r)
    <2>1. PICK x : x = IF Reaches(login[r].count, Answer(r)) THEN [login[r] EXCEPT !.step = "lock"] ELSE Failed
      OBVIOUS
    <2>2. login' = [login EXCEPT ![r] = x] /\ LoginRecord(x)
      BY <1>0, <1>6, <2>1 DEF Compares, LoginRecord, Failed, Idle
    <2> QED
      BY <1>6, <2>2, CounterStays DEF Compares, At
  <1>7. CASE AsksBanSeconds(r)
    <2>1. PICK x : x = [login[r] EXCEPT !.step = "banSeconds", !.threshold = Answer(r)]
      OBVIOUS
    <2>2. login' = [login EXCEPT ![r] = x] /\ LoginRecord(x)
      BY <1>0, <1>7, <2>1 DEF AsksBanSeconds, LoginRecord
    <2> QED
      BY <1>7, <2>2, CounterStays DEF AsksBanSeconds, At
  <1>8. CASE Incr(r)
    <2>1. PICK x : x = [login[r] EXCEPT !.count = ip.hits + 1, !.step = IF ip.hits = 0 THEN "expire" ELSE "judge"]
      OBVIOUS
    <2>2. login' = [login EXCEPT ![r] = x] /\ LoginRecord(x)
      BY <1>0, <1>8, <2>1 DEF Incr, LoginRecord
    <2>3. ip' = [hits |-> ip.hits + 1, expires |-> ip.expires, ban |-> ip.ban] /\ leaked' = leaked
      BY <1>0, <1>8 DEF Incr
    <2>4. CASE ip.hits = 0
      <3>1. x.step = "expire"
        BY <1>0, <2>1, <2>4 DEF LoginRecord
      <3> QED
        BY <1>0, <2>2, <2>3, <3>1, CounterIsSafe
    <2>5. CASE ip.hits > 0
      <3>1. login'[r] = x /\ \A q \in Readers \ {r} : login'[q] = login[q]
        BY <1>0, <2>2
      <3>2. LoginTyped'
        BY <1>0, <2>2, <3>1 DEF CounterInv, LoginTyped, LoginRecord
      <3>3. CounterExpires'
        <4>1. ip'.expires = ip.expires /\ leaked' = leaked /\ login[r].step # "expire"
          BY <1>8, <2>3 DEF Incr, At
        <4>2. ip.expires \/ leaked \/ \E q \in Readers \ {r} : login[q].step = "expire"
          BY <2>5, <4>1 DEF CounterInv, CounterExpires, At
        <4> QED
          BY <3>1, <4>1, <4>2 DEF CounterExpires, At
      <3> QED
        BY <1>0, <2>3, <3>2, <3>3 DEF CounterInv
    <2> QED
      BY <1>0, <2>4, <2>5
  <1>9. CASE Expire(r)
    <2>1. PICK x : x = [login[r] EXCEPT !.step = "judge"]
      OBVIOUS
    <2>2. login' = [login EXCEPT ![r] = x] /\ LoginRecord(x)
      BY <1>0, <1>9, <2>1 DEF Expire, Goes, LoginRecord
    <2>3. ip' = [hits |-> ip.hits, expires |-> ip.hits > 0, ban |-> ip.ban]
      BY <1>0, <1>9 DEF Expire
    <2> QED
      BY <1>0, <2>2, <2>3, CounterIsSafe
  <1>10. CASE Block(r)
    <2>1. CASE Answer(r) = NotANumber
      BY <1>2, <1>10, <2>1 DEF Block, Ends, At
    <2>2. CASE Answer(r) # NotANumber
      <3>1. PICK x : x = [login[r] EXCEPT !.step = "clear"]
        OBVIOUS
      <3>2. login' = [login EXCEPT ![r] = x] /\ LoginRecord(x)
        BY <1>0, <1>10, <2>2, <3>1 DEF Block, Goes, LoginRecord
      <3>3. PICK ban : ip' = [hits |-> ip.hits, expires |-> ip.expires, ban |-> ban]
        BY <1>0, <1>10, <2>2 DEF Block
      <3>4. login'[r] = x /\ \A q \in Readers \ {r} : login'[q] = login[q]
        BY <1>0, <3>2
      <3>5. LoginTyped'
        BY <1>0, <3>2, <3>4 DEF CounterInv, LoginTyped, LoginRecord
      <3>6. CounterExpires'
        BY <1>10, <3>3, <3>4 DEF CounterInv, CounterExpires, At, Block
      <3> QED
        BY <1>0, <3>3, <3>5, <3>6 DEF CounterInv
    <2> QED
      BY <2>1, <2>2
  <1>11. CASE ClearsCounter(r)
    <2>1. ip' = [hits |-> 0, expires |-> FALSE, ban |-> ip.ban] /\ login' = [login EXCEPT ![r] = Idle]
      BY <1>0, <1>11 DEF ClearsCounter, Ends
    <2>2. LoginRecord(Idle)
      BY DEF Idle, LoginRecord
    <2>3. /\ ip' = [hits |-> ip'.hits, expires |-> ip'.expires, ban |-> ip'.ban]
          /\ ip'.hits \in Nat /\ ~(ip'.hits > 0)
      BY <2>1
    <2> QED
      BY <2>1, <2>2, <2>3, CounterIsSafe
  <1>12. CASE LoginDies(r)
    <2>1. CASE login[r].step # "expire"
      <3>1. (leaked => leaked') /\ UNCHANGED ip /\ login' = [login EXCEPT ![r] = Idle]
        BY <1>12 DEF LoginDies, Ends
      <3>2. LoginRecord(Idle)
        BY DEF Idle, LoginRecord
      <3> QED
        BY <2>1, <3>1, <3>2, CounterStays
    <2>2. CASE login[r].step = "expire"
      <3>1. leaked' /\ UNCHANGED ip /\ login' = [login EXCEPT ![r] = Idle]
        BY <1>12, <2>2 DEF LoginDies, Ends
      <3>2. LoginRecord(Idle)
        BY DEF Idle, LoginRecord
      <3> QED
        BY <1>0, <3>1, <3>2, CounterIsSafe
    <2> QED
      BY <2>1, <2>2
  <1> QED
    BY <1>3, <1>4, <1>5, <1>6, <1>7, <1>8, <1>9, <1>10, <1>11, <1>12 DEF LoginStep

LEMMA CounterInvHolds == Spec => []CounterInv
  <1>1. Init => CounterInv
    BY DEF Init, CounterInv, LoginTyped, LoginRecord, Idle, CounterExpires
  <1>2. CounterInv /\ [Next]_vars => CounterInv'
    <2> SUFFICES ASSUME CounterInv, [Next]_vars PROVE CounterInv'
      OBVIOUS
    <2>1. CASE UNCHANGED <<login, ip, leaked>>
      BY <2>1 DEF CounterInv, LoginTyped, CounterExpires, At
    <2>2. CASE WindowEnds
      <3>1. ip' = [hits |-> 0, expires |-> FALSE, ban |-> ip.ban] /\ UNCHANGED <<login, leaked>>
        BY <2>2 DEF WindowEnds, CounterInv
      <3> QED
        BY <3>1 DEF CounterInv, LoginTyped, CounterExpires
    <2>3. CASE BanEnds
      <3>1. ip' = [hits |-> ip.hits, expires |-> ip.expires, ban |-> "none"] /\ UNCHANGED <<login, leaked>>
        BY <2>3 DEF BanEnds, CounterInv
      <3> QED
        BY <3>1 DEF CounterInv, LoginTyped, CounterExpires, At
    <2>4. ASSUME NEW r \in Readers, LoginStep(r) PROVE CounterInv'
      BY <2>4, CounterSteps
    <2> QED
      BY <2>1, <2>2, <2>3, <2>4 DEF Next, LockExpires, AccountStep, UpdateReads, UpdateSaves, vars, guardVars
  <1> QED
    BY <1>1, <1>2, PTL DEF Spec

\* A counter of an IP address has a TTL, or the login that created it is about to set it or has
\* died before it did: no DEL and INCR of other logins in between leaves a counter that stays
\* (IpBlacklistService.recordSuspiciousActivity).
THEOREM CounterHasItsTime == Spec => []CounterExpires
  BY CounterInvHolds, PTL DEF CounterInv

(***************************************************************************)
(* The lock of an account whose counter is full.                           *)
(***************************************************************************)

\* A snapshot of a row that was there has a value that an administrator has written.
Honest(snapshot) == snapshot.negative \/ snapshot.value \in Values

ValuesTyped ==
    /\ row \in [Edited -> ConfigRow]
    /\ \A k \in Edited : cache[k] # NoEntry => Honest(cache[k].kept)
    /\ \A e \in Editors : edit[e].step = "found" => edit[e].value \in Values /\ edit[e].enabled \in BOOLEAN
    /\ \A r \in Readers : reading[r].step = "loaded" => Honest(reading[r].seen)

MaxFailedValues == Values \cup {Default[LoginMaxFailed]}

\* A login that asks for the threshold will be told one that the key can have.
AsksMaxFailed(x) ==
    \/ x.step \in {"asked", "missed", "loaded"} /\ x.key = LoginMaxFailed
    \/ x.step = "resolved" /\ x.value \in MaxFailedValues

ValuesInv == ConfigInv /\ ValuesTyped

LEMMA SnapshotHonest == ASSUME NEW config \in ConfigRow PROVE Honest(Snapshot(config))
  BY DEF ConfigRow, Snapshot, Honest

LEMMA ResolveHonest ==
    ASSUME NEW seen, Honest(seen) PROVE Resolve(LoginMaxFailed, seen) \in MaxFailedValues
  BY DEF Resolve, Honest, MaxFailedValues

\* Reading keeps to the key that was asked for, and to values that are there.
LEMMA ReaderValues ==
    ASSUME ValuesInv, NEW r \in Readers, ReaderStep(r)
    PROVE  /\ ValuesTyped'
           /\ \A q \in Readers : AsksMaxFailed(reading[q]) => AsksMaxFailed(reading'[q])
  <1>0. /\ ReaderTyped(reading[r]) /\ reading = [q \in Readers |-> reading[q]] /\ ValuesTyped
        /\ cache = [k \in Edited |-> cache[k]]
    BY DEF ValuesInv, ConfigInv, ConfigTyped
  <1>1. ASSUME NEW x, reading' = [reading EXCEPT ![r] = x], UNCHANGED <<row, cache, edit>>,
               x.step = "loaded" => Honest(x.seen),
               AsksMaxFailed(reading[r]) => AsksMaxFailed(x)
        PROVE  /\ ValuesTyped'
               /\ \A q \in Readers : AsksMaxFailed(reading[q]) => AsksMaxFailed(reading'[q])
    <2>1. reading'[r] = x /\ \A q \in Readers \ {r} : reading'[q] = reading[q]
      BY <1>0, <1>1
    <2>2. ValuesTyped'
      BY <1>0, <1>1, <2>1 DEF ValuesTyped, Honest, NoEntry
    <2> QED
      BY <1>1, <2>1, <2>2
  <1>2. CASE ReaderHits(r)
    <2>1. PICK x : x = [step |-> "resolved", value |-> Resolve(reading[r].key, cache[reading[r].key].kept)]
      OBVIOUS
    <2>2. reading[r].key \in Edited /\ cache[reading[r].key] # NoEntry /\ reading[r].step = "asked"
      BY <1>0, <1>2 DEF ReaderHits, ReaderTyped
    <2>3. Honest(cache[reading[r].key].kept)
      BY <1>0, <2>2 DEF ValuesTyped
    <2>4. AsksMaxFailed(reading[r]) => AsksMaxFailed(x)
      BY <2>1, <2>2, <2>3, ResolveHonest DEF AsksMaxFailed
    <2> QED
      BY <1>1, <1>2, <2>1, <2>4 DEF ReaderHits
  <1>3. CASE ReaderMisses(r)
    <2>1. PICK x : x = [step |-> "missed", key |-> reading[r].key]
      OBVIOUS
    <2>2. AsksMaxFailed(reading[r]) => AsksMaxFailed(x)
      BY <1>3, <2>1 DEF ReaderMisses, AsksMaxFailed
    <2> QED
      BY <1>1, <1>3, <2>1, <2>2 DEF ReaderMisses
  <1>4. CASE ReaderFallsBack(r)
    <2>1. PICK x : x = [step |-> "resolved", value |-> Default[reading[r].key]]
      OBVIOUS
    <2>2. AsksMaxFailed(reading[r]) => AsksMaxFailed(x)
      BY <1>4, <2>1 DEF ReaderFallsBack, AsksMaxFailed, MaxFailedValues
    <2> QED
      BY <1>1, <1>4, <2>1, <2>2 DEF ReaderFallsBack
  <1>5. CASE ReaderLoads(r)
    <2>1. PICK x : x = [step |-> "loaded", key |-> reading[r].key, seen |-> Snapshot(row[reading[r].key]),
                        overtaken |-> FALSE]
      OBVIOUS
    <2>2. reading[r].key \in Edited /\ reading[r].step = "missed"
      BY <1>0, <1>5 DEF ReaderLoads, ReaderTyped
    <2>3. Honest(x.seen)
      BY <1>0, <2>1, <2>2, SnapshotHonest DEF ValuesTyped
    <2>4. AsksMaxFailed(reading[r]) => AsksMaxFailed(x)
      BY <2>1, <2>2 DEF AsksMaxFailed
    <2> QED
      BY <1>1, <1>5, <2>1, <2>3, <2>4 DEF ReaderLoads
  <1>6. CASE ReaderStores(r)
    <2>1. PICK k, seen, x : k = reading[r].key /\ seen = reading[r].seen
                            /\ x = [step |-> "resolved", value |-> Resolve(k, seen)]
      OBVIOUS
    <2>2. k \in Edited /\ reading[r].step = "loaded" /\ Honest(seen)
      BY <1>0, <1>6, <2>1 DEF ReaderStores, ReaderTyped, ValuesTyped
    <2>3. AsksMaxFailed(reading[r]) => AsksMaxFailed(x)
      BY <2>1, <2>2, ResolveHonest DEF AsksMaxFailed
    <2>4. reading' = [reading EXCEPT ![r] = x] /\ UNCHANGED <<row, edit>>
      BY <1>6, <2>1 DEF ReaderStores
    <2>5. reading'[r] = x /\ \A q \in Readers \ {r} : reading'[q] = reading[q]
      BY <1>0, <2>4
    <2>6. \A j \in Edited : cache'[j] = cache[j] \/ cache'[j] = [kept |-> seen]
      BY <1>0, <1>6, <2>1 DEF ReaderStores
    <2>7. \A j \in Edited : cache'[j] # NoEntry => Honest(cache'[j].kept)
      BY <1>0, <2>2, <2>6 DEF ValuesTyped
    <2>8. \A q \in Readers : reading'[q].step = "loaded" => Honest(reading'[q].seen)
      BY <1>0, <2>1, <2>5 DEF ValuesTyped
    <2>9. ValuesTyped'
      BY <1>0, <2>4, <2>7, <2>8 DEF ValuesTyped, Honest, NoEntry
    <2> QED
      BY <2>3, <2>5, <2>9
  <1> QED
    BY <1>2, <1>3, <1>4, <1>5, <1>6 DEF ReaderStep

LEMMA EditorValues ==
    ASSUME ValuesInv, NEW e \in Editors, EditorStep(e)
    PROVE  /\ ValuesTyped'
           /\ \A q \in Readers : AsksMaxFailed(reading[q]) => AsksMaxFailed(reading'[q])
  <1>0. /\ EditorTyped(edit[e]) /\ edit = [d \in Editors |-> edit[d]] /\ ValuesTyped
        /\ cache = [k \in Edited |-> cache[k]]
    BY DEF ValuesInv, ConfigInv, ConfigTyped
  <1>1. ASSUME UNCHANGED <<cache, reading>>, NEW x, edit' = [edit EXCEPT ![e] = x],
               x.step = "found" => x.value \in Values /\ x.enabled \in BOOLEAN,
               row' \in [Edited -> ConfigRow]
        PROVE  ValuesTyped' /\ reading' = reading
    <2>1. edit'[e] = x /\ \A d \in Editors \ {e} : edit'[d] = edit[d]
      BY <1>0, <1>1
    <2> QED
      BY <1>0, <1>1, <2>1 DEF ValuesTyped, Honest, NoEntry
  <1>2. ASSUME NEW k \in Edited, reading' = Overtaken(k), UNCHANGED row,
               edit' = [edit EXCEPT ![e] = NoEdit],
               cache' = cache \/ cache' = [cache EXCEPT ![k] = NoEntry]
        PROVE  /\ ValuesTyped'
               /\ \A q \in Readers : AsksMaxFailed(reading[q]) => AsksMaxFailed(reading'[q])
    <2>1. ASSUME NEW q \in Readers
          PROVE  \/ reading'[q] = reading[q]
                 \/ /\ reading[q].step = "loaded" /\ reading[q].key = k
                    /\ reading'[q].step = "loaded" /\ reading'[q].key = k /\ reading'[q].seen = reading[q].seen
      <3>1. ReaderTyped(reading[q])
        BY DEF ValuesInv, ConfigInv, ConfigTyped
      <3> QED
        BY <1>2, <3>1 DEF Overtaken, ReaderTyped
    <2>2. ASSUME NEW q \in Readers, reading'[q].step = "loaded" PROVE Honest(reading'[q].seen)
      BY <1>0, <2>1, <2>2 DEF ValuesTyped
    <2>3. ASSUME NEW q \in Readers, AsksMaxFailed(reading[q]) PROVE AsksMaxFailed(reading'[q])
      BY <2>1, <2>3 DEF AsksMaxFailed
    <2>4. \A j \in Edited : cache'[j] # NoEntry => Honest(cache'[j].kept)
      BY <1>0, <1>2 DEF ValuesTyped
    <2>5. \A d \in Editors : edit'[d].step = "found" => edit'[d].value \in Values /\ edit'[d].enabled \in BOOLEAN
      BY <1>0, <1>2 DEF ValuesTyped, NoEdit
    <2>6. ValuesTyped'
      BY <1>0, <1>2, <2>2, <2>4, <2>5 DEF ValuesTyped, Honest, NoEntry
    <2> QED
      BY <2>3, <2>6
  <1>3. ASSUME NEW k \in Edited, NEW v \in Values, NEW enabled \in {"keep", "on", "off"},
               SetReads(e, k, v, enabled)
        PROVE  ValuesTyped' /\ reading' = reading
    <2>1. PICK x : x = edit'[e]
      OBVIOUS
    <2>2. row[k].enabled \in BOOLEAN
      BY <1>0 DEF ValuesTyped, ConfigRow
    <2>3. x.value = v /\ x.enabled \in BOOLEAN /\ edit' = [edit EXCEPT ![e] = x]
      BY <1>0, <1>3, <2>1, <2>2 DEF SetReads
    <2>4. UNCHANGED <<row, cache, reading>> /\ row \in [Edited -> ConfigRow]
      BY <1>0, <1>3 DEF SetReads, ValuesTyped
    <2> QED
      BY <1>1, <2>3, <2>4
  <1>4. CASE SetSaves(e)
    <2>1. PICK k \in Edited : k = edit[e].key
      BY <1>0, <1>4 DEF SetSaves, EditorTyped
    <2>2. PICK x : x = edit'[e]
      OBVIOUS
    <2>3. x.step # "found" /\ edit' = [edit EXCEPT ![e] = x] /\ UNCHANGED <<cache, reading>>
      BY <1>0, <1>4, <2>1, <2>2 DEF SetSaves, NoEdit
    <2>4. [state |-> "present", value |-> edit[e].value, enabled |-> edit[e].enabled] \in ConfigRow
      BY <1>0, <1>4 DEF SetSaves, ValuesTyped, ConfigRow, RowStates
    <2>5. row' \in [Edited -> ConfigRow]
      BY <1>0, <1>4, <2>1, <2>4 DEF SetSaves, ValuesTyped
    <2> QED
      BY <1>1, <2>3, <2>5
  <1>5. ASSUME NEW k \in Edited, SoftDeletes(e, k) PROVE ValuesTyped' /\ reading' = reading
    <2>1. PICK x : x = [step |-> "written", key |-> k]
      OBVIOUS
    <2>2. [row[k] EXCEPT !.state = "deleted"] \in ConfigRow
      BY <1>0 DEF ValuesTyped, ConfigRow, RowStates
    <2>3. row' \in [Edited -> ConfigRow]
      BY <1>0, <1>5, <2>2 DEF SoftDeletes, ValuesTyped
    <2> QED
      BY <1>1, <1>5, <2>1, <2>3 DEF SoftDeletes
  <1>6. CASE Invalidate(e) \/ InvalidateFails(e)
    <2>1. PICK k \in Edited : k = edit[e].key
      BY <1>0, <1>6 DEF Invalidate, InvalidateFails, EditorTyped
    <2> QED
      BY <1>2, <1>6, <2>1 DEF Invalidate, InvalidateFails
  <1> QED
    BY <1>3, <1>4, <1>5, <1>6 DEF EditorStep

\* Asking for another key, or giving an answer back, changes nothing of this.
LEMMA QuietValues ==
    ASSUME ValuesInv, NEW r \in Readers, NEW x, reading' = [reading EXCEPT ![r] = x],
           x.step # "loaded", UNCHANGED <<row, cache, edit>>
    PROVE  ValuesTyped' /\ reading'[r] = x /\ \A q \in Readers \ {r} : reading'[q] = reading[q]
  <1>1. reading'[r] = x /\ \A q \in Readers \ {r} : reading'[q] = reading[q]
    BY DEF ValuesInv, ConfigInv, ConfigTyped
  <1> QED
    BY <1>1 DEF ValuesInv, ValuesTyped, Honest, NoEntry

-----------------------------------------------------------------------------
LEMMA LargestIsLargest ==
    Largest \in Nat /\ Largest > 0 /\ \A v \in Thresholds : v \in Nat /\ v <= Largest
  <1>1. LoginMaxFailed \in Keys /\ Default[LoginMaxFailed] \in Nat
    BY LoginAssumption
  <1>2. \A v \in Thresholds : v \in Nat
    BY <1>1, LoginAssumption DEF Thresholds
  <1>3. PICK m \in Thresholds : m > 0 /\ \A v \in Thresholds : v <= m
    BY ThresholdAssumption
  <1>4. Largest \in Thresholds /\ \A w \in Thresholds : w <= Largest
    BY <1>3 DEF Largest
  <1> QED
    BY <1>2, <1>3, <1>4

\* Reachable counts, and what the locals of a login and of an update are.
LockTyped ==
    /\ LoginTyped
    /\ account = [failed |-> account.failed, locked |-> account.locked, active |-> account.active]
    /\ account.failed \in Nat
    /\ lapsed \in BOOLEAN
    /\ stale.step = "read" => stale.failed \in Nat
    /\ \A r \in Readers : login[r].step \in {"threshold", "lock"} => login[r].count \in Nat
    /\ \A r \in Readers : login[r].step = "threshold" => AsksMaxFailed(reading[r])

LockInv == ValuesInv /\ LockTyped /\ FullCounterLocks

\* One login that will lock the account.
WillLock(x) == x.step = "counted" \/ (x.step \in {"threshold", "lock"} /\ x.count >= Largest)

LEMMA FullCounterRestated ==
    FullCounterLocks <=>
        (account.failed >= Largest => account.locked \/ lapsed \/ \E r \in Readers : WillLock(login[r]))
  BY DEF FullCounterLocks, WillLock, At

\* A step of a login that leaves account and configuration alone, and was not on its way to the lock.
LEMMA LockStays ==
    ASSUME LockInv, NEW r \in Readers, NEW x, login' = [login EXCEPT ![r] = x], LoginRecord(x),
           x.step \notin {"threshold", "lock"}, ~WillLock(login[r]) \/ lapsed',
           lapsed => lapsed', lapsed' \in BOOLEAN,
           UNCHANGED <<account, stale>>,
           \A q \in Readers \ {r} : AsksMaxFailed(reading[q]) => AsksMaxFailed(reading'[q])
    PROVE  LockTyped' /\ FullCounterLocks'
  <1>1. login'[r] = x /\ \A q \in Readers \ {r} : login'[q] = login[q]
    BY DEF LockInv, LockTyped, LoginTyped
  <1>2. LoginTyped'
    BY <1>1 DEF LockInv, LockTyped, LoginTyped, LoginRecord
  <1>3. \A q \in Readers : login'[q].step \in {"threshold", "lock"} => login'[q].count \in Nat
    BY <1>1 DEF LockInv, LockTyped
  <1>4. \A q \in Readers : login'[q].step = "threshold" => AsksMaxFailed(reading'[q])
    BY <1>1 DEF LockInv, LockTyped
  <1>5. LockTyped'
    BY <1>2, <1>3, <1>4 DEF LockInv, LockTyped, AsksMaxFailed
  <1>6. account.failed >= Largest => account.locked \/ lapsed' \/ \E q \in Readers : WillLock(login'[q])
    BY <1>1, FullCounterRestated DEF LockInv
  <1>7. FullCounterLocks'
    BY <1>6 DEF FullCounterLocks, WillLock, At, Largest, Thresholds
  <1> QED
    BY <1>5, <1>7

LEMMA LoginReads ==
    ASSUME ValuesInv, NEW r \in Readers, LoginStep(r)
    PROVE  ValuesInv' /\ \A q \in Readers \ {r} : reading'[q] = reading[q]
  <1>1. ConfigInv'
    BY LoginAsks DEF ValuesInv
  <1>2. CASE UNCHANGED configVars
    BY <1>1, <1>2 DEF ValuesInv, ValuesTyped, Honest, NoEntry, configVars
  <1>3. CASE AnswerTaken(r) /\ UNCHANGED <<row, cache, edit, suspect>>
    <2>1. PICK x : x = NoReading
      OBVIOUS
    <2>2. reading' = [reading EXCEPT ![r] = x] /\ x.step # "loaded" /\ UNCHANGED <<row, cache, edit>>
      BY <1>3, <2>1 DEF AnswerTaken, NoReading
    <2>3. ValuesTyped' /\ \A q \in Readers \ {r} : reading'[q] = reading[q]
      BY <2>2, QuietValues
    <2> QED
      BY <1>1, <2>3 DEF ValuesInv
  <1>4. ASSUME NEW k, Ask(r, k), UNCHANGED <<row, cache, edit, suspect>>
        PROVE  ValuesInv' /\ \A q \in Readers \ {r} : reading'[q] = reading[q]
    <2>1. PICK x : x = IF k \in Edited THEN [step |-> "asked", key |-> k]
                                       ELSE [step |-> "resolved", value |-> Default[k]]
      OBVIOUS
    <2>2. reading' = [reading EXCEPT ![r] = x] /\ x.step # "loaded" /\ UNCHANGED <<row, cache, edit>>
      BY <1>4, <2>1 DEF Ask
    <2>3. ValuesTyped' /\ \A q \in Readers \ {r} : reading'[q] = reading[q]
      BY <2>2, QuietValues
    <2> QED
      BY <1>1, <2>3 DEF ValuesInv
  <1> QED
    BY <1>2, <1>3, <1>4
    DEF LoginStep, PassesIpGate, Resolves, FailsPassword, ReadsCount, Compares, LockUser, Succeeds,
        ResetFailedLogin, AsksIpThreshold, AsksBanSeconds, Incr, Expire, StaysBelow, Block,
        ClearsCounter, LoginDies

\* What is left to show of a step that changes the account or counts towards its lock.
LEMMA LockKept ==
    ASSUME LockInv, NEW r \in Readers, NEW x, login' = [login EXCEPT ![r] = x], LoginRecord(x),
           x.step \in {"threshold", "lock"} => x.count \in Nat,
           x.step = "threshold" => AsksMaxFailed(reading'[r]),
           lapsed' \in BOOLEAN, UNCHANGED stale,
           account' = [failed |-> account'.failed, locked |-> account'.locked, active |-> account'.active],
           account'.failed \in Nat,
           account'.failed >= Largest =>
               account'.locked \/ lapsed' \/ WillLock(x) \/ \E q \in Readers \ {r} : WillLock(login[q]),
           \A q \in Readers \ {r} : reading'[q] = reading[q]
    PROVE  LockTyped' /\ FullCounterLocks'
  <1>1. login'[r] = x /\ \A q \in Readers \ {r} : login'[q] = login[q]
    BY DEF LockInv, LockTyped, LoginTyped
  <1>2. LoginTyped'
    BY <1>1 DEF LockInv, LockTyped, LoginTyped, LoginRecord
  <1>3. \A q \in Readers : login'[q].step \in {"threshold", "lock"} => login'[q].count \in Nat
    BY <1>1 DEF LockInv, LockTyped
  <1>4. \A q \in Readers : login'[q].step = "threshold" => AsksMaxFailed(reading'[q])
    BY <1>1 DEF LockInv, LockTyped
  <1>5. LockTyped'
    BY <1>2, <1>3, <1>4 DEF LockInv, LockTyped, AsksMaxFailed
  <1>6. account'.failed >= Largest => account'.locked \/ lapsed' \/ \E q \in Readers : WillLock(login'[q])
    BY <1>1
  <1>7. FullCounterLocks'
    BY <1>6 DEF FullCounterLocks, WillLock, At, Largest, Thresholds
  <1> QED
    BY <1>5, <1>7

LEMMA LockSteps == ASSUME LockInv, NEW r \in Readers, LoginStep(r) PROVE LockInv'
  <1> SUFFICES LockTyped' /\ FullCounterLocks'
    BY LoginReads DEF LockInv
  <1>0. /\ LoginRecord(login[r]) /\ login = [q \in Readers |-> login[q]] /\ lapsed \in BOOLEAN
        /\ account = [failed |-> account.failed, locked |-> account.locked, active |-> account.active]
        /\ account.failed \in Nat
        /\ login[r].step \in {"threshold", "lock"} => login[r].count \in Nat
        /\ login[r].step = "threshold" => AsksMaxFailed(reading[r])
        /\ \A q \in Readers \ {r} : reading'[q] = reading[q]
    BY LoginReads DEF LockInv, LockTyped, LoginTyped
  <1>00. /\ Largest \in Nat /\ Largest > 0 /\ \A v \in Thresholds : v \in Nat /\ v <= Largest
    BY LargestIsLargest
  <1>1. ASSUME NEW x, login' = [login EXCEPT ![r] = x], LoginRecord(x), x.step \notin {"threshold", "lock"},
               login[r].step \notin {"counted", "threshold", "lock"} \/ lapsed' = TRUE,
               lapsed => lapsed', lapsed' \in BOOLEAN, UNCHANGED <<account, stale>>
        PROVE  LockTyped' /\ FullCounterLocks'
    <2>1. ~WillLock(login[r]) \/ lapsed'
      BY <1>1 DEF WillLock
    <2>2. \A q \in Readers \ {r} : AsksMaxFailed(reading[q]) => AsksMaxFailed(reading'[q])
      BY <1>0
    <2> QED
      BY <1>1, <2>1, <2>2, LockStays
  <1>2. ASSUME NEW step, Goes(r, step), step \notin {"threshold", "lock"},
               login[r].step \notin {"counted", "threshold", "lock"}, UNCHANGED <<account, lapsed, stale>>
        PROVE  LockTyped' /\ FullCounterLocks'
    <2>1. PICK x : x = [login[r] EXCEPT !.step = step]
      OBVIOUS
    <2>2. login' = [login EXCEPT ![r] = x] /\ LoginRecord(x) /\ x.step = step
      BY <1>0, <1>2, <2>1 DEF Goes, LoginRecord
    <2> QED
      BY <1>0, <1>1, <1>2, <2>2
  <1>3. CASE \/ PassesIpGate(r) \/ \E known \in BOOLEAN : Resolves(r, known)
             \/ Succeeds(r) \/ AsksIpThreshold(r) \/ Expire(r)
    BY <1>2, <1>3 DEF PassesIpGate, Resolves, Succeeds, AsksIpThreshold, Expire, At
  <1>4. CASE StaysBelow(r) \/ ClearsCounter(r)
    <2>1. LoginRecord(Idle) /\ Idle.step = "idle"
      BY DEF LoginRecord, Idle
    <2> QED
      BY <1>0, <1>1, <1>4, <2>1 DEF StaysBelow, ClearsCounter, Ends, At
  <1>5. CASE Block(r)
    <2>1. LoginRecord(Idle) /\ Idle.step = "idle"
      BY DEF LoginRecord, Idle
    <2>2. CASE Answer(r) = NotANumber
      BY <1>0, <1>1, <1>5, <2>1, <2>2 DEF Block, Ends, At
    <2>3. CASE Answer(r) # NotANumber
      BY <1>2, <1>5, <2>3 DEF Block, At
    <2> QED
      BY <2>2, <2>3
  <1>6. CASE AsksBanSeconds(r)
    <2>1. PICK x : x = [login[r] EXCEPT !.step = "banSeconds", !.threshold = Answer(r)]
      OBVIOUS
    <2>2. login' = [login EXCEPT ![r] = x] /\ LoginRecord(x) /\ x.step = "banSeconds"
      BY <1>0, <1>6, <2>1 DEF AsksBanSeconds, LoginRecord
    <2> QED
      BY <1>0, <1>1, <1>6, <2>2 DEF AsksBanSeconds, At
  <1>7. CASE Incr(r)
    <2>1. PICK x : x = [login[r] EXCEPT !.count = ip.hits + 1, !.step = IF ip.hits = 0 THEN "expire" ELSE "judge"]
      OBVIOUS
    <2>2. login' = [login EXCEPT ![r] = x] /\ LoginRecord(x) /\ x.step \in {"expire", "judge"}
      BY <1>0, <1>7, <2>1 DEF Incr, LoginRecord
    <2> QED
      BY <1>0, <1>1, <1>7, <2>2 DEF Incr, At
  <1>8. CASE LoginDies(r)
    <2>1. LoginRecord(Idle) /\ Idle.step = "idle"
      BY DEF LoginRecord, Idle
    <2>2. /\ login' = [login EXCEPT ![r] = Idle] /\ UNCHANGED <<account, stale>>
          /\ lapsed' = (lapsed \/ login[r].step \in {"counted", "threshold", "lock"})
      BY <1>8 DEF LoginDies, Ends
    <2>3. /\ lapsed' \in BOOLEAN /\ (lapsed => lapsed')
          /\ login[r].step \notin {"counted", "threshold", "lock"} \/ lapsed' = TRUE
      BY <1>0, <2>2
    <2> QED
      BY <1>1, <2>1, <2>2, <2>3
  <1>9. CASE FailsPassword(r)
    <2>1. PICK x : x = [login[r] EXCEPT !.step = "counted"]
      OBVIOUS
    <2>2. login' = [login EXCEPT ![r] = x] /\ LoginRecord(x) /\ x.step = "counted"
      BY <1>0, <1>9, <2>1 DEF FailsPassword, Goes, LoginRecord
    <2>3. /\ account' = [failed |-> account.failed + 1, locked |-> account.locked, active |-> account.active]
          /\ UNCHANGED <<lapsed, stale>>
      BY <1>0, <1>9 DEF FailsPassword
    <2>4. WillLock(x)
      BY <2>2 DEF WillLock
    <2> QED
      BY <1>0, <2>2, <2>3, <2>4, LockKept
  <1>10. CASE ReadsCount(r)
    <2>1. PICK x : x = [login[r] EXCEPT !.step = "threshold", !.count = account.failed]
      OBVIOUS
    <2>2. login' = [login EXCEPT ![r] = x] /\ LoginRecord(x) /\ x.step = "threshold" /\ x.count = account.failed
      BY <1>0, <1>10, <2>1 DEF ReadsCount, LoginRecord
    <2>3. AsksMaxFailed(reading'[r])
      <3>1. reading = [q \in Readers |-> reading[q]]
        BY DEF LockInv, ValuesInv, ConfigInv, ConfigTyped
      <3> QED
        BY <1>10, <3>1 DEF ReadsCount, Ask, AsksMaxFailed, MaxFailedValues
    <2>4. UNCHANGED <<account, lapsed, stale>>
      BY <1>10 DEF ReadsCount
    <2>5. account.failed >= Largest => WillLock(x)
      BY <2>2 DEF WillLock
    <2> QED
      BY <1>0, <2>2, <2>3, <2>4, <2>5, LockKept
  <1>11. CASE Compares(r)
    <2>0. /\ login[r].step = "threshold" /\ reading[r].step = "resolved" /\ UNCHANGED <<account, stale>>
          /\ lapsed' = (lapsed \/ Answer(r) = NotANumber)
          /\ login' = [login EXCEPT ![r] =
                 IF Reaches(login[r].count, Answer(r)) THEN [login[r] EXCEPT !.step = "lock"] ELSE Failed]
      BY <1>0, <1>11 DEF Compares, At, Answered
    <2>1. Answer(r) = NotANumber \/ (Answer(r) \in Nat /\ Answer(r) <= Largest)
      BY <1>0, <1>00, <2>0 DEF AsksMaxFailed, MaxFailedValues, Answer, Thresholds
    <2>2. LoginRecord(Failed) /\ Failed.step = "record"
      BY DEF LoginRecord, Failed, Idle
    <2>3. CASE Reaches(login[r].count, Answer(r))
      <3>1. PICK x : x = [login[r] EXCEPT !.step = "lock"]
        OBVIOUS
      <3>2. login' = [login EXCEPT ![r] = x] /\ LoginRecord(x) /\ x.step = "lock" /\ x.count = login[r].count
        BY <1>0, <2>0, <2>3, <3>1 DEF LoginRecord
      <3>3. lapsed' = lapsed
        BY <1>0, <2>0, <2>3 DEF Reaches
      <3>4. ASSUME account.failed >= Largest
            PROVE  account.locked \/ lapsed \/ WillLock(x) \/ \E q \in Readers \ {r} : WillLock(login[q])
        BY <2>0, <3>2, <3>4, FullCounterRestated DEF LockInv, WillLock
      <3> QED
        BY <1>0, <2>0, <3>2, <3>3, <3>4, LockKept
    <2>4. CASE Answer(r) = NotANumber
      <3>1. lapsed' = TRUE /\ login' = [login EXCEPT ![r] = Failed]
        BY <2>0, <2>4 DEF Reaches
      <3> QED
        BY <1>1, <2>0, <2>2, <3>1
    <2>5. CASE Answer(r) # NotANumber /\ ~Reaches(login[r].count, Answer(r))
      <3>1. lapsed' = lapsed /\ login' = [login EXCEPT ![r] = Failed]
        BY <1>0, <2>0, <2>5
      <3>2. ~(login[r].count >= Largest)
        BY <1>0, <1>00, <2>0, <2>1, <2>5 DEF Reaches
      <3>3. ~WillLock(login[r])
        BY <2>0, <3>2 DEF WillLock
      <3>4. \A q \in Readers \ {r} : AsksMaxFailed(reading[q]) => AsksMaxFailed(reading'[q])
        BY <1>0
      <3> QED
        BY <1>0, <2>0, <2>2, <3>1, <3>3, <3>4, LockStays
    <2> QED
      BY <2>3, <2>4, <2>5
  <1>12. CASE LockUser(r)
    <2>1. /\ account' = [failed |-> account.failed, locked |-> TRUE, active |-> account.active]
          /\ lapsed' = FALSE /\ UNCHANGED stale /\ login' = [login EXCEPT ![r] = Failed]
      BY <1>0, <1>12 DEF LockUser
    <2>2. LoginRecord(Failed) /\ Failed.step = "record"
      BY DEF LoginRecord, Failed, Idle
    <2> QED
      BY <1>0, <2>1, <2>2, LockKept
  <1>13. CASE ResetFailedLogin(r)
    <2>1. /\ account' = [failed |-> 0, locked |-> FALSE, active |-> account.active]
          /\ lapsed' = FALSE /\ UNCHANGED stale /\ login' = [login EXCEPT ![r] = Idle]
      BY <1>0, <1>13 DEF ResetFailedLogin, Ends
    <2>2. LoginRecord(Idle) /\ Idle.step = "idle"
      BY DEF LoginRecord, Idle
    <2>3. ~(account'.failed >= Largest) /\ account'.failed \in Nat
      BY <1>00, <2>1
    <2> QED
      BY <1>0, <2>1, <2>2, <2>3, LockKept
  <1> QED
    BY <1>3, <1>4, <1>5, <1>6, <1>7, <1>8, <1>9, <1>10, <1>11, <1>12, <1>13 DEF LoginStep

LEMMA LockInvHolds == Spec => []LockInv
  <1>1. Init => LockInv
    <2> SUFFICES ASSUME Init PROVE LockInv
      OBVIOUS
    <2>1. ConfigInv
      <3>1. ConfigTyped
        BY DEF Init, ConfigInit, ConfigTyped, ReaderTyped, EditorTyped, NoReading, NoEdit
      <3>2. \A q \in Readers : Current(reading[q])
        BY DEF Init, ConfigInit, Current, NoReading
      <3>3. \A k \in Edited : EntryCurrent(k)
        BY DEF Init, ConfigInit, EntryCurrent
      <3> QED
        BY <3>1, <3>2, <3>3 DEF ConfigInv
    <2>2. ValuesTyped
      BY DEF Init, ConfigInit, ValuesTyped, NoReading, NoEdit
    <2>3. LockTyped
      BY DEF Init, LockTyped, LoginTyped, LoginRecord, Idle, NoUpdate
    <2>4. FullCounterLocks
      BY LargestIsLargest DEF Init, FullCounterLocks
    <2> QED
      BY <2>1, <2>2, <2>3, <2>4 DEF LockInv, ValuesInv
  <1>2. LockInv /\ [Next]_vars => LockInv'
    <2> SUFFICES ASSUME LockInv, [Next]_vars PROVE LockInv'
      OBVIOUS
    <2>1. ASSUME UNCHANGED <<login, account, lapsed, stale>>,
                 \A q \in Readers : AsksMaxFailed(reading[q]) => AsksMaxFailed(reading'[q])
          PROVE  LockTyped' /\ FullCounterLocks'
      BY <2>1 DEF LockInv, LockTyped, LoginTyped, FullCounterLocks, At, Largest, Thresholds, AsksMaxFailed
    <2>2. ASSUME UNCHANGED configVars PROVE ValuesInv' /\ reading' = reading
      BY <2>2, ConfigStays DEF LockInv, ValuesInv, ValuesTyped, Honest, NoEntry, configVars
    <2>3. ASSUME NEW r \in Readers, LoginStep(r) PROVE LockInv'
      BY <2>3, LockSteps
    <2>4. ASSUME NEW r \in Readers, ReaderStep(r), UNCHANGED guardVars PROVE LockInv'
      BY <2>1, <2>4, ReaderSteps, ReaderValues DEF LockInv, ValuesInv, guardVars
    <2>5. ASSUME NEW e \in Editors, EditorStep(e), UNCHANGED guardVars PROVE LockInv'
      BY <2>1, <2>5, EditorSteps, EditorValues DEF LockInv, ValuesInv, guardVars
    <2>6. ASSUME NEW k \in Edited, EntryExpires(k), UNCHANGED guardVars PROVE LockInv'
      <3>1. ConfigInv'
        BY <2>6, Expires DEF LockInv, ValuesInv
      <3>2. reading' = reading /\ UNCHANGED <<row, edit>>
            /\ \A j \in Edited : cache'[j] = cache[j] \/ cache'[j] = NoEntry
        BY <2>6 DEF EntryExpires, LockInv, ValuesInv, ConfigInv, ConfigTyped
      <3>3. ValuesTyped'
        BY <3>2 DEF LockInv, ValuesInv, ValuesTyped, Honest, NoEntry
      <3> QED
        BY <2>1, <2>6, <3>1, <3>2, <3>3 DEF LockInv, ValuesInv, guardVars
    <2>7. CASE WindowEnds \/ BanEnds \/ UNCHANGED vars
      BY <2>1, <2>2, <2>7 DEF WindowEnds, BanEnds, vars, guardVars, LockInv
    <2>8. CASE LockExpires
      <3>1. /\ account' = [failed |-> account.failed, locked |-> FALSE, active |-> account.active]
            /\ lapsed' = TRUE /\ UNCHANGED <<configVars, login, stale>>
        BY <2>8 DEF LockExpires, LockInv, LockTyped
      <3>2. LockTyped' /\ FullCounterLocks'
        BY <2>2, <3>1 DEF LockInv, LockTyped, LoginTyped, FullCounterLocks, AsksMaxFailed
      <3> QED
        BY <2>2, <3>1, <3>2 DEF LockInv
    <2>9. ASSUME NEW active \in BOOLEAN, UpdateReads(active) PROVE LockInv'
      <3>1. stale'.step = "read" /\ stale'.failed = account.failed
            /\ UNCHANGED <<configVars, account, lapsed, login>>
        BY <2>9 DEF UpdateReads
      <3>2. LockTyped' /\ FullCounterLocks'
        BY <2>2, <3>1 DEF LockInv, LockTyped, LoginTyped, FullCounterLocks, At, Largest, Thresholds, AsksMaxFailed
      <3> QED
        BY <2>2, <3>1, <3>2 DEF LockInv
    <2>10. CASE UpdateSaves
      <3>1. /\ account' = [failed |-> stale.failed, locked |-> stale.locked, active |-> stale.active]
            /\ stale.failed \in Nat /\ stale'.step # "read" /\ UNCHANGED <<configVars, login>>
            /\ lapsed' = (lapsed \/ account.failed # stale.failed \/ account.locked # stale.locked)
        BY <2>10 DEF UpdateSaves, LockInv, LockTyped, NoUpdate
      <3>2. LockTyped'
        BY <2>2, <3>1 DEF LockInv, LockTyped, LoginTyped, AsksMaxFailed
      <3>3. FullCounterLocks'
        <4>1. CASE account.failed # stale.failed \/ account.locked # stale.locked
          BY <3>1, <4>1 DEF FullCounterLocks
        <4>2. CASE account.failed = stale.failed /\ account.locked = stale.locked
          <5>1. account'.failed = account.failed /\ account'.locked = account.locked /\ (lapsed => lapsed')
                /\ login' = login
            BY <3>1, <4>2
          <5> QED
            BY <5>1 DEF LockInv, FullCounterLocks, At, Largest, Thresholds
        <4> QED
          BY <4>1, <4>2
      <3> QED
        BY <2>2, <3>1, <3>2, <3>3 DEF LockInv
    <2> QED
      BY <2>3, <2>4, <2>5, <2>6, <2>7, <2>8, <2>9, <2>10 DEF Next, AccountStep
  <1> QED
    BY <1>1, <1>2, PTL DEF Spec

\* An account whose counter has reached every threshold that can be configured is locked, or a
\* login on its way to lockUser has counted it, or one of the known gaps has let the lock lapse
\* (LoginService.verifyCredentials).
THEOREM FullCounterIsLocked == Spec => []FullCounterLocks
  BY LockInvHolds, PTL DEF LockInv

-------------------------------------------------------------------------------
(***************************************************************************)
(* Tokens in time.  A token is good for whole seconds, a session and a      *)
(* blacklist entry for ticks: both last at least until the tick in which    *)
(* the second begins that ends the token.                                   *)
(***************************************************************************)

HasNew(x) == x.step \in {"issue", "create", "rotate", "insert"}

\* A session that is to be inserted is nobody's yet; one that is to be revoked has been live; and
\* the row to be inserted will last as long as its refresh token.
GoodCall(x) ==
    /\ HasNew(x) => x.new \in Jtis /\ issued[x.new].state = "signed"
    /\ x.step = "validate" => x.token \in Jtis
    /\ x.step \in {"sign", "rotate", "insert", "revoke", "blacklist"} =>
        x.token \in Jtis /\ issued[x.token].state \in {"live", "revoked"}
    /\ x.step = "issue" /\ x.token # NoJti => issued[x.token].state \in {"live", "revoked"}
    /\ x.step = "blacklist" => issued[x.token].state = "revoked"
    /\ x.step = "issue" =>
        PerSecond * issued[x.new].refresh <= now + PerSecond * Lifetime[<<"refresh", x.remember>>]
    /\ x.step \in {"create", "rotate", "insert"} =>
        PerSecond * issued[x.new].refresh <= x.expiresAt

GoodTokens(j) ==
    /\ issued[j].access <= Second(now) + Lifetime[<<"access", TRUE>>] + Lifetime[<<"access", FALSE>>]
    /\ issued[j].state = "live" => PerSecond * issued[j].refresh <= issued[j].expiresAt
    /\ j \in loggedOut =>
        blacklist[j].forever \/ PerSecond * issued[j].access <= blacklist[j].until

OneCallEach ==
    \A c, d \in Calls :
        HasNew(call[c]) /\ HasNew(call[d]) /\ call[c].new = call[d].new => c = d

TokensInv ==
    /\ TokensTypeOK
    /\ loggedOut \subseteq Jtis
    /\ \A c \in Calls : GoodCall(call[c])
    /\ \A j \in Jtis : GoodTokens(j)
    /\ OneCallEach

LEMMA Scaling ==
    ASSUME NEW a \in Nat, NEW b \in Nat
    PROVE  /\ PerSecond * a \in Nat /\ a <= PerSecond * a
           /\ a <= b => PerSecond * a <= PerSecond * b
           /\ PerSecond * (a + b) = PerSecond * a + PerSecond * b
  <1> DEFINE P == PerSecond
  <1>1. P \in Nat /\ P >= 1
    BY TokensAssumption
  <1> HIDE DEF P
  <1>2. P * a \in Nat /\ a <= P * a
    BY <1>1
  <1>3. ASSUME a <= b PROVE P * a <= P * b
    <2>1. b - a \in Nat /\ b = a + (b - a)
      BY <1>3
    <2>2. P * (b - a) >= 0 /\ P * b = P * a + P * (b - a)
      BY <1>1, <2>1
    <2> QED
      BY <1>1, <2>2
  <1>4. P * (a + b) = P * a + P * b
    BY <1>1
  <1> QED
    BY <1>2, <1>3, <1>4 DEF P

\* The second of a tick is the last one that has begun.
LEMMA SecondOf ==
    ASSUME NEW t \in Nat
    PROVE  /\ Second(t) \in Nat /\ Second(t) <= t
           /\ PerSecond * Second(t) <= t /\ t < PerSecond * (Second(t) + 1)
  <1> DEFINE P == PerSecond
  <1>1. P \in Nat /\ P >= 1
    BY TokensAssumption
  <1> HIDE DEF P
  <1>2. t \div P \in Nat /\ P * (t \div P) <= t /\ t < P * (t \div P) + P
    BY <1>1
  <1>3. P * ((t \div P) + 1) = P * (t \div P) + P
    BY <1>1, <1>2
  <1>4. t \div P <= P * (t \div P)
    BY <1>1, <1>2
  <1> QED
    BY <1>1, <1>2, <1>3, <1>4 DEF Second, P

LEMMA SecondGrows ==
    ASSUME NEW t \in Nat, NEW u \in Nat, t <= u
    PROVE  Second(t) <= Second(u)
  <1>0. Second(t) \in Nat /\ Second(u) \in Nat /\ Second(u) + 1 \in Nat
    BY SecondOf
  <1>1. SUFFICES ASSUME Second(u) + 1 <= Second(t) PROVE FALSE
    BY <1>0
  <1>2. PerSecond * (Second(u) + 1) <= PerSecond * Second(t)
    BY <1>0, <1>1, Scaling
  <1>3. PerSecond * (Second(u) + 1) \in Nat /\ PerSecond * Second(t) \in Nat
    BY <1>0, Scaling
  <1> QED
    BY <1>2, <1>3, SecondOf

\* What has not ended in whole seconds has not ended in ticks.
LEMMA BeforeEnd ==
    ASSUME NEW t \in Nat, NEW end \in Nat, Second(t) < end
    PROVE  t < PerSecond * end
  <1>1. Second(t) + 1 <= end /\ Second(t) + 1 \in Nat
    BY SecondOf
  <1>2. PerSecond * (Second(t) + 1) <= PerSecond * end
    BY <1>1, Scaling
  <1>3. PerSecond * (Second(t) + 1) \in Nat /\ PerSecond * end \in Nat
    BY <1>1, Scaling
  <1> QED
    BY <1>2, <1>3, SecondOf

Longest == Lifetime[<<"access", TRUE>>] + Lifetime[<<"access", FALSE>>] +
           Lifetime[<<"refresh", TRUE>>] + Lifetime[<<"refresh", FALSE>>]

LEMMA Lifetimes ==
    /\ \A kind \in {"access", "refresh"}, remember \in BOOLEAN :
        Lifetime[<<kind, remember>>] \in Nat /\ Lifetime[<<kind, remember>>] <= Longest
    /\ Lifetime[<<"access", TRUE>>] + Lifetime[<<"access", FALSE>>] <= Longest
    /\ Longest \in Nat
  <1>1. ASSUME NEW kind \in {"access", "refresh"}, NEW remember \in BOOLEAN
        PROVE  Lifetime[<<kind, remember>>] \in Nat
    <2>1. <<kind, remember>> \in {"access", "refresh"} \X BOOLEAN
      OBVIOUS
    <2> QED
      BY <2>1, TokensAssumption
  <1> DEFINE at == Lifetime[<<"access", TRUE>>]  af == Lifetime[<<"access", FALSE>>]
             rt == Lifetime[<<"refresh", TRUE>>]  rf == Lifetime[<<"refresh", FALSE>>]
  <1>2. at \in Nat /\ af \in Nat /\ rt \in Nat /\ rf \in Nat
    BY <1>1
  <1>3. Longest = at + af + rt + rf
    BY DEF Longest
  <1> HIDE DEF at, af, rt, rf
  <1>4. /\ Longest \in Nat /\ at <= Longest /\ af <= Longest /\ rt <= Longest /\ rf <= Longest
        /\ at + af <= Longest
    BY <1>2, <1>3
  <1>5. ASSUME NEW kind \in {"access", "refresh"}, NEW remember \in BOOLEAN
        PROVE  Lifetime[<<kind, remember>>] <= Longest
    <2>1. CASE remember = TRUE
      BY <1>4, <2>1 DEF at, rt
    <2>2. CASE remember = FALSE
      BY <1>4, <2>2 DEF af, rf
    <2> QED
      BY <2>1, <2>2
  <1> QED
    BY <1>1, <1>4, <1>5 DEF at, af

\* What lies at most a lifetime ahead of the time at hand is within the bounds.
LEMMA InTicks ==
    ASSUME NEW t \in Nat, t <= MaxTick, NEW n \in Nat, n <= Longest
    PROVE  t + PerSecond * n \in Ticks /\ Second(t) + n \in Ticks
  <1>1. PerSecond * n <= PerSecond * Longest /\ PerSecond * n \in Nat
        /\ PerSecond * Longest \in Nat /\ n <= PerSecond * n
    BY Scaling, Lifetimes
  <1>2. Ticks = 0..(MaxTick + PerSecond * Longest)
    BY DEF Ticks, Longest
  <1>3. Second(t) \in Nat /\ Second(t) <= t
    BY SecondOf
  <1> QED
    BY <1>1, <1>2, <1>3, TokensAssumption

\* What a step leaves of a session: the ends of its tokens, and the order of its states.
Onward ==
    /\ now <= now'
    /\ \A j \in Jtis :
        issued[j].state # "none" =>
            /\ issued'[j].refresh = issued[j].refresh /\ issued'[j].access = issued[j].access
            /\ issued[j].state \in {"live", "revoked"} => issued'[j].state \in {"live", "revoked"}
            /\ issued[j].state = "revoked" => issued'[j].state = "revoked"

LEMMA TokensTyped ==
    ASSUME TokensInv
    PROVE  /\ now \in Nat /\ now <= MaxTick
           /\ 0 \in Ticks /\ \A t \in Ticks : t \in Nat
           /\ \A j \in Jtis : /\ issued[j] \in Issued /\ issued[j].access \in Nat
                              /\ issued[j].refresh \in Nat /\ issued[j].expiresAt \in Nat
           /\ \A c \in Calls : call[c] \in Call /\ call[c].expiresAt \in Nat
           /\ issued \in [Jtis -> Issued] /\ call \in [Calls -> Call]
  <1>1. 0 \in Ticks /\ Ticks \subseteq Nat
    <2>1. PerSecond * Longest \in Nat
      BY Scaling, Lifetimes
    <2>2. Ticks = 0..(MaxTick + PerSecond * Longest)
      BY DEF Ticks, Longest
    <2> QED
      BY <2>1, <2>2, TokensAssumption
  <1>2. now \in 0..MaxTick /\ issued \in [Jtis -> Issued] /\ call \in [Calls -> Call]
    BY DEF TokensInv, TokensTypeOK
  <1>3. now \in Nat /\ now <= MaxTick
    BY <1>2, TokensAssumption
  <1>4. \A j \in Jtis : /\ issued[j] \in Issued /\ issued[j].access \in Nat
                        /\ issued[j].refresh \in Nat /\ issued[j].expiresAt \in Nat
    BY <1>1, <1>2 DEF Issued
  <1>5. \A c \in Calls : call[c] \in Call /\ call[c].expiresAt \in Nat
    BY <1>1, <1>2 DEF Call
  <1> QED
    BY <1>1, <1>2, <1>3, <1>4, <1>5

LEMMA Later ==
    ASSUME NEW a \in Nat, NEW b \in Nat, NEW t \in Nat, NEW u \in Nat, a <= t + b, t <= u
    PROVE  a <= u + b
  OBVIOUS

LEMMA CallStays ==
    ASSUME TokensInv, Onward, now' \in Nat, NEW x \in Call, GoodCall(x),
           HasNew(x) => issued'[x.new].state = "signed"
    PROVE  GoodCall(x)'
  <1>1. HasNew(x) => issued'[x.new].refresh = issued[x.new].refresh /\ x.new \in Jtis
    BY DEF GoodCall, Onward
  <1>2. x.token \in Jtis /\ issued[x.token].state \in {"live", "revoked"}
        => /\ issued'[x.token].state \in {"live", "revoked"}
           /\ issued[x.token].state = "revoked" => issued'[x.token].state = "revoked"
    BY DEF Onward
  <1>3. x.step = "issue" =>
          PerSecond * issued'[x.new].refresh <= now' + PerSecond * Lifetime[<<"refresh", x.remember>>]
    <2> SUFFICES ASSUME x.step = "issue"
                 PROVE  PerSecond * issued'[x.new].refresh
                            <= now' + PerSecond * Lifetime[<<"refresh", x.remember>>]
      OBVIOUS
    <2>1. x.remember \in BOOLEAN /\ x.new \in Jtis
      BY <1>1 DEF Call, HasNew
    <2> DEFINE a == PerSecond * issued[x.new].refresh
               b == PerSecond * Lifetime[<<"refresh", x.remember>>]
    <2>2. a \in Nat /\ b \in Nat
      BY <2>1, TokensTyped, Scaling, Lifetimes
    <2>3. a <= now + b
      BY DEF GoodCall
    <2>4. issued'[x.new].refresh = issued[x.new].refresh
      BY <1>1 DEF HasNew
    <2>5. now \in Nat /\ now <= now'
      BY TokensTyped DEF Onward
    <2> HIDE DEF a, b
    <2>6. \A u \in Nat : now <= u => a <= u + b
      BY <2>2, <2>3, <2>5, Later
    <2>7. a <= now' + b
      BY <2>5, <2>6
    <2> QED
      BY <2>4, <2>7 DEF a, b
  <1>4. x.step \in {"create", "rotate", "insert"} =>
          PerSecond * issued'[x.new].refresh <= x.expiresAt
    BY <1>1 DEF GoodCall, HasNew
  <1>5. x.step = "issue" /\ x.token # NoJti => x.token \in Jtis
    BY DEF Call
  <1> QED
    BY <1>1, <1>2, <1>3, <1>4, <1>5 DEF GoodCall, HasNew

LEMMA TokensStay ==
    ASSUME TokensInv, Onward, now' \in Nat, NEW j \in Jtis,
           issued'[j].access = issued[j].access, issued'[j].refresh = issued[j].refresh,
           issued'[j].state = "live" =>
               issued[j].state = "live" /\ issued'[j].expiresAt = issued[j].expiresAt,
           blacklist'[j] = blacklist[j], j \in loggedOut' => j \in loggedOut
    PROVE  GoodTokens(j)'
  <1>1. Second(now) <= Second(now') /\ Second(now) \in Nat /\ Second(now') \in Nat
    BY TokensTyped, SecondGrows, SecondOf DEF Onward
  <1> DEFINE at == Lifetime[<<"access", TRUE>>]
             af == Lifetime[<<"access", FALSE>>]
  <1>2. at \in Nat /\ af \in Nat /\ issued[j].access \in Nat
    BY Lifetimes, TokensTyped
  <1>3. issued[j].access <= Second(now) + at + af
    BY DEF TokensInv, GoodTokens
  <1>4. issued[j].access <= Second(now') + at + af
    <2> HIDE DEF at, af
    <2> QED
      BY <1>1, <1>2, <1>3
  <1>5. Second(now)' = Second(now')
    BY DEF Second
  <1> QED
    BY <1>4, <1>5 DEF TokensInv, GoodTokens

LEMMA TokensFrame ==
    ASSUME TokensInv, TokensTypeOK', Onward, loggedOut' \subseteq Jtis, NEW c \in Calls,
           \A d \in Calls \ {c} : call'[d] = call[d],
           GoodCall(call[c])', \A j \in Jtis : GoodTokens(j)',
           \A j \in Jtis : issued[j].state = "signed" =>
               issued'[j].state = "signed" \/ (HasNew(call[c]) /\ call[c].new = j),
           HasNew(call'[c]) => \/ HasNew(call[c]) /\ call'[c].new = call[c].new
                               \/ issued[call'[c].new].state = "none"
    PROVE  TokensInv'
  <1>1. now' \in Nat
    BY TokensAssumption DEF TokensTypeOK
  <1>2. ASSUME NEW d \in Calls PROVE GoodCall(call[d])'
    <2>1. CASE d # c
      <3>1. call[d] \in Call /\ GoodCall(call[d]) /\ call'[d] = call[d]
        BY <2>1, TokensTyped DEF TokensInv
      <3>2. HasNew(call[d]) => issued'[call[d].new].state = "signed"
        BY <2>1, <3>1 DEF GoodCall, TokensInv, OneCallEach
      <3>3. \A x \in Call : x = call[d] => GoodCall(x)'
        BY <1>1, <3>1, <3>2, CallStays
      <3> QED
        BY <3>1, <3>3 DEF GoodCall, HasNew
    <2> QED
      BY <2>1
  <1>3. OneCallEach'
    <2> SUFFICES ASSUME NEW d \in Calls, NEW e \in Calls, d # e,
                        HasNew(call'[d]), HasNew(call'[e]), call'[d].new = call'[e].new
                 PROVE  FALSE
      BY DEF OneCallEach, HasNew
    <2>1. \A q \in Calls \ {c} :
            call'[q] = call[q] /\ (HasNew(call[q]) => issued[call[q].new].state = "signed")
      BY DEF TokensInv, GoodCall
    <2> QED
      BY <2>1 DEF TokensInv, OneCallEach
  <1> QED
    BY <1>2, <1>3 DEF TokensInv

\* A step that moves one call on, and nothing else.
LEMMA OnlyCall ==
    ASSUME TokensInv, NEW c \in Calls, NEW x \in Call, call' = [call EXCEPT ![c] = x], GoodCall(x),
           HasNew(x) => HasNew(call[c]) /\ x.new = call[c].new,
           UNCHANGED <<now, sameSecret, issued, blacklist, loggedOut>>
    PROVE  TokensInv'
  <1>1. /\ call' \in [Calls -> Call] /\ call'[c] = x
        /\ \A d \in Calls \ {c} : call'[d] = call[d]
    BY TokensTyped
  <1>2. TokensTypeOK'
    BY <1>1 DEF TokensInv, TokensTypeOK
  <1>3. Onward /\ now' \in Nat
    BY TokensTyped DEF Onward
  <1>4. GoodCall(call[c])'
    BY <1>1 DEF GoodCall, HasNew
  <1>5. \A j \in Jtis : GoodTokens(j)'
    BY <1>3, TokensStay
  <1>6. HasNew(call'[c]) => \/ HasNew(call[c]) /\ call'[c].new = call[c].new
                            \/ issued[call'[c].new].state = "none"
    BY <1>1
  <1>7. loggedOut' \subseteq Jtis
    BY DEF TokensInv
  <1>8. \A j \in Jtis : issued[j].state = "signed" =>
            issued'[j].state = "signed" \/ (HasNew(call[c]) /\ call[c].new = j)
    OBVIOUS
  <1> QED
    BY <1>1, <1>2, <1>3, <1>4, <1>5, <1>6, <1>7, <1>8, TokensFrame

\* A session ends.
LEMMA Revoked ==
    ASSUME TokensInv, NEW j \in Jtis, issued[j].state \in {"live", "revoked"},
           issued' = [issued EXCEPT ![j].state = "revoked"],
           UNCHANGED <<now, sameSecret, blacklist, loggedOut>>
    PROVE  /\ issued' \in [Jtis -> Issued] /\ issued'[j].state = "revoked"
           /\ Onward /\ now' \in Nat /\ \A i \in Jtis : GoodTokens(i)'
           /\ \A i \in Jtis : issued[i].state = "signed" => issued'[i].state = "signed"
           /\ call' \in [Calls -> Call] => TokensTypeOK'
  <1> DEFINE kept == [issued[j] EXCEPT !.state = "revoked"]
  <1>1. /\ kept \in Issued /\ kept.state = "revoked"
        /\ kept.access = issued[j].access /\ kept.refresh = issued[j].refresh
    BY TokensTyped DEF Issued
  <1>2. issued' = [issued EXCEPT ![j] = kept]
    OBVIOUS
  <1> HIDE DEF kept
  <1>3. issued' \in [Jtis -> Issued] /\ issued'[j] = kept
        /\ \A i \in Jtis \ {j} : issued'[i] = issued[i]
    BY <1>1, <1>2, TokensTyped
  <1>4. Onward /\ now' \in Nat
    BY <1>1, <1>3, TokensTyped DEF Onward
  <1>5. ASSUME NEW i \in Jtis PROVE GoodTokens(i)'
    <2>1. /\ issued'[i].access = issued[i].access /\ issued'[i].refresh = issued[i].refresh
          /\ issued'[i].state = "live" =>
              issued[i].state = "live" /\ issued'[i].expiresAt = issued[i].expiresAt
      BY <1>1, <1>3
    <2> QED
      BY <1>4, <2>1, TokensStay
  <1>6. call' \in [Calls -> Call] => TokensTypeOK'
    BY <1>1, <1>3 DEF TokensInv, TokensTypeOK
  <1> QED
    BY <1>1, <1>3, <1>4, <1>5, <1>6

LEMMA SignsKeeps ==
    ASSUME TokensInv, NEW c \in Calls, NEW app \in Apps, NEW old \in Jtis \cup {NoJti},
           NEW remember \in BOOLEAN, Signs(c, app, old, remember),
           old # NoJti => old \in Jtis /\ issued[old].state \in {"live", "revoked"}
    PROVE  TokensInv'
  <1> DEFINE j == CHOOSE i \in {i \in Jtis : issued[i].state = "none"} : TRUE
             kept == [Unused EXCEPT !.state = "signed", !.app = app,
                         !.access = Second(now) + Lifetime[<<"access", remember>>],
                         !.refresh = Second(now) + Lifetime[<<"refresh", remember>>]]
             x == [NoCall EXCEPT !.step = "issue", !.app = app, !.token = old, !.new = j,
                                 !.remember = remember]
  <1>1. j \in Jtis /\ issued[j].state = "none"
    BY DEF Signs
  <1>2. /\ issued' = [issued EXCEPT ![j] = kept] /\ call' = [call EXCEPT ![c] = x]
        /\ UNCHANGED <<now, sameSecret, blacklist, loggedOut>>
    BY DEF Signs
  <1> DEFINE access == Second(now) + Lifetime[<<"access", remember>>]
             refresh == Second(now) + Lifetime[<<"refresh", remember>>]
  <1>3. /\ access \in Ticks /\ refresh \in Ticks /\ 0 \in Ticks
        /\ access <= Second(now) + Lifetime[<<"access", TRUE>>] + Lifetime[<<"access", FALSE>>]
    <2>1. access \in Ticks /\ refresh \in Ticks
      BY TokensTyped, Lifetimes, InTicks
    <2>2. 0 \in Ticks
      BY TokensTyped
    <2> DEFINE at == Lifetime[<<"access", TRUE>>]
               af == Lifetime[<<"access", FALSE>>]
    <2>3. at \in Nat /\ af \in Nat /\ Second(now) \in Nat
      BY Lifetimes, TokensTyped, SecondOf
    <2>4. access = Second(now) + at \/ access = Second(now) + af
      <3>1. CASE remember = TRUE
        BY <3>1
      <3>2. CASE remember = FALSE
        BY <3>2
      <3> QED
        BY <3>1, <3>2
    <2>5. access <= Second(now) + at + af
      <3> HIDE DEF access, at, af
      <3> QED
        BY <2>3, <2>4
    <2> QED
      BY <2>1, <2>2, <2>5
  <1>4. /\ kept \in Issued /\ kept.state = "signed" /\ kept.access = access /\ kept.refresh = refresh
    BY <1>3 DEF Unused, Issued, Apps
  <1>5. /\ x \in Call /\ x.step = "issue" /\ x.new = j /\ x.token = old /\ x.remember = remember
    BY <1>1, <1>3 DEF NoCall, Call
  <1>6. PerSecond * refresh <= now + PerSecond * Lifetime[<<"refresh", remember>>]
    <2> DEFINE s == Second(now)
               b == Lifetime[<<"refresh", remember>>]
    <2>1. s \in Nat /\ b \in Nat /\ PerSecond * s <= now /\ now \in Nat
      BY TokensTyped, SecondOf, Lifetimes
    <2>2. refresh = s + b
      OBVIOUS
    <2> HIDE DEF s, b, refresh
    <2>3. PerSecond * (s + b) = PerSecond * s + PerSecond * b
          /\ PerSecond * s \in Nat /\ PerSecond * b \in Nat
      BY <2>1, Scaling
    <2>4. PerSecond * (s + b) <= now + PerSecond * b
      BY <2>1, <2>3
    <2> QED
      BY <2>2, <2>4 DEF b
  <1> HIDE DEF kept, x, j, access, refresh
  <1>7. /\ issued' \in [Jtis -> Issued] /\ issued'[j] = kept
        /\ \A i \in Jtis \ {j} : issued'[i] = issued[i]
    BY <1>1, <1>2, <1>4, TokensTyped
  <1>8. /\ call' \in [Calls -> Call] /\ call'[c] = x
        /\ \A d \in Calls \ {c} : call'[d] = call[d]
    BY <1>2, <1>5, TokensTyped
  <1>9. j \notin loggedOut /\ blacklist[j] = NoBan
    BY <1>1 DEF TokensInv, TokensTypeOK
  <1>10. TokensTypeOK'
    BY <1>2, <1>7, <1>8, <1>9 DEF TokensInv, TokensTypeOK
  <1>11. Onward /\ now' \in Nat
    BY <1>1, <1>2, <1>7, TokensTyped DEF Onward
  <1>12. GoodCall(call[c])'
    <2>1. old \in Jtis => old # j
      BY <1>1, TokensAssumption
    <2> QED
      BY <1>1, <1>2, <1>4, <1>5, <1>6, <1>7, <1>8, <2>1, TokensAssumption DEF GoodCall, HasNew
  <1>13. ASSUME NEW i \in Jtis PROVE GoodTokens(i)'
    <2>1. CASE i = j
      BY <1>2, <1>3, <1>4, <1>7, <1>9, <2>1 DEF GoodTokens, Second
    <2>2. CASE i # j
      BY <1>2, <1>7, <1>11, <2>2, TokensStay
    <2> QED
      BY <2>1, <2>2
  <1>14. \A i \in Jtis : issued[i].state = "signed" => issued'[i].state = "signed"
    BY <1>4, <1>7
  <1>15. issued[call'[c].new].state = "none"
    BY <1>1, <1>5, <1>8
  <1>16. loggedOut' \subseteq Jtis
    BY <1>2 DEF TokensInv
  <1> QED
    BY <1>8, <1>10, <1>11, <1>12, <1>13, <1>14, <1>15, <1>16, TokensFrame

LEMMA CreatesKeeps ==
    ASSUME TokensInv, NEW c \in Calls, call[c].step \in {"create", "insert"},
           NEW subject \in Apps, NEW family \in Jtis \cup {NoJti}, CreatesSession(c, subject, family)
    PROVE  TokensInv'
  <1> DEFINE j == call[c].new
             kept == [issued[j] EXCEPT !.state = "live", !.expiresAt = call[c].expiresAt,
                                       !.subject = subject, !.family = family]
  <1>1. j \in Jtis /\ issued[j].state = "signed" /\ PerSecond * issued[j].refresh <= call[c].expiresAt
    BY DEF TokensInv, GoodCall, HasNew
  <1>2. /\ kept \in Issued /\ kept.state = "live" /\ kept.expiresAt = call[c].expiresAt
        /\ kept.access = issued[j].access /\ kept.refresh = issued[j].refresh
    <2>1. issued[j] \in Issued /\ call[c].expiresAt \in Ticks
      BY <1>1, TokensTyped DEF Call
    <2> QED
      BY <2>1 DEF Issued
  <1>3. /\ issued' = [issued EXCEPT ![j] = kept] /\ call' = [call EXCEPT ![c] = NoCall]
        /\ UNCHANGED <<now, sameSecret, blacklist, loggedOut>>
    BY DEF CreatesSession, CallOver
  <1> HIDE DEF kept, j
  <1>4. /\ issued' \in [Jtis -> Issued] /\ issued'[j] = kept
        /\ \A i \in Jtis \ {j} : issued'[i] = issued[i]
    BY <1>1, <1>2, <1>3, TokensTyped
  <1>5. NoCall \in Call
    <2>1. 0 \in Ticks
      BY TokensTyped
    <2> QED
      BY <2>1 DEF NoCall, Call, Apps
  <1>6. /\ call' \in [Calls -> Call] /\ call'[c] = NoCall
        /\ \A d \in Calls \ {c} : call'[d] = call[d]
    BY <1>3, <1>5, TokensTyped
  <1>7. j \notin loggedOut /\ blacklist[j] = NoBan
    BY <1>1 DEF TokensInv, TokensTypeOK
  <1>8. TokensTypeOK'
    BY <1>3, <1>4, <1>6, <1>7 DEF TokensInv, TokensTypeOK
  <1>9. Onward /\ now' \in Nat
    BY <1>1, <1>2, <1>3, <1>4, TokensTyped DEF Onward
  <1>10. GoodCall(call[c])' /\ ~HasNew(call'[c])
    BY <1>6 DEF GoodCall, HasNew, NoCall
  <1>11. ASSUME NEW i \in Jtis PROVE GoodTokens(i)'
    <2>1. CASE i = j
      BY <1>1, <1>2, <1>3, <1>4, <1>7, <2>1 DEF TokensInv, GoodTokens, Second
    <2>2. CASE i # j
      BY <1>3, <1>4, <1>9, <2>2, TokensStay
    <2> QED
      BY <2>1, <2>2
  <1>12. HasNew(call[c]) /\ call[c].new = j
    BY DEF HasNew, j
  <1>13. \A i \in Jtis : issued[i].state = "signed" =>
             issued'[i].state = "signed" \/ (HasNew(call[c]) /\ call[c].new = i)
    BY <1>4, <1>12
  <1>14. loggedOut' \subseteq Jtis
    BY <1>3 DEF TokensInv
  <1> QED
    BY <1>6, <1>8, <1>9, <1>10, <1>11, <1>13, <1>14, TokensFrame

LEMMA BlacklistsKeeps ==
    ASSUME TokensInv, NEW c \in Calls, LogoutBlacklists(c)
    PROVE  TokensInv'
  <1> DEFINE j == call[c].token
             exp == issued[j].access
             entry == Entry(Remaining(exp))
  <1>1. j \in Jtis /\ issued[j].state = "revoked" /\ exp \in Nat
    BY TokensTyped DEF LogoutBlacklists, Has, TokensInv, GoodCall
  <1>2. /\ blacklist' = [blacklist EXCEPT ![j] = entry] /\ loggedOut' = loggedOut \cup {j}
        /\ call' = [call EXCEPT ![c] = NoCall] /\ UNCHANGED <<now, sameSecret, issued>>
    BY DEF LogoutBlacklists, CallOver
  <1>3. /\ entry \in [until : Ticks, forever : BOOLEAN] /\ entry # NoBan
        /\ entry.forever \/ PerSecond * exp <= entry.until
    <2> DEFINE s == Second(now)
               a == Lifetime[<<"access", TRUE>>] + Lifetime[<<"access", FALSE>>]
    <2>0. s \in Nat /\ now \in Nat /\ PerSecond * s <= now /\ a \in Nat /\ a <= Longest
      <3>1. Lifetime[<<"access", TRUE>>] \in Nat /\ Lifetime[<<"access", FALSE>>] \in Nat
        BY Lifetimes
      <3>2. a \in Nat /\ a <= Longest
        BY <3>1, Lifetimes
      <3> QED
        BY <3>2, TokensTyped, SecondOf
    <2>1. CASE s < exp
      <3>1. Remaining(exp) = exp - s /\ exp - s \in Nat /\ exp - s > 0 /\ exp = s + (exp - s)
        BY <1>1, <2>0, <2>1 DEF Remaining
      <3>2. entry = [until |-> now + PerSecond * (exp - s), forever |-> FALSE]
        BY <3>1 DEF Entry
      <3>3. exp - s <= Longest
        <4>1. exp <= s + a
          <5>1. exp <= s + Lifetime[<<"access", TRUE>>] + Lifetime[<<"access", FALSE>>]
            BY <1>1 DEF TokensInv, GoodTokens
          <5>2. Lifetime[<<"access", TRUE>>] \in Nat /\ Lifetime[<<"access", FALSE>>] \in Nat
            BY Lifetimes
          <5> QED
            BY <2>0, <5>1, <5>2
        <4> HIDE DEF s, a, exp
        <4> QED
          BY <1>1, <2>0, <3>1, <4>1, Lifetimes
      <3>4. now + PerSecond * (exp - s) \in Ticks
        BY <2>0, <3>1, <3>3, TokensTyped, InTicks
      <3>5. PerSecond * exp <= now + PerSecond * (exp - s) /\ PerSecond * (exp - s) > 0
        <4>1. PerSecond * exp = PerSecond * s + PerSecond * (exp - s)
              /\ PerSecond * s \in Nat /\ PerSecond * (exp - s) \in Nat
              /\ exp - s <= PerSecond * (exp - s)
          BY <2>0, <3>1, Scaling
        <4> HIDE DEF s, exp
        <4> QED
          BY <2>0, <3>1, <4>1
      <3>6. entry.until # 0 /\ entry.until = now + PerSecond * (exp - s)
        <4> DEFINE b == PerSecond * (exp - s)
        <4>1. b \in Nat /\ b > 0
          BY <3>1, <3>5, Scaling
        <4>2. entry.until = now + b
          BY <3>2
        <4> HIDE DEF b, entry
        <4>3. entry.until # 0
          BY <2>0, <4>1, <4>2
        <4> QED
          BY <4>2, <4>3 DEF b
      <3> QED
        BY <3>2, <3>4, <3>5, <3>6 DEF NoBan
    <2>2. CASE ~(s < exp)
      <3>1. 0 \in Ticks
        BY TokensTyped
      <3>2. entry = [until |-> 0, forever |-> TRUE]
        BY <2>2 DEF Entry, Remaining
      <3> QED
        BY <3>1, <3>2 DEF NoBan
    <2> QED
      BY <2>1, <2>2
  <1> HIDE DEF entry, exp, j
  <1>4. /\ blacklist' \in [Jtis -> [until : Ticks, forever : BOOLEAN]] /\ blacklist'[j] = entry
        /\ \A i \in Jtis \ {j} : blacklist'[i] = blacklist[i]
    BY <1>1, <1>2, <1>3 DEF TokensInv, TokensTypeOK
  <1>5. NoCall \in Call
    <2>1. 0 \in Ticks
      BY TokensTyped
    <2> QED
      BY <2>1 DEF NoCall, Call, Apps
  <1>6. /\ call' \in [Calls -> Call] /\ call'[c] = NoCall
        /\ \A d \in Calls \ {c} : call'[d] = call[d]
    BY <1>2, <1>5, TokensTyped
  <1>7. TokensTypeOK'
    BY <1>1, <1>2, <1>3, <1>4, <1>6 DEF TokensInv, TokensTypeOK
  <1>8. Onward /\ now' \in Nat
    BY <1>2, TokensTyped DEF Onward
  <1>9. GoodCall(call[c])' /\ ~HasNew(call'[c])
    BY <1>6 DEF GoodCall, HasNew, NoCall
  <1>10. ASSUME NEW i \in Jtis PROVE GoodTokens(i)'
    <2>1. CASE i = j
      BY <1>2, <1>3, <1>4, <2>1 DEF TokensInv, GoodTokens, Second, exp
    <2>2. CASE i # j
      BY <1>2, <1>4, <1>8, <2>2, TokensStay
    <2> QED
      BY <2>1, <2>2
  <1>11. loggedOut' \subseteq Jtis
    BY <1>1, <1>2 DEF TokensInv
  <1>12. \A i \in Jtis : issued[i].state = "signed" => issued'[i].state = "signed"
    BY <1>2
  <1> QED
    BY <1>6, <1>7, <1>8, <1>9, <1>10, <1>11, <1>12, TokensFrame

LEMMA RevokesKeeps ==
    ASSUME TokensInv, NEW c \in Calls, RotateRevokes(c) \/ LogoutRevokes(c)
    PROVE  TokensInv'
  <1> DEFINE step == IF RotateRevokes(c) THEN "insert" ELSE "blacklist"
             x == [call[c] EXCEPT !.step = step]
  <1>1. /\ call[c].token \in Jtis /\ issued[call[c].token].state \in {"live", "revoked"}
        /\ issued' = [issued EXCEPT ![call[c].token].state = "revoked"]
        /\ UNCHANGED <<now, sameSecret, blacklist, loggedOut>>
    BY DEF RotateRevokes, LogoutRevokes, Has, TokensInv, GoodCall
  <1>2. call' = [call EXCEPT ![c] = x] /\ (step = "insert" => HasNew(call[c]) /\ call[c].step = "rotate")
    BY DEF RotateRevokes, LogoutRevokes, Has, HasNew
  <1>3. /\ x \in Call /\ x.step = step /\ x.new = call[c].new /\ x.token = call[c].token
        /\ x.expiresAt = call[c].expiresAt /\ step \in {"insert", "blacklist"}
    BY TokensTyped DEF Call
  <1>4. GoodCall(call[c])
    BY DEF TokensInv
  <1> HIDE DEF x, step
  <1>5. /\ call' \in [Calls -> Call] /\ call'[c] = x
        /\ \A d \in Calls \ {c} : call'[d] = call[d]
    BY <1>2, <1>3, TokensTyped
  <1>6. /\ issued' \in [Jtis -> Issued] /\ issued'[call[c].token].state = "revoked"
        /\ Onward /\ now' \in Nat /\ \A i \in Jtis : GoodTokens(i)'
        /\ \A i \in Jtis : issued[i].state = "signed" => issued'[i].state = "signed"
        /\ TokensTypeOK'
    BY <1>1, <1>5, Revoked
  <1>7. GoodCall(call[c])'
    <2>1. CASE step = "insert"
      <3>1. /\ x.new \in Jtis /\ issued[x.new].state = "signed"
            /\ PerSecond * issued[x.new].refresh <= x.expiresAt
        BY <1>2, <1>3, <1>4, <2>1 DEF GoodCall, HasNew
      <3>2. issued'[x.new].state = "signed" /\ issued'[x.new].refresh = issued[x.new].refresh
        BY <1>6, <3>1 DEF Onward
      <3> QED
        BY <1>1, <1>3, <1>5, <1>6, <2>1, <3>1, <3>2 DEF GoodCall, HasNew
    <2>2. CASE step = "blacklist"
      BY <1>1, <1>3, <1>5, <1>6, <2>2 DEF GoodCall, HasNew
    <2> QED
      BY <1>3, <2>1, <2>2
  <1>8. HasNew(call'[c]) => \/ HasNew(call[c]) /\ call'[c].new = call[c].new
                            \/ issued[call'[c].new].state = "none"
    BY <1>2, <1>3, <1>5 DEF HasNew
  <1>9. loggedOut' \subseteq Jtis
    BY <1>1 DEF TokensInv
  <1> QED
    BY <1>5, <1>6, <1>7, <1>8, <1>9, TokensFrame

\* A step of a request that has no new tokens in hand afterwards, or has those it had.
LEMMA GuardsKeep ==
    ASSUME TokensInv, NEW c \in Calls,
           \/ TokensIssued(c) \/ RefreshValidates(c) \/ CallEnds(c)
           \/ \E app \in Apps : RefreshPassesGuard(c, app) \/ LogoutPassesGuard(c, app)
    PROVE  TokensInv'
  <1>0. call[c] \in Call /\ GoodCall(call[c]) /\ 0 \in Ticks
    BY TokensTyped DEF TokensInv
  <1>1. CASE TokensIssued(c)
    <2> DEFINE step == IF call[c].token = NoJti THEN "create" ELSE "rotate"
               end == ExpiresAt(call[c].remember)
               x == [call[c] EXCEPT !.step = step, !.remember = FALSE, !.expiresAt = end]
    <2>1. end \in Ticks /\ end = now + PerSecond * Lifetime[<<"refresh", call[c].remember>>]
      <3>1. call[c].remember \in BOOLEAN
        BY <1>0 DEF Call
      <3> QED
        BY <3>1, TokensTyped, Lifetimes, InTicks DEF ExpiresAt
    <2>2. /\ call' = [call EXCEPT ![c] = x] /\ call[c].step = "issue"
          /\ UNCHANGED <<now, sameSecret, issued, blacklist, loggedOut>>
      BY <1>1 DEF TokensIssued, Has
    <2> HIDE DEF end
    <2>3. /\ x \in Call /\ x.step = step /\ x.new = call[c].new /\ x.token = call[c].token
          /\ x.expiresAt = end
      BY <1>0, <2>1 DEF Call
    <2> HIDE DEF x
    <2>4. GoodCall(x)
      BY <1>0, <2>1, <2>2, <2>3 DEF GoodCall, HasNew, Call
    <2> QED
      BY <2>2, <2>3, <2>4, OnlyCall DEF HasNew
  <1>2. CASE RefreshValidates(c)
    <2> DEFINE x == [call[c] EXCEPT !.step = "sign"]
    <2>1. /\ call' = [call EXCEPT ![c] = x] /\ call[c].step = "validate"
          /\ issued[call[c].token].state = "live"
          /\ UNCHANGED <<now, sameSecret, issued, blacklist, loggedOut>>
      BY <1>2 DEF RefreshValidates, Has, HasSession
    <2>2. x \in Call /\ x.step = "sign" /\ x.token = call[c].token
      BY <1>0 DEF Call
    <2> HIDE DEF x
    <2>3. GoodCall(x)
      BY <1>0, <2>1, <2>2 DEF GoodCall, HasNew
    <2> QED
      BY <2>1, <2>2, <2>3, OnlyCall DEF HasNew
  <1>3. CASE CallEnds(c)
    <2>1. NoCall \in Call
      BY <1>0 DEF NoCall, Call, Apps
    <2>2. GoodCall(NoCall) /\ ~HasNew(NoCall)
      BY DEF GoodCall, HasNew, NoCall
    <2> QED
      BY <1>3, <2>1, <2>2, OnlyCall DEF CallEnds, CallOver
  <1>4. ASSUME NEW app \in Apps, RefreshPassesGuard(c, app) PROVE TokensInv'
    <2> PICK t \in Tokens :
            /\ call' = [call EXCEPT ![c] = [NoCall EXCEPT !.step = "validate", !.app = app,
                                                          !.token = t.jti]]
            /\ UNCHANGED <<now, sameSecret, issued, blacklist, loggedOut>>
      BY <1>4 DEF RefreshPassesGuard
    <2> DEFINE x == [NoCall EXCEPT !.step = "validate", !.app = app, !.token = t.jti]
    <2>1. t.jti \in Jtis
      BY DEF Tokens
    <2>2. x \in Call /\ x.step = "validate" /\ x.token = t.jti
      BY <1>0, <2>1 DEF NoCall, Call
    <2>3. call' = [call EXCEPT ![c] = x]
      OBVIOUS
    <2> HIDE DEF x
    <2>4. GoodCall(x)
      BY <2>1, <2>2 DEF GoodCall, HasNew
    <2> QED
      BY <2>2, <2>3, <2>4, OnlyCall DEF HasNew
  <1>5. ASSUME NEW app \in Apps, LogoutPassesGuard(c, app) PROVE TokensInv'
    <2> PICK t \in Tokens :
            /\ issued[t.jti].state = "live"
            /\ call' = [call EXCEPT ![c] = [NoCall EXCEPT !.step = "revoke", !.app = app,
                                                          !.token = t.jti]]
            /\ UNCHANGED <<now, sameSecret, issued, blacklist, loggedOut>>
      BY <1>5 DEF LogoutPassesGuard, Accepts, HasSession
    <2> DEFINE x == [NoCall EXCEPT !.step = "revoke", !.app = app, !.token = t.jti]
    <2>1. t.jti \in Jtis
      BY DEF Tokens
    <2>2. x \in Call /\ x.step = "revoke" /\ x.token = t.jti
      BY <1>0, <2>1 DEF NoCall, Call
    <2>3. call' = [call EXCEPT ![c] = x]
      OBVIOUS
    <2> HIDE DEF x
    <2>4. GoodCall(x)
      BY <2>1, <2>2 DEF GoodCall, HasNew
    <2> QED
      BY <2>2, <2>3, <2>4, OnlyCall DEF HasNew
  <1> QED
    BY <1>1, <1>2, <1>3, <1>4, <1>5

\* A session ends, or time passes.
LEMMA TokensAround ==
    ASSUME TokensInv, Tick \/ \E j \in Jtis : SessionEnds(j)
    PROVE  TokensInv'
  <1>1. /\ TokensTypeOK' /\ Onward /\ now' \in Nat /\ \A i \in Jtis : GoodTokens(i)'
        /\ \A i \in Jtis : issued[i].state = "signed" => issued'[i].state = "signed"
        /\ UNCHANGED <<call, loggedOut>>
    <2>1. CASE Tick
      <3>1. now' \in Nat /\ now' <= MaxTick /\ now' = now + 1
            /\ UNCHANGED <<sameSecret, issued, blacklist, call, loggedOut>>
        BY <2>1, TokensTyped, TokensAssumption DEF Tick
      <3>2. Onward
        BY <3>1, TokensTyped DEF Onward
      <3>3. now' \in 0..MaxTick
        BY <3>1, TokensAssumption
      <3>4. TokensTypeOK'
        BY <3>1, <3>3 DEF TokensInv, TokensTypeOK
      <3>5. \A i \in Jtis : GoodTokens(i)'
        BY <3>1, <3>2, TokensStay
      <3> QED
        BY <3>1, <3>2, <3>4, <3>5
    <2>2. CASE \E j \in Jtis : SessionEnds(j)
      <3> PICK j \in Jtis : SessionEnds(j)
        BY <2>2
      <3>1. UNCHANGED <<now, sameSecret, blacklist, call, loggedOut>>
            /\ issued[j].state = "live" /\ issued' = [issued EXCEPT ![j].state = "revoked"]
        BY DEF SessionEnds
      <3> QED
        BY <3>1, Revoked, TokensTyped
    <2> QED
      BY <2>1, <2>2
  <1>2. ASSUME NEW c \in Calls PROVE GoodCall(call[c])'
    <2>1. call[c] \in Call /\ GoodCall(call[c]) /\ call'[c] = call[c]
      BY <1>1, TokensTyped DEF TokensInv
    <2>2. HasNew(call[c]) => issued'[call[c].new].state = "signed"
      BY <1>1, <2>1 DEF GoodCall
    <2>3. \A x \in Call : x = call[c] => GoodCall(x)'
      BY <1>1, <2>1, <2>2, CallStays
    <2> QED
      BY <2>1, <2>3 DEF GoodCall, HasNew
  <1>3. OneCallEach' /\ loggedOut' \subseteq Jtis
    BY <1>1 DEF TokensInv, OneCallEach, HasNew
  <1> QED
    BY <1>1, <1>2, <1>3 DEF TokensInv

LEMMA TokensStart == TokensInit => TokensInv
  <1> SUFFICES ASSUME TokensInit PROVE TokensInv
    OBVIOUS
  <1>1. PerSecond * Longest \in Nat /\ Ticks = 0..(MaxTick + PerSecond * Longest)
    BY Scaling, Lifetimes DEF Ticks, Longest
  <1>2. 0 \in Ticks /\ now \in 0..MaxTick
    BY <1>1, TokensAssumption DEF TokensInit
  <1>3. Unused \in Issued /\ NoCall \in Call /\ NoBan \in [until : Ticks, forever : BOOLEAN]
    BY <1>2 DEF Unused, Issued, NoCall, Call, Apps, NoBan
  <1>4. TokensTypeOK
    BY <1>2, <1>3 DEF TokensInit, TokensTypeOK
  <1>5. ASSUME NEW j \in Jtis PROVE GoodTokens(j)
    <2>1. Second(now) \in Nat /\ Lifetime[<<"access", TRUE>>] \in Nat /\ Lifetime[<<"access", FALSE>>] \in Nat
      BY Lifetimes, SecondOf DEF TokensInit
    <2> QED
      BY <2>1 DEF TokensInit, Unused, GoodTokens
  <1>6. \A c \in Calls : GoodCall(call[c]) /\ ~HasNew(call[c])
    BY DEF TokensInit, NoCall, GoodCall, HasNew
  <1> QED
    BY <1>4, <1>5, <1>6 DEF TokensInv, TokensInit, OneCallEach

LEMMA TokensStep ==
    ASSUME TokensInv, [TokensNext]_tokenVars
    PROVE  TokensInv'
  <1>1. ASSUME NEW c \in Calls, AuthStep(c) PROVE TokensInv'
    <2>1. ASSUME NEW app \in Apps, NEW remember \in BOOLEAN, LoginSigns(c, app, remember)
          PROVE  TokensInv'
      BY <2>1, SignsKeeps DEF LoginSigns
    <2>2. CASE RefreshSigns(c)
      <3>1. /\ call[c].app \in Apps /\ call[c].token \in Jtis
            /\ issued[call[c].token].state \in {"live", "revoked"}
        BY <2>2, TokensTyped DEF RefreshSigns, Has, Call, TokensInv, GoodCall
      <3> QED
        BY <2>2, <3>1, SignsKeeps DEF RefreshSigns
    <2>3. CASE LoginCreates(c)
      <3>1. call[c].step = "create" /\ CreatesSession(c, call[c].app, call[c].new)
        BY <2>3 DEF LoginCreates, Has
      <3>2. call[c].app \in Apps /\ call[c].new \in Jtis \cup {NoJti}
        BY TokensTyped DEF Call
      <3> QED
        BY <3>1, <3>2, CreatesKeeps
    <2>4. CASE RotateCreates(c)
      <3> DEFINE old == issued[call[c].token]
      <3>1. call[c].step = "insert" /\ CreatesSession(c, old.subject, old.family)
        BY <2>4 DEF RotateCreates, Has
      <3>2. call[c].token \in Jtis
        BY <3>1 DEF TokensInv, GoodCall
      <3>3. old.subject \in Apps /\ old.family \in Jtis \cup {NoJti}
        BY <3>2, TokensTyped DEF Issued
      <3> QED
        BY <3>1, <3>3, CreatesKeeps
    <2> QED
      BY <1>1, <2>1, <2>2, <2>3, <2>4, GuardsKeep, RevokesKeeps, BlacklistsKeeps DEF AuthStep
  <1>2. CASE UNCHANGED tokenVars
    BY <1>2 DEF tokenVars, TokensInv, TokensTypeOK, GoodCall, GoodTokens, OneCallEach, HasNew, Second
  <1> QED
    BY <1>1, <1>2, TokensAround DEF TokensNext

\* What an access token, its session and its blacklist entry are kept for, whatever the lifetimes
\* and the phase of the clock.
THEOREM TokensInductive == TokensSpec => []TokensInv
  BY TokensStart, TokensStep, PTL DEF TokensSpec

\* Types; only a session that has been inserted is revoked or blacklisted.
THEOREM TokensType == TokensSpec => []TokensTypeOK
  <1>1. TokensInv => TokensTypeOK
    BY DEF TokensInv
  <1> QED
    BY <1>1, TokensInductive, PTL

\* resolveBlacklistTtlSeconds: the entry that a logout leaves outlasts the access token, wherever
\* in a second either of them was made.
THEOREM LogoutIsFinal == TokensSpec => []LoggedOutStaysOut
  <1>1. TokensInv => LoggedOutStaysOut
    <2> SUFFICES ASSUME TokensInv, NEW j \in loggedOut, Second(now) < issued[j].access,
                        ~blacklist[j].forever, ~(now < blacklist[j].until)
                 PROVE  FALSE
      BY DEF LoggedOutStaysOut, AcceptsUnasked, Verifies, Exp, Blacklisted
    <2>1. j \in Jtis
      BY DEF TokensInv
    <2>2. PerSecond * issued[j].access <= blacklist[j].until
      BY <2>1 DEF TokensInv, GoodTokens
    <2>3. now < PerSecond * issued[j].access
      BY <2>1, TokensTyped, BeforeEnd
    <2>4. now \in Nat /\ PerSecond * issued[j].access \in Nat /\ blacklist[j].until \in Nat
      BY <2>1, TokensTyped, Scaling DEF TokensInv, TokensTypeOK
    <2> QED
      BY <2>2, <2>3, <2>4
  <1> QED
    BY <1>1, TokensInductive, PTL

\* issueTokens and establishSession: however long issuing takes, the row lasts until the refresh
\* token that it is for has expired.
THEOREM SessionsOutlastTokens == TokensSpec => []SessionCoversRefreshToken
  <1>1. TokensInv => SessionCoversRefreshToken
    <2> SUFFICES ASSUME TokensInv, NEW j \in Jtis, issued[j].state = "live",
                        Second(now) < issued[j].refresh
                 PROVE  now < issued[j].expiresAt
      BY DEF SessionCoversRefreshToken
    <2>1. PerSecond * issued[j].refresh <= issued[j].expiresAt
      BY DEF TokensInv, GoodTokens
    <2>2. now < PerSecond * issued[j].refresh
      BY TokensTyped, BeforeEnd
    <2>3. now \in Nat /\ PerSecond * issued[j].refresh \in Nat /\ issued[j].expiresAt \in Nat
      BY TokensTyped, Scaling
    <2> QED
      BY <2>1, <2>2, <2>3
  <1> QED
    BY <1>1, TokensInductive, PTL

-------------------------------------------------------------------------------
(***************************************************************************)
(* Families.  A refresh token carries no application, so that which one a  *)
(* refresh signs for has to come from the account and the row it finds.    *)
(***************************************************************************)

Inserted(j) == issued[j].state \in {"live", "revoked"}

\* The calls past RefreshValidates, with the old session in hand.
Rotating(x) ==
    x.step \in {"sign", "rotate", "insert"} \/ (x.step = "issue" /\ x.token # NoJti)

\* A call signs for the application whose route it came by, and so did the one of the old session.
KeepsApplication(x) ==
    /\ HasNew(x) => issued[x.new].app = x.app
    /\ Rotating(x) => issued[x.token].app = x.app

\* A row is of the application that has signed for it, and so is the first one of its family.
GoodFamily(j) ==
    Inserted(j) =>
        /\ issued[j].subject = issued[j].app
        /\ issued[j].family \in Jtis /\ Inserted(issued[j].family)
        /\ issued[issued[j].family].app = issued[j].app

FamilyInv ==
    /\ \A c \in Calls : KeepsApplication(call[c])
    /\ \A j \in Jtis : GoodFamily(j)

\* What never changes of a session: who has signed for it, and what its row says.
FamilyStays ==
    \A j \in Jtis :
        /\ issued[j].state # "none" => issued'[j].app = issued[j].app
        /\ Inserted(j) => /\ issued'[j].state \in {"live", "revoked"}
                         /\ issued'[j].subject = issued[j].subject
                         /\ issued'[j].family = issued[j].family

\* A call that is as it was, or that has only been moved on with what it had in hand.
LEMMA CallKeepsApplication ==
    ASSUME TokensInv, FamilyInv, FamilyStays, NEW c \in Calls, NEW x \in Call,
           KeepsApplication(x), GoodCall(x)
    PROVE  KeepsApplication(x)'
  <1>1. HasNew(x) => x.new \in Jtis /\ issued[x.new].state = "signed"
    BY DEF GoodCall
  <1>2. Rotating(x) => x.token \in Jtis /\ issued[x.token].state \in {"live", "revoked"}
    BY DEF GoodCall, Rotating, Call
  <1>3. HasNew(x) => issued'[x.new].app = x.app
    BY <1>1 DEF FamilyStays, KeepsApplication
  <1>4. Rotating(x) => issued'[x.token].app = x.app
    BY <1>2 DEF FamilyStays, KeepsApplication
  <1> QED
    BY <1>3, <1>4 DEF KeepsApplication, HasNew, Rotating

\* A row that was there stays in its family.
LEMMA FamilyKept ==
    ASSUME TokensInv, FamilyInv, FamilyStays, NEW j \in Jtis, Inserted(j)
    PROVE  GoodFamily(j)'
  <1>1. /\ issued[j].subject = issued[j].app
        /\ issued[j].family \in Jtis /\ Inserted(issued[j].family)
        /\ issued[issued[j].family].app = issued[j].app
    BY DEF FamilyInv, GoodFamily
  <1>2. /\ issued'[j].app = issued[j].app /\ issued'[j].subject = issued[j].subject
        /\ issued'[j].family = issued[j].family
    BY DEF FamilyStays, Inserted
  <1>3. /\ issued'[issued[j].family].app = issued[issued[j].family].app
        /\ issued'[issued[j].family].state \in {"live", "revoked"}
    BY <1>1 DEF FamilyStays, Inserted
  <1> QED
    BY <1>1, <1>2, <1>3 DEF GoodFamily, Inserted

\* A step of call c that inserts nothing.
LEMMA NothingInserted ==
    ASSUME TokensInv, FamilyInv, FamilyStays, NEW c \in Calls,
           \A d \in Calls \ {c} : call'[d] = call[d], KeepsApplication(call[c])',
           \A j \in Jtis : Inserted(j)' => Inserted(j)
    PROVE  FamilyInv'
  <1>1. ASSUME NEW d \in Calls PROVE KeepsApplication(call[d])'
    <2>1. CASE d = c
      BY <2>1
    <2>2. CASE d # c
      <3>1. call[d] \in Call /\ GoodCall(call[d]) /\ KeepsApplication(call[d]) /\ call'[d] = call[d]
        BY <2>2, TokensTyped DEF TokensInv, FamilyInv
      <3>2. \A x \in Call : x = call[d] => KeepsApplication(x)'
        BY <3>1, CallKeepsApplication
      <3> QED
        BY <3>1, <3>2 DEF KeepsApplication, HasNew, Rotating
    <2> QED
      BY <2>1, <2>2
  <1>2. ASSUME NEW j \in Jtis PROVE GoodFamily(j)'
    <2>1. CASE Inserted(j)
      BY <2>1, FamilyKept
    <2>2. CASE ~Inserted(j)
      BY <2>2 DEF GoodFamily, Inserted
    <2> QED
      BY <2>1, <2>2
  <1> QED
    BY <1>1, <1>2 DEF FamilyInv

LEMMA SignsKeepsFamilies ==
    ASSUME TokensInv, FamilyInv, NEW c \in Calls, NEW app \in Apps, NEW old \in Jtis \cup {NoJti},
           NEW remember \in BOOLEAN, Signs(c, app, old, remember),
           old # NoJti => old \in Jtis /\ Inserted(old) /\ issued[old].app = app
    PROVE  FamilyInv'
  <1> DEFINE j == CHOOSE i \in {i \in Jtis : issued[i].state = "none"} : TRUE
             kept == [Unused EXCEPT !.state = "signed", !.app = app,
                         !.access = Second(now) + Lifetime[<<"access", remember>>],
                         !.refresh = Second(now) + Lifetime[<<"refresh", remember>>]]
             x == [NoCall EXCEPT !.step = "issue", !.app = app, !.token = old, !.new = j,
                                 !.remember = remember]
  <1>1. j \in Jtis /\ issued[j].state = "none"
    BY DEF Signs
  <1>2. issued' = [issued EXCEPT ![j] = kept] /\ call' = [call EXCEPT ![c] = x]
    BY DEF Signs
  <1>3. kept.state = "signed" /\ kept.app = app
    BY DEF Unused
  <1>4. x.step = "issue" /\ x.new = j /\ x.token = old /\ x.app = app
    BY DEF NoCall
  <1> HIDE DEF kept, x, j
  <1>5. issued'[j] = kept /\ \A i \in Jtis \ {j} : issued'[i] = issued[i]
    BY <1>1, <1>2, TokensTyped
  <1>6. call'[c] = x /\ \A d \in Calls \ {c} : call'[d] = call[d]
    BY <1>2, TokensTyped
  <1>7. FamilyStays
    BY <1>1, <1>5 DEF FamilyStays, Inserted
  <1>8. \A i \in Jtis : Inserted(i)' => Inserted(i)
    BY <1>3, <1>5 DEF Inserted
  <1>9. KeepsApplication(call[c])'
    <2>1. old # NoJti => issued'[old].app = app
      BY <1>1, <1>5 DEF Inserted
    <2> QED
      BY <1>3, <1>4, <1>5, <1>6, <2>1 DEF KeepsApplication, HasNew, Rotating
  <1> QED
    BY <1>6, <1>7, <1>8, <1>9, NothingInserted

LEMMA CreatesKeepsFamilies ==
    ASSUME TokensInv, FamilyInv, NEW c \in Calls, call[c].step \in {"create", "insert"},
           NEW subject \in Apps, NEW family \in Jtis, CreatesSession(c, subject, family),
           subject = call[c].app,
           family = call[c].new \/ (Inserted(family) /\ issued[family].app = call[c].app)
    PROVE  FamilyInv'
  <1> DEFINE j == call[c].new
             kept == [issued[j] EXCEPT !.state = "live", !.expiresAt = call[c].expiresAt,
                                       !.subject = subject, !.family = family]
  <1>1. j \in Jtis /\ issued[j].state = "signed" /\ issued[j].app = call[c].app
    BY DEF TokensInv, GoodCall, HasNew, FamilyInv, KeepsApplication
  <1>2. /\ kept.state = "live" /\ kept.subject = subject /\ kept.family = family
        /\ kept.app = issued[j].app
    BY <1>1, TokensTyped DEF Issued
  <1>3. issued' = [issued EXCEPT ![j] = kept] /\ call' = [call EXCEPT ![c] = NoCall]
    BY DEF CreatesSession, CallOver
  <1> HIDE DEF kept, j
  <1>4. issued'[j] = kept /\ \A i \in Jtis \ {j} : issued'[i] = issued[i]
    BY <1>1, <1>3, TokensTyped
  <1>5. call'[c] = NoCall /\ \A d \in Calls \ {c} : call'[d] = call[d]
    BY <1>3, TokensTyped
  <1>6. FamilyStays
    BY <1>1, <1>2, <1>4 DEF FamilyStays, Inserted
  <1>7. ASSUME NEW d \in Calls PROVE KeepsApplication(call[d])'
    <2>1. CASE d = c
      BY <1>5, <2>1 DEF KeepsApplication, HasNew, Rotating, NoCall
    <2>2. CASE d # c
      <3>1. call[d] \in Call /\ GoodCall(call[d]) /\ KeepsApplication(call[d]) /\ call'[d] = call[d]
        BY <1>5, <2>2, TokensTyped DEF TokensInv, FamilyInv
      <3>2. \A x \in Call : x = call[d] => KeepsApplication(x)'
        BY <1>6, <3>1, CallKeepsApplication
      <3> QED
        BY <3>1, <3>2 DEF KeepsApplication, HasNew, Rotating
    <2> QED
      BY <2>1, <2>2
  <1>8. ASSUME NEW i \in Jtis PROVE GoodFamily(i)'
    <2>1. CASE Inserted(i)
      BY <1>6, <2>1, FamilyKept
    <2>2. CASE ~Inserted(i) /\ i # j
      BY <1>4, <2>2 DEF GoodFamily, Inserted
    <2>3. CASE i = j
      <3>1. family = j \/ (Inserted(family) /\ issued[family].app = call[c].app)
        BY DEF j
      <3>2. issued'[family].state \in {"live", "revoked"} /\ issued'[family].app = call[c].app
        <4>1. CASE family = j
          BY <1>1, <1>2, <1>4, <4>1
        <4>2. CASE Inserted(family) /\ issued[family].app = call[c].app
          BY <1>6, <4>2 DEF FamilyStays, Inserted
        <4> QED
          BY <3>1, <4>1, <4>2
      <3> QED
        BY <1>1, <1>2, <1>4, <2>3, <3>2 DEF GoodFamily, Inserted
    <2> QED
      BY <2>1, <2>2, <2>3
  <1> QED
    BY <1>7, <1>8 DEF FamilyInv

\* Ending a session leaves it in its family.
LEMMA RevokingKeepsFamilies ==
    ASSUME TokensInv, NEW j \in Jtis, Inserted(j),
           issued' = [issued EXCEPT ![j].state = "revoked"]
    PROVE  FamilyStays /\ \A i \in Jtis : Inserted(i)' => Inserted(i)
  <1> DEFINE kept == [issued[j] EXCEPT !.state = "revoked"]
  <1>1. /\ kept.state = "revoked" /\ kept.app = issued[j].app
        /\ kept.subject = issued[j].subject /\ kept.family = issued[j].family
    BY TokensTyped DEF Issued
  <1>2. issued' = [issued EXCEPT ![j] = kept]
    OBVIOUS
  <1> HIDE DEF kept
  <1>3. issued'[j] = kept /\ \A i \in Jtis \ {j} : issued'[i] = issued[i]
    BY <1>2, TokensTyped
  <1> QED
    BY <1>1, <1>3 DEF FamilyStays, Inserted

\* A call is moved on, and no row is inserted: where it goes, it keeps what it had in hand.
LEMMA MovesKeepFamilies ==
    ASSUME TokensInv, FamilyInv, FamilyStays, \A i \in Jtis : Inserted(i)' => Inserted(i),
           NEW c \in Calls, NEW x, call' = [call EXCEPT ![c] = x],
           HasNew(x) => HasNew(call[c]) /\ x.new = call[c].new /\ x.app = call[c].app,
           Rotating(x) => /\ x.token \in Jtis /\ Inserted(x.token)
                          /\ issued[x.token].app = x.app
    PROVE  FamilyInv'
  <1>1. call'[c] = x /\ \A d \in Calls \ {c} : call'[d] = call[d]
    BY TokensTyped
  <1>2. HasNew(x) => issued'[x.new].app = x.app
    BY DEF TokensInv, GoodCall, FamilyInv, KeepsApplication, FamilyStays
  <1>3. Rotating(x) => issued'[x.token].app = x.app
    BY DEF FamilyStays, Inserted
  <1>4. KeepsApplication(call[c])'
    BY <1>1, <1>2, <1>3 DEF KeepsApplication, HasNew, Rotating
  <1> QED
    BY <1>1, <1>4, NothingInserted

LEMMA FamiliesStep ==
    ASSUME TokensInv, FamilyInv, [TokensNext]_tokenVars
    PROVE  FamilyInv'
  <1>0. ASSUME NEW c \in Calls
        PROVE  /\ call[c] \in Call
               /\ HasNew(call[c]) => issued[call[c].new].app = call[c].app
               /\ Rotating(call[c]) => /\ call[c].token \in Jtis /\ Inserted(call[c].token)
                                      /\ issued[call[c].token].app = call[c].app
    <2>1. call[c] \in Call /\ GoodCall(call[c]) /\ KeepsApplication(call[c])
      BY TokensTyped DEF TokensInv, FamilyInv
    <2> QED
      BY <2>1 DEF GoodCall, KeepsApplication, Rotating, Inserted, Call
  <1>1. ASSUME issued' = issued PROVE FamilyStays /\ \A i \in Jtis : Inserted(i)' => Inserted(i)
    BY <1>1 DEF FamilyStays, Inserted
  <1>2. ASSUME NEW c \in Calls, AuthStep(c) PROVE FamilyInv'
    <2>1. ASSUME NEW app \in Apps, NEW remember \in BOOLEAN, LoginSigns(c, app, remember)
          PROVE  FamilyInv'
      BY <2>1, SignsKeepsFamilies DEF LoginSigns
    <2>2. CASE RefreshSigns(c)
      <3>1. call[c].app \in Apps /\ call[c].step = "sign"
        BY <1>0, <2>2 DEF RefreshSigns, Has, Call
      <3>2. call[c].token \in Jtis /\ Inserted(call[c].token)
            /\ issued[call[c].token].app = call[c].app
        BY <1>0, <3>1 DEF Rotating
      <3>3. Signs(c, call[c].app, call[c].token, FALSE)
        BY <2>2 DEF RefreshSigns
      <3> QED
        BY <3>1, <3>2, <3>3, SignsKeepsFamilies
    <2>3. CASE LoginCreates(c)
      <3>1. call[c].step = "create" /\ CreatesSession(c, call[c].app, call[c].new)
        BY <2>3 DEF LoginCreates, Has
      <3>2. call[c].app \in Apps /\ call[c].new \in Jtis
        BY <1>0, <3>1 DEF Call, TokensInv, GoodCall, HasNew
      <3> QED
        BY <3>1, <3>2, CreatesKeepsFamilies
    <2>4. CASE RotateCreates(c)
      <3> DEFINE old == issued[call[c].token]
      <3>1. call[c].step = "insert" /\ CreatesSession(c, old.subject, old.family)
        BY <2>4 DEF RotateCreates, Has
      <3>2. call[c].token \in Jtis /\ Inserted(call[c].token) /\ old.app = call[c].app
        BY <1>0, <3>1 DEF Rotating
      <3>3. /\ old.subject = old.app /\ old.family \in Jtis /\ Inserted(old.family)
            /\ issued[old.family].app = old.app /\ old.subject \in Apps
        BY <3>2, TokensTyped DEF FamilyInv, GoodFamily, Issued
      <3> HIDE DEF old
      <3> QED
        BY <3>1, <3>2, <3>3, CreatesKeepsFamilies
    <2>5. CASE TokensIssued(c)
      <3> DEFINE step == IF call[c].token = NoJti THEN "create" ELSE "rotate"
                 x == [call[c] EXCEPT !.step = step, !.remember = FALSE,
                                      !.expiresAt = ExpiresAt(call[c].remember)]
      <3>1. call' = [call EXCEPT ![c] = x] /\ call[c].step = "issue" /\ issued' = issued
        BY <2>5 DEF TokensIssued, Has
      <3>2. /\ x.step = step /\ x.new = call[c].new /\ x.token = call[c].token
            /\ x.app = call[c].app
        BY <1>0 DEF Call
      <3>3. HasNew(call[c]) /\ (Rotating(x) => Rotating(call[c]))
        BY <3>1, <3>2 DEF HasNew, Rotating
      <3> HIDE DEF x, step
      <3> QED
        BY <1>0, <1>1, <3>1, <3>2, <3>3, MovesKeepFamilies
    <2>6. CASE RefreshValidates(c)
      <3> DEFINE x == [call[c] EXCEPT !.step = "sign"]
      <3>1. /\ call' = [call EXCEPT ![c] = x] /\ call[c].step = "validate" /\ issued' = issued
            /\ issued[call[c].token].state = "live"
            /\ issued[call[c].token].subject = call[c].app
        BY <2>6 DEF RefreshValidates, Has, HasSession
      <3>2. x.step = "sign" /\ x.token = call[c].token /\ x.app = call[c].app
        BY <1>0 DEF Call
      <3>3. call[c].token \in Jtis /\ Inserted(call[c].token)
        BY <3>1 DEF TokensInv, GoodCall, Inserted
      <3>4. issued[call[c].token].app = call[c].app
        BY <3>1, <3>3 DEF FamilyInv, GoodFamily
      <3>5. ~HasNew(x)
        BY <3>2 DEF HasNew
      <3> HIDE DEF x
      <3> QED
        BY <1>1, <3>1, <3>2, <3>3, <3>4, <3>5, MovesKeepFamilies
    <2>7. ASSUME RotateRevokes(c) \/ LogoutRevokes(c) PROVE FamilyInv'
      <3> DEFINE step == IF RotateRevokes(c) THEN "insert" ELSE "blacklist"
                 x == [call[c] EXCEPT !.step = step]
      <3>1. /\ call' = [call EXCEPT ![c] = x]
            /\ issued' = [issued EXCEPT ![call[c].token].state = "revoked"]
            /\ step = "insert" => call[c].step = "rotate"
            /\ call[c].step \in {"rotate", "revoke"}
        BY <2>7 DEF RotateRevokes, LogoutRevokes, Has
      <3>2. /\ x.step = step /\ x.new = call[c].new /\ x.token = call[c].token
            /\ x.app = call[c].app /\ step \in {"insert", "blacklist"}
        BY <1>0 DEF Call
      <3>3. call[c].token \in Jtis /\ Inserted(call[c].token)
        BY <3>1 DEF TokensInv, GoodCall, Inserted
      <3>4. /\ HasNew(x) => HasNew(call[c])
            /\ Rotating(x) => Rotating(call[c])
        BY <3>1, <3>2 DEF HasNew, Rotating
      <3> HIDE DEF x, step
      <3>5. FamilyStays /\ \A i \in Jtis : Inserted(i)' => Inserted(i)
        BY <3>1, <3>3, RevokingKeepsFamilies
      <3> QED
        BY <1>0, <3>1, <3>2, <3>4, <3>5, MovesKeepFamilies
    <2>8. ASSUME \/ CallEnds(c) \/ LogoutBlacklists(c)
                 \/ \E app \in Apps : RefreshPassesGuard(c, app) \/ LogoutPassesGuard(c, app)
          PROVE  FamilyInv'
      <3>1. PICK x : /\ call' = [call EXCEPT ![c] = x] /\ issued' = issued
                     /\ x.step \in {"idle", "validate", "revoke"}
        <4>1. CASE CallEnds(c) \/ LogoutBlacklists(c)
          <5>1. call' = [call EXCEPT ![c] = NoCall] /\ issued' = issued /\ NoCall.step = "idle"
            BY <4>1 DEF CallEnds, LogoutBlacklists, CallOver, NoCall
          <5> QED
            BY <5>1
        <4>2. ASSUME NEW app \in Apps, NEW t \in Tokens, NEW step \in {"validate", "revoke"},
                     call' = [call EXCEPT ![c] = [NoCall EXCEPT !.step = step, !.app = app,
                                                                !.token = t.jti]],
                     issued' = issued
              PROVE  \E x : /\ call' = [call EXCEPT ![c] = x] /\ issued' = issued
                            /\ x.step \in {"idle", "validate", "revoke"}
          <5>1. [NoCall EXCEPT !.step = step, !.app = app, !.token = t.jti].step = step
            BY DEF NoCall
          <5> QED
            BY <4>2, <5>1
        <4>3. ASSUME NEW app \in Apps, RefreshPassesGuard(c, app) \/ LogoutPassesGuard(c, app)
              PROVE  \E x : /\ call' = [call EXCEPT ![c] = x] /\ issued' = issued
                            /\ x.step \in {"idle", "validate", "revoke"}
          <5>1. PICK t \in Tokens, step \in {"validate", "revoke"} :
                    /\ call' = [call EXCEPT ![c] = [NoCall EXCEPT !.step = step, !.app = app,
                                                                  !.token = t.jti]]
                    /\ issued' = issued
            BY <4>3 DEF RefreshPassesGuard, LogoutPassesGuard
          <5> QED
            BY <4>2, <5>1
        <4> QED
          BY <2>8, <4>1, <4>3
      <3>2. ~HasNew(x) /\ ~Rotating(x)
        BY <3>1 DEF HasNew, Rotating
      <3> QED
        BY <1>1, <3>1, <3>2, MovesKeepFamilies
    <2> QED
      BY <1>2, <2>1, <2>2, <2>3, <2>4, <2>5, <2>6, <2>7, <2>8 DEF AuthStep
  <1>3. ASSUME call' = call, FamilyStays, \A i \in Jtis : Inserted(i)' => Inserted(i)
        PROVE  FamilyInv'
    <2>1. ASSUME NEW c \in Calls PROVE KeepsApplication(call[c])'
      <3>1. call[c] \in Call /\ GoodCall(call[c]) /\ KeepsApplication(call[c]) /\ call'[c] = call[c]
        BY <1>3, TokensTyped DEF TokensInv, FamilyInv
      <3>2. \A x \in Call : x = call[c] => KeepsApplication(x)'
        BY <1>3, <3>1, CallKeepsApplication
      <3> QED
        BY <3>1, <3>2 DEF KeepsApplication, HasNew, Rotating
    <2>2. ASSUME NEW j \in Jtis PROVE GoodFamily(j)'
      <3>1. CASE Inserted(j)
        BY <1>3, <3>1, FamilyKept
      <3>2. CASE ~Inserted(j)
        BY <1>3, <3>2 DEF GoodFamily, Inserted
      <3> QED
        BY <3>1, <3>2
    <2> QED
      BY <2>1, <2>2 DEF FamilyInv
  <1>4. ASSUME NEW j \in Jtis, SessionEnds(j) PROVE FamilyInv'
    <2>1. /\ Inserted(j) /\ issued' = [issued EXCEPT ![j].state = "revoked"] /\ call' = call
      BY <1>4 DEF SessionEnds, Inserted
    <2> QED
      BY <1>3, <2>1, RevokingKeepsFamilies
  <1>5. CASE Tick \/ UNCHANGED tokenVars
    <2>1. issued' = issued /\ call' = call
      BY <1>5 DEF Tick, tokenVars
    <2> QED
      BY <1>1, <1>3, <2>1
  <1> QED
    BY <1>2, <1>4, <1>5 DEF TokensNext

\* RefreshJwtStrategy, validateRefreshSession and rotateSession: whatever token a guard lets in, and
\* however often it has been refreshed, its family began with a login in that application, for any
\* number of sessions and of requests and whether or not the secrets differ.
THEOREM FamiliesAreOfOneApplication == TokensSpec => []FamiliesKeepTheirApplication
  <1>1. TokensInit => FamilyInv
    BY DEF TokensInit, FamilyInv, KeepsApplication, GoodFamily, HasNew, Rotating, Inserted,
           NoCall, Unused
  <1>2. FamilyInv => FamiliesKeepTheirApplication
    <2> SUFFICES ASSUME FamilyInv, NEW app \in Apps, NEW t \in Tokens, HasSession(app, t.jti)
                 PROVE  issued[issued[t.jti].family].app = app
      BY DEF FamiliesKeepTheirApplication, Accepts
    <2>1. t.jti \in Jtis /\ Inserted(t.jti) /\ issued[t.jti].subject = app
      BY DEF Tokens, HasSession, Inserted
    <2> QED
      BY <2>1 DEF FamilyInv, GoodFamily
  <1> QED
    BY <1>1, <1>2, TokensInductive, FamiliesStep, PTL DEF TokensSpec
===============================================================================
