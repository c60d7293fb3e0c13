---------------------------- MODULE RuntimeConfig ----------------------------
(* Runtime configuration: rows of system_configs read through Redis.            *)
(*                                                                            *)
(* RuntimeConfigService.loadFromDb answers from Redis or else from the row,     *)
(* and then writes what it has seen back to Redis, the absence of a row too.    *)
(* set and delete write the row and then delete the cached entry.  None of      *)
(* these steps excludes another: every await lets the other requests run, and   *)
(* each call to Redis may fail, which the code swallows.  A key that no         *)
(* administrator edits resolves to the default of its definition whether its    *)
(* absence is cached or not, so only the Edited keys have a row and an entry.   *)
EXTENDS Naturals, FiniteSets

CONSTANTS Keys,      \* the configuration keys that the callers read
          Edited,    \* those an administrator writes
          Values,    \* what is written to them
          Default,   \* Default[k]: defaultValue of the key's definition
          Readers,   \* the requests that read
          Editors,   \* the administrators' requests that write
          Empty      \* no entry in Redis

ASSUME ConfigAssumption ==
    /\ Edited \subseteq Keys
    /\ DOMAIN Default = Keys

VARIABLES row,      \* row[k]: the row of system_configs
          cache,    \* cache[k]: the entry in Redis
          reading,  \* reading[r]: the progress of a reader's getNumber
          edit,     \* edit[e]: the progress of an editor's request
          suspect   \* suspect[k]: an invalidation was lost, or overtook a reader

configVars == <<row, cache, reading, edit, suspect>>

\* The unique index covers soft-deleted rows, which findOne does not see.
RowStates == {"absent", "present", "deleted"}
ConfigRow == [state : RowStates, value : Values, enabled : BOOLEAN]

Snapshots == [negative : {TRUE}] \cup [negative : {FALSE}, value : Values, enabled : BOOLEAN]

Snapshot(config) ==
    IF config.state = "present"
    THEN [negative |-> FALSE, value |-> config.value, enabled |-> config.enabled]
    ELSE [negative |-> TRUE]

\* An enabled row with a value, or else the default of the definition.
Resolve(k, snapshot) ==
    IF ~snapshot.negative /\ snapshot.enabled THEN snapshot.value ELSE Default[k]

NoReading == [step |-> "none"]

Reading ==
    [step : {"none"}]
    \cup [step : {"asked", "missed"}, key : Edited]
    \cup [step : {"loaded"}, key : Edited, seen : Snapshots, overtaken : BOOLEAN]
    \cup [step : {"resolved"}, value : Values \cup {Default[k] : k \in Keys}]

NoEdit == [step |-> "none"]

Edit ==
    [step : {"none"}]
    \cup [step : {"found"}, key : Edited, value : Values, enabled : BOOLEAN, exists : BOOLEAN]
    \cup [step : {"written"}, key : Edited]

ConfigTypeOK ==
    /\ row \in [Edited -> ConfigRow]
    /\ cache \in [Edited -> [kept : Snapshots] \cup {[kept |-> Empty]}]
    /\ reading \in [Readers -> Reading]
    /\ edit \in [Editors -> Edit]
    /\ suspect \in [Edited -> BOOLEAN]

NoEntry == [kept |-> Empty]

ConfigInit ==
    /\ row \in [Edited -> ConfigRow]
    /\ cache = [k \in Edited |-> NoEntry]
    /\ reading = [r \in Readers |-> NoReading]
    /\ edit = [e \in Editors |-> NoEdit]
    /\ suspect = [k \in Edited |-> FALSE]

------------------------------------------------------------------------------
(* resolveWithSource and loadFromDb                                            *)

\* What getNumber(k) starts with; a caller's action has this as a conjunct.
Ask(r, k) ==
    reading' = [reading EXCEPT ![r] =
        IF k \in Edited THEN [step |-> "asked", key |-> k]
                        ELSE [step |-> "resolved", value |-> Default[k]]]

Answered(r) == reading[r].step = "resolved"
Answer(r)   == reading[r].value

AnswerTaken(r) == reading' = [reading EXCEPT ![r] = NoReading]

\* cache.get finds an entry.
ReaderHits(r) ==
    /\ reading[r].step = "asked"
    /\ LET k == reading[r].key IN
        /\ cache[k] # NoEntry
        /\ reading' = [reading EXCEPT ![r] =
                           [step |-> "resolved", value |-> Resolve(k, cache[k].kept)]]
    /\ UNCHANGED <<row, cache, edit, suspect>>

\* cache.get finds nothing, or fails.
ReaderMisses(r) ==
    /\ reading[r].step = "asked"
    /\ reading' = [reading EXCEPT ![r] = [step |-> "missed", key |-> reading[r].key]]
    /\ UNCHANGED <<row, cache, edit, suspect>>

\* findOne, which does not see a soft-deleted row.
ReaderLoads(r) ==
    /\ reading[r].step = "missed"
    /\ LET k == reading[r].key IN
        reading' = [reading EXCEPT ![r] =
            [step |-> "loaded", key |-> k, seen |-> Snapshot(row[k]), overtaken |-> FALSE]]
    /\ UNCHANGED <<row, cache, edit, suspect>>

\* findOne rejects: the default, as error_fallback.
ReaderFallsBack(r) ==
    /\ reading[r].step = "missed"
    /\ reading' = [reading EXCEPT ![r] =
                       [step |-> "resolved", value |-> Default[reading[r].key]]]
    /\ UNCHANGED <<row, cache, edit, suspect>>

\* cache.set succeeds, or fails and leaves the entry as it is.
ReaderStores(r) ==
    /\ reading[r].step = "loaded"
    /\ LET k == reading[r].key
           seen == reading[r].seen
       IN
        /\ reading' = [reading EXCEPT ![r] =
                           [step |-> "resolved", value |-> Resolve(k, seen)]]
        /\ \/ /\ cache' = [cache EXCEPT ![k] = [kept |-> seen]]
              /\ suspect' = [suspect EXCEPT ![k] = reading[r].overtaken]
           \/ UNCHANGED <<cache, suspect>>
    /\ UNCHANGED <<row, edit>>

------------------------------------------------------------------------------
(* set and delete                                                              *)

\* The value and the flag that save() will write; an absent flag leaves the one of the row
\* that was read, or the column's default in a new row.
SetReads(e, k, v, enabled) ==
    /\ edit[e].step = "none"
    /\ LET exists == row[k].state = "present" IN
        edit' = [edit EXCEPT ![e] =
            [step |-> "found", key |-> k, value |-> v, exists |-> exists,
             enabled |-> CASE enabled # "keep" -> enabled = "on"
                           [] enabled = "keep" /\ exists -> row[k].enabled
                           [] OTHER -> TRUE]]
    /\ UNCHANGED <<row, cache, reading, suspect>>

\* save(): an UPDATE by primary key, which also brings back a row deleted since the read,
\* or an INSERT, which a row deleted earlier makes fail.
SetSaves(e) ==
    /\ edit[e].step = "found"
    /\ LET k == edit[e].key IN
        IF edit[e].exists \/ row[k].state = "absent"
        THEN /\ row' = [row EXCEPT ![k] = [state |-> "present", value |-> edit[e].value,
                                           enabled |-> edit[e].enabled]]
             /\ edit' = [edit EXCEPT ![e] = [step |-> "written", key |-> k]]
        ELSE /\ edit' = [edit EXCEPT ![e] = NoEdit]
             /\ UNCHANGED row
    /\ UNCHANGED <<cache, reading, suspect>>

\* softDelete of a row that getRaw has found.
SoftDeletes(e, k) ==
    /\ edit[e].step = "none"
    /\ row[k].state = "present"
    /\ row' = [row EXCEPT ![k].state = "deleted"]
    /\ edit' = [edit EXCEPT ![e] = [step |-> "written", key |-> k]]
    /\ UNCHANGED <<cache, reading, suspect>>

\* A reader that has loaded the row and not yet stored it is overtaken.
Overtaken(k) ==
    [r \in Readers |->
        IF reading[r].step = "loaded" /\ reading[r].key = k
        THEN [reading[r] EXCEPT !.overtaken = TRUE]
        ELSE reading[r]]

\* Mutant: the cache is cleared for deletions only.
InvalidateAfterDelete(e) ==
    /\ edit[e].step = "written"
    /\ LET k == edit[e].key IN
        IF row[k].state = "deleted"
        THEN /\ cache' = [cache EXCEPT ![k] = NoEntry]
             /\ suspect' = [suspect EXCEPT ![k] = FALSE]
             /\ reading' = Overtaken(k)
        ELSE UNCHANGED <<cache, suspect, reading>>
    /\ edit' = [edit EXCEPT ![e] = NoEdit]
    /\ UNCHANGED row

\* cache.del.
Invalidate(e) ==
    /\ edit[e].step = "written"
    /\ LET k == edit[e].key IN
        /\ cache' = [cache EXCEPT ![k] = NoEntry]
        /\ suspect' = [suspect EXCEPT ![k] = FALSE]
        /\ reading' = Overtaken(k)
    /\ edit' = [edit EXCEPT ![e] = NoEdit]
    /\ UNCHANGED row

\* cache.del rejects, which is swallowed, or the request dies before it.
InvalidateFails(e) ==
    /\ edit[e].step = "written"
    /\ suspect' = [suspect EXCEPT ![edit[e].key] = TRUE]
    /\ reading' = Overtaken(edit[e].key)
    /\ edit' = [edit EXCEPT ![e] = NoEdit]
    /\ UNCHANGED <<row, cache>>

\* The entry's TTL runs out.
EntryExpires(k) ==
    /\ cache[k] # NoEntry
    /\ cache' = [cache EXCEPT ![k] = NoEntry]
    /\ suspect' = [suspect EXCEPT ![k] = FALSE]
    /\ UNCHANGED <<row, reading, edit>>

ReaderStep(r) ==
    \/ ReaderHits(r) \/ ReaderMisses(r) \/ ReaderLoads(r) \/ ReaderFallsBack(r) \/ ReaderStores(r)

EditorStep(e) ==
    \/ \E k \in Edited, v \in Values, enabled \in {"keep", "on", "off"} :
           SetReads(e, k, v, enabled)
    \/ SetSaves(e)
    \/ \E k \in Edited : SoftDeletes(e, k)
    \/ Invalidate(e)
    \/ InvalidateFails(e)

------------------------------------------------------------------------------
\* A key's entry in Redis is its row as it is now, unless an editor still has to invalidate it,
\* or an invalidation failed or came between a reader's SELECT and its write to Redis: what
\* "written, then invalidated" is worth, negative entries and disabled rows included.
CachedConfigIsCurrent ==
    \A k \in Edited :
        \/ cache[k] = NoEntry
        \/ cache[k].kept = Snapshot(row[k])
        \/ \E e \in Editors : edit[e].step = "written" /\ edit[e].key = k
        \/ suspect[k]
==============================================================================
