------------------------------ MODULE MCPlatform ------------------------------
(***************************************************************************)
(* The admin console (AccessControl, Menus, Dictionaries, Seeding) and     *)
(* what surrounds every request (Context, Masking, Answers, Providers,     *)
(* Locks), side by side.  They share no variable, so a behaviour moves one *)
(* of them, which `part` names, and their states add up.                   *)
(***************************************************************************)
EXTENDS MCAccessControl, Menus, Dictionaries, Seeding, Context, Masking, Answers, Providers, Locks

VARIABLE part

\* A row of every kind, bindings between the rows they bind and after them.
SeedOrder == <<"coded", "fixed", "menu", "binding", "fixed", "coded">>

\* The keys of logged values, the positions in arrays "0" and "1".
LoggedKeys == {"password", "ip", "email", "note", "0", "1"}
KindOfKey == [k \in LoggedKeys |->
                 IF k = "password" THEN "secret" ELSE IF k \in {"ip", "email"} THEN k ELSE "plain"]

\* What has the values of a function at its keys.
Whole(is, at) ==
    [p \in {<<>>} \cup UNION {{<<k>> \o q : q \in DOMAIN at[k]} : k \in DOMAIN at} |->
        IF p = <<>> THEN is ELSE at[Head(p)][Tail(p)]]

Leaves == {[p \in {<<>>} |-> l] : l \in Texts \cup {"number"}}
Objects(values) == {Whole("object", [k \in {word} |-> v]) : word \in LoggedKeys \ {"0", "1"}, v \in values}
Arrays(values, positions) == {Whole("array", items) : items \in [positions -> values]}

\* Objects of one key, so that each leaf has its path, and arrays of one item or two.
Shallow == Objects(Leaves) \cup Arrays(Leaves, {"0"})
Logged == Objects(Leaves \cup Shallow \cup Objects(Shallow) \cup Arrays(Shallow, {"0"})
                      \cup Arrays(Leaves \cup Objects(Leaves), {"0"})
                      \cup Arrays(Leaves \cup Objects(Leaves), {"0", "1"}))
          \cup Arrays(Shallow, {"0"}) \cup Arrays(Arrays(Shallow, {"0"}), {"0"})

console == <<vars, menuVars, dictVars, seedVars>>
around  == <<ctxVars, record, answerVars, providerVars, lockVars>>

PlatformInit ==
    /\ Init /\ MenuInit /\ DictInit /\ SeedInit
    /\ ContextInit /\ MaskingInit /\ AnswersInit /\ ProvidersInit /\ LocksInit
    /\ part \in {"access", "menus", "dictionaries", "seeding",
                 "context", "masking", "answers", "providers", "locks"}
    /\ part = "access" \/ clients = CHOOSE c \in Profiles : TRUE

PlatformNext ==
    \/ part = "access" /\ Next /\ UNCHANGED <<menuVars, dictVars, seedVars, around, part>>
    \/ part = "menus" /\ MenuNext /\ UNCHANGED <<vars, dictVars, seedVars, around, part>>
    \/ part = "dictionaries" /\ DictNext /\ UNCHANGED <<vars, menuVars, seedVars, around, part>>
    \/ part = "seeding" /\ SeedNext /\ UNCHANGED <<vars, menuVars, dictVars, around, part>>
    \/ part = "context" /\ ContextNext
       /\ UNCHANGED <<console, record, answerVars, providerVars, lockVars, part>>
    \/ part = "masking" /\ MaskingNext
       /\ UNCHANGED <<console, ctxVars, answerVars, providerVars, lockVars, part>>
    \/ part = "answers" /\ AnswersNext
       /\ UNCHANGED <<console, ctxVars, record, providerVars, lockVars, part>>
    \/ part = "providers" /\ ProvidersNext
       /\ UNCHANGED <<console, ctxVars, record, answerVars, lockVars, part>>
    \/ part = "locks" /\ LocksNext
       /\ UNCHANGED <<console, ctxVars, record, answerVars, providerVars, part>>

\* TLC follows a walk of the menus only where no edit is in flight and nothing is granted any more:
\* the walk reads neither, and every table it may meet is met so too.
WalkAlone == Walking => granted = {} /\ \A e \in Editors : edit[e] = NoEdit

PlatformSpec == PlatformInit /\ [][PlatformNext]_<<console, around, part>>
===============================================================================
