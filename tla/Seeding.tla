-------------------------------- MODULE Seeding --------------------------------
(* `npm run seed`: permissions, roles, menus and their bindings, the super      *)
(* administrator with its credential and role, configuration and dictionaries.  *)
(*                                                                            *)
(* Each seed looks for its row and inserts it where there is none, one after    *)
(* the other and without a transaction.  A run may be cut short anywhere, two   *)
(* may run at once, and administrators remove rows before, between and during   *)
(* runs.  findOne does not see a soft-deleted row, but a unique index does.     *)
EXTENDS Naturals, Sequences

CONSTANTS Seeds,      \* the sequence of the rows to seed, each a kind of row below
          Runs        \* the processes

VARIABLES seeded,   \* seeded[i]: the row of Seeds[i]
          run,      \* run[x]: how far a process is, and whether nothing was removed since its start
          whole     \* such a run has come to its end, and nothing has been removed since

seedVars == <<seeded, run, whole>>

\* Rows that administrators delete softly and whose code stays taken; menus, which have no unique
\* name; bindings, which are deleted for good; and rows that nobody removes: system roles, the
\* administrator, its credential.
Kinds == {"coded", "menu", "binding", "fixed"}

ASSUME SeedsAssumption == Seeds \in Seq(Kinds) /\ Seeds # <<>>

Places == DOMAIN Seeds

SeedTypeOK ==
    /\ seeded \in [Places -> {"absent", "live", "deleted"}]
    /\ run \in [Runs -> [at : 1..Len(Seeds) + 1, step : {"off", "find", "insert"},
                       calm : BOOLEAN]]
    /\ whole \in BOOLEAN

SeedInit ==
    /\ seeded = [i \in Places |-> "absent"]
    /\ run = [x \in Runs |-> [at |-> 1, step |-> "off", calm |-> TRUE]]
    /\ whole = FALSE

SeedStarts(x) ==
    /\ run[x].step = "off"
    /\ run' = [run EXCEPT ![x] = [at |-> 1, step |-> "find", calm |-> TRUE]]
    /\ UNCHANGED <<seeded, whole>>

\* On to the next seed, or the end of runSeeds.
NextSeed(x) ==
    /\ run' = [run EXCEPT ![x].at = @ + 1,
                             ![x].step = IF run[x].at < Len(Seeds) THEN "find" ELSE "off"]
    /\ whole' = (whole \/ (run[x].at = Len(Seeds) /\ run[x].calm))

\* Mutant: where the first row is there already, the database has been seeded.
SeedFindsAll(x) ==
    /\ run[x].step = "find"
    /\ seeded[run[x].at] = "live"
    /\ run' = [run EXCEPT ![x].at = Len(Seeds) + 1, ![x].step = "off"]
    /\ whole' = (whole \/ run[x].calm)
    /\ UNCHANGED seeded

\* findOne sees the row.
SeedFinds(x) ==
    /\ run[x].step = "find"
    /\ seeded[run[x].at] = "live"
    /\ NextSeed(x)
    /\ UNCHANGED seeded

SeedMisses(x) ==
    /\ run[x].step = "find"
    /\ seeded[run[x].at] # "live"
    /\ run' = [run EXCEPT ![x].step = "insert"]
    /\ UNCHANGED <<seeded, whole>>

\* Whether an INSERT meets a unique index: also that of a row of another run, or deleted softly.
Taken(i) == seeded[i] # "absent" /\ Seeds[i] # "menu"

\* save().  Another menu of that name is of no concern here.
SeedInserts(x) ==
    /\ run[x].step = "insert"
    /\ ~Taken(run[x].at)
    /\ seeded' = [seeded EXCEPT ![run[x].at] = "live"]
    /\ NextSeed(x)

\* save() rejects: the process exits.  Or it dies.
SeedStops(x) ==
    /\ run[x].step # "off"
    /\ run' = [run EXCEPT ![x].step = "off"]
    /\ UNCHANGED <<seeded, whole>>

\* PermissionService.remove, MenuService.remove and SystemConfigService.delete delete softly,
\* assignPermissions and assignMenus replace the bindings.  The bindings that go with a row are rows
\* of their own here, removed by further steps: no run is calm from the first of them on.
RowRemoved(i) ==
    /\ seeded[i] = "live"
    /\ Seeds[i] # "fixed"
    /\ seeded' = [seeded EXCEPT ![i] = IF Seeds[i] = "binding" THEN "absent" ELSE "deleted"]
    /\ whole' = FALSE
    /\ run' = [x \in Runs |-> [run[x] EXCEPT !.calm = FALSE]]

SeedNext ==
    \/ \E x \in Runs : SeedStarts(x) \/ SeedFinds(x) \/ SeedMisses(x) \/ SeedInserts(x) \/ SeedStops(x)
    \/ \E i \in Places : RowRemoved(i)

SeedSpec == SeedInit /\ [][SeedNext]_seedVars

-------------------------------------------------------------------------------
\* What a run leaves when it has come to its end is all there, whatever was cut short before it or
\* ran beside it, until something is removed (runSeeds: the seeds are idempotent).  A run that
\* meets the code of a removed row does not come to its end.
FinishedSeedIsWhole == whole => \A i \in Places : seeded[i] = "live"
================================================================================
