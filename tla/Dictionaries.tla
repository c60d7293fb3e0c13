------------------------------ MODULE Dictionaries ------------------------------
(* DictionaryService: the items of one dictionary, and the list of the enabled   *)
(* ones that getItemsByCode serves through Redis (CacheService.getOrSet).  The   *)
(* service adds and updates items and removes none.  Every statement is a step.  *)
EXTENDS Naturals

CONSTANTS Items,        \* dictionary_items.uid
          ItemValues,   \* dictionary_items.value, unique in the dictionary
          DictReaders, DictEditors

ASSUME DictAssumption == ItemValues # {}

VARIABLES dictionary,  \* whether the dictionary has been created
          item,        \* item[i]: the row of dictionary_items
          served,      \* {list} where Redis has a list, of items and their values; or {}
          loading,     \* loading[r].list: {list} between a reader's queries and its write to Redis
          editing,     \* editing[e]: a request in flight
          doubtful     \* whether the list in Redis has missed an invalidation

dictVars == <<dictionary, item, served, loading, editing, doubtful>>

Item == [state : {"absent", "enabled", "disabled"}, value : ItemValues]

Lists == SUBSET (Items \X ItemValues)
EnabledItems == {<<i, item[i].value>> : i \in {j \in Items : item[j].state = "enabled"}}

NoLoading == [list |-> {}, overtaken |-> FALSE]
NoEditing == [step |-> "none"]

DictTypeOK ==
    /\ dictionary \in BOOLEAN
    /\ item \in [Items -> Item]
    /\ loading \in [DictReaders -> [list : SUBSET Lists, overtaken : BOOLEAN]]
    /\ served \subseteq Lists
    /\ editing \in [DictEditors ->
           {NoEditing} \cup [step : {"write"}, item : Items, to : Item, isNew : BOOLEAN]
                       \cup [step : {"invalidate"}]]
    /\ doubtful \in BOOLEAN

DictInit ==
    /\ dictionary = FALSE
    /\ item \in [Items -> [state : {"absent"}, value : {CHOOSE v \in ItemValues : TRUE}]]
    /\ served = {}
    /\ loading = [r \in DictReaders |-> NoLoading]
    /\ editing = [e \in DictEditors |-> NoEditing]
    /\ doubtful = FALSE

\* createDict; getItemsByCode has cached nothing of a dictionary that was not there.
CreateDict ==
    /\ ~dictionary
    /\ dictionary' = TRUE
    /\ UNCHANGED <<item, served, loading, editing, doubtful>>

Rows == {i \in Items : item[i].state # "absent"}
ValueTaken(v, others) == \E i \in Rows \cap others : item[i].value = v

\* addItem, updateItem: the dictionary or the row, and assertItemValueUnique.
EditReads(e, i, to) ==
    /\ editing[e] = NoEditing
    /\ dictionary
    /\ to.state # "absent"
    /\ to # item[i]
    /\ \/ i \in Rows /\ to.value = item[i].value
       \/ ~ValueTaken(to.value, Items \ {i})
    /\ editing' = [editing EXCEPT ![e] = [step |-> "write", item |-> i, to |-> to,
                                          isNew |-> item[i].state = "absent"]]
    /\ UNCHANGED <<dictionary, item, served, loading, doubtful>>

\* save(): a new row or the row as it was read with the changes; the unique index on the
\* dictionary and the value lets one of two requests through.
EditSaves(e) ==
    /\ editing[e].step = "write"
    /\ ~ValueTaken(editing[e].to.value, Items \ {editing[e].item})
    /\ ~(editing[e].isNew /\ editing[e].item \in Rows)
    /\ item' = [item EXCEPT ![editing[e].item] = editing[e].to]
    /\ editing' = [editing EXCEPT ![e] = [step |-> "invalidate"]]
    /\ UNCHANGED <<dictionary, served, loading, doubtful>>

\* updateDict: the name and the description, which the list does not show.
UpdateDict(e) ==
    /\ editing[e] = NoEditing
    /\ dictionary
    /\ editing' = [editing EXCEPT ![e] = [step |-> "invalidate"]]
    /\ UNCHANGED <<dictionary, item, served, loading, doubtful>>

\* An error of the database; the request ends with nothing written.
EditFails(e) ==
    /\ editing[e].step = "write"
    /\ editing' = [editing EXCEPT ![e] = NoEditing]
    /\ UNCHANGED <<dictionary, item, served, loading, doubtful>>

\* Readers between their queries and their write to Redis are overtaken.
DictOvertaken ==
    loading' = [r \in DictReaders |-> [loading[r] EXCEPT !.overtaken = @ \/ loading[r].list # {}]]

\* Mutant: the list is left in Redis where no reader is about to write it.
InvalidateCodeForReaders(e) ==
    /\ editing[e].step = "invalidate"
    /\ served' = IF \E r \in DictReaders : loading[r].list # {} THEN {} ELSE served
    /\ doubtful' = FALSE
    /\ editing' = [editing EXCEPT ![e] = NoEditing]
    /\ DictOvertaken
    /\ UNCHANGED <<dictionary, item>>

\* invalidateCode: cache.del.
InvalidateCode(e) ==
    /\ editing[e].step = "invalidate"
    /\ served' = {}
    /\ doubtful' = FALSE
    /\ editing' = [editing EXCEPT ![e] = NoEditing]
    /\ DictOvertaken
    /\ UNCHANGED <<dictionary, item>>

\* Redis does not answer, or the process dies after the save.
InvalidateCodeFails(e) ==
    /\ editing[e].step = "invalidate"
    /\ doubtful' = TRUE
    /\ editing' = [editing EXCEPT ![e] = NoEditing]
    /\ DictOvertaken
    /\ UNCHANGED <<dictionary, item, served>>

\* getItemsByCode misses: the factory of getOrSet loads the enabled items.
ListLoads(r) ==
    /\ dictionary
    /\ served = {}
    /\ loading[r] = NoLoading
    /\ loading' = [loading EXCEPT ![r] = [list |-> {EnabledItems}, overtaken |-> FALSE]]
    /\ UNCHANGED <<dictionary, item, served, editing, doubtful>>

\* set.
ListStores(r) ==
    /\ loading[r].list # {}
    /\ served' = loading[r].list
    /\ doubtful' = loading[r].overtaken
    /\ loading' = [loading EXCEPT ![r] = NoLoading]
    /\ UNCHANGED <<dictionary, item, editing>>

\* The TTL runs out.
ListExpires ==
    /\ served # {}
    /\ served' = {}
    /\ doubtful' = FALSE
    /\ UNCHANGED <<dictionary, item, loading, editing>>

DictNext ==
    \/ CreateDict \/ ListExpires
    \/ \E e \in DictEditors :
        \/ \E i \in Items, to \in Item : EditReads(e, i, to)
        \/ EditSaves(e) \/ EditFails(e) \/ UpdateDict(e) \/ InvalidateCode(e) \/ InvalidateCodeFails(e)
    \/ \E r \in DictReaders : ListLoads(r) \/ ListStores(r)

DictSpec == DictInit /\ [][DictNext]_dictVars

-------------------------------------------------------------------------------
\* The list that is served has every enabled item with its present value and no other, unless an
\* editor has yet to invalidate it, or its invalidation was lost or came between a reader's
\* queries and its write to Redis; and no value is in it twice (DictionaryService).
ServedListIsCurrent ==
    /\ \/ served \subseteq {EnabledItems}
       \/ doubtful
       \/ \E e \in DictEditors : editing[e].step = "invalidate"
    /\ \A i, j \in Rows : item[i].value = item[j].value => i = j
================================================================================
