---------------------------- MODULE SavedFilters ----------------------------
(***************************************************************************)
(* console/database and the handlers of console/filter.go: the filters     *)
(* that users save.  Several consoles share a database, the filters of     *)
(* their configuration are put in it when they start: what is missing is   *)
(* added, then what is too much is removed, one statement after the other  *)
(* and without a transaction.                                              *)
(***************************************************************************)
EXTENDS Naturals, FiniteSets, Sequences, Functions

CONSTANTS
  Consoles,
  BuiltinFilters,         \* per version of the configuration, the sequence of its filters
  Users,
  MaxFilters              \* bound: filters ever saved in the database

systemUser == "__system"

(* The name of the user comes from the proxy that authenticates it.        *)
ASSUME FiltersAssumption ==
  /\ \A v \in DOMAIN BuiltinFilters : BuiltinFilters[v] \in Seq(Range(BuiltinFilters[v]))
  /\ systemUser \notin Users

VARIABLES
  savedFilters,           \* by id, the rows of the table, [user, shared, filter]
  nextId,
  consoles                \* per console, [step, version, todo, alone]: the last one tells
                          \* that no other console started or was starting meanwhile

filterVars == <<savedFilters, nextId, consoles>>

Down == [step |-> "down"]
IsStarting(c) == consoles[c].step \notin {"down", "up"}

FiltersInit ==
  /\ savedFilters = [i \in {} |-> 0] /\ nextId = 1
  /\ consoles = [c \in Consoles |-> Down]

Insert(row) ==
  /\ nextId <= MaxFilters /\ nextId' = nextId + 1
  /\ savedFilters' =
       [i \in DOMAIN savedFilters \cup {nextId} |-> IF i = nextId THEN row ELSE savedFilters[i]]

Delete(ids) ==
  /\ savedFilters' = Restrict(savedFilters, DOMAIN savedFilters \ ids)
  /\ UNCHANGED nextId

SameFilter(row, filter) == row.user = systemUser /\ row.filter = filter

(* Start: the table is created when it is not there.                       *)
StartConsole(c) ==
  /\ consoles[c].step = "down"
  /\ \E v \in DOMAIN BuiltinFilters :
       consoles' = [d \in Consoles |->
         IF d = c
         THEN [step |-> "lookup", version |-> v, todo |-> BuiltinFilters[v],
               alone |-> \A e \in Consoles \ {c} : ~IsStarting(e)]
         ELSE IF IsStarting(d) THEN [consoles[d] EXCEPT !.alone = FALSE] ELSE consoles[d]]
  /\ UNCHANGED <<savedFilters, nextId>>

Present(filter) == \E i \in DOMAIN savedFilters : SameFilter(savedFilters[i], filter)

(* populate, a filter of the configuration is looked for, and added by the *)
(* next statement.                                                         *)
LookupBuiltin(c) ==
  /\ consoles[c].step = "lookup" /\ consoles[c].todo # <<>>
  /\ consoles' = [consoles EXCEPT
       ![c].step = IF Present(Head(consoles[c].todo)) THEN "lookup" ELSE "insert",
       ![c].todo = IF Present(Head(@)) THEN Tail(@) ELSE @]
  /\ UNCHANGED <<savedFilters, nextId>>

InsertBuiltin(c) ==
  /\ consoles[c].step = "insert"
  /\ Insert([user |-> systemUser, shared |-> TRUE, filter |-> Head(consoles[c].todo)])
  /\ consoles' = [consoles EXCEPT ![c].step = "lookup", ![c].todo = Tail(@)]

(* Mistake: all the shared filters are the ones of the configuration.      *)
OutdatedShared(version) ==
  {i \in DOMAIN savedFilters : /\ savedFilters[i].shared
                               /\ savedFilters[i].filter \notin Range(BuiltinFilters[version])}

Outdated(version) ==
  {i \in DOMAIN savedFilters : /\ savedFilters[i].user = systemUser /\ savedFilters[i].shared
                               /\ savedFilters[i].filter \notin Range(BuiltinFilters[version])}

ListBuiltin(c) ==
  /\ consoles[c].step = "lookup" /\ consoles[c].todo = <<>>
  /\ consoles' = [consoles EXCEPT
       ![c].step = "remove", ![c].todo = Outdated(consoles[c].version)]
  /\ UNCHANGED <<savedFilters, nextId>>

(* One by one; the row may be gone, nobody looks.                          *)
RemoveOutdated(c) ==
  /\ consoles[c].step = "remove" /\ consoles[c].todo # {}
  /\ \E i \in consoles[c].todo :
       /\ Delete({i})
       /\ consoles' = [consoles EXCEPT ![c].todo = @ \ {i}]

Populated(c) ==
  /\ consoles[c].step = "remove" /\ consoles[c].todo = {}
  /\ consoles' = [consoles EXCEPT ![c].step = "up"]
  /\ UNCHANGED <<savedFilters, nextId>>

(* The console stops or crashes, or one of its statements fails.           *)
StopConsole(c) ==
  /\ consoles[c].step # "down" /\ consoles' = [consoles EXCEPT ![c] = Down]
  /\ UNCHANGED <<savedFilters, nextId>>

(* filterSavedAddHandlerFunc: the filter is the one of the user, whatever  *)
(* the request says.                                                       *)
AddFilter(c, user) ==
  /\ consoles[c].step = "up"
  /\ \E shared \in BOOLEAN, v \in DOMAIN BuiltinFilters :
       Insert([user |-> user, shared |-> shared, filter |-> BuiltinFilters[v][1]])
  /\ UNCHANGED consoles

MayDelete(user, row) == row.user = user

(* DeleteSavedFilter, 404 when nothing is deleted.                         *)
DeleteFilter(c, user) ==
  /\ consoles[c].step = "up"
  /\ \E i \in DOMAIN savedFilters : MayDelete(user, savedFilters[i]) /\ Delete({i})
  /\ UNCHANGED consoles

FiltersNext ==
  \E c \in Consoles :
    \/ StartConsole(c) \/ StopConsole(c)
    \/ LookupBuiltin(c) \/ InsertBuiltin(c) \/ ListBuiltin(c) \/ RemoveOutdated(c) \/ Populated(c)
    \/ \E user \in Users : AddFilter(c, user) \/ DeleteFilter(c, user)

FiltersSpec == FiltersInit /\ [][FiltersNext]_filterVars

----------------------------------------------------------------------------
(* Properties                                                              *)

Builtins == {f.filter : f \in {f \in Range(savedFilters) : f.user = systemUser}}

(* populate: whatever the consoles that came before did, and wherever they *)
(* stopped, a console that starts while no other does leaves the filters   *)
(* of its configuration, with the content they have there, and no other    *)
(* one.  (Two consoles that start together may leave the same one twice.)  *)
BuiltinsExact ==
  [][\A c \in Consoles :
       consoles[c].step = "remove" /\ consoles'[c].step = "up" /\ consoles[c].alone =>
         Builtins' = Range(BuiltinFilters[consoles[c].version])]_filterVars

(* DeleteSavedFilter and populate: a user does not remove a filter of the  *)
(* configuration, and a console that starts removes no filter of a user,   *)
(* be it shared and with the content of an old one.                        *)
FiltersKept ==
  [][\A i \in DOMAIN savedFilters \ DOMAIN savedFilters' :
       savedFilters[i].user = systemUser <=> consoles' # consoles]_filterVars

(* The filters of the configuration are added and removed with it, those   *)
(* of the users are theirs.                                                *)
FiltersRight == BuiltinsExact /\ FiltersKept
=============================================================================
