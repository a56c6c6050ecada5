------------------------------ MODULE Identity ------------------------------
(***************************************************************************)
(* The organization package: who may be called what (identity_policy.go),  *)
(* what an audit of the identities reports (audit.go), how duplicated      *)
(* Employee IDs are renumbered (id_repair.go), when several renames may go *)
(* together (rename.go) and who may be given a Task (assignment.go).       *)
(*                                                                         *)
(* Names and IDs are numbers that stand for their place in string order: a *)
(* file name sorts as its Employee's name, and the suffixes of IDs of one  *)
(* prefix are counted upwards.  An identity is [id, name, type, role]; an  *)
(* inventory is a set of them, no two Employees of which have one name     *)
(* because the name is the file's.                                         *)
(***************************************************************************)
EXTENDS Integers, FiniteSets, Sequences, Functions

CONSTANTS Names,       \* personal names, in string order
          Roles,       \* roles of Employees
          GivenName,   \* [Names -> given names]
          NormalName,  \* [Names -> what NormalizeName makes of them]
          WellFormed,  \* the Names that are "surname given", with no reserved term
          NoRole       \* the Workspace Manager's

ASSUME NamesAssumption ==
    /\ Names \subseteq Nat \ {0} /\ IsFiniteSet(Names)
    /\ WellFormed \subseteq Names
    /\ DOMAIN GivenName = Names /\ DOMAIN NormalName = Names

\* IDs of Employees; 0 is the one the Workspace Manager has.
Ids == Nat \ {0}
ManagerId == 0

Employees(identities) == {i \in identities : i.type = "employee"}

NamesOf(identities) == {i.name : i \in identities}

IdsOf(identities) == {i.id : i \in identities}

-----------------------------------------------------------------------------
(* Names *)

\* ValidateName: the issues that block a hire.  Equal spelling, equal once
\* normalised, the given name of a well-formed one.
Allowed(name, existing) ==
    /\ name \in WellFormed
    /\ \A other \in existing :
          /\ NormalName[other] # NormalName[name]
          /\ other \in WellFormed => GivenName[other] # GivenName[name]

\* identityGroups: what key says of more than one of a set of identities.
Shared(identities, key) ==
    {key[i] : i \in {j \in identities : \E other \in identities : other # j /\ key[other] = key[j]}}

\* AuditIdentities: the issues with BlocksHire, each with what it is about.
BlockingIssues(identities) ==
    LET valid == {i \in identities : i.name \in WellFormed}
        normal == [i \in identities |-> NormalName[i.name]]
        Issues(type, abouts) == {[type |-> type, about |-> a] : a \in abouts}
    IN  Issues("duplicate_id", Shared(identities, [i \in identities |-> i.id]))
        \cup Issues("exact_match", Shared(identities, [i \in identities |-> i.name]))
        \cup Issues("normalized_match",
                {normal[i] : i \in {j \in identities : \E other \in identities :
                                       other.name # j.name /\ normal[other] = normal[j]}})
        \cup Issues("invalid_name", NamesOf(identities \ valid))
        \cup Issues("same_given_name", Shared(valid, [i \in valid |-> GivenName[i.name]]))

-----------------------------------------------------------------------------
(* IDs *)

\* ValidateInventory: no two Employees with one ID (a hire leaves no field
\* empty, and neither does any other operation).
ValidInventory(identities) ==
    \A i, j \in Employees(identities) : i.id = j.id => i = j

\* Employees who share their ID with one whose file comes first.
Duplicates(identities) ==
    {e \in Employees(identities) : \E d \in Employees(identities) : d.id = e.id /\ d.name < e.name}

\* The first file of the Employees of an ID.
FirstOf(identities, id) ==
    CHOOSE n \in NamesOf(Employees(identities)) :
        /\ \E e \in Employees(identities) : e.id = id /\ e.name = n
        /\ \A e \in Employees(identities) : e.id = id => n <= e.name

\* Groups go by the first file of each, and within a group the files in order.
Before(identities, d, e) ==
    \/ FirstOf(identities, d.id) < FirstOf(identities, e.id)
    \/ d.id = e.id /\ d.name < e.name

\* The smallest number above id that is not used.
NextFree(id, used) ==
    CHOOSE n \in id + 1 .. id + Cardinality(used) + 1 : n \notin used /\ id + 1 .. n - 1 \subseteq used

\* Whose turn comes before one's, and so one's place in the plan.
Earlier(identities, e) == {x \in Duplicates(identities) : Before(identities, x, e)}

Place(identities, e) == Cardinality(Earlier(identities, e))

\* The new ID of each, which those after it find used.
Proposals(identities) ==
    LET proposed[e \in Duplicates(identities)] ==
            NextFree(e.id, IdsOf(identities) \cup {proposed[d] : d \in Earlier(identities, e)})
    IN  proposed

\* BuildIDRepairPlan, as the set of its repairs: a list, by the places.
IDRepairPlan(identities) ==
    {[name |-> e.name, current |-> e.id, proposed |-> Proposals(identities)[e],
      place |-> Place(identities, e)] : e \in Duplicates(identities)}

-----------------------------------------------------------------------------
(* Renames *)

\* The Employee of an ID, when no other identity has it.
Unique(identities, id) ==
    {i \in Employees(identities) : i.id = id /\ \A j \in identities : j.id = id => j = i}

\* ValidateRenameBatch: each target is unique and current, and each new name
\* is allowed beside those who are not renamed and the names given before it.
RenameBatchAllowed(identities, requests) ==
    LET targets == {requests[k].id : k \in DOMAIN requests}
        stay == NamesOf({i \in identities : i.id \notin targets})
    IN  /\ IsInjective([k \in DOMAIN requests |-> requests[k].id])
        /\ \A k \in DOMAIN requests :
              /\ NamesOf(Unique(identities, requests[k].id)) = {requests[k].old}
              /\ requests[k].old # requests[k].new
              /\ Allowed(requests[k].new, stay \cup {requests[m].new : m \in 1 .. k - 1})

=============================================================================
