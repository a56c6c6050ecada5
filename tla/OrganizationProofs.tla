------------------------- MODULE OrganizationProofs -------------------------
(***************************************************************************)
(* Proofs about Organization for any names, IDs, inventories and Commands. *)
(*                                                                         *)
(* Documents are written one after the other by Commands that may fail or  *)
(* die in between, so hardly anything holds of the documents alone.  What  *)
(* holds is what the Command that has the lock relies on at its place      *)
(* (Stage), how far its projections lag behind the files (LagAt), and that *)
(* a lag nobody is working on is to the blame of a Command whose record    *)
(* says so (Blame).                                                        *)
(*                                                                         *)
(* The ID repair computes its proposals by a recursive function over the   *)
(* duplicates in their order; that this recursion has a solution, and what *)
(* the solution is worth, comes first.                                     *)
(***************************************************************************)
EXTENDS Organization, FiniteSetTheorems, WellFoundedInduction, TLAPS

-----------------------------------------------------------------------------
(* The proposals of the ID repair: the recursion over the duplicates.      *)

\* What the loader makes of a file, and of the row of the Manager.
Identities == [id : Ids \cup {ManagerId}, name : Names, type : {"employee", "manager"},
               role : Roles \cup {NoRole}]

\* The order of the natural numbers, as a relation.
Smaller == {p \in Nat \X Nat : p[1] < p[2]}

\* Every non-empty set of natural numbers has a least element.
LEMMA LeastNumber ==
    ASSUME NEW T \in SUBSET Nat, T # {}
    PROVE  \E n \in T : \A m \in T : n <= m
<1>1. IsWellFoundedOn(Smaller, Nat)
  BY NatLessThanWellFounded, Zenon DEF OpToRel, Smaller
<1>2. T \subseteq Nat
  OBVIOUS
<1>3. PICK n \in T : \A m \in T : ~(<<m, n>> \in Smaller)
  BY <1>1, <1>2, WFMin
<1>4. ASSUME NEW m \in T PROVE n <= m
  <2>1. m \in Nat /\ n \in Nat /\ <<m, n>> \in Nat \X Nat
    BY <1>2
  <2>2. ~(<<m, n>>[1] < <<m, n>>[2])
    BY <1>3, <2>1 DEF Smaller
  <2>3. QED
    BY <2>1, <2>2
<1>5. QED
  BY <1>4

\* NextFree finds a number: above id, and not used.
LEMMA NextFreeIsFree ==
    ASSUME NEW id \in Nat, NEW used, IsFiniteSet(used)
    PROVE  NextFree(id, used) \in Nat /\ NextFree(id, used) > id /\ NextFree(id, used) \notin used
<1> DEFINE c == Cardinality(used)
           room == id + 1 .. id + c + 1
           free == {n \in room : n \notin used}
<1>1. c \in Nat
  BY FS_CardinalityType
<1>2. IsFiniteSet(room) /\ Cardinality(room) = c + 1
  <2>1. id + 1 \in Int /\ id + c + 1 \in Int
    BY <1>1
  <2>2. Cardinality(room) = IF id + 1 > id + c + 1 THEN 0 ELSE (id + c + 1) - (id + 1) + 1
    BY <2>1, FS_Interval
  <2>3. IsFiniteSet(room)
    BY <2>1, FS_Interval
  <2>4. QED
    BY <1>1, <2>2, <2>3
<1>3. free # {}
  <2>1. SUFFICES ASSUME room \subseteq used PROVE FALSE
    OBVIOUS
  <2>2. Cardinality(room) <= Cardinality(used)
    BY <2>1, FS_Subset
  <2>3. QED
    BY <1>1, <1>2, <2>2
<1>4. free \in SUBSET Nat
  BY <1>1
<1>5. PICK n \in free : \A m \in free : n <= m
  BY <1>3, <1>4, LeastNumber
<1>6. n \in room /\ n \notin used /\ id + 1 .. n - 1 \subseteq used
  <2>1. ASSUME NEW m \in id + 1 .. n - 1, m \notin used PROVE FALSE
    BY <1>1, <1>5, <2>1
  <2>2. QED
    BY <2>1
<1> DEFINE found == NextFree(id, used)
<1>7. found \in room /\ found \notin used
  BY <1>6 DEF NextFree
<1>8. QED
  BY <1>1, <1>7

\* An inventory: no two Employees of one name, and finitely many of them.
Filed(identities) ==
    /\ identities \subseteq Identities
    /\ \A d, e \in Employees(identities) : d.name = e.name => d = e
    /\ IsFiniteSet(Employees(identities))
    /\ IsFiniteSet(IdsOf(identities))

\* Some file comes first among those of an ID.
LEMMA FirstExists ==
    ASSUME NEW identities, Filed(identities), NEW e \in Employees(identities)
    PROVE  \E n \in NamesOf(Employees(identities)) :
              /\ \E d \in Employees(identities) : d.id = e.id /\ d.name = n
              /\ \A d \in Employees(identities) : d.id = e.id => n <= d.name
<1> DEFINE ofId == {d \in Employees(identities) : d.id = e.id}
           names == NamesOf(ofId)
<1>1. names \in SUBSET Nat /\ names # {}
  <2>1. e \in ofId
    OBVIOUS
  <2>2. e.name \in names
    BY <2>1 DEF NamesOf
  <2>3. \A d \in ofId : d.name \in Nat
    BY NamesAssumption DEF Filed, Employees, Identities
  <2>4. names \subseteq Nat
    BY <2>3 DEF NamesOf
  <2>5. QED
    BY <2>2, <2>4
<1>2. PICK n \in names : \A m \in names : n <= m
  BY <1>1, LeastNumber
<1>3. QED
  BY <1>2 DEF NamesOf

\* So FirstOf is a number.
LEMMA FirstOfIs ==
    ASSUME NEW identities, Filed(identities), NEW e \in Employees(identities)
    PROVE  FirstOf(identities, e.id) \in Nat
<1>1. FirstOf(identities, e.id) \in NamesOf(Employees(identities))
  BY FirstExists DEF FirstOf
<1>2. NamesOf(Employees(identities)) \subseteq Nat
  BY NamesAssumption DEF Filed, Employees, Identities, NamesOf
<1>3. QED
  BY <1>1, <1>2

\* FirstOf tells IDs apart: the file it names has the ID.
LEMMA FirstNames ==
    ASSUME NEW identities, Filed(identities), NEW d \in Employees(identities),
           NEW e \in Employees(identities), FirstOf(identities, d.id) = FirstOf(identities, e.id)
    PROVE  d.id = e.id
<1>1. \A x \in Employees(identities) :
        \E n \in NamesOf(Employees(identities)) :
           /\ \E y \in Employees(identities) : y.id = x.id /\ y.name = n
           /\ \A y \in Employees(identities) : y.id = x.id => n <= y.name
  BY FirstExists
<1>2. \A x \in Employees(identities) :
        \E y \in Employees(identities) : y.id = x.id /\ y.name = FirstOf(identities, x.id)
  BY <1>1 DEF FirstOf
<1>3. QED
  BY <1>2 DEF Filed

\* Before is a strict order of the Employees.
LEMMA BeforeIsAnOrder ==
    ASSUME NEW identities, Filed(identities),
           NEW a \in Employees(identities), NEW b \in Employees(identities),
           NEW d \in Employees(identities)
    PROVE  /\ ~Before(identities, a, a)
           /\ Before(identities, a, b) /\ Before(identities, b, d) => Before(identities, a, d)
<1> DEFINE F(e) == FirstOf(identities, e.id)
<1>1. F(a) \in Nat /\ F(b) \in Nat /\ F(d) \in Nat
  BY FirstOfIs
<1>2. a.name \in Nat /\ b.name \in Nat /\ d.name \in Nat
  BY NamesAssumption DEF Filed, Employees, Identities
<1>3. /\ a.id = b.id => F(a) = F(b)
      /\ b.id = d.id => F(b) = F(d)
  OBVIOUS
<1>4. \A x, y \in {a, b, d} : Before(identities, x, y)
          <=> \/ F(x) < F(y)
              \/ x.id = y.id /\ x.name < y.name
  BY DEF Before
<1> HIDE DEF F
<1>5. QED
  BY <1>1, <1>2, <1>3, <1>4

\* What the rest of the proposals make of one.
NextProposal(identities, proposed, e) ==
    NextFree(e.id, IdsOf(identities) \cup {proposed[d] : d \in Earlier(identities, e)})

\* A victim before another has fewer before it.
LEMMA PlacesGrow ==
    ASSUME NEW identities, Filed(identities), NEW e \in Duplicates(identities)
    PROVE  /\ IsFiniteSet(Earlier(identities, e))
           /\ Place(identities, e) \in Nat
           /\ Place(identities, e) <= Cardinality(Duplicates(identities))
           /\ Cardinality(Duplicates(identities)) \in Nat
           /\ \A d \in Earlier(identities, e) : Place(identities, d) < Place(identities, e)
<1> DEFINE all == Duplicates(identities)
<1>1. all \subseteq Employees(identities)
  BY DEF Duplicates
<1>2. IsFiniteSet(all)
  BY <1>1, FS_Subset DEF Filed
<1>3. \A x \in all : Earlier(identities, x) \subseteq all
  BY DEF Earlier
<1>4. \A x \in all : IsFiniteSet(Earlier(identities, x)) /\ Place(identities, x) \in Nat
                     /\ Place(identities, x) <= Cardinality(all)
  BY <1>2, <1>3, FS_Subset, FS_CardinalityType DEF Place
<1>5. Cardinality(all) \in Nat
  BY <1>2, FS_CardinalityType
<1>6. ASSUME NEW d \in Earlier(identities, e) PROVE Place(identities, d) < Place(identities, e)
  <2>1. d \in all /\ Before(identities, d, e)
    BY <1>6 DEF Earlier
  <2>2. d \in Employees(identities) /\ e \in Employees(identities)
    BY <1>1, <2>1
  <2>3. Earlier(identities, d) \subseteq Earlier(identities, e)
    <3>1. ASSUME NEW x \in Earlier(identities, d) PROVE x \in Earlier(identities, e)
      <4>1. x \in all /\ Before(identities, x, d)
        BY <3>1 DEF Earlier
      <4>2. x \in Employees(identities)
        BY <1>1, <4>1
      <4>3. Before(identities, x, e)
        BY <2>1, <2>2, <4>1, <4>2, BeforeIsAnOrder
      <4>4. QED
        BY <4>1, <4>3 DEF Earlier
    <3>2. QED
      BY <3>1
  <2>4. d \notin Earlier(identities, d)
    BY <2>2, BeforeIsAnOrder DEF Earlier
  <2>5. Earlier(identities, d) # Earlier(identities, e)
    BY <2>4, <1>6
  <2>6. IsFiniteSet(Earlier(identities, e))
    BY <1>4
  <2>7. /\ Cardinality(Earlier(identities, d)) <= Cardinality(Earlier(identities, e))
        /\ Cardinality(Earlier(identities, e)) = Cardinality(Earlier(identities, d))
              => Earlier(identities, e) = Earlier(identities, d)
    BY <2>3, <2>6, FS_Subset
  <2>8. Place(identities, d) \in Nat /\ Place(identities, e) \in Nat
    BY <1>4, <2>1
  <2>9. QED
    BY <2>5, <2>7, <2>8 DEF Place
<1>7. QED
  BY <1>4, <1>5, <1>6

\* The proposals for the victims with fewer than n before them.
ProposedBelow(identities, n, q) ==
    /\ q = [e \in {x \in Duplicates(identities) : Place(identities, x) < n} |-> q[e]]
    /\ \A e \in Duplicates(identities) :
          Place(identities, e) < n => q[e] = NextProposal(identities, q, e)

\* One more place can always be proposed for.
LEMMA ProposalsExtend ==
    ASSUME NEW identities, Filed(identities), NEW n \in Nat,
           NEW q, ProposedBelow(identities, n, q)
    PROVE  \E p : ProposedBelow(identities, n + 1, p)
<1> DEFINE p == [e \in {x \in Duplicates(identities) : Place(identities, x) < n + 1} |->
                    IF Place(identities, e) < n THEN q[e] ELSE NextProposal(identities, q, e)]
<1>1. ASSUME NEW e \in Duplicates(identities), Place(identities, e) < n + 1
      PROVE  p[e] = NextProposal(identities, p, e)
  <2>1. ASSUME NEW d \in Earlier(identities, e) PROVE p[d] = q[d]
    <3>1. Place(identities, d) < Place(identities, e) /\ Place(identities, e) \in Nat
      BY PlacesGrow
    <3>2. d \in Duplicates(identities)
      BY DEF Earlier
    <3>3. Place(identities, d) \in Nat
      BY <3>2, PlacesGrow
    <3>4. Place(identities, d) < n /\ Place(identities, d) < n + 1
      BY <1>1, <3>1, <3>3
    <3>5. QED
      BY <3>2, <3>4
  <2>2. {p[d] : d \in Earlier(identities, e)} = {q[d] : d \in Earlier(identities, e)}
    BY <2>1
  <2>3. NextProposal(identities, p, e) = NextProposal(identities, q, e)
    BY <2>2 DEF NextProposal
  <2>4. p[e] = NextProposal(identities, q, e)
    <3>1. CASE Place(identities, e) < n
      BY <1>1, <3>1 DEF ProposedBelow
    <3>2. CASE ~(Place(identities, e) < n)
      BY <1>1, <3>2
    <3>3. QED
      BY <3>1, <3>2
  <2>5. QED
    BY <2>3, <2>4
<1>2. p = [e \in {x \in Duplicates(identities) : Place(identities, x) < n + 1} |-> p[e]]
  OBVIOUS
<1>3. ProposedBelow(identities, n + 1, p)
  <2> HIDE DEF p
  <2> QED BY <1>1, <1>2 DEF ProposedBelow
<1>4. QED
  BY <1>3

\* There are proposals for any number of places.
LEMMA ProposalsReach ==
    ASSUME NEW identities, Filed(identities), NEW n \in Nat
    PROVE  \E q : ProposedBelow(identities, n, q)
<1> DEFINE bad == {m \in Nat : ~\E q : ProposedBelow(identities, m, q)}
<1>1. SUFFICES ASSUME bad # {} PROVE FALSE
  OBVIOUS
<1>2. PICK m \in bad : \A k \in bad : m <= k
  <2>1. bad \in SUBSET Nat
    OBVIOUS
  <2>2. QED
    BY <1>1, <2>1, LeastNumber
<1>3. CASE m = 0
  <2> DEFINE q == [e \in {} |-> e]
  <2>1. \A e \in Duplicates(identities) : ~(Place(identities, e) < 0)
    BY PlacesGrow
  <2>2. {x \in Duplicates(identities) : Place(identities, x) < 0} = {}
    BY <2>1
  <2>3. q = [e \in {} |-> q[e]]
    OBVIOUS
  <2>4. ProposedBelow(identities, 0, q)
    BY <2>1, <2>2, <2>3, Zenon DEF ProposedBelow
  <2>5. QED
    BY <1>2, <1>3, <2>4
<1>4. CASE m # 0
  <2>1. m - 1 \in Nat /\ m = (m - 1) + 1 /\ ~(m <= m - 1)
    BY <1>4
  <2>2. PICK q : ProposedBelow(identities, m - 1, q)
    BY <1>2, <2>1
  <2>3. \E p : ProposedBelow(identities, (m - 1) + 1, p)
    BY <2>1, <2>2, ProposalsExtend
  <2>4. QED
    BY <1>2, <2>1, <2>3
<1>5. QED
  BY <1>3, <1>4

\* The proposals are what their definition says: each is the next free number
\* beside those before it.
LEMMA ProposalsAre ==
    ASSUME NEW identities, Filed(identities), NEW e \in Duplicates(identities)
    PROVE  Proposals(identities)[e] = NextProposal(identities, Proposals(identities), e)
<1> DEFINE all == Duplicates(identities)
           top == Cardinality(all) + 1
           Right(p) == p = [x \in all |-> NextProposal(identities, p, x)]
<1>1. top \in Nat /\ \A x \in all : Place(identities, x) < top
  <2>1. Cardinality(all) \in Nat
    BY PlacesGrow
  <2>2. QED
    BY <2>1, PlacesGrow
<1>2. PICK q : ProposedBelow(identities, top, q)
  BY <1>1, ProposalsReach
<1>3. {x \in all : Place(identities, x) < top} = all
  BY <1>1
<1>4. q = [x \in all |-> q[x]] /\ \A x \in all : q[x] = NextProposal(identities, q, x)
  BY <1>1, <1>2, <1>3 DEF ProposedBelow
<1>5. Right(q)
  BY <1>4
<1>6. Proposals(identities) = CHOOSE p : Right(p)
  BY DEF Proposals, NextProposal, Earlier
<1>7. Right(Proposals(identities))
  <2> HIDE DEF Right
  <2> QED BY <1>5, <1>6
<1>8. QED
  BY <1>7

\* The plan of an inventory: its repairs are of different Employees, to
\* different new IDs that nobody has; whoever has the ID of another and comes
\* after them is in it.
LEMMA PlanIsSound ==
    ASSUME NEW identities, Filed(identities)
    PROVE  LET plan == IDRepairPlan(identities) IN
           /\ \A r \in plan : \E e \in Duplicates(identities) :
                 r = [name |-> e.name, current |-> e.id, proposed |-> Proposals(identities)[e],
                      place |-> Place(identities, e)]
           /\ \A e \in Duplicates(identities) :
                 \E r \in plan : r.name = e.name /\ r.current = e.id
           /\ \A r \in plan : /\ r.proposed \in Nat /\ r.proposed > r.current
                              /\ r.proposed \notin IdsOf(identities)
                              /\ r.place \in Nat
           /\ \A a, b \in plan : a.name = b.name \/ a.proposed = b.proposed => a = b
<1> DEFINE all == Duplicates(identities)
           P == Proposals(identities)
           plan == IDRepairPlan(identities)
           Repair(e) == [name |-> e.name, current |-> e.id, proposed |-> P[e],
                         place |-> Place(identities, e)]
<1>1. plan = {Repair(e) : e \in all}
  BY DEF IDRepairPlan
<1>2. \A r \in plan : \E e \in all : r = Repair(e)
  BY <1>1
<1>3. \A e \in all : Repair(e) \in plan
  BY <1>1
<1>4. ASSUME NEW e \in all
      PROVE  /\ P[e] \in Nat /\ P[e] > e.id /\ P[e] \notin IdsOf(identities)
             /\ \A d \in Earlier(identities, e) : P[e] # P[d]
  <2> DEFINE earlier == {P[d] : d \in Earlier(identities, e)}
             used == IdsOf(identities) \cup earlier
  <2>1. IsFiniteSet(Earlier(identities, e))
    BY PlacesGrow
  <2>2. IsFiniteSet(earlier)
    <3> DEFINE f == [d \in Earlier(identities, e) |-> P[d]]
    <3>1. f \in Surjection(Earlier(identities, e), earlier)
      BY DEF Surjection
    <3>2. QED
      BY <2>1, <3>1, FS_Surjection
  <2>3. IsFiniteSet(used)
    BY <2>2, FS_Union DEF Filed
  <2>4. e.id \in Nat
    BY DEF Duplicates, Employees, Filed, Identities, Ids, ManagerId
  <2>5. P[e] = NextFree(e.id, used)
    BY ProposalsAre DEF NextProposal
  <2> HIDE DEF used
  <2>6. P[e] \in Nat /\ P[e] > e.id /\ P[e] \notin used
    BY <2>3, <2>4, <2>5, NextFreeIsFree
  <2>7. QED
    BY <2>6 DEF used
<1>5. \A d, e \in all : d.name = e.name => d = e
  BY DEF Filed, Duplicates
<1>6. ASSUME NEW d \in all, NEW e \in all, d # e PROVE d \in Earlier(identities, e) \/ e \in Earlier(identities, d)
  <2>1. d \in Employees(identities) /\ e \in Employees(identities)
    BY DEF Duplicates
  <2>2. FirstOf(identities, d.id) \in Nat /\ FirstOf(identities, e.id) \in Nat
    BY <2>1, FirstOfIs
  <2>3. d.name # e.name /\ d.name \in Nat /\ e.name \in Nat
    BY <1>5, <1>6, <2>1, NamesAssumption DEF Filed, Employees, Identities
  <2>4. FirstOf(identities, d.id) = FirstOf(identities, e.id) => d.id = e.id
    BY <2>1, FirstNames
  <2>5. Before(identities, d, e) \/ Before(identities, e, d)
    BY <2>2, <2>3, <2>4 DEF Before
  <2>6. QED
    BY <2>5 DEF Earlier
<1>7. ASSUME NEW d \in all, NEW e \in all, P[d] = P[e] PROVE d = e
  BY <1>4, <1>6, <1>7
<1>8. \A r \in plan : /\ r.proposed \in Nat /\ r.proposed > r.current
                      /\ r.proposed \notin IdsOf(identities)
                      /\ r.place \in Nat
  BY <1>2, <1>4, PlacesGrow
<1>9. \A a, b \in plan : a.name = b.name \/ a.proposed = b.proposed => a = b
  BY <1>2, <1>5, <1>7
<1>10. \A e \in all : \E r \in plan : r.name = e.name /\ r.current = e.id
  BY <1>3
<1> HIDE DEF plan, all, P
<1>11. QED
  BY <1>2, <1>8, <1>9, <1>10 DEF plan, all, P

-----------------------------------------------------------------------------
(* The inductive invariant.                                                *)

\* What the rows, the references and a plan of repairs consist of.
Rows == [id : Ids \cup {ManagerId}, name : Names, work : {"idle", "busy"}]
References == [id : Ids, name : Names]
Repairs == [name : Names, current : Ids, proposed : Ids, place : Nat]

\* What a Command may have been asked for: a repair as the plan of an
\* inspection, a setup without anything.
RepairRequests == [kind : {"repair"}, expected : SUBSET Repairs, at : Seconds]
AskedFor == Requests \cup RepairRequests \cup {[kind |-> "setup"]}

\* The starters of workspace.setup.
StarterSet == {Starters[k] : k \in DOMAIN Starters}

\* The places a Command may be at, and its record.
Stages == {"idle", "done", "dead", "check", "enter", "layout", "inspect", "candidate", "hired",
           "finish"} \cup Inside

Records ==
    [pc : Stages, req : AskedFor \cup {NoRequest}, ok : BOOLEAN, partial : BOOLEAN,
     plan : [rows : SUBSET Rows, refs : SUBSET References, history : SUBSET AskedFor],
     todo : Seq(StarterSet), left : SUBSET Repairs, known : SUBSET Identities, effect : BOOLEAN]

\* The documents keep their forms.
DocumentsTyped ==
    /\ layout \in BOOLEAN
    /\ files \in [Names -> Files \cup {NoFile}]
    /\ rows \subseteq Rows
    /\ refs \subseteq References
    /\ identityHistory \subseteq AskedFor
    /\ organizationLock \in Commands \cup {NoCommand}

\* So do the Commands.
CommandsTyped == cmd \in [Commands -> Records]

\* Which kinds of Command come to a place.
KindsAt(place) ==
    CASE place = "idle" -> {"none"}
      [] place = "check" -> {"hire", "sync", "setup"}
      [] place = "create" -> {"hire", "setup"}
      [] place = "sync" -> {"hire", "setup", "sync"}
      [] place \in {"identity", "heading", "history"} -> {"rename"}
      [] place = "repairs" -> {"repair"}
      [] place \in {"intent", "rows", "refs"} -> {"rename", "repair"}
      [] place \in {"layout", "inspect", "candidate", "hired"} -> {"setup"}
      [] OTHER -> {"hire", "rename", "sync", "repair", "setup"}

\* A Command is at a place of its kind; a setup among its hires has one to
\* do; inside is who has the lock.
Fits(c) ==
    /\ cmd[c].req.kind \in KindsAt(cmd[c].pc)
    /\ cmd[c].req.kind = "setup" /\ cmd[c].pc \in {"check", "enter", "hired"} \cup Inside
          => cmd[c].todo # <<>>
    /\ organizationLock = c <=> cmd[c].pc \in Inside

\* The record of what is being executed is running; who has not been asked
\* changed nothing; who wrote a document is known to have done so.
LedgerOK(c) ==
    /\ Active(c) => ledger[<<c, 0>>] = "running" /\ ledger[Key(c)] = "running"
    /\ At(c, "idle") => \A k \in effects : k[1] # c
    /\ \/ cmd[c].pc \in {"identity", "heading", "repairs", "rows", "refs", "history"}
       \/ At(c, "sync") /\ cmd[c].req.kind # "sync"
       => Key(c) \in effects

\* Who there is, by the files; who there is, by the rows.
Known(fs) == {[id |-> fs[n].id, name |-> n] : n \in {m \in Names : fs[m] # NoFile}}

Managed(rs) == Pairs({x \in rs : x.id # ManagerId})

\* The rows tell of exactly those there are, and the references of no others.
Agree(fs, rs, xs) == Managed(rs) = Known(fs) /\ xs \subseteq Known(fs)

\* The headings of files are their names.
Headings(names) == \A n \in names : files[n] # NoFile => files[n].heading = n

\* The ID of a file, and the files, once the repairs left are done.
RepairedId(left, n) ==
    IF \E l \in left : l.name = n THEN RepairOf(left, n).proposed ELSE files[n].id

FilesRepaired(left) ==
    [n \in Names |-> IF files[n] = NoFile THEN NoFile ELSE [files[n] EXCEPT !.id = RepairedId(left, n)]]

\* A record that tells of a half done change: its Command is dead, or will
\* report the partial failure it has met.
Blamed(k) ==
    /\ k \in effects
    /\ ledger[k] \in {"running", "partial"}
    /\ Active(k[1]) =>
          /\ ~cmd[k[1]].ok
          /\ \/ At(k[1], "finish") /\ (k[2] = 0 => cmd[k[1]].partial)
             \/ At(k[1], "hired") /\ k = Key(k[1]) /\ cmd[k[1]].partial

Blame == \E k \in Keys : Blamed(k)

\* Nothing lags.
InOrder == Agree(files, rows, refs) /\ Headings(Names)

\* What lags while a Command is at a place under the lock: exactly what it
\* has yet to write.
LagAt(c) ==
    LET p == cmd[c].pc  plan == cmd[c].plan  r == cmd[c].req IN
    CASE p \in {"create", "intent", "identity", "history", "leave"} -> InOrder
      [] p = "sync" /\ r.kind = "sync" -> InOrder
      [] p = "sync" /\ r.kind # "sync" -> refs \subseteq Known(files) /\ Headings(Names)
      [] p = "heading" -> /\ Agree(files, plan.rows, plan.refs)
                          /\ Headings(Names \ {r.new}) /\ files[r.new].heading = r.old
      [] p = "repairs" -> Agree(FilesRepaired(cmd[c].left), plan.rows, plan.refs) /\ Headings(Names)
      [] p = "rows" -> Agree(files, plan.rows, plan.refs) /\ Headings(Names)
      [] OTHER -> Agree(files, rows, plan.refs) /\ Headings(Names)

\* Whatever else lags is to somebody's blame.
LagOK ==
    /\ organizationLock = NoCommand => InOrder \/ Blame
    /\ \A c \in Commands : organizationLock = c => LagAt(c) \/ Blame

\* Two files with one ID: the rows tell of both.
DuplicatesHaveRows ==
    \A m, n \in Names :
        files[m] # NoFile /\ files[n] # NoFile /\ m # n /\ files[m].id = files[n].id
            => [id |-> files[n].id, name |-> n] \in Pairs(rows)

\* A hire under the lock: whom it creates is new; afterwards there is a file,
\* then a row.
Pair(c) == [id |-> Candidate(c).id, name |-> Candidate(c).name]

HireStage(c) ==
    cmd[c].req.kind \in {"hire", "setup"} =>
        /\ At(c, "create") => /\ Candidate(c).id \notin IdsOf(Inventory)
                              /\ Allowed(Candidate(c).name, NamesOf(Inventory))
        /\ At(c, "sync") => Pair(c) \in Known(files)
        /\ At(c, "leave") => Pair(c) \in Known(files) /\ Pair(c) \in Pairs(rows)

\* A sync under the lock: what it wrote are the files it read.
SyncStage(c) ==
    cmd[c].req.kind = "sync" /\ At(c, "leave") => Managed(rows) = Known(files)

\* The names under which the rows tell of an ID.
RowNames(id) == {x.name : x \in {y \in rows : y.id = id}}

\* A rename under the lock: what it planned is what the documents still ask
\* for, and what it has written stands.
RenameStage(c) ==
    LET r == cmd[c].req  p == cmd[c].pc  plan == cmd[c].plan IN
    r.kind = "rename" =>
        /\ p \in {"intent", "identity"} => RenameReady(r, files, rows)
        /\ p \in {"intent", "identity", "heading", "rows"} => plan.rows = RowsRenamed(r, rows)
        /\ p \in {"intent", "identity", "heading", "rows", "refs"} => plan.refs = RefsRenamed(r)
        /\ p \in {"intent", "identity", "heading", "rows", "refs", "history"}
              => plan.history = identityHistory \cup {r}
        /\ p \in {"heading", "rows", "refs", "history", "leave"} =>
              /\ r.old # r.new
              /\ files[r.old] = NoFile /\ files[r.new] # NoFile
              /\ \A n \in Names : files[n] # NoFile => (files[n].id = r.id <=> n = r.new)
        /\ p \in {"rows", "refs", "history", "leave"} => files[r.new].heading # r.old
        /\ p \in {"heading", "rows"} => RowNames(r.id) = {r.old}
        /\ p \in {"refs", "history", "leave"} => RowNames(r.id) = {r.new}
        /\ p \in {"history", "leave"} => [id |-> r.id, name |-> r.old] \notin refs
        /\ p = "leave" => r \in identityHistory

\* A plan of repairs is one per name, and proposes different, new IDs.
Sound(repairs) ==
    /\ \A a, b \in repairs : a.name = b.name \/ a.proposed = b.proposed => a = b
    /\ \A a \in repairs : a.proposed # a.current

\* The repairs left can be done, and leave no duplicate.
Pending(left) ==
    /\ \A l \in left : files[l.name] # NoFile /\ files[l.name].id = l.current
                       /\ l.proposed \notin IdsOf(Inventory)
    /\ \A m, n \in Names : files[m] # NoFile /\ files[n] # NoFile /\ m # n
                              => RepairedId(left, m) # RepairedId(left, n)

\* An ID repair under the lock.
RepairStage(c) ==
    LET r == cmd[c].req  p == cmd[c].pc  plan == cmd[c].plan IN
    r.kind = "repair" =>
        /\ p \in Inside => Sound(r.expected) /\ cmd[c].left \subseteq r.expected
        /\ p \in Inside => Pending(cmd[c].left)
        /\ p = "intent" => cmd[c].left = r.expected
        /\ p \in {"rows", "refs", "leave"} => cmd[c].left = {}
        /\ p \in {"intent", "repairs", "rows"} => plan.rows = RowsRepaired(r.expected)
        /\ p \in {"intent", "repairs", "rows", "refs"} => plan.refs = RefsRepaired(r.expected)
        /\ p \in {"refs", "leave"} => \A l \in r.expected : Whose(l) \notin Pairs(rows)
        /\ p = "leave" => \A l \in r.expected : Whose(l) \notin refs

\* What a Command relies on where it is.
Stage(c) == HireStage(c) /\ SyncStage(c) /\ RenameStage(c) /\ RepairStage(c)

\* The inductive invariant.
OrganizationIInv ==
    /\ DocumentsTyped /\ CommandsTyped
    /\ ledger \in [Keys -> {"none", "running", "succeeded", "failed", "partial"}]
    /\ effects \subseteq Keys
    /\ \A c \in Commands : Fits(c) /\ LedgerOK(c) /\ Stage(c)
    /\ LagOK
    /\ DuplicatesHaveRows

\* What a step of one Command leaves alone, whatever it does.
Moves(c) ==
    /\ cmd' \in [Commands -> Records]
    /\ \A d \in Commands \ {c} : cmd'[d] = cmd[d]
    /\ ledger' \in [Keys -> {"none", "running", "succeeded", "failed", "partial"}]
    /\ \A k \in Keys : k[1] # c => ledger'[k] = ledger[k]
    /\ effects \subseteq effects' /\ effects' \subseteq Keys
    /\ \A k \in effects' \ effects : k[1] = c
    /\ \A d \in Commands \ {c} : organizationLock' = d <=> organizationLock = d
    /\ organizationLock = c \/ UNCHANGED <<files, rows, refs, identityHistory>>

\* What a request of each kind holds.
LEMMA RequestsTyped ==
    ASSUME NEW r \in AskedFor \cup {NoRequest}
    PROVE  /\ r.kind \in {"hire", "rename", "sync", "repair", "setup", "none"}
           /\ r.kind = "hire" => r \in [kind : {"hire"}, id : Ids, name : Names, role : Roles]
           /\ r.kind = "rename" => /\ r.id \in Ids /\ r.old \in Names /\ r.new \in Names
                                   /\ r \in Requests
           /\ r.kind = "repair" => r.expected \subseteq Repairs
           /\ r.kind = "none" <=> r = NoRequest
BY OrganizationAssumption DEF AskedFor, RepairRequests, NoRequest

\* Whoever is to be hired has an ID, a name and a role.
LEMMA CandidateTyped ==
    ASSUME CommandsTyped, NEW c \in Commands, cmd[c].req.kind \in {"hire", "setup"},
           cmd[c].req.kind = "setup" => cmd[c].todo # <<>>
    PROVE  /\ Candidate(c).id \in Ids /\ Candidate(c).name \in Names /\ Candidate(c).role \in Roles
           /\ cmd[c].req.kind = "setup" => /\ Candidate(c) = Head(cmd[c].todo)
                                           /\ <<c, Head(cmd[c].todo).id>> \in Keys
<1>1. cmd[c] \in Records
  BY DEF CommandsTyped
<1>2. cmd[c].req \in AskedFor \cup {NoRequest} /\ cmd[c].todo \in Seq(StarterSet)
  BY <1>1 DEF Records
<1>3. CASE cmd[c].req.kind = "hire"
  BY <1>2, <1>3, RequestsTyped DEF Candidate
<1>4. CASE cmd[c].req.kind = "setup"
  <2>1. Head(cmd[c].todo) \in StarterSet
    BY <1>2, <1>4
  <2>2. PICK k \in DOMAIN Starters : Head(cmd[c].todo) = Starters[k]
    BY <2>1 DEF StarterSet
  <2>3. Starters[k] \in Candidates
    BY OrganizationAssumption
  <2>4. QED
    BY <1>4, <2>2, <2>3 DEF Candidate, Candidates, Keys
<1>5. QED
  BY <1>3, <1>4

\* The record of what a Command executes is one of the Ledger's.
LEMMA KeyIsOne ==
    ASSUME CommandsTyped, NEW c \in Commands, Fits(c), Active(c)
    PROVE  Key(c) \in Keys /\ Key(c)[1] = c
<1>1. <<c, 0>> \in Keys
  BY DEF Keys
<1>2. cmd[c].pc \in Stages
  BY DEF CommandsTyped, Records
<1>3. CASE /\ cmd[c].req.kind = "setup"
           /\ cmd[c].pc \notin {"layout", "inspect", "candidate", "finish"}
           /\ cmd[c].pc \in {"check", "enter", "hired"} \cup Inside
  <2>1. cmd[c].todo # <<>>
    BY <1>3 DEF Fits
  <2>2. <<c, Head(cmd[c].todo).id>> \in Keys
    BY <1>3, <2>1, CandidateTyped
  <2>3. QED
    BY <1>3, <2>2 DEF Key
<1>4. CASE \/ cmd[c].req.kind # "setup"
           \/ cmd[c].pc \in {"layout", "inspect", "candidate", "finish"}
  BY <1>1, <1>4 DEF Key
<1>5. QED
  BY <1>2, <1>3, <1>4 DEF Stages, Active

-----------------------------------------------------------------------------
(* What a step of one Command leaves to the others.                        *)

\* Who is not inside has no stage to keep.
LEMMA OutsideHasNoStage ==
    ASSUME NEW c \in Commands, cmd'[c].pc \notin Inside
    PROVE  Stage(c)'
BY DEF Stage, HireStage, SyncStage, RenameStage, RepairStage, Inside, At

\* A step of one Command leaves what another one is in the middle of.
LEMMA OthersKeep ==
    ASSUME OrganizationIInv, NEW c \in Commands, Moves(c), NEW d \in Commands \ {c}
    PROVE  Fits(d)' /\ LedgerOK(d)' /\ Stage(d)'
<1>1. cmd'[d] = cmd[d] /\ Fits(d) /\ LedgerOK(d) /\ Stage(d)
  BY DEF OrganizationIInv, Moves
<1>2. Fits(d)'
  BY <1>1 DEF Moves, Fits
<1>3. Key(d)' = Key(d) /\ (Active(d)' <=> Active(d))
  BY <1>1 DEF Key, Active
<1>4. LedgerOK(d)'
  <2>1. ASSUME Active(d)
        PROVE  ledger'[<<d, 0>>] = ledger[<<d, 0>>] /\ ledger'[Key(d)] = ledger[Key(d)]
    <3>1. <<d, 0>> \in Keys /\ <<d, 0>>[1] = d
      BY DEF Keys
    <3>2. Key(d) \in Keys /\ Key(d)[1] = d
      BY <1>1, <2>1, KeyIsOne DEF OrganizationIInv
    <3>3. QED
      BY <3>1, <3>2 DEF Moves
  <2>2. Active(d)' => ledger'[<<d, 0>>] = "running" /\ ledger'[Key(d)'] = "running"
    BY <1>1, <1>3, <2>1 DEF LedgerOK
  <2>3. At(d, "idle")' => \A k \in effects' : k[1] # d
    BY <1>1 DEF LedgerOK, At, Moves
  <2>4. ASSUME \/ cmd'[d].pc \in {"identity", "heading", "repairs", "rows", "refs", "history"}
               \/ At(d, "sync")' /\ cmd'[d].req.kind # "sync"
        PROVE  Key(d)' \in effects'
    BY <1>1, <1>3, <2>4 DEF LedgerOK, At, Moves
  <2>5. QED
    BY <2>2, <2>3, <2>4 DEF LedgerOK
<1>5. Stage(d)'
  <2>1. CASE d = organizationLock
    <3>1. organizationLock # c
      BY <2>1
    <3>2. UNCHANGED <<files, rows, refs, identityHistory>>
      BY <3>1 DEF Moves
    <3>3. HireStage(d)'
      BY <1>1, <3>2 DEF Stage, HireStage, Inventory, InventoryOf, Known, Pair, Candidate, At
    <3>4. SyncStage(d)'
      BY <1>1, <3>2 DEF Stage, SyncStage, Known, At
    <3>5. RenameStage(d)'
      <4>1. RefsRenamed(cmd[d].req)' = RefsRenamed(cmd[d].req)
        BY <1>1, <3>2 DEF RefsRenamed
      <4>2. RowNames(cmd[d].req.id)' = RowNames(cmd[d].req.id)
        BY <1>1, <3>2 DEF RowNames
      <4>4. QED
        BY <1>1, <3>2, <4>1, <4>2 DEF Stage, RenameStage
    <3>6. RepairStage(d)'
      <4>1. Inventory' = Inventory
        BY <3>2 DEF Inventory, InventoryOf
      <4>2. Pending(cmd[d].left)' <=> Pending(cmd[d].left)
        BY <1>1, <3>2, <4>1 DEF Pending, RepairedId
      <4>3. QED
        BY <1>1, <3>2, <4>2 DEF Stage, RepairStage, RowsRepaired, RefsRepaired
    <3>7. QED
      BY <3>3, <3>4, <3>5, <3>6 DEF Stage
  <2>2. CASE d # organizationLock
    <3>1. cmd'[d].pc \notin Inside
      BY <1>1, <2>2 DEF Fits
    <3>2. QED
      BY <3>1, OutsideHasNoStage
  <2>3. QED
    BY <2>1, <2>2
<1>6. QED
  BY <1>2, <1>4, <1>5

\* Blame for what another Command left is not lifted by a step.
LEMMA BlameStays ==
    ASSUME OrganizationIInv, NEW c \in Commands, Moves(c),
           \A k \in Keys : k[1] = c /\ Blamed(k) => Blamed(k)',
           Blame
    PROVE  Blame'
<1>1. PICK k \in Keys : Blamed(k)
  BY DEF Blame
<1>2. CASE k[1] = c
  BY <1>1, <1>2 DEF Blame
<1>3. CASE k[1] # c
  <2>1. k[1] \in Commands \ {c}
    BY <1>3 DEF Keys
  <2>2. cmd'[k[1]] = cmd[k[1]] /\ ledger'[k] = ledger[k] /\ k \in effects'
    BY <1>1, <1>3, <2>1 DEF Moves, Blamed
  <2>3. Blamed(k)'
    BY <1>1, <2>2 DEF Blamed, Active, At, Key
  <2>4. QED
    BY <2>3 DEF Blame
<1>4. QED
  BY <1>2, <1>3

\* A Command that is still at work is not to blame.
LEMMA NotBlamedAtWork ==
    ASSUME NEW c \in Commands, Active(c), cmd[c].pc \notin {"finish", "hired"},
           NEW k \in Keys, k[1] = c
    PROVE  ~Blamed(k)
BY DEF Blamed, At

\* How a step keeps LagOK: what it owes when it gives the lock back, and what
\* it owes while it holds it.
LEMMA LagKept ==
    ASSUME OrganizationIInv, NEW c \in Commands, Moves(c), Blame => Blame',
           organizationLock' \in Commands \cup {NoCommand},
           organizationLock' = NoCommand => InOrder' \/ Blame',
           organizationLock' = c => LagAt(c)' \/ Blame'
    PROVE  LagOK'
<1>1. ASSUME NEW d \in Commands \ {c}, organizationLock' = d PROVE LagAt(d)' \/ Blame'
  <2>1. organizationLock = d /\ cmd'[d] = cmd[d]
    BY <1>1 DEF Moves
  <2>2. UNCHANGED <<files, rows, refs, identityHistory>>
    BY <2>1 DEF Moves
  <2>3. LagAt(d) \/ Blame
    BY <2>1 DEF OrganizationIInv, LagOK
  <2>4. InOrder' <=> InOrder
    BY <2>2 DEF InOrder, Headings
  <2>5. FilesRepaired(cmd[d].left)' = FilesRepaired(cmd[d].left)
    BY <2>1, <2>2 DEF FilesRepaired, RepairedId
  <2>6. ASSUME NEW names PROVE Headings(names)' <=> Headings(names)
    BY <2>2 DEF Headings
  <2>7. LagAt(d) => LagAt(d)'
    BY <2>1, <2>2, <2>4, <2>5, <2>6 DEF LagAt
  <2>8. QED
    BY <2>3, <2>7
<1>2. QED
  BY <1>1 DEF LagOK

\* The invariant after a step, from what the step's own Command shows.
LEMMA Assembles ==
    ASSUME OrganizationIInv, NEW c \in Commands, Moves(c), DocumentsTyped',
           Fits(c)', LedgerOK(c)', Stage(c)', LagOK', DuplicatesHaveRows'
    PROVE  OrganizationIInv'
<1>1. CommandsTyped'
  BY DEF Moves, CommandsTyped
<1>2. \A d \in Commands : Fits(d)' /\ LedgerOK(d)' /\ Stage(d)'
  BY OthersKeep
<1>3. QED
  BY <1>1, <1>2 DEF OrganizationIInv, Moves

-----------------------------------------------------------------------------
(* How operations end.                                                     *)

\* The history of what a step adds to the effects: the step's own record.
Touches(c) ==
    /\ UNCHANGED ledger
    /\ effects' = effects \/ effects' = effects \cup {Key(c)}

\* An operation ends: its Command is outside, and to blame if it left
\* something half done.
LEMMA EndsStep ==
    ASSUME OrganizationIInv, NEW c \in Commands, NEW ok \in BOOLEAN, NEW partial \in BOOLEAN,
           cmd[c].pc \in {"check", "enter"} \cup Inside,
           Ends(c, ok, partial), Touches(c),
           organizationLock' = IF organizationLock = c THEN NoCommand ELSE organizationLock,
           organizationLock = c \/ UNCHANGED <<files, rows, refs, identityHistory>>
    PROVE  /\ Moves(c) /\ Fits(c)' /\ LedgerOK(c)' /\ Stage(c)'
           /\ ~ok /\ partial /\ Key(c) \in effects' => Blame'
           /\ Blame => Blame'
           /\ organizationLock' # c
<1> DEFINE place == IF cmd[c].req.kind = "setup" THEN "hired" ELSE "finish"
<1>1. /\ cmd[c] \in Records /\ cmd \in [Commands -> Records] /\ Fits(c) /\ LedgerOK(c)
      /\ ledger \in [Keys -> {"none", "running", "succeeded", "failed", "partial"}]
      /\ effects \subseteq Keys /\ CommandsTyped
  BY DEF OrganizationIInv, CommandsTyped
<1>2. Active(c) /\ cmd[c].pc \notin {"finish", "hired"}
  BY DEF Active, Inside
<1>3. Key(c) \in Keys /\ Key(c)[1] = c
  BY <1>1, <1>2, KeyIsOne
<1>4. cmd' = [cmd EXCEPT ![c] = [@ EXCEPT !.ok = ok, !.partial = partial, !.pc = place]]
  BY <1>1 DEF Ends
<1>5. /\ cmd'[c] = [cmd[c] EXCEPT !.ok = ok, !.partial = partial, !.pc = place]
      /\ \A d \in Commands \ {c} : cmd'[d] = cmd[d]
  BY <1>1, <1>4
<1>6. place \in Stages /\ place \notin Inside
  BY DEF Stages, Inside
<1>7. /\ cmd'[c] \in Records /\ cmd'[c].pc = place /\ cmd'[c].ok = ok /\ cmd'[c].partial = partial
      /\ cmd'[c].req = cmd[c].req /\ cmd'[c].todo = cmd[c].todo
  BY <1>1, <1>5, <1>6 DEF Records
<1>8. cmd' \in [Commands -> Records]
  BY <1>1, <1>4, <1>7
<1>9. \A d \in Commands \ {c} : organizationLock' = d <=> organizationLock = d
  BY OrganizationAssumption
<1>10. organizationLock' # c
  BY OrganizationAssumption
<1>11. Moves(c)
  BY <1>1, <1>3, <1>5, <1>8, <1>9 DEF Moves, Touches
<1>12. Fits(c)'
  <2>1. cmd[c].req.kind \in KindsAt(cmd[c].pc)
    BY <1>1 DEF Fits
  <2>2. cmd[c].req.kind \in KindsAt(place)
    BY <2>1, <1>2 DEF KindsAt, Inside
  <2>3. cmd[c].req.kind = "setup" => cmd[c].todo # <<>>
    BY <1>1 DEF Fits
  <2>4. QED
    BY <1>6, <1>7, <1>10, <2>2, <2>3 DEF Fits
<1>13. Key(c)' = Key(c)
  <2>1. cmd[c].pc \notin {"layout", "inspect", "candidate", "finish"}
    BY DEF Inside
  <2>2. CASE cmd[c].req.kind = "setup"
    BY <1>7, <2>1, <2>2 DEF Key
  <2>3. CASE cmd[c].req.kind # "setup"
    BY <1>7, <2>3 DEF Key
  <2>4. QED
    BY <2>2, <2>3
<1>14. LedgerOK(c)'
  <2>1. ledger'[<<c, 0>>] = "running" /\ ledger'[Key(c)'] = "running"
    BY <1>1, <1>2, <1>13 DEF LedgerOK, Touches
  <2>2. /\ cmd'[c].pc \notin {"identity", "heading", "repairs", "rows", "refs", "history", "sync"}
        /\ cmd'[c].pc # "idle"
    BY <1>7
  <2>3. QED
    BY <2>1, <2>2 DEF LedgerOK, At
<1>15. Stage(c)'
  BY <1>6, <1>7, OutsideHasNoStage
<1>16. ASSUME ~ok, partial, Key(c) \in effects' PROVE Blame'
  <2>1. ledger'[Key(c)] = "running"
    BY <1>1, <1>2 DEF LedgerOK, Touches
  <2>2. Blamed(Key(c))'
    <3>1. Key(c)'[1] = c
      BY <1>3, <1>13
    <3>2. CASE cmd[c].req.kind = "setup"
      BY <1>7, <1>13, <1>16, <2>1, <3>1, <3>2 DEF Blamed, At
    <3>3. CASE cmd[c].req.kind # "setup"
      BY <1>7, <1>13, <1>16, <2>1, <3>1, <3>3 DEF Blamed, At
    <3>4. QED
      BY <3>2, <3>3
  <2>3. QED
    BY <1>3, <1>13, <2>2 DEF Blame
<1>17. ASSUME Blame PROVE Blame'
  <2>1. \A k \in Keys : k[1] = c => ~Blamed(k)
    BY <1>2, NotBlamedAtWork
  <2>2. QED
    BY <1>11, <1>17, <2>1, BlameStays
<1>18. QED
  BY <1>10, <1>11, <1>12, <1>14, <1>15, <1>16, <1>17

\* A Command goes on with what it was asked for.
Proceeds(c, place) ==
    /\ cmd' \in [Commands -> Records]
    /\ \A d \in Commands \ {c} : cmd'[d] = cmd[d]
    /\ cmd'[c].pc = place /\ cmd'[c].req = cmd[c].req /\ cmd'[c].todo = cmd[c].todo

\* A Command goes on inside, from taking the lock to giving it back.
LEMMA ProceedsStep ==
    ASSUME OrganizationIInv, NEW c \in Commands, NEW place \in Inside,
           cmd[c].pc \in {"enter"} \cup Inside, Proceeds(c, place), Touches(c),
           organizationLock \in {c, NoCommand}, organizationLock' = c,
           cmd[c].req.kind \in KindsAt(place),
           \/ Key(c) \in effects'
           \/ place = "sync" /\ cmd[c].req.kind = "sync"
           \/ place \in {"create", "intent", "leave"},
           organizationLock = c \/ UNCHANGED <<files, rows, refs, identityHistory>>
    PROVE  /\ Moves(c) /\ Fits(c)' /\ LedgerOK(c)'
           /\ Key(c)' = Key(c)
           /\ Blame => Blame'
<1>1. /\ cmd[c] \in Records /\ Fits(c) /\ LedgerOK(c) /\ CommandsTyped
      /\ ledger \in [Keys -> {"none", "running", "succeeded", "failed", "partial"}]
      /\ effects \subseteq Keys
  BY DEF OrganizationIInv, CommandsTyped
<1>2. Active(c) /\ cmd[c].pc \notin {"finish", "hired"}
  BY DEF Active, Inside
<1>3. Key(c) \in Keys /\ Key(c)[1] = c
  BY <1>1, <1>2, KeyIsOne
<1>4. \A d \in Commands \ {c} : organizationLock' = d <=> organizationLock = d
  BY OrganizationAssumption
<1>5. Moves(c)
  BY <1>1, <1>3, <1>4 DEF Moves, Touches, Proceeds
<1>6. Fits(c)'
  BY <1>1 DEF Fits, Proceeds
<1>7. Key(c)' = Key(c)
  <2>1. cmd[c].pc \notin {"layout", "inspect", "candidate", "finish"}
    BY DEF Inside
  <2>2. place \notin {"layout", "inspect", "candidate", "finish"}
    BY DEF Inside
  <2>3. QED
    BY <2>1, <2>2 DEF Key, Proceeds
<1>8. LedgerOK(c)'
  <2>1. ledger'[<<c, 0>>] = "running" /\ ledger'[Key(c)'] = "running"
    BY <1>1, <1>2, <1>7 DEF LedgerOK, Touches
  <2>2. cmd'[c].pc # "idle"
    BY DEF Proceeds, Inside
  <2>3. ASSUME \/ cmd'[c].pc \in {"identity", "heading", "repairs", "rows", "refs", "history"}
               \/ At(c, "sync")' /\ cmd'[c].req.kind # "sync"
        PROVE  Key(c)' \in effects'
    BY <1>7, <2>3 DEF At, Proceeds
  <2>4. QED
    BY <2>1, <2>2, <2>3 DEF LedgerOK, At
<1>9. ASSUME Blame PROVE Blame'
  <2>1. \A k \in Keys : k[1] = c => ~Blamed(k)
    BY <1>2, NotBlamedAtWork
  <2>2. QED
    BY <1>5, <1>9, <2>1, BlameStays
<1>10. QED
  BY <1>5, <1>6, <1>7, <1>8, <1>9

-----------------------------------------------------------------------------
(* What the loader reads from the files.                                   *)

\* Employees whose file there is.
Filled(fs) == {m \in Names : fs[m] # NoFile}

\* The identity a file makes.
EmployeeOf(fs, n) == [id |-> fs[n].id, name |-> n, type |-> "employee", role |-> fs[n].role]

\* What the loader reads, in terms of the files.
LEMMA InventoryReads ==
    ASSUME NEW fs \in [Names -> Files \cup {NoFile}], NEW rs \in SUBSET Rows
    PROVE  /\ Filed(InventoryOf(fs, rs))
           /\ Employees(InventoryOf(fs, rs)) = {EmployeeOf(fs, n) : n \in Filled(fs)}
           /\ Pairs(Employees(InventoryOf(fs, rs))) = Known(fs)
           /\ \A i \in InventoryOf(fs, rs) :
                 \/ \E n \in Filled(fs) : i = EmployeeOf(fs, n)
                 \/ \E x \in rs : x.id = ManagerId
                       /\ i = [id |-> ManagerId, name |-> x.name, type |-> "manager", role |-> NoRole]
           /\ \A n \in Filled(fs) : fs[n] \in Files /\ EmployeeOf(fs, n) \in InventoryOf(fs, rs)
           /\ \A id \in Ids : id \in IdsOf(InventoryOf(fs, rs)) <=> \E n \in Filled(fs) : fs[n].id = id
<1> DEFINE I == InventoryOf(fs, rs)
           employees == {EmployeeOf(fs, n) : n \in Filled(fs)}
           managers == {[id |-> r.id, name |-> r.name, type |-> "manager", role |-> NoRole] :
                           r \in {x \in rs : x.id = ManagerId}}
<1>1. I = employees \cup managers
  BY DEF InventoryOf, EmployeeOf, Filled
<1>2. \A n \in Filled(fs) : fs[n] \in Files /\ n \in Names
  BY DEF Filled
<1>3. \A e \in employees : \E n \in Filled(fs) : e = EmployeeOf(fs, n)
  OBVIOUS
<1>4. \A n \in Filled(fs) : EmployeeOf(fs, n) \in employees
  OBVIOUS
<1>5. \A m \in managers : \E x \in rs : x.id = ManagerId
          /\ m = [id |-> ManagerId, name |-> x.name, type |-> "manager", role |-> NoRole]
  OBVIOUS
<1>6. employees \subseteq Identities
  BY <1>2, <1>3 DEF EmployeeOf, Identities, Files
<1>7. managers \subseteq Identities
  BY <1>5 DEF Identities, Rows
<1>8. \A e \in employees : e.type = "employee"
  BY <1>3 DEF EmployeeOf
<1>9. \A m \in managers : m.type = "manager"
  BY <1>5
<1> HIDE DEF I, employees, managers
<1>10. Employees(I) = employees
  BY <1>1, <1>8, <1>9 DEF Employees
<1>11. \A d, e \in employees : d.name = e.name => d = e
  BY <1>3 DEF EmployeeOf
<1>12. IsFiniteSet(employees)
  <2> DEFINE f == [e \in employees |-> e.name]
  <2>1. f \in Injection(employees, Names)
    <3>1. f \in [employees -> Names]
      BY <1>6 DEF Identities
    <3>2. \A d, e \in employees : f[d] = f[e] => d = e
      BY <1>11
    <3>3. QED
      BY <3>1, <3>2 DEF Injection, IsInjective
  <2>2. QED
    BY <2>1, FS_Injection, NamesAssumption
<1>13. IsFiniteSet(IdsOf(I))
  <2> DEFINE f == [e \in employees |-> e.id]
             ids == {e.id : e \in employees}
  <2>1. f \in Surjection(employees, ids)
    BY DEF Surjection
  <2>2. IsFiniteSet(ids)
    BY <2>1, <1>12, FS_Surjection
  <2>3. IsFiniteSet(ids \cup {ManagerId})
    BY <2>2, FS_AddElement
  <2>4. IdsOf(I) \subseteq ids \cup {ManagerId}
    BY <1>1, <1>5 DEF IdsOf
  <2>5. QED
    BY <2>3, <2>4, FS_Subset
<1>14. Filed(I)
  BY <1>1, <1>6, <1>7, <1>10, <1>11, <1>12, <1>13 DEF Filed
<1>15. Pairs(employees) = Known(fs)
  <2> DEFINE Told(n) == [id |-> fs[n].id, name |-> n]
  <2>1. Known(fs) = {Told(n) : n \in Filled(fs)}
    BY DEF Known, Filled
  <2>2. \A n \in Filled(fs) : [id |-> EmployeeOf(fs, n).id, name |-> EmployeeOf(fs, n).name] = Told(n)
    BY DEF EmployeeOf
  <2>3. Pairs(employees) = {[id |-> e.id, name |-> e.name] : e \in employees}
    BY DEF Pairs
  <2>4. ASSUME NEW p \in Pairs(employees) PROVE p \in Known(fs)
    <3>1. PICK e \in employees : p = [id |-> e.id, name |-> e.name]
      BY <2>3, <2>4
    <3>2. PICK n \in Filled(fs) : e = EmployeeOf(fs, n)
      BY <1>3, <3>1
    <3>3. p = Told(n)
      BY <2>2, <3>1, <3>2
    <3>4. QED
      BY <2>1, <3>3
  <2>5. ASSUME NEW p \in Known(fs) PROVE p \in Pairs(employees)
    <3>1. PICK n \in Filled(fs) : p = Told(n)
      BY <2>1, <2>5
    <3>2. p = [id |-> EmployeeOf(fs, n).id, name |-> EmployeeOf(fs, n).name]
      BY <2>2, <3>1
    <3>3. QED
      BY <1>4, <2>3, <3>2
  <2>6. QED
    BY <2>4, <2>5
<1>16. ASSUME NEW id \in Ids
       PROVE  id \in IdsOf(I) <=> \E n \in Filled(fs) : fs[n].id = id
  <2>1. id # ManagerId
    BY DEF Ids, ManagerId
  <2>2. ASSUME id \in IdsOf(I) PROVE \E n \in Filled(fs) : fs[n].id = id
    <3>1. PICK i \in I : i.id = id
      BY <2>2 DEF IdsOf
    <3>2. i \in employees
      BY <1>1, <1>5, <2>1, <3>1
    <3>3. QED
      BY <1>3, <3>1, <3>2 DEF EmployeeOf
  <2>3. ASSUME NEW n \in Filled(fs), fs[n].id = id PROVE id \in IdsOf(I)
    <3>1. EmployeeOf(fs, n) \in I /\ EmployeeOf(fs, n).id = id
      BY <1>1, <1>4, <2>3 DEF EmployeeOf
    <3>2. QED
      BY <3>1 DEF IdsOf
  <2>4. QED
    BY <2>2, <2>3
<1>17. \A i \in I : \/ \E n \in Filled(fs) : i = EmployeeOf(fs, n)
                    \/ \E x \in rs : x.id = ManagerId
                          /\ i = [id |-> ManagerId, name |-> x.name, type |-> "manager", role |-> NoRole]
  BY <1>1, <1>3, <1>5
<1>18. QED
  BY <1>1, <1>2, <1>4, <1>10, <1>14, <1>15, <1>16, <1>17, Zenon DEF I, employees

\* The repairs that are planned are repairs.
LEMMA PlanTyped ==
    ASSUME DocumentsTyped
    PROVE  IDRepairPlan(Inventory) \subseteq Repairs
<1>1. files \in [Names -> Files \cup {NoFile}] /\ rows \in SUBSET Rows
  BY DEF DocumentsTyped
<1>2. Filed(Inventory) /\ Employees(Inventory) = {EmployeeOf(files, n) : n \in Filled(files)}
      /\ \A n \in Filled(files) : files[n] \in Files
  BY <1>1, InventoryReads DEF Inventory
<1>3. ASSUME NEW r \in IDRepairPlan(Inventory) PROVE r \in Repairs
  <2>1. /\ \E e \in Duplicates(Inventory) :
              r = [name |-> e.name, current |-> e.id, proposed |-> Proposals(Inventory)[e],
                   place |-> Place(Inventory, e)]
        /\ r.proposed \in Nat /\ r.proposed > r.current /\ r.place \in Nat
    BY <1>2, PlanIsSound
  <2>2. PICK e \in Duplicates(Inventory) :
              r = [name |-> e.name, current |-> e.id, proposed |-> Proposals(Inventory)[e],
                   place |-> Place(Inventory, e)]
    BY <2>1
  <2>3. e \in Employees(Inventory)
    BY DEF Duplicates
  <2>4. PICK n \in Filled(files) : e = EmployeeOf(files, n)
    BY <1>2, <2>3
  <2>5. e.name \in Names /\ e.id \in Ids
    BY <1>2, <2>4 DEF EmployeeOf, Files, Filled
  <2>6. QED
    BY <2>1, <2>2, <2>5 DEF Repairs, Ids
<1>4. QED
  BY <1>3

-----------------------------------------------------------------------------
(* Steps outside the lock: Ask, Check, Layout.                             *)

\* A step outside, which changes nothing of the organization.
LEMMA QuietOrganizationStep ==
    ASSUME OrganizationIInv, NEW c \in Commands, Moves(c), Fits(c)', LedgerOK(c)',
           cmd'[c].pc \notin Inside, organizationLock' = organizationLock,
           UNCHANGED <<files, rows, refs, identityHistory>>, layout' \in BOOLEAN,
           \A k \in Keys : k[1] = c /\ Blamed(k) => Blamed(k)'
    PROVE  OrganizationIInv'
<1>1. Stage(c)'
  BY OutsideHasNoStage
<1>2. Blame => Blame'
  BY BlameStays
<1>3. organizationLock' # c
  BY DEF Fits
<1>4. LagOK'
  <2>1. organizationLock' = NoCommand => InOrder' \/ Blame'
    BY <1>2 DEF OrganizationIInv, LagOK, InOrder, Headings
  <2>2. ASSUME NEW d \in Commands \ {c}, organizationLock' = d PROVE LagAt(d)' \/ Blame'
    <3>1. cmd'[d] = cmd[d] /\ (LagAt(d) \/ Blame)
      BY <2>2 DEF OrganizationIInv, LagOK, Moves
    <3>2. FilesRepaired(cmd[d].left)' = FilesRepaired(cmd[d].left)
      BY <3>1 DEF FilesRepaired, RepairedId
    <3>3. InOrder' <=> InOrder
      BY DEF InOrder, Headings
    <3>5. Headings(Names)' <=> Headings(Names)
      BY DEF Headings
    <3>6. Headings(Names \ {cmd[d].req.new})' <=> Headings(Names \ {cmd[d].req.new})
      BY <3>1 DEF Headings
    <3>7. LagAt(d) => LagAt(d)'
      BY <3>1, <3>2, <3>3, <3>5, <3>6 DEF LagAt
    <3>8. QED
      BY <1>2, <3>1, <3>7
  <2>3. QED
    BY <1>3, <2>1, <2>2 DEF LagOK
<1>5. DocumentsTyped'
  BY DEF OrganizationIInv, DocumentsTyped
<1>6. DuplicatesHaveRows'
  BY DEF OrganizationIInv, DuplicatesHaveRows
<1>7. QED
  BY <1>1, <1>4, <1>5, <1>6, Assembles

\* A Command that was not asked for is of the Records.
LEMMA FreshTyped == Fresh \in Records
<1>1. <<>> \in Seq(StarterSet)
  OBVIOUS
<1>2. NoPlan \in [rows : SUBSET Rows, refs : SUBSET References, history : SUBSET AskedFor]
  BY DEF NoPlan
<1>3. QED
  BY <1>1, <1>2 DEF Fresh, Records, Stages, Inside

\* What the invariant says of one Command.
LEMMA CommandFacts ==
    ASSUME OrganizationIInv, NEW c \in Commands
    PROVE  /\ cmd \in [Commands -> Records] /\ cmd[c] \in Records /\ CommandsTyped
           /\ Fits(c) /\ LedgerOK(c) /\ Stage(c)
           /\ ledger \in [Keys -> {"none", "running", "succeeded", "failed", "partial"}]
           /\ effects \subseteq Keys
           /\ <<c, 0>> \in Keys
BY DEF OrganizationIInv, CommandsTyped, Keys

\* A setup that is between two starters, or done with them: its own record.
LEMMA OwnKey ==
    ASSUME NEW c \in Commands,
           \/ cmd[c].req.kind # "setup"
           \/ cmd[c].pc \in {"layout", "inspect", "candidate", "finish"}
    PROVE  Key(c) = <<c, 0>>
BY DEF Key

\* A Command is asked for something, and begins.
LEMMA AskKeeps ==
    ASSUME OrganizationIInv, NEW c \in Commands, Ask(c)
    PROVE  OrganizationIInv'
<1> DEFINE repairs == {[kind |-> "repair", expected |-> IDRepairPlan(Inventory), at |-> s] : s \in Seconds}
           FirstPlace(r) == CASE r.kind \in {"hire", "sync"} -> "check"
                              [] r.kind = "setup" -> "layout"
                              [] OTHER -> "enter"
           Todo(r) == IF r.kind = "setup" THEN Starters ELSE <<>>
<1>1. /\ cmd \in [Commands -> Records] /\ cmd[c] \in Records /\ CommandsTyped
      /\ Fits(c) /\ LedgerOK(c) /\ effects \subseteq Keys /\ <<c, 0>> \in Keys
      /\ ledger \in [Keys -> {"none", "running", "succeeded", "failed", "partial"}]
  BY CommandFacts
<1>2. cmd[c].pc = "idle" /\ \A k \in effects : k[1] # c
  BY <1>1 DEF Ask, At, LedgerOK
<1>3. PICK r \in Requests \cup repairs \cup {[kind |-> "setup"]} :
          cmd' = [cmd EXCEPT ![c].req = r, ![c].pc = FirstPlace(r), ![c].todo = Todo(r)]
  BY DEF Ask
<1>4. repairs \subseteq RepairRequests
  BY PlanTyped DEF OrganizationIInv, RepairRequests
<1>5. r \in AskedFor
  BY <1>4 DEF AskedFor
<1>6. r.kind \in {"hire", "rename", "sync", "repair", "setup"}
  <2>1. r # NoRequest
    BY <1>5, OrganizationAssumption DEF AskedFor, RepairRequests, NoRequest
  <2>2. QED
    BY <1>5, <2>1, RequestsTyped
<1>7. FirstPlace(r) \in {"check", "layout", "enter"} /\ FirstPlace(r) \in Stages
  BY DEF Stages
<1>8. Todo(r) \in Seq(StarterSet)
  <2>1. Starters \in Seq(StarterSet)
    <3>1. Starters \in [1 .. Len(Starters) -> StarterSet] /\ Len(Starters) \in Nat
      BY OrganizationAssumption DEF StarterSet
    <3>2. QED
      BY <3>1
  <2>2. QED
    BY <2>1
<1> HIDE DEF FirstPlace, Todo, repairs
<1>9. /\ cmd'[c] = [cmd[c] EXCEPT !.req = r, !.pc = FirstPlace(r), !.todo = Todo(r)]
      /\ \A d \in Commands \ {c} : cmd'[d] = cmd[d]
  BY <1>1, <1>3
<1>10. cmd'[c] \in Records /\ cmd'[c].pc = FirstPlace(r) /\ cmd'[c].req = r
  <2>1. r \in AskedFor \cup {NoRequest}
    BY <1>5
  <2>2. FirstPlace(r) \in Stages
    BY <1>7
  <2>3. QED
    BY <1>1, <1>8, <1>9, <2>1, <2>2 DEF Records
<1>11. cmd' \in [Commands -> Records]
  <2>1. cmd' = [cmd EXCEPT ![c] = cmd'[c]]
    BY <1>1, <1>3
  <2>2. QED
    BY <1>1, <1>10, <2>1
<1>12. /\ ledger' = [ledger EXCEPT ![<<c, 0>>] = "running"]
       /\ UNCHANGED <<layout, files, rows, refs, identityHistory, organizationLock, effects>>
  BY DEF Ask, Kept, documents
<1>13. \A k \in Keys : k[1] # c => ledger'[k] = ledger[k]
  BY <1>1, <1>12
<1>14. Moves(c)
  BY <1>1, <1>9, <1>11, <1>12, <1>13 DEF Moves
<1>15. cmd'[c].pc \notin Inside
  BY <1>7, <1>10 DEF Inside
<1>16. Fits(c)'
  <2>1. r.kind \in KindsAt(FirstPlace(r))
    BY <1>6 DEF KindsAt, FirstPlace
  <2>2. r.kind = "setup" => FirstPlace(r) = "layout"
    BY DEF FirstPlace
  <2>3. organizationLock' # c
    BY <1>1, <1>2, <1>12 DEF Fits, Inside
  <2>4. QED
    BY <1>10, <1>15, <2>1, <2>2, <2>3 DEF Fits, Inside
<1>17. LedgerOK(c)'
  <2>1. Key(c)' = <<c, 0>>
    BY <1>10 DEF Key, FirstPlace
  <2>2. ledger'[<<c, 0>>] = "running"
    BY <1>1, <1>12
  <2>3. QED
    BY <1>7, <1>10, <2>1, <2>2 DEF LedgerOK, At
<1>18. \A k \in Keys : k[1] = c => ~Blamed(k)
  BY <1>2 DEF Blamed
<1>19. QED
  BY <1>12, <1>14, <1>15, <1>16, <1>17, <1>18, QuietOrganizationStep DEF OrganizationIInv, DocumentsTyped

\* The check before the lock.
LEMMA CheckKeeps ==
    ASSUME OrganizationIInv, NEW c \in Commands, Check(c)
    PROVE  OrganizationIInv'
<1>1. /\ cmd \in [Commands -> Records] /\ cmd[c] \in Records /\ CommandsTyped
      /\ Fits(c) /\ LedgerOK(c) /\ effects \subseteq Keys
      /\ ledger \in [Keys -> {"none", "running", "succeeded", "failed", "partial"}]
  BY CommandFacts
<1>2. cmd[c].pc = "check" /\ Active(c)
  BY DEF Check, At, Active
<1>3. organizationLock # c
  BY <1>1, <1>2 DEF Fits, Inside
<1>4. UNCHANGED <<layout, files, rows, refs, identityHistory, organizationLock, ledger, effects>>
  BY DEF Check, Kept, documents
<1>5. CASE Go(c, "enter")
  <2>1. /\ cmd'[c] = [cmd[c] EXCEPT !.pc = "enter"] /\ \A d \in Commands \ {c} : cmd'[d] = cmd[d]
        /\ cmd' = [cmd EXCEPT ![c] = cmd'[c]]
    BY <1>1, <1>5 DEF Go
  <2>2. /\ cmd'[c] \in Records /\ cmd'[c].pc = "enter" /\ cmd'[c].req = cmd[c].req
        /\ cmd'[c].todo = cmd[c].todo
    BY <1>1, <2>1 DEF Records, Stages
  <2>3. cmd' \in [Commands -> Records]
    BY <1>1, <2>1, <2>2
  <2>4. Moves(c)
    BY <1>1, <1>4, <2>1, <2>3 DEF Moves
  <2>5. Key(c)' = Key(c)
    BY <1>2, <2>2 DEF Key
  <2>6. LedgerOK(c)'
    BY <1>1, <1>2, <1>4, <2>2, <2>5 DEF LedgerOK, At
  <2>7. Fits(c)'
    BY <1>1, <1>2, <1>3, <1>4, <2>2 DEF Fits, KindsAt, Inside
  <2>8. cmd'[c].pc \notin Inside
    BY <2>2 DEF Inside
  <2>9. \A k \in Keys : k[1] = c => ~Blamed(k)
    BY <1>2, NotBlamedAtWork
  <2>10. QED
    BY <1>4, <2>4, <2>6, <2>7, <2>8, <2>9, QuietOrganizationStep DEF OrganizationIInv, DocumentsTyped
<1>6. CASE Ends(c, FALSE, FALSE)
  <2>1. /\ Moves(c) /\ Fits(c)' /\ LedgerOK(c)' /\ organizationLock' # c
    BY <1>2, <1>3, <1>4, <1>6, EndsStep DEF Touches
  <2>2. cmd'[c].pc \notin Inside
    BY <2>1 DEF Fits
  <2>3. \A k \in Keys : k[1] = c => ~Blamed(k)
    BY <1>2, NotBlamedAtWork
  <2>4. QED
    BY <1>4, <2>1, <2>2, <2>3, QuietOrganizationStep DEF OrganizationIInv, DocumentsTyped
<1>7. QED
  BY <1>5, <1>6 DEF Check

\* The steps of workspace.setup.
LEMMA LayoutKeeps ==
    ASSUME OrganizationIInv, NEW c \in Commands, Layout(c)
    PROVE  OrganizationIInv'
<1>1. /\ cmd \in [Commands -> Records] /\ cmd[c] \in Records /\ CommandsTyped
      /\ Fits(c) /\ LedgerOK(c) /\ effects \subseteq Keys /\ <<c, 0>> \in Keys
      /\ ledger \in [Keys -> {"none", "running", "succeeded", "failed", "partial"}]
  BY CommandFacts
<1>2. cmd[c].pc = "layout" /\ Active(c)
  BY DEF Layout, At, Active
<1>3. organizationLock # c /\ cmd[c].req.kind = "setup"
  BY <1>1, <1>2 DEF Fits, Inside, KindsAt
<1>4. UNCHANGED <<files, rows, refs, identityHistory, organizationLock, ledger>>
  BY DEF Layout
<1>5. Key(c) = <<c, 0>>
  BY <1>2, OwnKey
<1>6. effects \subseteq effects' /\ effects' \subseteq effects \cup {<<c, 0>>}
  BY <1>5 DEF Layout, Touched
<1>7. PICK place \in {"inspect", "finish"}, ok \in BOOLEAN, partial \in BOOLEAN, effect \in BOOLEAN :
          cmd' = [cmd EXCEPT ![c] = [@ EXCEPT !.pc = place, !.ok = ok, !.partial = partial, !.effect = effect]]
  <2>1. /\ cmd[c].ok \in BOOLEAN /\ cmd[c].partial \in BOOLEAN /\ layout \in BOOLEAN
        /\ cmd[c].effect \in BOOLEAN
    BY <1>1 DEF Records, OrganizationIInv, DocumentsTyped
  <2>2. CASE cmd' = [cmd EXCEPT ![c].pc = "inspect", ![c].effect = ~layout]
    <3>1. cmd' = [cmd EXCEPT ![c] = [@ EXCEPT !.pc = "inspect", !.ok = cmd[c].ok,
                                              !.partial = cmd[c].partial, !.effect = ~layout]]
      BY <1>1, <2>2 DEF Records
    <3>2. QED
      BY <2>1, <3>1
  <2>3. ASSUME NEW directories \in BOOLEAN,
               cmd' = [cmd EXCEPT ![c].pc = "finish", ![c].ok = FALSE, ![c].partial = directories]
        PROVE  \E place \in {"inspect", "finish"}, ok \in BOOLEAN, partial \in BOOLEAN, e \in BOOLEAN :
                   cmd' = [cmd EXCEPT ![c] = [@ EXCEPT !.pc = place, !.ok = ok, !.partial = partial, !.effect = e]]
    <3>1. cmd' = [cmd EXCEPT ![c] = [@ EXCEPT !.pc = "finish", !.ok = FALSE,
                                              !.partial = directories, !.effect = cmd[c].effect]]
      BY <1>1, <2>3 DEF Records
    <3>2. QED
      BY <2>1, <3>1
  <2>4. QED
    BY <2>2, <2>3 DEF Layout
<1>8. /\ cmd'[c] = [cmd[c] EXCEPT !.pc = place, !.ok = ok, !.partial = partial, !.effect = effect]
      /\ \A d \in Commands \ {c} : cmd'[d] = cmd[d]
      /\ cmd' = [cmd EXCEPT ![c] = cmd'[c]]
  BY <1>1, <1>7
<1>9. /\ cmd'[c] \in Records /\ cmd'[c].pc = place /\ cmd'[c].req = cmd[c].req
      /\ cmd'[c].todo = cmd[c].todo
  <2>1. place \in Stages
    BY DEF Stages
  <2>2. QED
    BY <1>1, <1>8, <2>1 DEF Records
<1>10. cmd' \in [Commands -> Records]
  BY <1>1, <1>8, <1>9
<1>11. Moves(c)
  BY <1>1, <1>4, <1>6, <1>8, <1>10 DEF Moves
<1>12. Key(c)' = <<c, 0>>
  BY <1>9 DEF Key
<1>13. LedgerOK(c)'
  BY <1>1, <1>2, <1>4, <1>9, <1>12 DEF LedgerOK, At
<1>14. Fits(c)' /\ cmd'[c].pc \notin Inside
  BY <1>3, <1>4, <1>9 DEF Fits, KindsAt, Inside
<1>15. \A k \in Keys : k[1] = c => ~Blamed(k)
  BY <1>2, NotBlamedAtWork
<1>16. layout' \in BOOLEAN
  BY DEF Layout, OrganizationIInv, DocumentsTyped
<1>17. QED
  BY <1>4, <1>11, <1>13, <1>14, <1>15, <1>16, QuietOrganizationStep

-----------------------------------------------------------------------------
(* Steps outside the lock: the hires of workspace.setup.                   *)

\* One Command's record is replaced.
LEMMA NewRecord ==
    ASSUME cmd \in [Commands -> Records], NEW c \in Commands, NEW rec \in Records,
           cmd' = [cmd EXCEPT ![c] = rec]
    PROVE  /\ cmd' \in [Commands -> Records] /\ cmd'[c] = rec
           /\ \A d \in Commands \ {c} : cmd'[d] = cmd[d]
OBVIOUS

\* A step of a setup between its hires keeps the invariant, when the record it
\* goes on with, its own or a new child's, is running.
LEMMA SetupStep ==
    ASSUME OrganizationIInv, NEW c \in Commands,
           cmd[c].pc \in {"inspect", "candidate"}, NEW rec \in Records,
           cmd' = [cmd EXCEPT ![c] = rec], rec.req = cmd[c].req,
           rec.pc \in {"candidate", "finish", "check"},
           rec.pc = "check" => rec.todo # <<>>,
           UNCHANGED <<layout, files, rows, refs, identityHistory, organizationLock, effects>>,
           IF rec.pc = "check"
             THEN ledger' = [ledger EXCEPT ![<<c, Head(rec.todo).id>>] = "running"]
             ELSE ledger' = ledger
    PROVE  OrganizationIInv'
<1>1. /\ cmd \in [Commands -> Records] /\ cmd[c] \in Records /\ CommandsTyped
      /\ Fits(c) /\ LedgerOK(c) /\ effects \subseteq Keys /\ <<c, 0>> \in Keys
      /\ ledger \in [Keys -> {"none", "running", "succeeded", "failed", "partial"}]
  BY CommandFacts
<1>2. Active(c) /\ Key(c) = <<c, 0>>
  BY OwnKey DEF Active
<1>3. organizationLock # c /\ cmd[c].req.kind = "setup"
  BY <1>1 DEF Fits, Inside, KindsAt
<1>4. /\ cmd' \in [Commands -> Records] /\ cmd'[c] = rec
      /\ \A d \in Commands \ {c} : cmd'[d] = cmd[d]
  BY <1>1, NewRecord
<1>5. CommandsTyped'
  BY <1>4 DEF CommandsTyped
<1>6. Fits(c)' /\ cmd'[c].pc \notin Inside
  BY <1>3, <1>4 DEF Fits, KindsAt, Inside
<1>7. ASSUME rec.pc = "check"
      PROVE  /\ <<c, Head(rec.todo).id>> \in Keys /\ Head(rec.todo).id # 0
             /\ Key(c)' = <<c, Head(rec.todo).id>>
  <2>1. rec.todo \in Seq(StarterSet) /\ rec.todo # <<>>
    BY <1>7 DEF Records
  <2>2. Head(rec.todo) \in StarterSet
    BY <2>1
  <2>3. PICK k \in DOMAIN Starters : Head(rec.todo) = Starters[k]
    BY <2>2 DEF StarterSet
  <2>4. Starters[k].id \in Ids
    <3>1. Starters[k] \in Candidates
      BY OrganizationAssumption
    <3>2. QED
      BY <3>1 DEF Candidates
  <2>5. QED
    BY <1>3, <1>4, <1>7, <2>3, <2>4 DEF Keys, Ids, Key
<1>8. ledger' \in [Keys -> {"none", "running", "succeeded", "failed", "partial"}]
      /\ \A k \in Keys : k[1] # c => ledger'[k] = ledger[k]
  BY <1>1, <1>7
<1>9. Moves(c)
  BY <1>1, <1>4, <1>8 DEF Moves
<1>10. LedgerOK(c)'
  <2>1. ledger[<<c, 0>>] = "running"
    BY <1>1, <1>2 DEF LedgerOK
  <2>2. CASE rec.pc = "check"
    <3>1. ledger'[<<c, 0>>] = "running" /\ ledger'[Key(c)'] = "running"
      BY <1>1, <1>7, <2>1, <2>2
    <3>2. QED
      BY <1>4, <2>2, <3>1 DEF LedgerOK, At
  <2>3. CASE rec.pc # "check"
    <3>1. Key(c)' = <<c, 0>>
      BY <1>4, <2>3 DEF Key
    <3>2. QED
      BY <1>4, <2>1, <2>3, <3>1 DEF LedgerOK, At
  <2>4. QED
    BY <2>2, <2>3
<1>11. \A k \in Keys : k[1] = c => ~Blamed(k)
  BY <1>2, NotBlamedAtWork
<1>12. QED
  BY <1>6, <1>9, <1>10, <1>11, QuietOrganizationStep DEF OrganizationIInv, DocumentsTyped

\* A setup reads who is there already.
LEMMA InspectKeeps ==
    ASSUME OrganizationIInv, NEW c \in Commands, Inspect(c)
    PROVE  OrganizationIInv'
<1> DEFINE known == {e \in Employees(Inventory) :
                        \A d \in Employees(Inventory) : d.id = e.id => d.name <= e.name}
           read == [cmd[c] EXCEPT !.pc = "candidate", !.known = known]
           fails == [cmd[c] EXCEPT !.pc = "finish", !.ok = FALSE, !.partial = cmd[c].effect]
<1>1. cmd \in [Commands -> Records] /\ cmd[c] \in Records /\ cmd[c].pc = "inspect"
  BY CommandFacts DEF Inspect, At
<1>2. known \subseteq Identities
  <2>1. Filed(Inventory)
    BY InventoryReads DEF OrganizationIInv, DocumentsTyped, Inventory
  <2>2. QED
    BY <2>1 DEF Filed, Employees
<1>3. cmd' = [cmd EXCEPT ![c] = read] \/ cmd' = [cmd EXCEPT ![c] = fails]
  BY <1>1 DEF Inspect, Records
<1> HIDE DEF known
<1>4. read \in Records /\ read.req = cmd[c].req /\ read.pc = "candidate"
  BY <1>1, <1>2 DEF Records, Stages
<1>5. fails \in Records /\ fails.req = cmd[c].req /\ fails.pc = "finish"
  BY <1>1 DEF Records, Stages
<1> HIDE DEF read, fails
<1>6. UNCHANGED <<layout, files, rows, refs, identityHistory, organizationLock, effects, ledger>>
  BY DEF Inspect, Kept, documents
<1>7. CASE cmd' = [cmd EXCEPT ![c] = read]
  BY <1>1, <1>4, <1>6, <1>7, SetupStep
<1>8. CASE cmd' = [cmd EXCEPT ![c] = fails]
  BY <1>1, <1>5, <1>6, <1>8, SetupStep
<1>9. QED
  BY <1>3, <1>7, <1>8

\* A setup begins to hire its next starter, keeps one who is there, or stops.
LEMMA NextStarterKeeps ==
    ASSUME OrganizationIInv, NEW c \in Commands, NextStarter(c)
    PROVE  OrganizationIInv'
<1> DEFINE starter == Head(cmd[c].todo)
           existing == {e \in cmd[c].known : e.id = starter.id}
<1>1. cmd \in [Commands -> Records] /\ cmd[c] \in Records /\ cmd[c].pc = "candidate"
  BY CommandFacts DEF NextStarter, At
<1>2. UNCHANGED <<layout, files, rows, refs, identityHistory, organizationLock, effects>>
  BY DEF NextStarter, Kept, documents
<1>3. cmd[c].todo \in Seq(StarterSet) /\ cmd[c].effect \in BOOLEAN
  BY <1>1 DEF Records
<1>4. CASE Go(c, "finish") /\ UNCHANGED ledger
  <2> DEFINE rec == [cmd[c] EXCEPT !.pc = "finish"]
  <2>1. rec \in Records /\ rec.req = cmd[c].req /\ rec.pc = "finish" /\ cmd' = [cmd EXCEPT ![c] = rec]
    BY <1>1, <1>4 DEF Records, Stages, Go
  <2> HIDE DEF rec
  <2>2. QED
    BY <1>1, <1>2, <1>4, <2>1, SetupStep
<1>5. CASE cmd' = [cmd EXCEPT ![c].todo = Tail(@)] /\ cmd[c].todo # <<>> /\ UNCHANGED ledger
  <2> DEFINE rec == [cmd[c] EXCEPT !.todo = Tail(cmd[c].todo)]
  <2>1. Tail(cmd[c].todo) \in Seq(StarterSet)
    BY <1>3, <1>5
  <2>2. /\ rec \in Records /\ rec.req = cmd[c].req /\ rec.pc = "candidate"
        /\ cmd' = [cmd EXCEPT ![c] = rec]
    BY <1>1, <1>5, <2>1 DEF Records
  <2> HIDE DEF rec
  <2>3. QED
    BY <1>1, <1>2, <1>5, <2>2, SetupStep
<1>6. CASE /\ cmd' = [cmd EXCEPT ![c].pc = "finish", ![c].ok = FALSE, ![c].partial = cmd[c].effect]
           /\ UNCHANGED ledger
  <2> DEFINE rec == [cmd[c] EXCEPT !.pc = "finish", !.ok = FALSE, !.partial = cmd[c].effect]
  <2>1. /\ rec \in Records /\ rec.req = cmd[c].req /\ rec.pc = "finish"
        /\ cmd' = [cmd EXCEPT ![c] = rec]
    BY <1>1, <1>3, <1>6 DEF Records, Stages
  <2> HIDE DEF rec
  <2>2. QED
    BY <1>1, <1>2, <1>6, <2>1, SetupStep
<1>7. CASE /\ cmd[c].todo # <<>> /\ Go(c, "check")
           /\ ledger' = [ledger EXCEPT ![<<c, starter.id>>] = "running"]
  <2> DEFINE rec == [cmd[c] EXCEPT !.pc = "check"]
  <2>1. /\ rec \in Records /\ rec.req = cmd[c].req /\ rec.pc = "check" /\ rec.todo = cmd[c].todo
        /\ cmd' = [cmd EXCEPT ![c] = rec]
    BY <1>1, <1>7 DEF Records, Stages, Go
  <2> HIDE DEF rec
  <2>2. QED
    BY <1>1, <1>2, <1>7, <2>1, SetupStep
<1>8. QED
  BY <1>4, <1>5, <1>6, <1>7 DEF NextStarter

\* The child's outcome reaches the Ledger, or does not; blame stays either way.
LEMMA HiredKeeps ==
    ASSUME OrganizationIInv, NEW c \in Commands, Hired(c)
    PROVE  OrganizationIInv'
<1>1. /\ cmd \in [Commands -> Records] /\ cmd[c] \in Records /\ CommandsTyped
      /\ Fits(c) /\ LedgerOK(c) /\ effects \subseteq Keys /\ <<c, 0>> \in Keys
      /\ ledger \in [Keys -> {"none", "running", "succeeded", "failed", "partial"}]
  BY CommandFacts
<1>2. cmd[c].pc = "hired" /\ Active(c)
  BY DEF Hired, At, Active
<1>3. organizationLock # c /\ cmd[c].req.kind = "setup" /\ cmd[c].todo # <<>>
  BY <1>1, <1>2 DEF Fits, Inside, KindsAt
<1>4. UNCHANGED <<layout, files, rows, refs, identityHistory, organizationLock, effects>>
  BY DEF Hired, Kept, documents
<1>5. /\ Key(c) = <<c, Head(cmd[c].todo).id>> /\ Key(c) \in Keys /\ Head(cmd[c].todo).id # 0
  <2>1. Key(c) = <<c, Head(cmd[c].todo).id>>
    BY <1>2, <1>3 DEF Key
  <2>2. Head(cmd[c].todo).id \in Ids
    BY <1>1, <1>3, CandidateTyped
  <2>3. QED
    BY <1>1, <1>2, <2>1, <2>2, KeyIsOne DEF Ids
<1>6. PICK recorded \in BOOLEAN :
          /\ ledger' = IF recorded
                         THEN [ledger EXCEPT ![Key(c)] = Outcome(cmd[c].ok, cmd[c].partial)] ELSE ledger
          /\ cmd' = IF cmd[c].ok /\ recorded
                      THEN [cmd EXCEPT ![c].effect = TRUE, ![c].todo = Tail(@), ![c].pc = "candidate"]
                      ELSE [cmd EXCEPT ![c].pc = "finish", ![c].ok = FALSE, ![c].partial = cmd[c].effect]
  BY DEF Hired
<1>7. cmd[c].ok \in BOOLEAN /\ cmd[c].partial \in BOOLEAN /\ cmd[c].effect \in BOOLEAN
      /\ cmd[c].todo \in Seq(StarterSet)
  BY <1>1 DEF Records
<1>8. PICK rec \in Records :
          /\ cmd' = [cmd EXCEPT ![c] = rec] /\ rec.req = cmd[c].req
          /\ rec.pc \in {"candidate", "finish"}
          /\ ~cmd[c].ok => rec.pc = "finish" /\ ~rec.ok
  <2>1. CASE cmd[c].ok /\ recorded
    <3> DEFINE rec == [cmd[c] EXCEPT !.effect = TRUE, !.todo = Tail(cmd[c].todo), !.pc = "candidate"]
    <3>1. Tail(cmd[c].todo) \in Seq(StarterSet)
      BY <1>3, <1>7
    <3>2. rec \in Records /\ rec.req = cmd[c].req /\ rec.pc = "candidate"
      BY <1>1, <3>1 DEF Records, Stages
    <3>3. cmd' = [cmd EXCEPT ![c] = rec]
      BY <1>1, <1>6, <2>1
    <3>4. QED
      BY <2>1, <3>2, <3>3
  <2>2. CASE ~(cmd[c].ok /\ recorded)
    <3> DEFINE rec == [cmd[c] EXCEPT !.pc = "finish", !.ok = FALSE, !.partial = cmd[c].effect]
    <3>1. rec \in Records /\ rec.req = cmd[c].req /\ rec.pc = "finish" /\ ~rec.ok
      BY <1>1, <1>7 DEF Records, Stages
    <3>2. cmd' = [cmd EXCEPT ![c] = rec]
      BY <1>1, <1>6, <2>2
    <3>3. QED
      BY <3>1, <3>2
  <2>3. QED
    BY <2>1, <2>2
<1>9. /\ cmd' \in [Commands -> Records] /\ cmd'[c] = rec
      /\ \A d \in Commands \ {c} : cmd'[d] = cmd[d]
  BY <1>1, <1>8, NewRecord
<1>10. /\ Outcome(cmd[c].ok, cmd[c].partial) \in {"succeeded", "failed", "partial"}
       /\ ~cmd[c].ok /\ cmd[c].partial => Outcome(cmd[c].ok, cmd[c].partial) = "partial"
  BY DEF Outcome
<1>11. /\ ledger' \in [Keys -> {"none", "running", "succeeded", "failed", "partial"}]
       /\ \A k \in Keys : k # Key(c) => ledger'[k] = ledger[k]
       /\ ledger'[Key(c)] \in {ledger[Key(c)], Outcome(cmd[c].ok, cmd[c].partial)}
  BY <1>1, <1>5, <1>6, <1>10
<1>12. Moves(c)
  BY <1>1, <1>4, <1>5, <1>9, <1>11 DEF Moves
<1>13. Fits(c)' /\ cmd'[c].pc \notin Inside
  BY <1>3, <1>4, <1>8, <1>9 DEF Fits, KindsAt, Inside
<1>14. LedgerOK(c)'
  <2>1. Key(c)' = <<c, 0>> /\ <<c, 0>> # Key(c)
    BY <1>5, <1>8, <1>9 DEF Key
  <2>2. ledger'[<<c, 0>>] = "running"
    BY <1>1, <1>2, <1>11, <2>1 DEF LedgerOK
  <2>3. QED
    BY <1>8, <1>9, <2>1, <2>2 DEF LedgerOK, At
<1>15. ASSUME NEW k \in Keys, k[1] = c, Blamed(k) PROVE Blamed(k)'
  <2>1. k = Key(c) /\ ~cmd[c].ok /\ cmd[c].partial /\ k \in effects
    BY <1>2, <1>15 DEF Blamed, At
  <2>2. ledger'[k] \in {"running", "partial"}
    BY <1>10, <1>11, <1>15, <2>1 DEF Blamed
  <2>3. k[2] # 0
    BY <1>5, <2>1
  <2>4. cmd'[c].pc = "finish" /\ ~cmd'[c].ok
    BY <1>8, <1>9, <2>1
  <2>5. QED
    BY <1>4, <1>15, <2>1, <2>2, <2>3, <2>4 DEF Blamed, At
<1>16. QED
  BY <1>4, <1>12, <1>13, <1>14, <1>15, QuietOrganizationStep DEF OrganizationIInv, DocumentsTyped

\* A Command is over: its record says how.
LEMMA FinishKeeps ==
    ASSUME OrganizationIInv, NEW c \in Commands, Finish(c)
    PROVE  OrganizationIInv'
<1> DEFINE rec == [Fresh EXCEPT !.pc = "done", !.req = cmd[c].req]
           outcome == Outcome(cmd[c].ok, cmd[c].partial)
<1>1. /\ cmd \in [Commands -> Records] /\ cmd[c] \in Records /\ CommandsTyped
      /\ Fits(c) /\ LedgerOK(c) /\ effects \subseteq Keys /\ <<c, 0>> \in Keys
      /\ ledger \in [Keys -> {"none", "running", "succeeded", "failed", "partial"}]
  BY CommandFacts
<1>2. cmd[c].pc = "finish" /\ Active(c)
  BY DEF Finish, At, Active
<1>3. organizationLock # c
  BY <1>1, <1>2 DEF Fits, Inside
<1>4. UNCHANGED <<layout, files, rows, refs, identityHistory, organizationLock, effects>>
  BY DEF Finish, Kept, documents
<1>5. rec \in Records /\ rec.req = cmd[c].req /\ rec.pc = "done"
  BY <1>1, FreshTyped DEF Records, Stages
<1>6. cmd' = [cmd EXCEPT ![c] = rec]
  BY DEF Finish
<1> HIDE DEF rec
<1>7. /\ cmd' \in [Commands -> Records] /\ cmd'[c] = rec
      /\ \A d \in Commands \ {c} : cmd'[d] = cmd[d]
  BY <1>1, <1>5, <1>6, NewRecord
<1>8. /\ outcome \in {"succeeded", "failed", "partial"}
      /\ ~cmd[c].ok /\ cmd[c].partial => outcome = "partial"
  BY DEF Outcome
<1>9. /\ ledger' \in [Keys -> {"none", "running", "succeeded", "failed", "partial"}]
      /\ \A k \in Keys : k # <<c, 0>> => ledger'[k] = ledger[k]
      /\ ledger'[<<c, 0>>] \in {ledger[<<c, 0>>], outcome}
  BY <1>1, <1>8 DEF Finish
<1>10. Moves(c)
  BY <1>1, <1>4, <1>7, <1>9 DEF Moves
<1>11. cmd'[c].pc = "done" /\ cmd'[c].req = cmd[c].req
  BY <1>5, <1>7
<1>12. Fits(c)' /\ cmd'[c].pc \notin Inside
  BY <1>1, <1>2, <1>3, <1>4, <1>11 DEF Fits, KindsAt, Inside
<1>13. LedgerOK(c)'
  BY <1>11 DEF LedgerOK, At, Active
<1>14. ASSUME NEW k \in Keys, k[1] = c, Blamed(k) PROVE Blamed(k)'
  <2>1. k \in effects /\ ~cmd[c].ok /\ (k[2] = 0 => cmd[c].partial)
        /\ ledger[k] \in {"running", "partial"}
    BY <1>2, <1>14 DEF Blamed, At
  <2>2. k[2] = 0 => k = <<c, 0>>
    BY <1>14 DEF Keys
  <2>3. ledger'[k] \in {"running", "partial"}
    BY <1>8, <1>9, <2>1, <2>2
  <2>4. ~Active(c)'
    BY <1>11 DEF Active
  <2>5. QED
    BY <1>4, <1>14, <2>1, <2>3, <2>4 DEF Blamed, Active
<1>15. QED
  BY <1>4, <1>10, <1>12, <1>13, <1>14, QuietOrganizationStep DEF OrganizationIInv, DocumentsTyped

-----------------------------------------------------------------------------
(* The death of a Command.                                                 *)

\* What a dead Command left half done is to its blame: its record is running.
LEMMA DieKeeps ==
    ASSUME OrganizationIInv, NEW c \in Commands, Die(c)
    PROVE  OrganizationIInv'
<1> DEFINE rec == [Fresh EXCEPT !.pc = "dead", !.req = cmd[c].req]
<1>1. /\ cmd \in [Commands -> Records] /\ cmd[c] \in Records /\ CommandsTyped
      /\ Fits(c) /\ LedgerOK(c) /\ effects \subseteq Keys
      /\ ledger \in [Keys -> {"none", "running", "succeeded", "failed", "partial"}]
  BY CommandFacts
<1>2. Active(c)
  BY DEF Die
<1>3. UNCHANGED <<layout, files, rows, refs, identityHistory, ledger, effects>>
  BY DEF Die, Kept, documents
<1>4. organizationLock' = IF organizationLock = c THEN NoCommand ELSE organizationLock
  BY DEF Die
<1>5. rec \in Records /\ rec.req = cmd[c].req /\ rec.pc = "dead"
  BY <1>1, FreshTyped DEF Records, Stages
<1>6. cmd' = [cmd EXCEPT ![c] = rec]
  BY DEF Die
<1> HIDE DEF rec
<1>7. /\ cmd' \in [Commands -> Records] /\ cmd'[c] = rec
      /\ \A d \in Commands \ {c} : cmd'[d] = cmd[d]
  BY <1>1, <1>5, <1>6, NewRecord
<1>8. \A d \in Commands \ {c} : organizationLock' = d <=> organizationLock = d
  BY <1>4, OrganizationAssumption
<1>9. Moves(c)
  BY <1>1, <1>3, <1>7, <1>8 DEF Moves
<1>10. cmd'[c].pc = "dead" /\ cmd'[c].req = cmd[c].req /\ ~Active(c)'
  BY <1>5, <1>7 DEF Active
<1>11. organizationLock' # c
  BY <1>4, OrganizationAssumption
<1>12. Fits(c)' /\ cmd'[c].pc \notin Inside
  <2>1. cmd[c].req.kind \in KindsAt("dead")
    BY <1>1, <1>2 DEF Fits, KindsAt, Active
  <2>2. QED
    BY <1>10, <1>11, <2>1 DEF Fits, Inside
<1>13. LedgerOK(c)'
  BY <1>10 DEF LedgerOK, At, Active
<1>14. ASSUME NEW k \in Keys, k[1] = c, k \in effects, ledger[k] \in {"running", "partial"}
       PROVE  Blamed(k)'
  BY <1>3, <1>10, <1>14 DEF Blamed
<1>15. Blame => Blame'
  <2>1. \A k \in Keys : k[1] = c /\ Blamed(k) => Blamed(k)'
    BY <1>14 DEF Blamed
  <2>2. QED
    BY <1>9, <2>1, BlameStays
<1>16. InOrder' <=> InOrder
  BY <1>3 DEF InOrder, Headings
<1>17. ASSUME organizationLock' = NoCommand PROVE InOrder' \/ Blame'
  <2>1. CASE organizationLock # c
    BY <1>4, <1>15, <1>16, <1>17, <2>1 DEF OrganizationIInv, LagOK
  <2>2. CASE organizationLock = c
    <3>1. LagAt(c) \/ Blame
      BY <2>2 DEF OrganizationIInv, LagOK
    <3>2. cmd[c].pc \in Inside
      BY <1>1, <2>2 DEF Fits
    <3>3. CASE Key(c) \in effects
      <4>1. Key(c) \in Keys /\ Key(c)[1] = c /\ ledger[Key(c)] = "running"
        BY <1>1, <1>2, KeyIsOne DEF LedgerOK
      <4>2. \E k \in Keys : Blamed(k)'
        BY <1>14, <3>3, <4>1
      <4>3. QED
        BY <4>2 DEF Blame
    <3>4. CASE Key(c) \notin effects
      <4>1. ~(cmd[c].pc \in {"identity", "heading", "repairs", "rows", "refs", "history"})
            /\ ~(cmd[c].pc = "sync" /\ cmd[c].req.kind # "sync")
        BY <1>1, <3>4 DEF LedgerOK, At
      <4>2. LagAt(c) => InOrder
        BY <3>2, <4>1 DEF LagAt, Inside
      <4>3. QED
        BY <1>15, <1>16, <3>1, <4>2
    <3>5. QED
      BY <3>3, <3>4
  <2>3. QED
    BY <2>1, <2>2
<1>18. organizationLock' \in Commands \cup {NoCommand}
  BY <1>4 DEF OrganizationIInv, DocumentsTyped
<1>19. LagOK'
  BY <1>9, <1>11, <1>15, <1>17, <1>18, LagKept
<1>20. DocumentsTyped' /\ DuplicatesHaveRows'
  BY <1>3, <1>18 DEF OrganizationIInv, DocumentsTyped, DuplicatesHaveRows
<1>21. Stage(c)'
  BY <1>12, OutsideHasNoStage
<1>22. QED
  BY <1>9, <1>12, <1>13, <1>19, <1>20, <1>21, Assembles

-----------------------------------------------------------------------------
(* Taking the lock for a hire or a sync, and what an ID repair plans.      *)

\* The repair of a name is the one that has the name.
LEMMA RepairOfIs ==
    ASSUME NEW repairs, \A a, b \in repairs : a.name = b.name => a = b, NEW r \in repairs
    PROVE  RepairOf(repairs, r.name) = r
BY DEF RepairOf

\* What is planned on an inventory can be carried out on it, one file after
\* the other: afterwards no two Employees have one ID.
LEMMA PlanIsPending ==
    ASSUME DocumentsTyped
    PROVE  Sound(IDRepairPlan(Inventory)) /\ Pending(IDRepairPlan(Inventory))
<1> DEFINE plan == IDRepairPlan(Inventory)
<1>1. files \in [Names -> Files \cup {NoFile}] /\ rows \in SUBSET Rows
  BY DEF DocumentsTyped
<1>2. /\ Filed(Inventory)
      /\ Employees(Inventory) = {EmployeeOf(files, n) : n \in Filled(files)}
      /\ \A n \in Filled(files) : files[n] \in Files
      /\ \A id \in Ids : id \in IdsOf(Inventory) <=> \E n \in Filled(files) : files[n].id = id
  BY <1>1, InventoryReads DEF Inventory
<1>3. /\ \A r \in plan : \E e \in Duplicates(Inventory) :
            r = [name |-> e.name, current |-> e.id, proposed |-> Proposals(Inventory)[e],
                 place |-> Place(Inventory, e)]
      /\ \A e \in Duplicates(Inventory) : \E r \in plan : r.name = e.name /\ r.current = e.id
      /\ \A r \in plan : /\ r.proposed \in Nat /\ r.proposed > r.current
                         /\ r.proposed \notin IdsOf(Inventory)
      /\ \A a, b \in plan : a.name = b.name \/ a.proposed = b.proposed => a = b
  BY <1>2, PlanIsSound
<1>4. plan \subseteq Repairs
  BY PlanTyped
<1> HIDE DEF plan
<1>5. Sound(plan)
  BY <1>3, <1>4 DEF Sound, Repairs, Ids
<1>6. ASSUME NEW l \in plan
      PROVE  l.name \in Filled(files) /\ files[l.name].id = l.current
             /\ l.proposed \notin IdsOf(Inventory)
  <2>1. PICK e \in Duplicates(Inventory) :
            l = [name |-> e.name, current |-> e.id, proposed |-> Proposals(Inventory)[e],
                 place |-> Place(Inventory, e)]
    BY <1>3
  <2>2. PICK n \in Filled(files) : e = EmployeeOf(files, n)
    BY <1>2 DEF Duplicates
  <2>3. QED
    BY <1>3, <2>1, <2>2 DEF EmployeeOf
<1>7. ASSUME NEW m \in Filled(files), NEW n \in Filled(files), m < n, files[m].id = files[n].id
      PROVE  \E l \in plan : l.name = n
  <2>1. EmployeeOf(files, m) \in Employees(Inventory) /\ EmployeeOf(files, n) \in Employees(Inventory)
    BY <1>2
  <2>2. EmployeeOf(files, n) \in Duplicates(Inventory)
    BY <1>7, <2>1 DEF Duplicates, EmployeeOf
  <2>3. QED
    BY <1>3, <2>2 DEF EmployeeOf
<1>8. ASSUME NEW m \in Filled(files), NEW n \in Filled(files), m # n
      PROVE  RepairedId(plan, m) # RepairedId(plan, n)
  <2>1. /\ files[m].id \in Ids /\ files[n].id \in Ids
        /\ files[m].id \in IdsOf(Inventory) /\ files[n].id \in IdsOf(Inventory)
    BY <1>2 DEF Files
  <2>2. m \in Nat /\ n \in Nat
    BY NamesAssumption DEF Filled
  <2>3. \A l \in plan : RepairOf(plan, l.name) = l
    BY <1>3, RepairOfIs
  <2>4. CASE \E a, b \in plan : a.name = m /\ b.name = n
    BY <1>3, <1>8, <2>3, <2>4 DEF RepairedId
  <2>5. CASE (\E a \in plan : a.name = m) /\ ~(\E b \in plan : b.name = n)
    BY <1>3, <2>1, <2>3, <2>5 DEF RepairedId
  <2>6. CASE ~(\E a \in plan : a.name = m) /\ (\E b \in plan : b.name = n)
    BY <1>3, <2>1, <2>3, <2>6 DEF RepairedId
  <2>7. CASE ~(\E a \in plan : a.name = m) /\ ~(\E b \in plan : b.name = n)
    <3>1. files[m].id # files[n].id
      BY <1>7, <1>8, <2>2, <2>7
    <3>2. QED
      BY <2>7, <3>1 DEF RepairedId
  <2>8. QED
    BY <2>4, <2>5, <2>6, <2>7
<1>9. Pending(plan)
  BY <1>6, <1>8 DEF Pending, Filled
<1>10. QED
  BY <1>5, <1>9 DEF plan

\* The lock is not taken after all.
LEMMA EnterFails ==
    ASSUME OrganizationIInv, NEW c \in Commands, Enter(c),
           NEW ok \in BOOLEAN, Returns(c, ok, FALSE)
    PROVE  OrganizationIInv'
<1>1. cmd[c].pc = "enter" /\ organizationLock = NoCommand /\ organizationLock' = NoCommand
      /\ UNCHANGED <<layout, files, rows, refs, identityHistory, ledger, effects>>
  BY DEF Enter, At, Kept, documents, Returns
<1>2. /\ Moves(c) /\ Fits(c)' /\ LedgerOK(c)' /\ Stage(c)'
      /\ Blame => Blame'
  BY <1>1, EndsStep DEF Returns, Touches
<1>3. cmd'[c].pc \notin Inside
  BY <1>1, <1>2, OrganizationAssumption DEF Fits
<1>4. \A k \in Keys : k[1] = c => ~Blamed(k)
  BY <1>1, NotBlamedAtWork DEF Active
<1>5. QED
  BY <1>1, <1>2, <1>3, <1>4, QuietOrganizationStep DEF OrganizationIInv, DocumentsTyped

\* The lock is taken: what lags then lags to someone's blame.
LEMMA EnterGoes ==
    ASSUME OrganizationIInv, NEW c \in Commands, Enter(c),
           NEW place \in {"create", "sync", "intent"}, Proceeds(c, place),
           cmd[c].req.kind \in KindsAt(place), place = "sync" => cmd[c].req.kind = "sync",
           organizationLock' = c, Stage(c)'
    PROVE  OrganizationIInv'
<1>1. cmd[c].pc = "enter" /\ organizationLock = NoCommand
      /\ UNCHANGED <<layout, files, rows, refs, identityHistory, ledger, effects>>
  BY DEF Enter, At, Kept, documents
<1>2. place \in Inside
  BY DEF Inside
<1>3. Moves(c) /\ Fits(c)' /\ LedgerOK(c)' /\ (Blame => Blame')
  BY <1>1, <1>2, ProceedsStep DEF Touches
<1>4. InOrder \/ Blame
  BY <1>1 DEF OrganizationIInv, LagOK
<1>5. InOrder' <=> InOrder
  BY <1>1 DEF InOrder, Headings
<1>6. LagAt(c)' <=> InOrder'
  BY DEF LagAt, Proceeds
<1>7. organizationLock' # NoCommand /\ organizationLock' \in Commands \cup {NoCommand}
  BY OrganizationAssumption
<1>8. LagAt(c)' \/ Blame'
  BY <1>3, <1>4, <1>5, <1>6
<1>9. LagOK'
  BY <1>3, <1>7, <1>8, LagKept
<1>10. DocumentsTyped' /\ DuplicatesHaveRows'
  BY <1>1, <1>7 DEF OrganizationIInv, DocumentsTyped, DuplicatesHaveRows
<1>11. QED
  BY <1>3, <1>9, <1>10, Assembles

\* A hire takes the lock and finds its candidate new, or refuses it.
LEMMA EnterHireKeeps ==
    ASSUME OrganizationIInv, NEW c \in Commands, EnterHire(c)
    PROVE  OrganizationIInv'
<1>1. /\ cmd \in [Commands -> Records] /\ cmd[c] \in Records
      /\ Enter(c) /\ cmd[c].req.kind \in {"hire", "setup"}
  BY CommandFacts DEF EnterHire
<1>2. CASE ~HirePlanned(Candidate(c))
  BY <1>1, <1>2, EnterFails DEF EnterHire
<1>3. CASE HirePlanned(Candidate(c))
  <2> DEFINE rec == [cmd[c] EXCEPT !.pc = "create"]
  <2>1. /\ rec \in Records /\ rec.req = cmd[c].req /\ rec.pc = "create" /\ rec.todo = cmd[c].todo
    BY <1>1 DEF Records, Stages, Inside
  <2>2. cmd' = [cmd EXCEPT ![c] = rec] /\ organizationLock' = c
    BY <1>1, <1>3 DEF EnterHire, Go
  <2> HIDE DEF rec
  <2>3. Proceeds(c, "create")
    BY <1>1, <2>1, <2>2, NewRecord DEF Proceeds
  <2>4. Candidate(c)' = Candidate(c)
    BY <2>3 DEF Proceeds, Candidate
  <2>5. UNCHANGED <<files, rows>>
    BY <1>1 DEF Enter, Kept, documents
  <2>6. Inventory' = Inventory
    BY <2>5 DEF Inventory, InventoryOf
  <2>7. Stage(c)'
    <3>1. HireStage(c)'
      BY <1>3, <2>3, <2>4, <2>6 DEF HireStage, HirePlanned, Proceeds, At
    <3>2. SyncStage(c)' /\ RenameStage(c)' /\ RepairStage(c)'
      BY <1>1, <2>3 DEF SyncStage, RenameStage, RepairStage, Proceeds
    <3>3. QED
      BY <3>1, <3>2 DEF Stage
  <2>8. cmd[c].req.kind \in KindsAt("create")
    BY <1>1 DEF KindsAt
  <2>9. QED
    BY <1>1, <2>2, <2>3, <2>7, <2>8, EnterGoes
<1>4. QED
  BY <1>2, <1>3

\* A sync takes the lock, or is refused.
LEMMA EnterSyncKeeps ==
    ASSUME OrganizationIInv, NEW c \in Commands, EnterSync(c)
    PROVE  OrganizationIInv'
<1>1. /\ cmd \in [Commands -> Records] /\ cmd[c] \in Records
      /\ Enter(c) /\ cmd[c].req.kind = "sync"
  BY CommandFacts DEF EnterSync
<1>2. CASE ~SyncPlanned
  BY <1>1, <1>2, EnterFails DEF EnterSync
<1>3. CASE SyncPlanned
  <2> DEFINE rec == [cmd[c] EXCEPT !.pc = "sync"]
  <2>1. /\ rec \in Records /\ rec.req = cmd[c].req /\ rec.pc = "sync" /\ rec.todo = cmd[c].todo
    BY <1>1 DEF Records, Stages, Inside
  <2>2. cmd' = [cmd EXCEPT ![c] = rec] /\ organizationLock' = c
    BY <1>1, <1>3 DEF EnterSync, Go
  <2> HIDE DEF rec
  <2>3. Proceeds(c, "sync")
    BY <1>1, <2>1, <2>2, NewRecord DEF Proceeds
  <2>4. Stage(c)'
    BY <1>1, <2>3 DEF Stage, HireStage, SyncStage, RenameStage, RepairStage, Proceeds, At
  <2>5. cmd[c].req.kind \in KindsAt("sync")
    BY <1>1 DEF KindsAt
  <2>6. QED
    BY <1>1, <2>2, <2>3, <2>4, <2>5, EnterGoes
<1>4. QED
  BY <1>2, <1>3

-----------------------------------------------------------------------------
(* Taking the lock for a rename or an ID repair.                           *)

\* What a rename plans to write is of the form of what it replaces.
LEMMA RenameTyped ==
    ASSUME DocumentsTyped, NEW r \in AskedFor, r.kind = "rename"
    PROVE  RenamePlan(r) \in [rows : SUBSET Rows, refs : SUBSET References, history : SUBSET AskedFor]
<1>1. r.id \in Ids /\ r.old \in Names /\ r.new \in Names
  BY RequestsTyped
<1>2. ASSUME NEW x \in rows PROVE (IF x.id = r.id THEN [x EXCEPT !.name = r.new] ELSE x) \in Rows
  BY <1>1 DEF DocumentsTyped, Rows
<1>3. RowsRenamed(r, rows) \subseteq Rows
  BY <1>2 DEF RowsRenamed
<1>4. ASSUME NEW x \in refs
      PROVE  (IF x = [id |-> r.id, name |-> r.old] THEN [x EXCEPT !.name = r.new] ELSE x) \in References
  BY <1>1 DEF DocumentsTyped, References
<1>5. RefsRenamed(r) \subseteq References
  BY <1>4 DEF RefsRenamed, RefRenamed
<1>6. identityHistory \cup {r} \subseteq AskedFor
  BY DEF DocumentsTyped
<1>7. QED
  BY <1>3, <1>5, <1>6 DEF RenamePlan

\* What a repair plans to write is of the form of what it replaces.
LEMMA RepairTyped ==
    ASSUME DocumentsTyped, NEW repairs \in SUBSET Repairs,
           \A a, b \in repairs : a.name = b.name => a = b
    PROVE  RepairPlan(repairs) \in [rows : SUBSET Rows, refs : SUBSET References, history : SUBSET AskedFor]
<1>1. \A r \in repairs : RepairOf(repairs, r.name) = r /\ r.proposed \in Ids
  BY RepairOfIs DEF Repairs
<1> DEFINE NewRow(x) == IF \E r \in repairs : [id |-> x.id, name |-> x.name] = Whose(r)
                          THEN [x EXCEPT !.id = RepairOf(repairs, x.name).proposed] ELSE x
<1>2. ASSUME NEW x \in rows PROVE NewRow(x) \in Rows
  <2>1. CASE \E r \in repairs : [id |-> x.id, name |-> x.name] = Whose(r)
    <3>1. PICK r \in repairs : [id |-> x.id, name |-> x.name] = Whose(r)
      BY <2>1
    <3>2. RepairOf(repairs, x.name).proposed \in Ids
      BY <1>1, <3>1 DEF Whose
    <3>3. QED
      BY <2>1, <3>2 DEF DocumentsTyped, Rows
  <2>2. CASE ~(\E r \in repairs : [id |-> x.id, name |-> x.name] = Whose(r))
    BY <2>2 DEF DocumentsTyped
  <2>3. QED
    BY <2>1, <2>2
<1>3. RowsRepaired(repairs) \subseteq Rows
  <2>1. RowsRepaired(repairs) = {NewRow(x) : x \in rows}
    BY DEF RowsRepaired
  <2> HIDE DEF NewRow
  <2>2. QED
    BY <1>2, <2>1
<1> DEFINE New(x) == IF \E r \in repairs : x = Whose(r)
                       THEN [x EXCEPT !.id = RepairOf(repairs, x.name).proposed] ELSE x
<1>4. ASSUME NEW x \in refs PROVE New(x) \in References
  <2>1. CASE \E r \in repairs : x = Whose(r)
    <3>1. PICK r \in repairs : x = Whose(r)
      BY <2>1
    <3>2. RepairOf(repairs, x.name).proposed \in Ids
      BY <1>1, <3>1 DEF Whose
    <3>3. QED
      BY <2>1, <3>2 DEF DocumentsTyped, References
  <2>2. CASE ~(\E r \in repairs : x = Whose(r))
    BY <2>2 DEF DocumentsTyped
  <2>3. QED
    BY <2>1, <2>2
<1>5. RefsRepaired(repairs) \subseteq References
  <2>1. RefsRepaired(repairs) = {New(x) : x \in refs}
    BY DEF RefsRepaired, RefRepaired
  <2> HIDE DEF New
  <2>2. QED
    BY <1>4, <2>1
<1>6. QED
  BY <1>3, <1>5 DEF RepairPlan, DocumentsTyped

\* Rename takes the lock when it is ready, and not otherwise.
LEMMA EnterRenameKeeps ==
    ASSUME OrganizationIInv, NEW c \in Commands, EnterRename(c)
    PROVE  OrganizationIInv'
<1>0. PICK r : r = cmd[c].req
  OBVIOUS
<1> DEFINE ready == layout /\ ~AlreadyRenamed(r, files, rows) /\ RenameReady(r, files, rows)
<1>1. /\ cmd \in [Commands -> Records] /\ cmd[c] \in Records
      /\ Enter(c) /\ r.kind = "rename"
  BY <1>0, CommandFacts DEF EnterRename
<1>2. r \in AskedFor
  BY <1>0, <1>1 DEF Records, NoRequest
<1>3. \/ \E ok \in BOOLEAN : Returns(c, ok, FALSE)
      \/ /\ ready
         /\ cmd' = [cmd EXCEPT ![c].pc = "intent", ![c].plan = RenamePlan(r)]
         /\ organizationLock' = c
  <2>1. CASE layout /\ AlreadyRenamed(r, files, rows)
    BY <1>0, <2>1 DEF EnterRename
  <2>2. CASE ready
    BY <1>0, <2>2 DEF EnterRename
  <2>3. CASE ~(layout /\ AlreadyRenamed(r, files, rows)) /\ ~ready
    BY <1>0, <2>3 DEF EnterRename
  <2>4. QED
    BY <2>1, <2>2, <2>3
<1>4. CASE \E ok \in BOOLEAN : Returns(c, ok, FALSE)
  BY <1>1, <1>4, EnterFails
<1>5. CASE /\ ready
           /\ cmd' = [cmd EXCEPT ![c].pc = "intent", ![c].plan = RenamePlan(r)]
           /\ organizationLock' = c
  <2> DEFINE rec == [cmd[c] EXCEPT !.pc = "intent", !.plan = RenamePlan(r)]
  <2>1. /\ rec \in Records /\ rec.req = r /\ rec.pc = "intent" /\ rec.todo = cmd[c].todo
        /\ rec.plan = RenamePlan(r)
    <3>1. RenamePlan(r) \in [rows : SUBSET Rows, refs : SUBSET References, history : SUBSET AskedFor]
      BY <1>1, <1>2, RenameTyped DEF OrganizationIInv
    <3>2. QED
      BY <1>0, <1>1, <3>1 DEF Records, Stages, Inside
  <2>2. cmd' = [cmd EXCEPT ![c] = rec]
    BY <1>1, <1>5
  <2> HIDE DEF rec
  <2>3. Proceeds(c, "intent") /\ cmd'[c] = rec
    BY <1>0, <1>1, <2>1, <2>2, NewRecord DEF Proceeds
  <2>4. UNCHANGED <<files, rows, refs, identityHistory>>
    BY <1>1 DEF Enter, Kept, documents
  <2>5. Stage(c)'
    <3>1. RenameStage(c)'
      <4>1. /\ cmd'[c].plan.rows = RowsRenamed(r, rows)'
            /\ cmd'[c].plan.refs = RefsRenamed(r)'
            /\ cmd'[c].plan.history = identityHistory' \cup {r}
        BY <2>1, <2>3, <2>4 DEF RenamePlan, RefsRenamed, RowsRenamed
      <4>2. RenameReady(r, files', rows')
        BY <1>5, <2>4
      <4>3. cmd'[c].req = r /\ cmd'[c].pc = "intent"
        BY <1>0, <2>3 DEF Proceeds
      <4>4. QED
        BY <4>1, <4>2, <4>3 DEF RenameStage, RefsRenamed
    <3>2. HireStage(c)' /\ SyncStage(c)' /\ RepairStage(c)'
      BY <1>0, <1>1, <2>3 DEF HireStage, SyncStage, RepairStage, Proceeds
    <3>3. QED
      BY <3>1, <3>2 DEF Stage
  <2>6. cmd[c].req.kind \in KindsAt("intent")
    BY <1>0, <1>1 DEF KindsAt
  <2>7. QED
    BY <1>0, <1>1, <1>5, <2>3, <2>5, <2>6, EnterGoes
<1>6. QED
  BY <1>3, <1>4, <1>5

\* RepairIDs takes the lock for the plan that was approved, and for no other.
LEMMA EnterRepairKeeps ==
    ASSUME OrganizationIInv, NEW c \in Commands, EnterRepair(c)
    PROVE  OrganizationIInv'
<1>0. PICK r, repairs : r = cmd[c].req /\ repairs = IDRepairPlan(Inventory)
  OBVIOUS
<1> DEFINE ready == RepairPlanned(repairs) /\ repairs # {} /\ r.expected = repairs
<1>1. /\ cmd \in [Commands -> Records] /\ cmd[c] \in Records /\ DocumentsTyped
      /\ Enter(c) /\ r.kind = "repair"
  BY <1>0, CommandFacts DEF EnterRepair, OrganizationIInv
<1>2. repairs \in SUBSET Repairs /\ Sound(repairs) /\ Pending(repairs)
  BY <1>0, <1>1, PlanTyped, PlanIsPending
<1>3. \/ \E ok \in BOOLEAN : Returns(c, ok, FALSE)
      \/ /\ ready
         /\ cmd' = [cmd EXCEPT ![c].pc = "intent", ![c].plan = RepairPlan(repairs), ![c].left = repairs]
         /\ organizationLock' = c
  <2>1. CASE layout /\ repairs = {}
    BY <1>0, <2>1 DEF EnterRepair
  <2>2. CASE ready
    BY <1>0, <2>2 DEF EnterRepair
  <2>3. CASE ~(layout /\ repairs = {}) /\ ~ready
    BY <1>0, <2>3 DEF EnterRepair
  <2>4. QED
    BY <2>1, <2>2, <2>3
<1>4. CASE \E ok \in BOOLEAN : Returns(c, ok, FALSE)
  BY <1>1, <1>4, EnterFails
<1>5. CASE /\ ready
           /\ cmd' = [cmd EXCEPT ![c].pc = "intent", ![c].plan = RepairPlan(repairs), ![c].left = repairs]
           /\ organizationLock' = c
  <2> DEFINE rec == [cmd[c] EXCEPT !.pc = "intent", !.plan = RepairPlan(repairs), !.left = repairs]
  <2>1. /\ rec \in Records /\ rec.req = r /\ rec.pc = "intent" /\ rec.todo = cmd[c].todo
        /\ rec.plan = RepairPlan(repairs) /\ rec.left = repairs
    <3>1. RepairPlan(repairs) \in [rows : SUBSET Rows, refs : SUBSET References, history : SUBSET AskedFor]
      BY <1>1, <1>2, RepairTyped DEF Sound
    <3>2. QED
      BY <1>0, <1>1, <1>2, <3>1 DEF Records, Stages, Inside
  <2>2. cmd' = [cmd EXCEPT ![c] = rec]
    BY <1>1, <1>5
  <2> HIDE DEF rec
  <2>3. Proceeds(c, "intent") /\ cmd'[c] = rec
    BY <1>0, <1>1, <2>1, <2>2, NewRecord DEF Proceeds
  <2>4. UNCHANGED <<files, rows, refs, identityHistory>>
    BY <1>1 DEF Enter, Kept, documents
  <2>5. Stage(c)'
    <3>1. RepairStage(c)'
      <4>1. /\ cmd'[c].plan.rows = RowsRepaired(repairs)'
            /\ cmd'[c].plan.refs = RefsRepaired(repairs)'
        BY <2>1, <2>3, <2>4 DEF RepairPlan, RefsRepaired, RowsRepaired
      <4>2. Pending(repairs)'
        <5>1. Inventory' = Inventory
          BY <2>4 DEF Inventory, InventoryOf
        <5>2. QED
          BY <1>2, <2>4, <5>1 DEF Pending, RepairedId
      <4>3. cmd'[c].req = r /\ cmd'[c].pc = "intent" /\ cmd'[c].left = repairs /\ r.expected = repairs
        BY <1>0, <1>5, <2>1, <2>3 DEF Proceeds
      <4>4. QED
        BY <1>2, <4>1, <4>2, <4>3 DEF RepairStage
    <3>2. HireStage(c)' /\ SyncStage(c)' /\ RenameStage(c)'
      BY <1>0, <1>1, <2>3 DEF HireStage, SyncStage, RenameStage, Proceeds
    <3>3. QED
      BY <3>1, <3>2 DEF Stage
  <2>6. cmd[c].req.kind \in KindsAt("intent")
    BY <1>0, <1>1 DEF KindsAt
  <2>7. QED
    BY <1>0, <1>1, <1>5, <2>3, <2>5, <2>6, EnterGoes
<1>6. QED
  BY <1>3, <1>4, <1>5

-----------------------------------------------------------------------------
(* Steps under the lock, and the hire.                                     *)

\* What the documents hold, whoever has the lock.
Forms ==
    /\ layout \in BOOLEAN
    /\ files \in [Names -> Files \cup {NoFile}]
    /\ rows \subseteq Rows
    /\ refs \subseteq References
    /\ identityHistory \subseteq AskedFor

\* A Command inside goes to its next place, and is otherwise what it was.
LEMMA GoesOn ==
    ASSUME OrganizationIInv, NEW c \in Commands, NEW place \in Inside, Go(c, place)
    PROVE  Proceeds(c, place) /\ cmd'[c].plan = cmd[c].plan /\ cmd'[c].left = cmd[c].left
<1> DEFINE rec == [cmd[c] EXCEPT !.pc = place]
<1>1. cmd \in [Commands -> Records] /\ cmd[c] \in Records
  BY CommandFacts
<1>2. /\ rec \in Records /\ rec.req = cmd[c].req /\ rec.pc = place /\ rec.todo = cmd[c].todo
      /\ rec.plan = cmd[c].plan /\ rec.left = cmd[c].left
  BY <1>1 DEF Records, Stages
<1>3. cmd' = [cmd EXCEPT ![c] = rec]
  BY DEF Go
<1> HIDE DEF rec
<1>4. QED
  BY <1>1, <1>2, <1>3, NewRecord DEF Proceeds

\* What a Command inside may rely on.
LEMMA InsideFacts ==
    ASSUME OrganizationIInv, NEW c \in Commands, cmd[c].pc \in Inside
    PROVE  /\ organizationLock = c /\ organizationLock # NoCommand
           /\ LagAt(c) \/ Blame
           /\ Forms /\ DocumentsTyped /\ DuplicatesHaveRows /\ Fits(c) /\ LedgerOK(c) /\ Stage(c)
           /\ cmd \in [Commands -> Records] /\ cmd[c] \in Records /\ CommandsTyped
           /\ cmd[c].req \in AskedFor
<1>1. Fits(c) /\ cmd[c] \in Records /\ cmd \in [Commands -> Records] /\ LedgerOK(c) /\ Stage(c) /\ CommandsTyped
  BY CommandFacts
<1>2. organizationLock = c /\ organizationLock # NoCommand
  BY <1>1, OrganizationAssumption DEF Fits
<1>3. cmd[c].req # NoRequest
  BY <1>1 DEF Fits, KindsAt, Inside, NoRequest
<1>4. QED
  BY <1>1, <1>2, <1>3 DEF OrganizationIInv, LagOK, Forms, DocumentsTyped, Records

\* An operation gives the lock back: nothing lags, or someone is to blame.
LEMMA InsideEnds ==
    ASSUME OrganizationIInv, NEW c \in Commands, cmd[c].pc \in Inside,
           NEW ok \in BOOLEAN, NEW partial \in BOOLEAN, Returns(c, ok, partial), Touches(c),
           Forms', DuplicatesHaveRows',
           InOrder' \/ Blame \/ (~ok /\ partial /\ Key(c) \in effects')
    PROVE  OrganizationIInv'
<1>1. organizationLock = c
  BY InsideFacts
<1>2. Ends(c, ok, partial) /\ organizationLock' = NoCommand
  BY DEF Returns
<1>3. /\ Moves(c) /\ Fits(c)' /\ LedgerOK(c)' /\ Stage(c)'
      /\ ~ok /\ partial /\ Key(c) \in effects' => Blame'
      /\ Blame => Blame'
      /\ organizationLock' # c
  BY <1>1, <1>2, EndsStep
<1>4. LagOK'
  BY <1>2, <1>3, LagKept
<1>5. DocumentsTyped'
  BY <1>2 DEF Forms, DocumentsTyped
<1>6. QED
  BY <1>3, <1>4, <1>5, Assembles

\* An operation goes on with its next document.
LEMMA InsideGoes ==
    ASSUME OrganizationIInv, NEW c \in Commands, cmd[c].pc \in Inside,
           NEW place \in Inside, Proceeds(c, place), Touches(c), UNCHANGED organizationLock,
           cmd[c].req.kind \in KindsAt(place), Key(c) \in effects',
           Forms', DuplicatesHaveRows', Stage(c)', LagAt(c)' \/ Blame
    PROVE  OrganizationIInv'
<1>1. organizationLock = c /\ organizationLock # NoCommand
  BY InsideFacts
<1>2. /\ Moves(c) /\ Fits(c)' /\ LedgerOK(c)'
      /\ Blame => Blame'
  BY <1>1, ProceedsStep
<1>3. LagOK'
  BY <1>1, <1>2, LagKept
<1>4. DocumentsTyped'
  BY <1>1 DEF Forms, DocumentsTyped
<1>5. QED
  BY <1>2, <1>3, <1>4, Assembles

\* A failed write that changed nothing, of a Command that had committed
\* nothing before: what lags is somebody else's.
LEMMA NothingDone ==
    ASSUME OrganizationIInv, NEW c \in Commands, cmd[c].pc \in Inside,
           NEW ok \in BOOLEAN, NEW partial \in BOOLEAN, Returns(c, ok, partial),
           UNCHANGED <<layout, files, rows, refs, identityHistory, ledger, effects>>,
           (LagAt(c) => InOrder) \/ (~ok /\ partial /\ Key(c) \in effects)
    PROVE  OrganizationIInv'
<1>1. Forms /\ DuplicatesHaveRows /\ (LagAt(c) \/ Blame)
  BY InsideFacts
<1>2. Forms' /\ DuplicatesHaveRows'
  BY <1>1 DEF Forms, DuplicatesHaveRows
<1>3. InOrder' <=> InOrder
  BY DEF InOrder, Headings
<1>4. QED
  BY <1>1, <1>2, <1>3, InsideEnds DEF Touches

\* A hire creates its file: the identity is committed.
LEMMA CreateKeeps ==
    ASSUME OrganizationIInv, NEW c \in Commands, Create(c)
    PROVE  OrganizationIInv'
<1> DEFINE made == [id |-> Candidate(c).id, role |-> Candidate(c).role, heading |-> Candidate(c).name]
<1>0. PICK n : n = Candidate(c).name
  OBVIOUS
<1>1. cmd[c].pc = "create" /\ cmd[c].pc \in Inside
  BY DEF Create, At, Inside
<1>2. /\ LagAt(c) \/ Blame
      /\ Forms /\ DuplicatesHaveRows /\ Fits(c) /\ LedgerOK(c) /\ Stage(c) /\ CommandsTyped
  BY <1>1, InsideFacts
<1>3. cmd[c].req.kind \in {"hire", "setup"} /\ (cmd[c].req.kind = "setup" => cmd[c].todo # <<>>)
  BY <1>1, <1>2 DEF Fits, KindsAt
<1>4. Candidate(c).id \in Ids /\ n \in Names /\ Candidate(c).role \in Roles
  BY <1>0, <1>2, <1>3, CandidateTyped
<1>5. Candidate(c).id \notin IdsOf(Inventory) /\ Allowed(n, NamesOf(Inventory))
  BY <1>0, <1>1, <1>2, <1>3 DEF Stage, HireStage, At
<1>6. /\ \A m \in Filled(files) : EmployeeOf(files, m) \in Inventory
      /\ \A m \in Filled(files) : files[m].id # Candidate(c).id
      /\ files[n] = NoFile
  <2>1. \A m \in Filled(files) : EmployeeOf(files, m) \in Inventory
    BY <1>2, InventoryReads DEF Forms, Inventory
  <2>2. \A m \in Filled(files) : files[m].id # Candidate(c).id
    <3>1. \A i \in Inventory : i.id \in IdsOf(Inventory)
      BY DEF IdsOf
    <3>2. \A m \in Filled(files) : EmployeeOf(files, m).id = files[m].id
      BY DEF EmployeeOf
    <3>3. QED
      BY <1>5, <2>1, <3>1, <3>2
  <2>3. files[n] = NoFile
    <3>1. SUFFICES ASSUME files[n] # NoFile PROVE FALSE
      OBVIOUS
    <3>2. n \in NamesOf(Inventory)
      <4>1. \A i \in Inventory : i.name \in NamesOf(Inventory)
        BY DEF NamesOf
      <4>2. EmployeeOf(files, n).name = n /\ n \in Filled(files)
        BY <1>4, <3>1 DEF EmployeeOf, Filled
      <4>3. QED
        BY <2>1, <4>1, <4>2
    <3>3. QED
      BY <1>5, <3>2 DEF Allowed
  <2>4. QED
    BY <2>1, <2>2, <2>3
<1>7. LagAt(c) => InOrder
  BY <1>1 DEF LagAt
<1>8. made \in Files
  BY <1>0, <1>4 DEF Files
<1>9. made.id = Candidate(c).id /\ made.heading = n
  BY <1>0
<1> HIDE DEF made
<1>10. ASSUME files' = [files EXCEPT ![n] = made], UNCHANGED <<layout, rows, refs, identityHistory>>
       PROVE  /\ Forms' /\ DuplicatesHaveRows'
              /\ [id |-> made.id, name |-> n] \in Known(files')
              /\ InOrder => refs \subseteq Known(files') /\ Headings(Names)'
  <2>1. /\ files'[n] = made /\ \A m \in Names \ {n} : files'[m] = files[m]
        /\ files' \in [Names -> Files \cup {NoFile}]
    BY <1>2, <1>4, <1>8, <1>10 DEF Forms
  <2>2. Forms'
    BY <1>2, <1>10, <2>1 DEF Forms
  <2>3. made # NoFile
    BY <1>8, OrganizationAssumption
  <2>4. DuplicatesHaveRows'
    BY <1>2, <1>4, <1>6, <1>9, <1>10, <2>1 DEF DuplicatesHaveRows, Filled
  <2>5. [id |-> made.id, name |-> n] \in Known(files')
    BY <1>4, <2>1, <2>3 DEF Known
  <2>6. Known(files) \subseteq Known(files')
    BY <1>4, <1>6, <2>1 DEF Known
  <2>7. InOrder => Headings(Names)'
    BY <1>4, <1>9, <2>1 DEF InOrder, Headings
  <2>8. QED
    BY <2>2, <2>4, <2>5, <2>6, <2>7 DEF InOrder, Agree
<1>11. UNCHANGED <<layout, rows, refs, identityHistory, ledger>>
  BY DEF Create, Writes
<1>12. CASE files' = [files EXCEPT ![n] = made] /\ Touched(c) /\ Go(c, "sync") /\ UNCHANGED organizationLock
  <2>1. Proceeds(c, "sync")
    BY <1>12, GoesOn DEF Inside
  <2>2. Candidate(c)' = Candidate(c)
    BY <2>1 DEF Proceeds, Candidate
  <2>3. Stage(c)'
    <3>1. HireStage(c)'
      <4>1. Pair(c)' = [id |-> made.id, name |-> n]
        BY <1>0, <1>9, <2>2 DEF Pair
      <4>2. QED
        BY <1>10, <1>11, <1>12, <2>1, <4>1 DEF HireStage, At, Proceeds
    <3>2. SyncStage(c)' /\ RenameStage(c)' /\ RepairStage(c)'
      BY <1>3, <2>1 DEF SyncStage, RenameStage, RepairStage, Proceeds
    <3>3. QED
      BY <3>1, <3>2 DEF Stage
  <2>4. InOrder => LagAt(c)'
    BY <1>3, <1>10, <1>11, <1>12, <2>1 DEF LagAt, Proceeds
  <2>5. "sync" \in Inside /\ cmd[c].req.kind \in KindsAt("sync")
    BY <1>3 DEF Inside, KindsAt
  <2>6. QED
    BY <1>1, <1>2, <1>7, <1>10, <1>11, <1>12, <2>1, <2>3, <2>4, <2>5, InsideGoes DEF Touched, Touches
<1>13. CASE UNCHANGED <<files, effects>> /\ Returns(c, FALSE, FALSE)
  BY <1>1, <1>7, <1>11, <1>13, NothingDone
<1>14. CASE files' = [files EXCEPT ![n] = made] /\ Touched(c) /\ Returns(c, FALSE, TRUE)
  BY <1>1, <1>10, <1>11, <1>14, InsideEnds DEF Touched, Touches
<1>15. QED
  BY <1>0, <1>12, <1>13, <1>14 DEF Create, Writes, made

-----------------------------------------------------------------------------
(* The sync of Workspace State.                                            *)

\* Which pairs stand in a set of documents.
LEMMA PairsAre ==
    ASSUME NEW set, NEW p
    PROVE  p \in Pairs(set) <=> \E x \in set : p = [id |-> x.id, name |-> x.name]
BY DEF Pairs

\* Whom the files tell of.
LEMMA KnownAre ==
    ASSUME NEW fs, NEW p
    PROVE  p \in Known(fs) <=> \E n \in Filled(fs) : p = [id |-> fs[n].id, name |-> n]
BY DEF Known, Filled

\* Whom the rows tell of, the Manager apart.
LEMMA ManagedAre ==
    ASSUME NEW rs, NEW p
    PROVE  p \in Managed(rs) <=>
               \E x \in rs : x.id # ManagerId /\ p = [id |-> x.id, name |-> x.name]
BY DEF Managed, Pairs

\* The sync makes Workspace State tell of the Employees there are.
LEMMA Projects ==
    ASSUME Forms
    PROVE  Projected \subseteq Rows /\ Managed(Projected) = Known(files)
<1> DEFINE Row(n) ==
        [id |-> files[n].id, name |-> n,
         work |-> IF \E r \in rows : r.id = files[n].id /\ r.name = n
                    THEN (CHOOSE r \in rows : r.id = files[n].id /\ r.name = n).work ELSE "idle"]
           kept == {r \in rows : r.id = ManagerId}
           told == {Row(n) : n \in Filled(files)}
<1>1. Projected = kept \cup told
  BY DEF Projected, Filled
<1>2. ASSUME NEW n \in Filled(files)
      PROVE  /\ Row(n) \in Rows /\ Row(n).id = files[n].id /\ Row(n).name = n
             /\ files[n].id # ManagerId
  <2>1. files[n] \in Files /\ n \in Names
    BY DEF Forms, Filled
  <2>2. Row(n).work \in {"idle", "busy"}
    <3>1. CASE \E r \in rows : r.id = files[n].id /\ r.name = n
      <4>1. (CHOOSE r \in rows : r.id = files[n].id /\ r.name = n) \in rows
        BY <3>1
      <4>2. QED
        BY <3>1, <4>1 DEF Forms, Rows
    <3>2. CASE ~(\E r \in rows : r.id = files[n].id /\ r.name = n)
      BY <3>2
    <3>3. QED
      BY <3>1, <3>2
  <2>3. QED
    BY <2>1, <2>2 DEF Files, Rows, Ids, ManagerId
<1>3. /\ \A x \in told : \E n \in Filled(files) : x = Row(n)
      /\ \A n \in Filled(files) : Row(n) \in told
  OBVIOUS
<1>4. kept \subseteq Rows /\ \A x \in kept : x.id = ManagerId
  BY DEF Forms
<1> HIDE DEF Row, kept, told
<1>5. Projected \subseteq Rows
  BY <1>1, <1>2, <1>3, <1>4
<1>6. ASSUME NEW p PROVE p \in Managed(Projected) <=> p \in Known(files)
  <2>1. ASSUME p \in Managed(Projected) PROVE p \in Known(files)
    <3>1. PICK x \in Projected : x.id # ManagerId /\ p = [id |-> x.id, name |-> x.name]
      BY <2>1, ManagedAre
    <3>2. PICK n \in Filled(files) : x = Row(n)
      BY <1>1, <1>3, <1>4, <3>1
    <3>3. p = [id |-> files[n].id, name |-> n]
      BY <1>2, <3>1, <3>2
    <3>4. QED
      BY <3>3, KnownAre
  <2>2. ASSUME p \in Known(files) PROVE p \in Managed(Projected)
    <3>1. PICK n \in Filled(files) : p = [id |-> files[n].id, name |-> n]
      BY <2>2, KnownAre
    <3>2. Row(n) \in Projected
      BY <1>1, <1>3
    <3>3. QED
      BY <1>2, <3>1, <3>2, ManagedAre
  <2>3. QED
    BY <2>1, <2>2
<1>7. QED
  BY <1>5, <1>6

\* In a valid inventory no two files have one ID.
LEMMA ValidFiles ==
    ASSUME Forms
    PROVE  ValidInventory(Inventory) <=>
               \A m, n \in Filled(files) : files[m].id = files[n].id => m = n
<1>1. Employees(Inventory) = {EmployeeOf(files, n) : n \in Filled(files)}
  BY InventoryReads DEF Forms, Inventory
<1>2. /\ \A e \in Employees(Inventory) : \E n \in Filled(files) : e = EmployeeOf(files, n)
      /\ \A n \in Filled(files) : EmployeeOf(files, n) \in Employees(Inventory)
  BY <1>1
<1>3. \A n \in Filled(files) : EmployeeOf(files, n).id = files[n].id /\ EmployeeOf(files, n).name = n
  BY DEF EmployeeOf
<1>4. ASSUME ValidInventory(Inventory), NEW m \in Filled(files), NEW n \in Filled(files),
             files[m].id = files[n].id
      PROVE  m = n
  <2>1. EmployeeOf(files, m) = EmployeeOf(files, n)
    BY <1>2, <1>3, <1>4 DEF ValidInventory
  <2>2. QED
    BY <1>3, <2>1
<1>5. ASSUME \A m, n \in Filled(files) : files[m].id = files[n].id => m = n
      PROVE  ValidInventory(Inventory)
  BY <1>2, <1>3, <1>5 DEF ValidInventory
<1>6. QED
  BY <1>4, <1>5

\* The sync reads and checks the inventory again, and writes Workspace State.
LEMMA SyncKeeps ==
    ASSUME OrganizationIInv, NEW c \in Commands, Sync(c)
    PROVE  OrganizationIInv'
<1> DEFINE hire == cmd[c].req.kind # "sync"
<1>1. cmd[c].pc = "sync" /\ cmd[c].pc \in Inside
  BY DEF Sync, At, Inside
<1>2. /\ LagAt(c) \/ Blame
      /\ Forms /\ DuplicatesHaveRows /\ Fits(c) /\ LedgerOK(c) /\ Stage(c) /\ CommandsTyped
  BY <1>1, InsideFacts
<1>3. cmd[c].req.kind \in {"hire", "setup", "sync"} /\ hire \in BOOLEAN
      /\ (cmd[c].req.kind = "setup" => cmd[c].todo # <<>>)
  BY <1>1, <1>2 DEF Fits, KindsAt
<1>4. hire => Key(c) \in effects
  BY <1>1, <1>2 DEF LedgerOK, At
<1>5. LagAt(c) => refs \subseteq Known(files) /\ Headings(Names) /\ (~hire => InOrder)
  BY <1>1 DEF LagAt, InOrder, Agree
<1>6. UNCHANGED <<layout, files, refs, identityHistory, ledger>>
  BY DEF Sync, Writes
<1>7. ASSUME ValidInventory(Inventory), rows' = Projected
      PROVE  /\ Forms' /\ DuplicatesHaveRows' /\ Managed(rows') = Known(files')
             /\ LagAt(c) => InOrder'
  <2>1. Projected \subseteq Rows /\ Managed(Projected) = Known(files)
    BY <1>2, Projects
  <2>2. Forms'
    BY <1>2, <1>6, <1>7, <2>1 DEF Forms
  <2>3. DuplicatesHaveRows'
    BY <1>2, <1>6, <1>7, ValidFiles DEF DuplicatesHaveRows, Filled
  <2>4. QED
    BY <1>5, <1>6, <1>7, <2>1, <2>2, <2>3 DEF InOrder, Agree, Headings
<1>8. CASE /\ ValidInventory(Inventory) /\ rows' = Projected
           /\ Touched(c) /\ Go(c, "leave") /\ UNCHANGED organizationLock
  <2>1. Proceeds(c, "leave")
    BY <1>8, GoesOn DEF Inside
  <2>2. Candidate(c)' = Candidate(c)
    BY <2>1 DEF Proceeds, Candidate
  <2>3. Stage(c)'
    <3>1. HireStage(c)'
      <4>1. SUFFICES ASSUME hire PROVE Pair(c)' \in Known(files') /\ Pair(c)' \in Pairs(rows')
        BY <1>3, <2>1 DEF HireStage, Proceeds, At
      <4>2. Pair(c) \in Known(files) /\ Pair(c)' = Pair(c)
        BY <1>1, <1>2, <1>3, <2>2, <4>1 DEF Stage, HireStage, At, Pair
      <4>3. Pair(c) \in Managed(rows')
        BY <1>6, <1>7, <1>8, <4>2
      <4>4. QED
        BY <1>6, <4>2, <4>3, ManagedAre, PairsAre
    <3>2. SyncStage(c)'
      BY <1>7, <1>8 DEF SyncStage
    <3>3. RenameStage(c)' /\ RepairStage(c)'
      BY <1>3, <2>1 DEF RenameStage, RepairStage, Proceeds
    <3>4. QED
      BY <3>1, <3>2, <3>3 DEF Stage
  <2>4. LagAt(c) => LagAt(c)'
    BY <1>7, <1>8, <2>1 DEF LagAt, Proceeds
  <2>5. "leave" \in Inside /\ cmd[c].req.kind \in KindsAt("leave")
    BY <1>3 DEF Inside, KindsAt
  <2>6. QED
    BY <1>1, <1>2, <1>6, <1>7, <1>8, <2>1, <2>3, <2>4, <2>5, InsideGoes DEF Touched, Touches
<1>9. CASE UNCHANGED <<rows, effects>> /\ Returns(c, FALSE, hire)
  BY <1>1, <1>3, <1>4, <1>5, <1>6, <1>9, NothingDone
<1>10. CASE ValidInventory(Inventory) /\ rows' = Projected /\ Touched(c) /\ Returns(c, FALSE, hire)
  BY <1>1, <1>2, <1>3, <1>6, <1>7, <1>10, InsideEnds DEF Touched, Touches
<1>11. QED
  BY <1>8, <1>9, <1>10 DEF Sync, Writes

-----------------------------------------------------------------------------
(* What renames and ID repairs make of the projections.                    *)

\* Which rows a rename leaves.
LEMMA RowsRenamedAre ==
    ASSUME NEW r, NEW rs, NEW x
    PROVE  x \in RowsRenamed(r, rs) <=>
               \E y \in rs : x = IF y.id = r.id THEN [y EXCEPT !.name = r.new] ELSE y
BY DEF RowsRenamed

\* Which references a rename leaves.
LEMMA RefsRenamedAre ==
    ASSUME NEW r, NEW x
    PROVE  x \in RefsRenamed(r) <=>
               \E y \in refs : x = IF y = [id |-> r.id, name |-> r.old] THEN [y EXCEPT !.name = r.new] ELSE y
BY DEF RefsRenamed, RefRenamed

\* What a rename that is ready finds.
LEMMA RenameFinds ==
    ASSUME Forms, NEW r \in AskedFor, r.kind = "rename", RenameReady(r, files, rows)
    PROVE  /\ r.id \in Ids /\ r.old \in Names /\ r.new \in Names /\ r.old # r.new
           /\ r.old \in Filled(files) /\ files[r.old].id = r.id /\ files[r.new] = NoFile
           /\ \A n \in Filled(files) : files[n].id = r.id => n = r.old
           /\ RowNames(r.id) = {r.old}
<1>1. r.id \in Ids /\ r.old \in Names /\ r.new \in Names
  BY RequestsTyped
<1>2. /\ r.old # r.new /\ files[r.new] = NoFile /\ RowNames(r.id) = {r.old}
      /\ NamesOf(Unique(Inventory, r.id)) = {r.old}
  BY DEF RenameReady, RowNames, Inventory
<1>3. /\ \A e \in Employees(Inventory) : \E n \in Filled(files) : e = EmployeeOf(files, n)
      /\ \A n \in Filled(files) : EmployeeOf(files, n) \in Inventory
  <2>1. /\ Employees(Inventory) = {EmployeeOf(files, n) : n \in Filled(files)}
        /\ \A n \in Filled(files) : EmployeeOf(files, n) \in Inventory
    BY InventoryReads DEF Forms, Inventory
  <2>2. QED
    BY <2>1
<1>4. \A n \in Filled(files) : EmployeeOf(files, n).id = files[n].id /\ EmployeeOf(files, n).name = n
  BY DEF EmployeeOf
<1>5. PICK i \in Unique(Inventory, r.id) : i.name = r.old
  BY <1>2 DEF NamesOf
<1>6. /\ i \in Employees(Inventory) /\ i.id = r.id
      /\ \A j \in Inventory : j.id = r.id => j = i
  BY <1>5 DEF Unique
<1>7. PICK n \in Filled(files) : i = EmployeeOf(files, n)
  BY <1>3, <1>6
<1>8. r.old \in Filled(files) /\ files[r.old].id = r.id
  BY <1>4, <1>5, <1>6, <1>7
<1>9. \A m \in Filled(files) : files[m].id = r.id => m = r.old
  BY <1>3, <1>4, <1>5, <1>6
<1>10. QED
  BY <1>1, <1>2, <1>8, <1>9

\* What a rename makes of the files.
LEMMA FilesRenamedAre ==
    ASSUME Forms, NEW r \in AskedFor, r.kind = "rename", RenameReady(r, files, rows)
    PROVE  /\ FilesRenamed(r, files) \in [Names -> Files \cup {NoFile}]
           /\ FilesRenamed(r, files)[r.new] = files[r.old] /\ FilesRenamed(r, files)[r.old] = NoFile
           /\ \A n \in Names \ {r.old, r.new} : FilesRenamed(r, files)[n] = files[n]
           /\ \A n \in Names : n \in Filled(FilesRenamed(r, files)) <=>
                                  n = r.new \/ (n \in Filled(files) /\ n # r.old)
<1> DEFINE fs == FilesRenamed(r, files)
<1>1. /\ r.old \in Names /\ r.new \in Names /\ r.old # r.new
      /\ files[r.old] # NoFile /\ files[r.new] = NoFile
  BY RenameFinds DEF Filled
<1>2. /\ fs \in [Names -> Files \cup {NoFile}] /\ fs[r.new] = files[r.old] /\ fs[r.old] = NoFile
      /\ \A n \in Names \ {r.old, r.new} : fs[n] = files[n]
  BY <1>1 DEF FilesRenamed, Forms
<1> HIDE DEF fs
<1>3. \A n \in Names : n \in Filled(fs) <=> n = r.new \/ (n \in Filled(files) /\ n # r.old)
  BY <1>1, <1>2 DEF Filled
<1>4. QED
  BY <1>2, <1>3 DEF fs

\* A rename plans the rows and references that the renamed files call for.
LEMMA RenameAgrees ==
    ASSUME Forms, NEW r \in AskedFor, r.kind = "rename", RenameReady(r, files, rows), InOrder
    PROVE  Agree(FilesRenamed(r, files), RowsRenamed(r, rows), RefsRenamed(r))
<1> DEFINE fs == FilesRenamed(r, files)
           before == [id |-> r.id, name |-> r.old]
           after == [id |-> r.id, name |-> r.new]
<1>1. /\ r.id \in Ids /\ r.old \in Names /\ r.new \in Names /\ r.old # r.new
      /\ r.old \in Filled(files) /\ files[r.old].id = r.id /\ files[r.new] = NoFile
      /\ \A n \in Filled(files) : files[n].id = r.id => n = r.old
  BY RenameFinds
<1>2. /\ fs[r.new] = files[r.old]
      /\ \A n \in Names \ {r.old, r.new} : fs[n] = files[n]
      /\ \A n \in Names : n \in Filled(fs) <=> n = r.new \/ (n \in Filled(files) /\ n # r.old)
  BY FilesRenamedAre
<1>3. Managed(rows) = Known(files) /\ refs \subseteq Known(files)
  BY DEF InOrder, Agree
<1>4. r.id # ManagerId /\ \A n \in Filled(fs) : n \in Names
  BY <1>1 DEF Ids, ManagerId, Filled
<1>5. r.new \notin Filled(files)
  BY <1>1 DEF Filled
<1> HIDE DEF fs
<1>6. after \in Known(fs)
  <2>1. r.new \in Filled(fs) /\ fs[r.new].id = r.id
    BY <1>1, <1>2
  <2>2. QED
    BY <2>1, KnownAre
<1>7. ASSUME NEW n \in Filled(files), files[n].id # r.id
      PROVE  [id |-> files[n].id, name |-> n] \in Known(fs)
  <2>1. n \in Names \ {r.old, r.new}
    BY <1>1, <1>5, <1>7 DEF Filled
  <2>2. n \in Filled(fs) /\ fs[n] = files[n]
    BY <1>2, <1>7, <2>1
  <2>3. QED
    BY <2>2, KnownAre
<1>8. ASSUME NEW p \in Managed(RowsRenamed(r, rows)) PROVE p \in Known(fs)
  <2>1. PICK x \in RowsRenamed(r, rows) : x.id # ManagerId /\ p = [id |-> x.id, name |-> x.name]
    BY <1>8, ManagedAre
  <2>2. PICK y \in rows : x = IF y.id = r.id THEN [y EXCEPT !.name = r.new] ELSE y
    BY <2>1, RowsRenamedAre
  <2>3. y \in Rows
    BY DEF Forms
  <2>4. CASE y.id = r.id
    BY <1>6, <2>1, <2>2, <2>3, <2>4 DEF Rows
  <2>5. CASE y.id # r.id
    <3>1. p \in Known(files)
      BY <1>3, <2>1, <2>2, <2>5, ManagedAre
    <3>2. PICK n \in Filled(files) : p = [id |-> files[n].id, name |-> n]
      BY <3>1, KnownAre
    <3>3. QED
      BY <1>7, <2>1, <2>2, <2>5, <3>2
  <2>6. QED
    BY <2>4, <2>5
<1>9. ASSUME NEW p \in Known(fs) PROVE p \in Managed(RowsRenamed(r, rows))
  <2>1. PICK n \in Filled(fs) : p = [id |-> fs[n].id, name |-> n]
    BY <1>9, KnownAre
  <2>2. CASE n = r.new
    <3>1. before \in Managed(rows)
      BY <1>1, <1>3, KnownAre
    <3>2. PICK y \in rows : y.id # ManagerId /\ before = [id |-> y.id, name |-> y.name]
      BY <3>1, ManagedAre
    <3>3. y \in Rows /\ y.id = r.id
      BY <3>2 DEF Forms
    <3>4. [y EXCEPT !.name = r.new] \in RowsRenamed(r, rows)
      BY <3>3, RowsRenamedAre
    <3>5. [y EXCEPT !.name = r.new].id = r.id /\ [y EXCEPT !.name = r.new].name = r.new
      BY <3>3 DEF Rows
    <3>6. p = after
      BY <1>1, <1>2, <2>1, <2>2
    <3>7. QED
      BY <1>4, <3>4, <3>5, <3>6, ManagedAre
  <2>3. CASE n # r.new
    <3>1. n \in Filled(files) /\ n # r.old /\ fs[n] = files[n]
      BY <1>2, <1>4, <2>1, <2>3 DEF Filled
    <3>2. p \in Managed(rows) /\ p.id # r.id
      BY <1>1, <1>3, <2>1, <3>1, KnownAre
    <3>3. PICK y \in rows : y.id # ManagerId /\ p = [id |-> y.id, name |-> y.name]
      BY <3>2, ManagedAre
    <3>4. y \in RowsRenamed(r, rows)
      BY <3>2, <3>3, RowsRenamedAre
    <3>5. QED
      BY <3>3, <3>4, ManagedAre
  <2>4. QED
    BY <2>2, <2>3
<1>10. ASSUME NEW x \in RefsRenamed(r) PROVE x \in Known(fs)
  <2>1. PICK y \in refs : x = IF y = before THEN [y EXCEPT !.name = r.new] ELSE y
    BY RefsRenamedAre
  <2>2. CASE y = before
    BY <1>6, <2>1, <2>2
  <2>3. CASE y # before
    <3>1. PICK n \in Filled(files) : y = [id |-> files[n].id, name |-> n]
      BY <1>3, KnownAre
    <3>2. files[n].id # r.id
      BY <1>1, <2>3, <3>1
    <3>3. QED
      BY <1>7, <2>1, <2>3, <3>1, <3>2
  <2>4. QED
    BY <2>2, <2>3
<1>11. QED
  BY <1>8, <1>9, <1>10 DEF Agree, fs

\* Which rows and references a repair leaves.
LEMMA RowsRepairedAre ==
    ASSUME NEW left, NEW x
    PROVE  /\ x \in RowsRepaired(left) <=>
                 \E y \in rows : x = IF \E l \in left : [id |-> y.id, name |-> y.name] = Whose(l)
                                       THEN [y EXCEPT !.id = RepairOf(left, y.name).proposed] ELSE y
           /\ x \in RefsRepaired(left) <=>
                 \E y \in refs : x = IF \E l \in left : y = Whose(l)
                                       THEN [y EXCEPT !.id = RepairOf(left, y.name).proposed] ELSE y
BY DEF RowsRepaired, RefsRepaired, RefRepaired

\* What the repairs that are left make of the files.
LEMMA FilesRepairedAre ==
    ASSUME Forms, NEW left \in SUBSET Repairs, Sound(left)
    PROVE  /\ Filled(FilesRepaired(left)) = Filled(files)
           /\ \A n \in Filled(files) : FilesRepaired(left)[n].id = RepairedId(left, n)
           /\ \A l \in left : RepairOf(left, l.name) = l /\ RepairedId(left, l.name) = l.proposed
           /\ \A n \in Names : (\E l \in left : l.name = n) \/ RepairedId(left, n) = files[n].id
<1>1. \A l \in left : RepairOf(left, l.name) = l
  BY RepairOfIs DEF Sound
<1>2. \A l \in left : RepairedId(left, l.name) = l.proposed
  BY <1>1 DEF RepairedId
<1>3. \A n \in Names : (\E l \in left : l.name = n) \/ RepairedId(left, n) = files[n].id
  BY DEF RepairedId
<1>4. ASSUME NEW n \in Filled(files)
      PROVE  /\ [files[n] EXCEPT !.id = RepairedId(left, n)] # NoFile
             /\ [files[n] EXCEPT !.id = RepairedId(left, n)].id = RepairedId(left, n)
  <2>1. files[n] \in Files /\ n \in Names
    BY DEF Filled, Forms
  <2>2. RepairedId(left, n) \in Ids
    BY <1>2, <1>3, <2>1 DEF Files, Repairs
  <2>3. [files[n] EXCEPT !.id = RepairedId(left, n)] \in Files
    BY <2>1, <2>2 DEF Files
  <2>4. QED
    BY <2>1, <2>3, OrganizationAssumption DEF Files
<1>5. \A n \in Filled(files) : FilesRepaired(left)[n] = [files[n] EXCEPT !.id = RepairedId(left, n)]
  BY DEF FilesRepaired, Filled
<1>6. \A n \in Names : files[n] = NoFile => FilesRepaired(left)[n] = NoFile
  BY DEF FilesRepaired
<1>7. Filled(FilesRepaired(left)) = Filled(files)
  BY <1>4, <1>5, <1>6 DEF Filled
<1>8. QED
  BY <1>1, <1>2, <1>3, <1>4, <1>5, <1>7

\* A repair plans the rows and references that the repaired files call for.
LEMMA RepairAgrees ==
    ASSUME Forms, NEW left \in SUBSET Repairs, Sound(left), Pending(left), InOrder
    PROVE  Agree(FilesRepaired(left), RowsRepaired(left), RefsRepaired(left))
<1> DEFINE fs == FilesRepaired(left)
<1>1. /\ Filled(fs) = Filled(files)
      /\ \A n \in Filled(files) : fs[n].id = RepairedId(left, n)
      /\ \A l \in left : RepairOf(left, l.name) = l /\ RepairedId(left, l.name) = l.proposed
      /\ \A n \in Names : (\E l \in left : l.name = n) \/ RepairedId(left, n) = files[n].id
  BY FilesRepairedAre
<1>2. Managed(rows) = Known(files) /\ refs \subseteq Known(files)
  BY DEF InOrder, Agree
<1>3. \A l \in left : /\ l.name \in Filled(files) /\ files[l.name].id = l.current
                      /\ l.proposed \in Ids /\ l.current \in Ids
  BY DEF Pending, Filled, Repairs
<1>4. \A l \in left : Whose(l).id = l.current /\ Whose(l).name = l.name
  BY DEF Whose
<1> HIDE DEF fs
<1>5. ASSUME NEW l \in left PROVE [id |-> l.proposed, name |-> l.name] \in Known(fs)
  BY <1>1, <1>3, KnownAre
<1>6. ASSUME NEW n \in Filled(files)
      PROVE  \/ \E l \in left : [id |-> files[n].id, name |-> n] = Whose(l)
             \/ [id |-> files[n].id, name |-> n] \in Known(fs)
  <2>1. CASE \E l \in left : l.name = n
    BY <1>3, <2>1 DEF Whose
  <2>2. CASE ~(\E l \in left : l.name = n)
    <3>1. fs[n].id = files[n].id
      BY <1>1, <2>2 DEF Filled
    <3>2. QED
      BY <1>1, <3>1, KnownAre
  <2>3. QED
    BY <2>1, <2>2
<1>7. ASSUME NEW p \in Managed(RowsRepaired(left)) PROVE p \in Known(fs)
  <2>1. PICK x \in RowsRepaired(left) : x.id # ManagerId /\ p = [id |-> x.id, name |-> x.name]
    BY <1>7, ManagedAre
  <2>2. PICK y \in rows : x = IF \E l \in left : [id |-> y.id, name |-> y.name] = Whose(l)
                                THEN [y EXCEPT !.id = RepairOf(left, y.name).proposed] ELSE y
    BY <2>1, RowsRepairedAre
  <2>3. y \in Rows
    BY DEF Forms
  <2>4. CASE \E l \in left : [id |-> y.id, name |-> y.name] = Whose(l)
    <3>1. PICK l \in left : [id |-> y.id, name |-> y.name] = Whose(l)
      BY <2>4
    <3>2. y.name = l.name
      BY <3>1 DEF Whose
    <3>3. x = [y EXCEPT !.id = l.proposed]
      BY <1>1, <2>2, <2>4, <3>2
    <3>4. p = [id |-> l.proposed, name |-> l.name]
      BY <2>1, <2>3, <3>2, <3>3 DEF Rows
    <3>5. QED
      BY <1>5, <3>4
  <2>5. CASE ~(\E l \in left : [id |-> y.id, name |-> y.name] = Whose(l))
    <3>1. x = y /\ p \in Known(files)
      BY <1>2, <2>1, <2>2, <2>5, ManagedAre
    <3>2. PICK n \in Filled(files) : p = [id |-> files[n].id, name |-> n]
      BY <3>1, KnownAre
    <3>3. QED
      BY <1>6, <2>1, <2>5, <3>1, <3>2
  <2>6. QED
    BY <2>4, <2>5
<1>8. ASSUME NEW p \in Known(fs) PROVE p \in Managed(RowsRepaired(left))
  <2>1. PICK n \in Filled(files) : p = [id |-> fs[n].id, name |-> n]
    BY <1>1, <1>8, KnownAre
  <2>2. [id |-> files[n].id, name |-> n] \in Managed(rows)
    BY <1>2, KnownAre
  <2>3. PICK y \in rows : y.id # ManagerId
                          /\ [id |-> files[n].id, name |-> n] = [id |-> y.id, name |-> y.name]
    BY <2>2, ManagedAre
  <2>4. y \in Rows /\ y.id = files[n].id /\ y.name = n
    BY <2>3 DEF Forms
  <2>5. CASE \E l \in left : l.name = n
    <3>1. PICK l \in left : l.name = n
      BY <2>5
    <3>2. [id |-> y.id, name |-> y.name] = Whose(l)
      BY <1>3, <2>4, <3>1 DEF Whose
    <3>3. RepairOf(left, y.name) = l
      BY <1>1, <2>4, <3>1
    <3>4. [y EXCEPT !.id = l.proposed] \in RowsRepaired(left)
      BY <3>2, <3>3, RowsRepairedAre
    <3>5. /\ [y EXCEPT !.id = l.proposed].id = l.proposed /\ [y EXCEPT !.id = l.proposed].name = n
          /\ l.proposed # ManagerId
      BY <1>3, <2>4 DEF Rows, Ids, ManagerId
    <3>6. p = [id |-> l.proposed, name |-> n]
      BY <1>1, <2>1, <3>1
    <3>7. QED
      BY <3>4, <3>5, <3>6, ManagedAre
  <2>6. CASE ~(\E l \in left : l.name = n)
    <3>1. ~(\E l \in left : [id |-> y.id, name |-> y.name] = Whose(l))
      BY <2>4, <2>6 DEF Whose
    <3>2. y \in RowsRepaired(left)
      BY <3>1, RowsRepairedAre
    <3>3. fs[n].id = files[n].id
      BY <1>1, <2>6 DEF Filled
    <3>4. QED
      BY <2>1, <2>3, <2>4, <3>2, <3>3, ManagedAre
  <2>7. QED
    BY <2>5, <2>6
<1>9. ASSUME NEW x \in RefsRepaired(left) PROVE x \in Known(fs)
  <2>1. PICK y \in refs : x = IF \E l \in left : y = Whose(l)
                                THEN [y EXCEPT !.id = RepairOf(left, y.name).proposed] ELSE y
    BY RowsRepairedAre
  <2>2. CASE \E l \in left : y = Whose(l)
    <3>1. PICK l \in left : y = Whose(l)
      BY <2>2
    <3>2. RepairOf(left, y.name) = l
      BY <1>1, <1>4, <3>1
    <3>3. x = [id |-> l.proposed, name |-> l.name]
      BY <2>1, <2>2, <3>1, <3>2 DEF Whose
    <3>4. QED
      BY <1>5, <3>3
  <2>3. CASE ~(\E l \in left : y = Whose(l))
    <3>1. PICK n \in Filled(files) : y = [id |-> files[n].id, name |-> n]
      BY <1>2, KnownAre
    <3>2. QED
      BY <1>6, <2>1, <2>3, <3>1
  <2>4. QED
    BY <2>2, <2>3
<1>10. QED
  BY <1>7, <1>8, <1>9 DEF Agree, fs

-----------------------------------------------------------------------------
(* Steps under the lock: the rename.                                       *)

\* Only the stage of its own kind is a Command's to keep.
LEMMA OneStage ==
    ASSUME NEW c \in Commands
    PROVE  /\ cmd'[c].req.kind = "rename" /\ RenameStage(c)' => Stage(c)'
           /\ cmd'[c].req.kind = "repair" /\ RepairStage(c)' => Stage(c)'
BY DEF Stage, HireStage, SyncStage, RenameStage, RepairStage

\* The intent file is written, or stands there already.
LEMMA IntentKeeps ==
    ASSUME OrganizationIInv, NEW c \in Commands, Intent(c)
    PROVE  OrganizationIInv'
<1>0. PICK r, next : r = cmd[c].req /\ next = (IF r.kind = "rename" THEN "identity" ELSE "repairs")
  OBVIOUS
<1>1. cmd[c].pc = "intent" /\ cmd[c].pc \in Inside
  BY DEF Intent, At, Inside
<1>2. /\ LagAt(c) \/ Blame
      /\ Forms /\ DuplicatesHaveRows /\ Fits(c) /\ LedgerOK(c) /\ Stage(c) /\ CommandsTyped
      /\ r \in AskedFor
  BY <1>0, <1>1, InsideFacts
<1>3. r.kind \in {"rename", "repair"} /\ next \in Inside /\ r.kind \in KindsAt(next)
  BY <1>0, <1>1, <1>2 DEF Fits, KindsAt, Inside
<1>4. LagAt(c) <=> InOrder
  BY <1>1 DEF LagAt
<1>5. UNCHANGED <<layout, files, rows, refs, identityHistory, ledger>>
  BY DEF Intent, Writes
<1>6. Forms' /\ DuplicatesHaveRows' /\ (InOrder' <=> InOrder)
  BY <1>2, <1>5 DEF Forms, DuplicatesHaveRows, InOrder, Headings
<1>7. CASE Touched(c) /\ Go(c, next) /\ UNCHANGED organizationLock
  <2>1. Proceeds(c, next) /\ cmd'[c].plan = cmd[c].plan /\ cmd'[c].left = cmd[c].left
    BY <1>3, <1>7, GoesOn
  <2>2. cmd'[c].req = r /\ cmd'[c].pc = next
    BY <1>0, <2>1 DEF Proceeds
  <2>3. CASE r.kind = "rename"
    <3>1. next = "identity"
      BY <1>0, <2>3
    <3>2. RenameStage(c)'
      <4>1. RenameStage(c)
        BY <1>2 DEF Stage
      <4>2. /\ RenameReady(r, files', rows')
            /\ cmd'[c].plan.rows = RowsRenamed(r, rows')
            /\ cmd'[c].plan.refs = RefsRenamed(r)'
            /\ cmd'[c].plan.history = identityHistory' \cup {r}
        BY <1>0, <1>1, <1>5, <2>1, <2>3, <4>1 DEF RenameStage, RefsRenamed
      <4>3. QED
        BY <2>2, <3>1, <4>2 DEF RenameStage
    <3>3. LagAt(c)' <=> InOrder'
      BY <2>2, <3>1 DEF LagAt
    <3>4. QED
      BY <1>0, <1>1, <1>2, <1>3, <1>4, <1>5, <1>6, <1>7, <2>1, <2>2, <2>3, <3>2, <3>3, OneStage, InsideGoes
         DEF Touched, Touches
  <2>4. CASE r.kind = "repair"
    <3>1. next = "repairs"
      BY <1>0, <2>4
    <3>2. /\ Sound(r.expected) /\ Pending(r.expected) /\ cmd[c].left = r.expected
          /\ cmd[c].plan.rows = RowsRepaired(r.expected)
          /\ cmd[c].plan.refs = RefsRepaired(r.expected)
      BY <1>0, <1>1, <1>2, <2>4 DEF Stage, RepairStage
    <3>3. r.expected \in SUBSET Repairs
      BY <1>2, <2>4, RequestsTyped
    <3>4. Pending(r.expected)'
      <4>1. Inventory' = Inventory
        BY <1>5 DEF Inventory, InventoryOf
      <4>2. QED
        BY <1>5, <3>2, <4>1 DEF Pending, RepairedId
    <3>5. RepairStage(c)'
      <4>1. /\ RowsRepaired(r.expected)' = RowsRepaired(r.expected)
            /\ RefsRepaired(r.expected)' = RefsRepaired(r.expected)
        BY <1>5 DEF RowsRepaired, RefsRepaired
      <4>2. QED
        BY <2>1, <2>2, <3>1, <3>2, <3>4, <4>1 DEF RepairStage
    <3>6. InOrder => LagAt(c)'
      <4>1. SUFFICES ASSUME InOrder PROVE LagAt(c)'
        OBVIOUS
      <4>2. Agree(FilesRepaired(r.expected), cmd[c].plan.rows, cmd[c].plan.refs)
        BY <1>2, <3>2, <3>3, <4>1, RepairAgrees
      <4>3. FilesRepaired(r.expected)' = FilesRepaired(r.expected)
        BY <1>5 DEF FilesRepaired, RepairedId
      <4>4. Headings(Names)'
        BY <1>5, <4>1 DEF InOrder, Headings
      <4>5. QED
        BY <2>1, <2>2, <3>1, <3>2, <4>2, <4>3, <4>4 DEF LagAt, Agree
    <3>7. QED
      BY <1>0, <1>1, <1>2, <1>3, <1>4, <1>5, <1>6, <1>7, <2>1, <2>2, <2>4, <3>5, <3>6, OneStage, InsideGoes
         DEF Touched, Touches
  <2>5. QED
    BY <1>3, <2>3, <2>4
<1>8. CASE UNCHANGED effects /\ Returns(c, FALSE, FALSE)
  BY <1>1, <1>4, <1>5, <1>8, NothingDone
<1>9. CASE Touched(c) /\ Returns(c, FALSE, TRUE)
  BY <1>1, <1>5, <1>6, <1>9, InsideEnds DEF Touched, Touches
<1>10. QED
  BY <1>0, <1>7, <1>8, <1>9 DEF Intent, Writes

\* A rename after its commit: wherever it fails, it has left its mark.
LEMMA CommittedEnds ==
    ASSUME OrganizationIInv, NEW c \in Commands,
           cmd[c].pc \in {"identity", "heading", "repairs", "rows", "refs", "history"},
           Returns(c, FALSE, TRUE), Touches(c), Forms', DuplicatesHaveRows'
    PROVE  OrganizationIInv'
<1>1. cmd[c].pc \in Inside
  BY DEF Inside
<1>2. Key(c) \in effects
  BY <1>1, InsideFacts DEF LedgerOK
<1>3. Key(c) \in effects'
  BY <1>2 DEF Touches
<1>4. QED
  BY <1>1, <1>3, InsideEnds

\* os.Rename of the file: the rename is committed.
LEMMA IdentifyKeeps ==
    ASSUME OrganizationIInv, NEW c \in Commands, Identify(c)
    PROVE  OrganizationIInv'
<1>0. PICK r : r = cmd[c].req
  OBVIOUS
<1>1. cmd[c].pc = "identity" /\ cmd[c].pc \in Inside
  BY DEF Identify, At, Inside
<1>2. /\ LagAt(c) \/ Blame
      /\ Forms /\ DuplicatesHaveRows /\ Fits(c) /\ LedgerOK(c) /\ Stage(c) /\ CommandsTyped
      /\ r \in AskedFor
  BY <1>0, <1>1, InsideFacts
<1>3. r.kind = "rename"
  BY <1>0, <1>1, <1>2 DEF Fits, KindsAt
<1>4. /\ RenameReady(r, files, rows)
      /\ cmd[c].plan.rows = RowsRenamed(r, rows)
      /\ cmd[c].plan.refs = RefsRenamed(r)
      /\ cmd[c].plan.history = identityHistory \cup {r}
  BY <1>0, <1>1, <1>2, <1>3 DEF Stage, RenameStage
<1>5. LagAt(c) <=> InOrder
  BY <1>1 DEF LagAt
<1>6. UNCHANGED <<layout, rows, refs, identityHistory, ledger>>
  BY DEF Identify, Writes
<1>7. /\ r.id \in Ids /\ r.old \in Names /\ r.new \in Names /\ r.old # r.new
      /\ r.old \in Filled(files) /\ files[r.old].id = r.id /\ files[r.new] = NoFile
      /\ \A n \in Filled(files) : files[n].id = r.id => n = r.old
      /\ RowNames(r.id) = {r.old}
  BY <1>2, <1>3, <1>4, RenameFinds
<1>8. ASSUME files' = FilesRenamed(r, files)
      PROVE  /\ Forms' /\ DuplicatesHaveRows'
             /\ files'[r.old] = NoFile /\ files'[r.new] # NoFile
             /\ files'[r.new].heading = files[r.old].heading
             /\ \A n \in Names : files'[n] # NoFile => (files'[n].id = r.id <=> n = r.new)
             /\ \A n \in Names \ {r.new} : files'[n] # NoFile => files'[n] = files[n]
  <2>1. /\ files' \in [Names -> Files \cup {NoFile}]
        /\ files'[r.new] = files[r.old] /\ files'[r.old] = NoFile
        /\ \A n \in Names \ {r.old, r.new} : files'[n] = files[n]
    BY <1>2, <1>3, <1>4, <1>8, FilesRenamedAre
  <2>2. Forms'
    BY <1>2, <1>6, <2>1 DEF Forms
  <2>3. /\ \A n \in Names : files'[n] # NoFile => (files'[n].id = r.id <=> n = r.new)
        /\ files'[r.new] # NoFile
    BY <1>7, <2>1 DEF Filled
  <2>4. \A n \in Names \ {r.new} : files'[n] # NoFile => files'[n] = files[n]
    BY <2>1
  <2>5. DuplicatesHaveRows'
    <3>1. SUFFICES ASSUME NEW m \in Names, NEW n \in Names, files'[m] # NoFile, files'[n] # NoFile,
                          m # n, files'[m].id = files'[n].id
                   PROVE  [id |-> files'[n].id, name |-> n] \in Pairs(rows)
      BY <1>6 DEF DuplicatesHaveRows
    <3>2. m # r.new /\ n # r.new
      BY <2>3, <3>1
    <3>3. files'[m] = files[m] /\ files'[n] = files[n]
      BY <2>4, <3>1, <3>2
    <3>4. QED
      BY <1>2, <3>1, <3>3 DEF DuplicatesHaveRows
  <2>6. QED
    BY <2>1, <2>2, <2>3, <2>4, <2>5
<1>9. CASE /\ files' = FilesRenamed(r, files) /\ Touched(c) /\ Go(c, "heading")
           /\ UNCHANGED organizationLock
  <2>1. Proceeds(c, "heading") /\ cmd'[c].plan = cmd[c].plan
    BY <1>9, GoesOn DEF Inside
  <2>2. cmd'[c].req = r /\ cmd'[c].pc = "heading"
    BY <1>0, <2>1 DEF Proceeds
  <2>3. RenameStage(c)'
    <3>1. /\ cmd'[c].plan.rows = RowsRenamed(r, rows')
          /\ cmd'[c].plan.refs = RefsRenamed(r)'
          /\ cmd'[c].plan.history = identityHistory' \cup {r}
          /\ RowNames(r.id)' = {r.old}
      BY <1>4, <1>6, <1>7, <2>1 DEF RefsRenamed, RowNames
    <3>2. QED
      BY <1>7, <1>8, <1>9, <2>2, <3>1 DEF RenameStage
  <2>4. InOrder => LagAt(c)'
    <3>1. SUFFICES ASSUME InOrder PROVE LagAt(c)'
      OBVIOUS
    <3>2. Agree(files', cmd'[c].plan.rows, cmd'[c].plan.refs)
      BY <1>2, <1>3, <1>4, <1>9, <2>1, <3>1, RenameAgrees
    <3>3. Headings(Names \ {r.new})' /\ files'[r.new].heading = r.old
      BY <1>7, <1>8, <1>9, <3>1 DEF InOrder, Headings, Filled
    <3>4. QED
      BY <2>2, <3>2, <3>3 DEF LagAt
  <2>5. "heading" \in Inside /\ cmd[c].req.kind \in KindsAt("heading")
    BY <1>0, <1>3 DEF Inside, KindsAt
  <2>6. QED
    BY <1>1, <1>2, <1>3, <1>5, <1>6, <1>8, <1>9, <2>1, <2>2, <2>3, <2>4, <2>5, OneStage, InsideGoes
       DEF Touched, Touches
<1>10. CASE UNCHANGED <<files, effects>> /\ Returns(c, FALSE, TRUE)
  <2>1. Forms' /\ DuplicatesHaveRows'
    BY <1>2, <1>6, <1>10 DEF Forms, DuplicatesHaveRows
  <2>2. QED
    BY <1>1, <1>6, <1>10, <2>1, CommittedEnds DEF Touches
<1>11. CASE files' = FilesRenamed(r, files) /\ Touched(c) /\ Returns(c, FALSE, TRUE)
  BY <1>1, <1>6, <1>8, <1>11, CommittedEnds DEF Touched, Touches
<1>12. QED
  BY <1>0, <1>9, <1>10, <1>11 DEF Identify, Writes

\* The heading of the renamed file.
LEMMA WriteHeadingKeeps ==
    ASSUME OrganizationIInv, NEW c \in Commands, WriteHeading(c)
    PROVE  OrganizationIInv'
<1>0. PICK r : r = cmd[c].req
  OBVIOUS
<1>1. cmd[c].pc = "heading" /\ cmd[c].pc \in Inside
  BY DEF WriteHeading, At, Inside
<1>2. /\ LagAt(c) \/ Blame
      /\ Forms /\ DuplicatesHaveRows /\ Fits(c) /\ LedgerOK(c) /\ Stage(c) /\ CommandsTyped
      /\ r \in AskedFor
  BY <1>0, <1>1, InsideFacts
<1>3. r.kind = "rename" /\ r.old \in Names /\ r.new \in Names
  <2>1. r.kind = "rename"
    BY <1>0, <1>1, <1>2 DEF Fits, KindsAt
  <2>2. QED
    BY <1>2, <2>1, RequestsTyped
<1>4. /\ cmd[c].plan.rows = RowsRenamed(r, rows)
      /\ cmd[c].plan.refs = RefsRenamed(r)
      /\ cmd[c].plan.history = identityHistory \cup {r}
      /\ r.old # r.new
      /\ files[r.old] = NoFile /\ files[r.new] # NoFile
      /\ \A n \in Names : files[n] # NoFile => (files[n].id = r.id <=> n = r.new)
      /\ RowNames(r.id) = {r.old}
  BY <1>0, <1>1, <1>2, <1>3 DEF Stage, RenameStage
<1>5. LagAt(c) => /\ Agree(files, cmd[c].plan.rows, cmd[c].plan.refs)
                  /\ Headings(Names \ {r.new}) /\ files[r.new].heading = r.old
  BY <1>0, <1>1 DEF LagAt
<1>6. UNCHANGED <<layout, rows, refs, identityHistory, ledger>>
  BY DEF WriteHeading, Writes
<1> DEFINE change == files' = [files EXCEPT ![r.new].heading = IF @ = r.old THEN r.new ELSE @]
<1>7. ASSUME change
      PROVE  /\ Forms' /\ DuplicatesHaveRows'
             /\ \A n \in Names : /\ files'[n] = NoFile <=> files[n] = NoFile
                                 /\ files[n] # NoFile => files'[n].id = files[n].id
                                 /\ n # r.new => files'[n] = files[n]
             /\ files'[r.new].heading = IF files[r.new].heading = r.old THEN r.new ELSE files[r.new].heading
  <2>1. /\ files[r.new] \in Files /\ files \in [Names -> Files \cup {NoFile}]
    BY <1>2, <1>3, <1>4 DEF Forms
  <2> DEFINE new == [files[r.new] EXCEPT !.heading = IF files[r.new].heading = r.old THEN r.new
                                                     ELSE files[r.new].heading]
  <2>2. /\ new \in Files /\ new.id = files[r.new].id
        /\ new.heading = IF files[r.new].heading = r.old THEN r.new ELSE files[r.new].heading
    BY <1>3, <2>1 DEF Files
  <2>3. files' = [files EXCEPT ![r.new] = new]
    BY <1>7, <2>1
  <2> HIDE DEF new
  <2>4. /\ files' \in [Names -> Files \cup {NoFile}] /\ files'[r.new] = new
        /\ \A n \in Names : n # r.new => files'[n] = files[n]
    BY <1>3, <2>1, <2>2, <2>3
  <2>5. new # NoFile
    BY <2>2, OrganizationAssumption
  <2>6. Forms'
    BY <1>2, <1>6, <2>4 DEF Forms
  <2>7. \A n \in Names : /\ files'[n] = NoFile <=> files[n] = NoFile
                         /\ files[n] # NoFile => files'[n].id = files[n].id
    BY <1>4, <2>2, <2>4, <2>5
  <2>8. DuplicatesHaveRows'
    BY <1>2, <1>6, <2>7 DEF DuplicatesHaveRows
  <2>9. QED
    BY <2>2, <2>4, <2>6, <2>7, <2>8
<1>8. CASE change /\ Touched(c) /\ Go(c, "rows") /\ UNCHANGED organizationLock
  <2>1. Proceeds(c, "rows") /\ cmd'[c].plan = cmd[c].plan
    BY <1>8, GoesOn DEF Inside
  <2>2. cmd'[c].req = r /\ cmd'[c].pc = "rows"
    BY <1>0, <2>1 DEF Proceeds
  <2>3. RenameStage(c)'
    <3>1. /\ cmd'[c].plan.rows = RowsRenamed(r, rows')
          /\ cmd'[c].plan.refs = RefsRenamed(r)'
          /\ cmd'[c].plan.history = identityHistory' \cup {r}
          /\ RowNames(r.id)' = {r.old}
      BY <1>4, <1>6, <2>1 DEF RefsRenamed, RowNames
    <3>2. /\ files'[r.old] = NoFile /\ files'[r.new] # NoFile
          /\ \A n \in Names : files'[n] # NoFile => (files'[n].id = r.id <=> n = r.new)
          /\ files'[r.new].heading # r.old
      BY <1>3, <1>4, <1>7, <1>8
    <3>3. QED
      BY <1>4, <2>2, <3>1, <3>2 DEF RenameStage
  <2>4. LagAt(c) => LagAt(c)'
    <3>1. SUFFICES ASSUME LagAt(c) PROVE LagAt(c)'
      OBVIOUS
    <3>2. Known(files') = Known(files)
      <4>1. Filled(files') = Filled(files) /\ \A n \in Filled(files) : files'[n].id = files[n].id
        BY <1>7, <1>8 DEF Filled
      <4>2. \A p : p \in Known(files') <=> p \in Known(files)
        BY <4>1, KnownAre
      <4>3. QED
        BY <4>2
    <3>3. Headings(Names)'
      BY <1>5, <1>7, <1>8, <3>1 DEF Headings
    <3>4. QED
      BY <1>5, <2>1, <2>2, <3>1, <3>2, <3>3 DEF LagAt, Agree
  <2>5. "rows" \in Inside /\ cmd[c].req.kind \in KindsAt("rows")
    BY <1>0, <1>3 DEF Inside, KindsAt
  <2>6. QED
    BY <1>1, <1>2, <1>3, <1>6, <1>7, <1>8, <2>1, <2>2, <2>3, <2>4, <2>5, OneStage, InsideGoes
       DEF Touched, Touches
<1>9. CASE UNCHANGED <<files, effects>> /\ Returns(c, FALSE, TRUE)
  <2>1. Forms' /\ DuplicatesHaveRows'
    BY <1>2, <1>6, <1>9 DEF Forms, DuplicatesHaveRows
  <2>2. QED
    BY <1>1, <1>6, <1>9, <2>1, CommittedEnds DEF Touches
<1>10. CASE change /\ Touched(c) /\ Returns(c, FALSE, TRUE)
  BY <1>1, <1>6, <1>7, <1>10, CommittedEnds DEF Touched, Touches
<1>11. QED
  BY <1>0, <1>8, <1>9, <1>10 DEF WriteHeading, Writes

-----------------------------------------------------------------------------
(* Steps under the lock: one repair after the other.                       *)

\* What one repair makes of the files, and of what is still to be repaired.
LEMMA RepairsOn ==
    ASSUME Forms, DuplicatesHaveRows, NEW left \in SUBSET Repairs, Sound(left), Pending(left), NEW l \in left,
           files' = [files EXCEPT ![l.name].id = l.proposed],
           UNCHANGED <<layout, rows, refs, identityHistory>>
    PROVE  /\ Forms' /\ DuplicatesHaveRows'
           /\ Pending(left \ {l})'
           /\ \A n \in Names : /\ files'[n] = NoFile <=> files[n] = NoFile
                               /\ files[n] # NoFile => files'[n].heading = files[n].heading
           /\ FilesRepaired(left \ {l})' = FilesRepaired(left)
           /\ left = {l} => Known(FilesRepaired(left)) = Known(files')
<1> DEFINE new == [files[l.name] EXCEPT !.id = l.proposed]
           rest == left \ {l}
<1>1. /\ l.name \in Names /\ l.proposed \in Ids /\ l.current \in Ids
      /\ files[l.name] # NoFile /\ files[l.name].id = l.current
      /\ files \in [Names -> Files \cup {NoFile}]
  BY DEF Repairs, Pending, Forms
<1>2. files[l.name] \in Files
  BY <1>1
<1>3. new \in Files /\ new.id = l.proposed /\ new.heading = files[l.name].heading /\ new # NoFile
  <2>1. new \in Files /\ new.id = l.proposed /\ new.heading = files[l.name].heading
    BY <1>1, <1>2 DEF Files
  <2>2. QED
    BY <2>1, OrganizationAssumption
<1>4. files' = [files EXCEPT ![l.name] = new]
  BY <1>1
<1>5. /\ files' \in [Names -> Files \cup {NoFile}] /\ files'[l.name] = new
      /\ \A n \in Names : n # l.name => files'[n] = files[n]
  BY <1>1, <1>3, <1>4
<1>6. new = [files[l.name] EXCEPT !.id = RepairedId(left, l.name)]
  <2>1. RepairedId(left, l.name) = l.proposed
    BY FilesRepairedAre
  <2>2. QED
    BY <2>1
<1> HIDE DEF new
<1>7. Filled(files') = Filled(files)
  BY <1>1, <1>3, <1>5 DEF Filled
<1>8. ASSUME NEW n \in Names
      PROVE  /\ files'[n] = NoFile <=> files[n] = NoFile
             /\ files[n] # NoFile => files'[n].heading = files[n].heading
  BY <1>1, <1>3, <1>5
<1>9. \A n \in Filled(files) : files[n].id # l.proposed /\ files[n].id \in Ids
  <2>1. l.proposed \notin IdsOf(Inventory)
    BY DEF Pending
  <2>2. \A id \in Ids : id \in IdsOf(Inventory) <=> \E n \in Filled(files) : files[n].id = id
    BY <1>1, InventoryReads DEF Forms, Inventory
  <2>3. QED
    BY <1>1, <2>1, <2>2 DEF Filled, Files
<1>10. /\ Forms'
       /\ DuplicatesHaveRows'
  <2>1. Forms'
    BY <1>5 DEF Forms
  <2>2. DuplicatesHaveRows'
    BY <1>1, <1>3, <1>5, <1>9 DEF DuplicatesHaveRows, Filled
  <2>3. QED
    BY <2>1, <2>2
<1>11. ASSUME NEW n \in Names PROVE RepairedId(rest, n)' = RepairedId(left, n)
  <2>1. \A a \in left : RepairOf(left, a.name) = a
    BY RepairOfIs DEF Sound
  <2>2. \A a \in rest : RepairOf(rest, a.name) = a
    BY RepairOfIs DEF Sound
  <2>3. CASE n = l.name
    <3>1. ~(\E a \in rest : a.name = n)
      BY <2>3 DEF Sound
    <3>2. RepairedId(rest, n)' = l.proposed
      BY <1>3, <1>5, <2>3, <3>1 DEF RepairedId
    <3>3. RepairedId(left, n) = l.proposed
      BY <2>1, <2>3 DEF RepairedId
    <3>4. QED
      BY <3>2, <3>3
  <2>4. CASE n # l.name /\ \E a \in left : a.name = n
    <3>1. PICK a \in left : a.name = n
      BY <2>4
    <3>2. a \in rest
      BY <2>4, <3>1
    <3>3. QED
      BY <2>1, <2>2, <3>1, <3>2 DEF RepairedId
  <2>5. CASE ~(\E a \in left : a.name = n)
    BY <1>5, <2>5 DEF RepairedId
  <2>6. QED
    BY <2>3, <2>4, <2>5
<1>12. Pending(rest)'
  <2>1. ASSUME NEW a \in rest
        PROVE  files'[a.name] # NoFile /\ files'[a.name].id = a.current /\ a.proposed \notin IdsOf(Inventory')
    <3>1. a.name # l.name /\ a.proposed # l.proposed /\ a.proposed \in Ids /\ a.name \in Names
      BY DEF Sound, Repairs
    <3>2. files'[a.name] = files[a.name]
      BY <1>5, <3>1
    <3>3. files[a.name] # NoFile /\ files[a.name].id = a.current /\ a.proposed \notin IdsOf(Inventory)
      BY DEF Pending
    <3>4. /\ \A id \in Ids : id \in IdsOf(Inventory) <=> \E n \in Filled(files) : files[n].id = id
          /\ \A id \in Ids : id \in IdsOf(Inventory') <=> \E n \in Filled(files') : files'[n].id = id
      <4>1. \A id \in Ids : id \in IdsOf(Inventory) <=> \E n \in Filled(files) : files[n].id = id
        BY <1>1, InventoryReads DEF Forms, Inventory
      <4>2. PICK fs, rs : fs = files' /\ rs = rows'
        OBVIOUS
      <4>3. \A id \in Ids : id \in IdsOf(InventoryOf(fs, rs)) <=> \E n \in Filled(fs) : fs[n].id = id
        <5>1. fs \in [Names -> Files \cup {NoFile}] /\ rs \in SUBSET Rows
          BY <1>10, <4>2 DEF Forms
        <5>2. QED
          BY <5>1, InventoryReads
      <4>4. Inventory' = InventoryOf(fs, rs) /\ Filled(files') = Filled(fs)
        BY <4>2 DEF Inventory
      <4>5. QED
        BY <4>1, <4>2, <4>3, <4>4
    <3>5. a.proposed \notin IdsOf(Inventory')
      <4>1. SUFFICES ASSUME NEW n \in Filled(files'), files'[n].id = a.proposed PROVE FALSE
        BY <3>1, <3>4
      <4>2. n # l.name
        BY <1>3, <1>5, <3>1, <4>1
      <4>3. n \in Filled(files) /\ files'[n] = files[n]
        BY <1>5, <1>7, <4>1, <4>2 DEF Filled
      <4>4. QED
        BY <3>1, <3>3, <3>4, <4>1, <4>3
    <3>6. QED
      BY <3>2, <3>3, <3>5
  <2>2. ASSUME NEW m \in Names, NEW n \in Names, files'[m] # NoFile, files'[n] # NoFile, m # n
        PROVE  RepairedId(rest, m)' # RepairedId(rest, n)'
    BY <1>8, <1>11, <2>2 DEF Pending
  <2>3. QED
    BY <2>1, <2>2 DEF Pending
<1>13. FilesRepaired(rest)' = FilesRepaired(left)
  <2>1. ASSUME NEW n \in Names
        PROVE  (IF files'[n] = NoFile THEN NoFile ELSE [files'[n] EXCEPT !.id = RepairedId(rest, n)'])
               = IF files[n] = NoFile THEN NoFile ELSE [files[n] EXCEPT !.id = RepairedId(left, n)]
    <3>1. CASE files[n] = NoFile
      BY <1>8, <3>1
    <3>2. CASE files[n] # NoFile /\ n # l.name
      BY <1>5, <1>11, <3>2
    <3>3. CASE n = l.name
      <4>1. [new EXCEPT !.id = l.proposed] = new
        BY <1>3 DEF Files
      <4>2. RepairedId(rest, n)' = l.proposed /\ RepairedId(left, n) = l.proposed
        BY <1>11, <3>3, FilesRepairedAre
      <4>3. QED
        BY <1>1, <1>3, <1>5, <1>6, <3>3, <4>1, <4>2
    <3>4. QED
      BY <3>1, <3>2, <3>3
  <2>2. QED
    BY <2>1 DEF FilesRepaired
<1>14. ASSUME left = {l} PROVE Known(FilesRepaired(left)) = Known(files')
  <2> DEFINE fs == FilesRepaired(left)
  <2>1. /\ Filled(fs) = Filled(files)
        /\ \A n \in Filled(files) : fs[n].id = RepairedId(left, n)
        /\ \A n \in Names : (\E a \in left : a.name = n) \/ RepairedId(left, n) = files[n].id
        /\ RepairedId(left, l.name) = l.proposed
    BY FilesRepairedAre
  <2> HIDE DEF fs
  <2>2. ASSUME NEW n \in Filled(files) PROVE fs[n].id = files'[n].id
    <3>1. CASE n = l.name
      BY <1>3, <1>5, <2>1, <3>1
    <3>2. CASE n # l.name
      <4>1. n \in Names /\ ~(\E a \in left : a.name = n)
        BY <1>14, <3>2 DEF Filled
      <4>2. QED
        BY <1>5, <2>1, <3>2, <4>1
    <3>3. QED
      BY <3>1, <3>2
  <2>3. ASSUME NEW p PROVE p \in Known(fs) <=> p \in Known(files')
    <3>1. p \in Known(fs) <=> \E n \in Filled(files) : p = [id |-> fs[n].id, name |-> n]
      BY <2>1, KnownAre
    <3>2. p \in Known(files') <=> \E n \in Filled(files) : p = [id |-> files'[n].id, name |-> n]
      <4>1. PICK gs : gs = files'
        OBVIOUS
      <4>2. p \in Known(gs) <=> \E n \in Filled(gs) : p = [id |-> gs[n].id, name |-> n]
        BY KnownAre
      <4>3. QED
        BY <1>7, <4>1, <4>2
    <3>3. QED
      BY <2>2, <3>1, <3>2
  <2>4. Known(fs) = Known(files')
    BY <2>3
  <2>5. QED
    BY <2>4 DEF fs
<1>15. QED
  BY <1>8, <1>10, <1>12, <1>13, <1>14

-----------------------------------------------------------------------------
(* Steps under the lock: the rows of Workspace State.                      *)

\* One file after the other gets its new ID.
LEMMA RepairNextKeeps ==
    ASSUME OrganizationIInv, NEW c \in Commands, RepairNext(c)
    PROVE  OrganizationIInv'
<1>0. PICK r, left : r = cmd[c].req /\ left = cmd[c].left
  OBVIOUS
<1>1. cmd[c].pc = "repairs" /\ cmd[c].pc \in Inside
  BY DEF RepairNext, At, Inside
<1>2. /\ LagAt(c) \/ Blame
      /\ Forms /\ DuplicatesHaveRows /\ Fits(c) /\ LedgerOK(c) /\ Stage(c) /\ CommandsTyped
      /\ r \in AskedFor /\ cmd \in [Commands -> Records] /\ cmd[c] \in Records
  BY <1>0, <1>1, InsideFacts
<1>3. r.kind = "repair" /\ left \in SUBSET Repairs
  BY <1>0, <1>1, <1>2 DEF Fits, KindsAt, Records
<1>4. /\ Sound(r.expected) /\ left \subseteq r.expected /\ Pending(left)
      /\ cmd[c].plan.rows = RowsRepaired(r.expected)
      /\ cmd[c].plan.refs = RefsRepaired(r.expected)
  BY <1>0, <1>1, <1>2, <1>3 DEF Stage, RepairStage, Inside
<1>5. Sound(left)
  BY <1>4 DEF Sound
<1>6. LagAt(c) => Agree(FilesRepaired(left), cmd[c].plan.rows, cmd[c].plan.refs) /\ Headings(Names)
  BY <1>0, <1>1 DEF LagAt
<1>7. UNCHANGED <<layout, rows, refs, identityHistory, ledger>>
  BY DEF RepairNext
<1>8. PICK l \in left :
          LET change == files' = [files EXCEPT ![l.name].id = l.proposed] IN
          \/ change /\ Touched(c) /\ Repaired(c, l) /\ UNCHANGED organizationLock
          \/ UNCHANGED <<files, effects>> /\ Returns(c, FALSE, TRUE)
          \/ change /\ Touched(c) /\ Returns(c, FALSE, TRUE)
  BY <1>0 DEF RepairNext
<1> DEFINE change == files' = [files EXCEPT ![l.name].id = l.proposed]
           rest == left \ {l}
<1>9. ASSUME change
      PROVE  /\ Forms' /\ DuplicatesHaveRows'
             /\ Pending(rest)'
             /\ \A n \in Names : /\ files'[n] = NoFile <=> files[n] = NoFile
                                 /\ files[n] # NoFile => files'[n].heading = files[n].heading
             /\ FilesRepaired(rest)' = FilesRepaired(left)
             /\ left = {l} => Known(FilesRepaired(left)) = Known(files')
  BY <1>2, <1>3, <1>4, <1>5, <1>7, <1>9, RepairsOn
<1>10. CASE change /\ Touched(c) /\ Repaired(c, l) /\ UNCHANGED organizationLock
  <2> DEFINE place == IF left = {l} THEN "rows" ELSE "repairs"
             rec == [cmd[c] EXCEPT !.left = rest, !.pc = place]
  <2>1. place \in Inside /\ r.kind \in KindsAt(place) /\ place \in {"rows", "repairs"}
        /\ (place = "rows" <=> left = {l})
    BY <1>3 DEF Inside, KindsAt
  <2>2. cmd' = [cmd EXCEPT ![c] = rec]
    BY <1>0, <1>1, <1>2, <1>10 DEF Repaired
  <2> HIDE DEF place
  <2>3. /\ rec \in Records /\ rec.req = r /\ rec.pc = place /\ rec.todo = cmd[c].todo
        /\ rec.plan = cmd[c].plan /\ rec.left = rest
    <3>1. rest \in SUBSET Repairs
      BY <1>3
    <3>2. QED
      BY <1>0, <1>2, <2>1, <3>1 DEF Records, Stages
  <2> HIDE DEF rec
  <2>4. /\ Proceeds(c, place) /\ cmd'[c].plan = cmd[c].plan /\ cmd'[c].left = rest
        /\ cmd'[c].req = r /\ cmd'[c].pc = place
    BY <1>0, <1>2, <2>2, <2>3, NewRecord DEF Proceeds
  <2>5. RepairStage(c)'
    <3>1. /\ RowsRepaired(r.expected)' = RowsRepaired(r.expected)
          /\ RefsRepaired(r.expected)' = RefsRepaired(r.expected)
      BY <1>7 DEF RowsRepaired, RefsRepaired
    <3>2. Pending(rest)' /\ rest \subseteq r.expected /\ (place = "rows" => rest = {})
      BY <1>4, <1>9, <1>10, <2>1
    <3> HIDE DEF rest
    <3>3. QED
      BY <1>4, <2>1, <2>4, <3>1, <3>2 DEF RepairStage
  <2>6. LagAt(c) => LagAt(c)'
    <3>1. SUFFICES ASSUME LagAt(c) PROVE LagAt(c)'
      OBVIOUS
    <3>2. Headings(Names)'
      BY <1>6, <1>9, <1>10, <3>1 DEF Headings
    <3>3. CASE place = "repairs"
      BY <1>6, <1>9, <1>10, <2>4, <3>1, <3>2, <3>3 DEF LagAt
    <3>4. CASE place = "rows"
      BY <1>6, <1>9, <1>10, <2>1, <2>4, <3>1, <3>2, <3>4 DEF LagAt, Agree
    <3>5. QED
      BY <2>1, <3>3, <3>4
  <2>7. Stage(c)'
    BY <1>3, <2>4, <2>5, OneStage
  <2>8. QED
    BY <1>0, <1>1, <1>2, <1>7, <1>9, <1>10, <2>1, <2>4, <2>6, <2>7, InsideGoes DEF Touched, Touches
<1>11. CASE UNCHANGED <<files, effects>> /\ Returns(c, FALSE, TRUE)
  <2>1. Forms' /\ DuplicatesHaveRows'
    BY <1>2, <1>7, <1>11 DEF Forms, DuplicatesHaveRows
  <2>2. QED
    BY <1>1, <1>7, <1>11, <2>1, CommittedEnds DEF Touches
<1>12. CASE change /\ Touched(c) /\ Returns(c, FALSE, TRUE)
  BY <1>1, <1>7, <1>9, <1>12, CommittedEnds DEF Touched, Touches
<1>13. QED
  BY <1>8, <1>10, <1>11, <1>12

\* Workspace State, as the plan worked it out.
LEMMA WriteRowsKeeps ==
    ASSUME OrganizationIInv, NEW c \in Commands, WriteRows(c)
    PROVE  OrganizationIInv'
<1>0. PICK r : r = cmd[c].req
  OBVIOUS
<1>1. cmd[c].pc = "rows" /\ cmd[c].pc \in Inside
  BY DEF WriteRows, At, Inside
<1>2. /\ LagAt(c) \/ Blame
      /\ Forms /\ DuplicatesHaveRows /\ Fits(c) /\ LedgerOK(c) /\ Stage(c) /\ CommandsTyped
      /\ r \in AskedFor /\ cmd[c] \in Records
  BY <1>0, <1>1, InsideFacts
<1>3. r.kind \in {"rename", "repair"} /\ cmd[c].plan.rows \subseteq Rows
  BY <1>0, <1>1, <1>2 DEF Fits, KindsAt, Records
<1>4. LagAt(c) => Agree(files, cmd[c].plan.rows, cmd[c].plan.refs) /\ Headings(Names)
  BY <1>1 DEF LagAt
<1>5. UNCHANGED <<layout, files, refs, identityHistory, ledger>>
  BY DEF WriteRows, Writes
<1>6. r.kind = "rename" =>
         /\ cmd[c].plan.rows = RowsRenamed(r, rows)
         /\ cmd[c].plan.refs = RefsRenamed(r)
         /\ cmd[c].plan.history = identityHistory \cup {r}
         /\ r.old # r.new /\ files[r.old] = NoFile /\ files[r.new] # NoFile
         /\ \A n \in Names : files[n] # NoFile => (files[n].id = r.id <=> n = r.new)
         /\ files[r.new].heading # r.old
         /\ RowNames(r.id) = {r.old}
  BY <1>0, <1>1, <1>2 DEF Stage, RenameStage
<1>7. r.kind = "repair" =>
         /\ Sound(r.expected) /\ Pending({}) /\ cmd[c].left = {}
         /\ cmd[c].plan.rows = RowsRepaired(r.expected)
         /\ cmd[c].plan.refs = RefsRepaired(r.expected)
         /\ r.expected \in SUBSET Repairs
  BY <1>0, <1>1, <1>2, RequestsTyped DEF Stage, RepairStage, Inside
<1>8. ASSUME rows' = cmd[c].plan.rows PROVE Forms' /\ DuplicatesHaveRows'
  <2>1. Forms'
    BY <1>2, <1>3, <1>5, <1>8 DEF Forms
  <2>2. SUFFICES ASSUME NEW m \in Names, NEW n \in Names, files[m] # NoFile, files[n] # NoFile,
                        m # n, files[m].id = files[n].id
                 PROVE  [id |-> files[n].id, name |-> n] \in Pairs(rows')
    BY <1>5, <2>1 DEF DuplicatesHaveRows
  <2>3. CASE r.kind = "rename"
    <3>1. [id |-> files[n].id, name |-> n] \in Pairs(rows)
      BY <1>2, <2>2 DEF DuplicatesHaveRows
    <3>2. PICK y \in rows : [id |-> files[n].id, name |-> n] = [id |-> y.id, name |-> y.name]
      BY <3>1, PairsAre
    <3>3. files[n].id # r.id
      BY <1>6, <2>2, <2>3
    <3>4. y \in RowsRenamed(r, rows)
      BY <3>2, <3>3, RowsRenamedAre
    <3>5. QED
      BY <1>6, <1>8, <2>3, <3>2, <3>4 DEF Pairs
  <2>4. CASE r.kind = "repair"
    BY <1>7, <2>2, <2>4 DEF Pending, RepairedId
  <2>5. QED
    BY <1>3, <2>3, <2>4
<1>9. CASE rows' = cmd[c].plan.rows /\ Touched(c) /\ Go(c, "refs") /\ UNCHANGED organizationLock
  <2>1. Proceeds(c, "refs") /\ cmd'[c].plan = cmd[c].plan /\ cmd'[c].left = cmd[c].left
    BY <1>9, GoesOn DEF Inside
  <2>2. cmd'[c].req = r /\ cmd'[c].pc = "refs"
    BY <1>0, <2>1 DEF Proceeds
  <2>3. LagAt(c) => LagAt(c)'
    <3>1. Headings(Names)' <=> Headings(Names)
      BY <1>5 DEF Headings
    <3>2. QED
      BY <1>4, <1>5, <1>9, <2>1, <2>2, <3>1 DEF LagAt
  <2>4. CASE r.kind = "rename"
    <3>1. RowNames(r.id)' = {r.new}
      <4>1. rows' = RowsRenamed(r, rows)
        BY <1>6, <1>9, <2>4
      <4>2. ASSUME NEW x \in rows', x.id = r.id PROVE x.name = r.new
        <5>1. PICK y \in rows : x = IF y.id = r.id THEN [y EXCEPT !.name = r.new] ELSE y
          BY <4>1, <4>2, RowsRenamedAre
        <5>2. y \in Rows
          BY <1>2 DEF Forms
        <5>3. QED
          BY <4>2, <5>1, <5>2 DEF Rows
      <4>3. \E x \in rows' : x.id = r.id
        <5>1. PICK y \in rows : y.id = r.id
          BY <1>6, <2>4 DEF RowNames
        <5>2. y \in Rows
          BY <1>2 DEF Forms
        <5>3. [y EXCEPT !.name = r.new] \in rows'
          BY <4>1, <5>1, RowsRenamedAre
        <5>4. QED
          BY <5>1, <5>2, <5>3 DEF Rows
      <4>4. QED
        BY <4>2, <4>3 DEF RowNames
    <3>2. RenameStage(c)'
      <4>1. /\ cmd'[c].plan.refs = RefsRenamed(r)'
            /\ cmd'[c].plan.history = identityHistory' \cup {r}
        BY <1>5, <1>6, <2>1, <2>4 DEF RefsRenamed
      <4>2. QED
        BY <1>5, <1>6, <2>2, <2>4, <3>1, <4>1 DEF RenameStage
    <3>3. "refs" \in Inside /\ cmd[c].req.kind \in KindsAt("refs")
      BY <1>0, <2>4 DEF Inside, KindsAt
    <3>4. QED
      BY <1>1, <1>2, <1>5, <1>8, <1>9, <2>1, <2>2, <2>3, <2>4, <3>2, <3>3, OneStage, InsideGoes
         DEF Touched, Touches
  <2>5. CASE r.kind = "repair"
    <3>1. ASSUME NEW l \in r.expected PROVE Whose(l) \notin Pairs(rows')
      <4>1. SUFFICES ASSUME NEW x \in rows', Whose(l) = [id |-> x.id, name |-> x.name] PROVE FALSE
        BY PairsAre
      <4>2. x.id = l.current /\ x.name = l.name /\ rows' = RowsRepaired(r.expected)
        BY <1>7, <1>9, <2>5, <4>1 DEF Whose
      <4>3. PICK y \in rows :
                x = IF \E k \in r.expected : [id |-> y.id, name |-> y.name] = Whose(k)
                      THEN [y EXCEPT !.id = RepairOf(r.expected, y.name).proposed] ELSE y
        BY <4>2, RowsRepairedAre
      <4>4. \E k \in r.expected : [id |-> y.id, name |-> y.name] = Whose(k)
        BY <4>1, <4>3
      <4>5. PICK k \in r.expected : [id |-> y.id, name |-> y.name] = Whose(k)
        BY <4>4
      <4>6. y \in Rows /\ y.name = k.name
        BY <1>2, <4>5 DEF Forms, Whose
      <4>7. RepairOf(r.expected, y.name) = k
        BY <1>7, <2>5, <4>6, RepairOfIs DEF Sound
      <4>8. x.id = k.proposed /\ x.name = k.name
        BY <4>3, <4>4, <4>6, <4>7 DEF Rows
      <4>9. k = l
        BY <1>7, <2>5, <4>2, <4>8 DEF Sound
      <4>10. QED
        BY <1>7, <2>5, <4>2, <4>8, <4>9 DEF Sound
    <3>2. Pending({})'
      BY <1>5, <1>7, <2>5 DEF Pending, RepairedId
    <3>3. RepairStage(c)'
      <4>1. cmd'[c].plan.refs = RefsRepaired(r.expected)'
        BY <1>5, <1>7, <2>1, <2>5 DEF RefsRepaired
      <4>2. QED
        BY <1>7, <2>1, <2>2, <2>5, <3>1, <3>2, <4>1 DEF RepairStage
    <3>4. "refs" \in Inside /\ cmd[c].req.kind \in KindsAt("refs")
      BY <1>0, <2>5 DEF Inside, KindsAt
    <3>5. QED
      BY <1>1, <1>2, <1>5, <1>8, <1>9, <2>1, <2>2, <2>3, <2>5, <3>3, <3>4, OneStage, InsideGoes
         DEF Touched, Touches
  <2>6. QED
    BY <1>3, <2>4, <2>5
<1>10. CASE UNCHANGED <<rows, effects>> /\ Returns(c, FALSE, TRUE)
  <2>1. Forms' /\ DuplicatesHaveRows'
    BY <1>2, <1>5, <1>10 DEF Forms, DuplicatesHaveRows
  <2>2. QED
    BY <1>1, <1>5, <1>10, <2>1, CommittedEnds DEF Touches
<1>11. CASE rows' = cmd[c].plan.rows /\ Touched(c) /\ Returns(c, FALSE, TRUE)
  BY <1>1, <1>5, <1>8, <1>11, CommittedEnds DEF Touched, Touches
<1>12. QED
  BY <1>9, <1>10, <1>11 DEF WriteRows, Writes

-----------------------------------------------------------------------------
(* Steps under the lock: references and Identity History, and the invariant.*)

\* What is rewritten already is not rewritten again.
LEMMA RenamedTwice ==
    ASSUME NEW r, r.old # r.new, NEW x
    PROVE  RefRenamed(r, RefRenamed(r, x)) = RefRenamed(r, x)
<1>1. CASE x = [id |-> r.id, name |-> r.old]
  <2>1. RefRenamed(r, x) = [id |-> r.id, name |-> r.new]
    BY <1>1 DEF RefRenamed
  <2>2. [id |-> r.id, name |-> r.new] # [id |-> r.id, name |-> r.old]
    OBVIOUS
  <2>3. QED
    BY <2>1, <2>2 DEF RefRenamed
<1>2. CASE x # [id |-> r.id, name |-> r.old]
  BY <1>2 DEF RefRenamed
<1>3. QED
  BY <1>1, <1>2

LEMMA RepairedTwice ==
    ASSUME NEW repairs, Sound(repairs), NEW x
    PROVE  RefRepaired(repairs, RefRepaired(repairs, x)) = RefRepaired(repairs, x)
<1>1. CASE \E k \in repairs : x = Whose(k)
  <2>1. PICK k \in repairs : x = Whose(k)
    BY <1>1
  <2>2. RepairOf(repairs, x.name) = k
    BY <2>1, RepairOfIs DEF Sound, Whose
  <2>3. RefRepaired(repairs, x) = [id |-> k.proposed, name |-> k.name]
    BY <2>1, <2>2 DEF RefRepaired, Whose
  <2>4. ASSUME NEW l \in repairs, [id |-> k.proposed, name |-> k.name] = Whose(l) PROVE FALSE
    <3>1. l.name = k.name /\ l.current = k.proposed
      BY <2>4 DEF Whose
    <3>2. QED
      BY <3>1 DEF Sound
  <2>5. QED
    BY <2>3, <2>4 DEF RefRepaired
<1>2. CASE ~(\E k \in repairs : x = Whose(k))
  BY <1>2 DEF RefRepaired
<1>3. QED
  BY <1>1, <1>2

\* Some of the Project files are rewritten: the others ask for the same.
LEMMA WriteSomeRefsKeeps ==
    ASSUME OrganizationIInv, NEW c \in Commands, WriteSomeRefs(c)
    PROVE  OrganizationIInv'
<1>0. PICK r : r = cmd[c].req
  OBVIOUS
<1>1. cmd[c].pc = "refs" /\ cmd[c].pc \in Inside
  BY DEF WriteSomeRefs, At, Inside
<1>2. /\ LagAt(c) \/ Blame
      /\ Forms /\ DuplicatesHaveRows /\ Fits(c) /\ LedgerOK(c) /\ Stage(c) /\ CommandsTyped
      /\ cmd \in [Commands -> Records] /\ cmd[c] \in Records
  BY <1>0, <1>1, InsideFacts
<1>3. /\ r.kind \in {"rename", "repair"} /\ cmd[c].plan.refs \subseteq References
      /\ "refs" \in Inside /\ r.kind \in KindsAt("refs") /\ Key(c) \in effects
  BY <1>0, <1>1, <1>2 DEF Fits, KindsAt, Records, Inside, LedgerOK
<1>4. UNCHANGED <<layout, files, rows, identityHistory, organizationLock, cmd, ledger>> /\ Touches(c)
  BY DEF WriteSomeRefs, Touched, Touches
<1>5. Proceeds(c, "refs") /\ Key(c) \in effects'
  BY <1>1, <1>2, <1>3, <1>4 DEF Proceeds, Touches
<1>6. LagAt(c)' \/ Blame
  BY <1>1, <1>2, <1>4 DEF LagAt, Headings
<1>7. DuplicatesHaveRows'
  BY <1>2, <1>4 DEF DuplicatesHaveRows
<1>8. CASE r.kind = "rename"
  <2>1. r.old # r.new /\ cmd[c].plan.refs = RefsRenamed(r)
    BY <1>0, <1>1, <1>2, <1>8 DEF Stage, RenameStage
  <2>2. PICK done, left \in SUBSET refs :
            done \cup left = refs /\ refs' = {RefRenamed(r, x) : x \in done} \cup left
    BY <1>0, <1>8 DEF WriteSomeRefs
  <2>3. \A x \in done : RefRenamed(r, x) \in RefsRenamed(r)
    BY DEF RefsRenamed
  <2>4. refs' \subseteq References
    BY <1>2, <1>3, <2>1, <2>2, <2>3 DEF Forms
  <2>5. RefsRenamed(r)' = RefsRenamed(r)
    <3>1. \A x : RefRenamed(r, RefRenamed(r, x)) = RefRenamed(r, x)
      BY <2>1, RenamedTwice
    <3>2. ASSUME NEW x \in refs' PROVE RefRenamed(r, x) \in {RefRenamed(r, y) : y \in refs}
      BY <2>2, <3>1
    <3>3. ASSUME NEW x \in refs PROVE RefRenamed(r, x) \in {RefRenamed(r, y) : y \in refs'}
      <4>1. CASE x \in left
        BY <2>2, <4>1
      <4>2. CASE x \in done
        BY <2>2, <3>1, <4>2
      <4>3. QED
        BY <2>2, <4>1, <4>2
    <3>4. {RefRenamed(r, y) : y \in refs'} = {RefRenamed(r, y) : y \in refs}
      BY <3>2, <3>3
    <3>5. QED
      BY <3>4 DEF RefsRenamed
  <2>6. RenameStage(c)'
    <3>1. RowNames(r.id)' = RowNames(r.id)
      BY <1>4 DEF RowNames
    <3>2. RenameStage(c)
      BY <1>2 DEF Stage
    <3>3. QED
      BY <1>0, <1>1, <1>4, <1>8, <2>1, <2>5, <3>1, <3>2 DEF RenameStage
  <2>7. QED
    BY <1>0, <1>1, <1>2, <1>3, <1>4, <1>5, <1>6, <1>7, <1>8, <2>4, <2>6, OneStage, InsideGoes DEF Forms
<1>9. CASE r.kind = "repair"
  <2>1. Sound(r.expected) /\ Pending(cmd[c].left) /\ cmd[c].plan.refs = RefsRepaired(r.expected)
    BY <1>0, <1>1, <1>2, <1>9 DEF Stage, RepairStage
  <2>2. PICK done, left \in SUBSET refs :
            done \cup left = refs /\ refs' = {RefRepaired(r.expected, x) : x \in done} \cup left
    BY <1>0, <1>3, <1>9 DEF WriteSomeRefs
  <2>3. \A x \in done : RefRepaired(r.expected, x) \in RefsRepaired(r.expected)
    BY DEF RefsRepaired
  <2>4. refs' \subseteq References
    BY <1>2, <1>3, <2>1, <2>2, <2>3 DEF Forms
  <2>5. RefsRepaired(r.expected)' = RefsRepaired(r.expected)
    <3> DEFINE New(x) == RefRepaired(r.expected, x)
    <3>1. \A x : New(New(x)) = New(x)
      BY <2>1, RepairedTwice
    <3> HIDE DEF New
    <3>2. refs' = {New(x) : x \in done} \cup left
      BY <2>2 DEF New
    <3>3. ASSUME NEW x \in refs' PROVE New(x) \in {New(y) : y \in refs}
      BY <2>2, <3>1, <3>2
    <3>4. ASSUME NEW x \in refs PROVE New(x) \in {New(y) : y \in refs'}
      <4>1. CASE x \in left
        BY <3>2, <4>1
      <4>2. CASE x \in done
        BY <3>1, <3>2, <4>2
      <4>3. QED
        BY <2>2, <4>1, <4>2
    <3>5. {New(y) : y \in refs'} = {New(y) : y \in refs}
      BY <3>3, <3>4
    <3>6. QED
      BY <1>0, <1>4, <3>5 DEF RefsRepaired, New
  <2>6. RepairStage(c)'
    <3>1. Pending(cmd[c].left)'
      BY <1>4, <2>1 DEF Pending, RepairedId, Inventory
    <3>2. RepairStage(c)
      BY <1>2 DEF Stage
    <3>3. QED
      BY <1>0, <1>1, <1>4, <1>9, <2>1, <2>5, <3>1, <3>2 DEF RepairStage
  <2>7. QED
    BY <1>0, <1>1, <1>2, <1>3, <1>4, <1>5, <1>6, <1>7, <1>9, <2>4, <2>6, OneStage, InsideGoes DEF Forms
<1>10. QED
  BY <1>3, <1>8, <1>9

\* The references of Projects, where the plan changes them.
LEMMA WriteRefsKeeps ==
    ASSUME OrganizationIInv, NEW c \in Commands, WriteRefs(c)
    PROVE  OrganizationIInv'
<1>0. PICK r, next : r = cmd[c].req /\ next = (IF r.kind = "rename" THEN "history" ELSE "leave")
  OBVIOUS
<1>1. cmd[c].pc = "refs" /\ cmd[c].pc \in Inside
  BY DEF WriteRefs, At, Inside
<1>2. /\ LagAt(c) \/ Blame
      /\ Forms /\ DuplicatesHaveRows /\ Fits(c) /\ LedgerOK(c) /\ Stage(c) /\ CommandsTyped
      /\ r \in AskedFor /\ cmd[c] \in Records
  BY <1>0, <1>1, InsideFacts
<1>3. /\ r.kind \in {"rename", "repair"} /\ cmd[c].plan.refs \subseteq References
      /\ next \in Inside /\ r.kind \in KindsAt(next) /\ Key(c) \in effects
  BY <1>0, <1>1, <1>2 DEF Fits, KindsAt, Records, Inside, LedgerOK
<1>4. LagAt(c) => Agree(files, rows, cmd[c].plan.refs) /\ Headings(Names)
  BY <1>1 DEF LagAt
<1>5. UNCHANGED <<layout, files, rows, identityHistory, ledger>>
  BY DEF WriteRefs, Writes
<1>6. ASSUME refs' = cmd[c].plan.refs PROVE Forms' /\ DuplicatesHaveRows' /\ (LagAt(c) => InOrder')
  BY <1>2, <1>3, <1>4, <1>5, <1>6 DEF Forms, DuplicatesHaveRows, InOrder, Headings
<1>7. CASE refs' = cmd[c].plan.refs /\ Touches(c) /\ Go(c, next) /\ UNCHANGED organizationLock
  <2>1. Proceeds(c, next) /\ cmd'[c].plan = cmd[c].plan /\ cmd'[c].left = cmd[c].left
    BY <1>3, <1>7, GoesOn
  <2>2. cmd'[c].req = r /\ cmd'[c].pc = next /\ Key(c) \in effects'
    BY <1>0, <1>3, <1>7, <2>1 DEF Proceeds, Touches
  <2>3. LagAt(c) => LagAt(c)'
    BY <1>0, <1>6, <1>7, <2>2 DEF LagAt
  <2>4. CASE r.kind = "rename"
    <3>1. next = "history"
      BY <1>0, <2>4
    <3>2. /\ cmd[c].plan.refs = RefsRenamed(r)
          /\ cmd[c].plan.history = identityHistory \cup {r}
          /\ r.old # r.new /\ files[r.old] = NoFile /\ files[r.new] # NoFile
          /\ \A n \in Names : files[n] # NoFile => (files[n].id = r.id <=> n = r.new)
          /\ files[r.new].heading # r.old
          /\ RowNames(r.id) = {r.new}
      BY <1>0, <1>1, <1>2, <2>4 DEF Stage, RenameStage
    <3>3. [id |-> r.id, name |-> r.old] \notin refs'
      <4>1. SUFFICES ASSUME [id |-> r.id, name |-> r.old] \in RefsRenamed(r) PROVE FALSE
        BY <1>7, <3>2
      <4>2. PICK y \in refs : [id |-> r.id, name |-> r.old]
                = IF y = [id |-> r.id, name |-> r.old] THEN [y EXCEPT !.name = r.new] ELSE y
        BY <4>1, RefsRenamedAre
      <4>3. QED
        BY <3>2, <4>2
    <3>4. RenameStage(c)'
      <4>1. RowNames(r.id)' = RowNames(r.id)
        BY <1>5 DEF RowNames
      <4>2. QED
        BY <1>5, <2>1, <2>2, <3>1, <3>2, <3>3, <4>1 DEF RenameStage
    <3>5. QED
      BY <1>0, <1>1, <1>2, <1>3, <1>5, <1>6, <1>7, <2>1, <2>2, <2>3, <2>4, <3>4, OneStage, InsideGoes
  <2>5. CASE r.kind = "repair"
    <3>1. next = "leave"
      BY <1>0, <2>5
    <3>2. /\ Sound(r.expected) /\ Pending({}) /\ cmd[c].left = {}
          /\ cmd[c].plan.refs = RefsRepaired(r.expected)
          /\ \A l \in r.expected : Whose(l) \notin Pairs(rows)
      BY <1>0, <1>1, <1>2, <2>5 DEF Stage, RepairStage, Inside
    <3>3. ASSUME NEW l \in r.expected, Whose(l) \in refs' PROVE FALSE
      <4>1. Whose(l) \in RefsRepaired(r.expected)
        BY <1>7, <3>2, <3>3
      <4>2. PICK y \in refs :
                Whose(l) = IF \E k \in r.expected : y = Whose(k)
                             THEN [y EXCEPT !.id = RepairOf(r.expected, y.name).proposed] ELSE y
        BY <4>1, RowsRepairedAre
      <4>3. PICK k \in r.expected : y = Whose(k)
        BY <4>2
      <4>4. y.name = k.name /\ y.id = k.current
        BY <4>3 DEF Whose
      <4>5. RepairOf(r.expected, y.name) = k
        BY <3>2, <4>4, RepairOfIs DEF Sound
      <4>6. Whose(l) = [id |-> k.proposed, name |-> k.name]
        BY <4>2, <4>3, <4>5 DEF Whose
      <4>7. l.name = k.name /\ l.current = k.proposed
        BY <4>6 DEF Whose
      <4>8. QED
        BY <3>2, <4>7 DEF Sound
    <3>4. RepairStage(c)'
      <4>1. Pending({})'
        BY <1>5, <3>2 DEF Pending, RepairedId
      <4>2. QED
        BY <1>5, <2>1, <2>2, <3>1, <3>2, <3>3, <4>1 DEF RepairStage
    <3>5. QED
      BY <1>0, <1>1, <1>2, <1>3, <1>5, <1>6, <1>7, <2>1, <2>2, <2>3, <2>5, <3>4, OneStage, InsideGoes
  <2>6. QED
    BY <1>3, <2>4, <2>5
<1>8. CASE UNCHANGED <<refs, effects>> /\ Returns(c, FALSE, TRUE)
  <2>1. Forms' /\ DuplicatesHaveRows'
    BY <1>2, <1>5, <1>8 DEF Forms, DuplicatesHaveRows
  <2>2. QED
    BY <1>1, <1>5, <1>8, <2>1, CommittedEnds DEF Touches
<1>9. CASE refs' = cmd[c].plan.refs /\ Touched(c) /\ Returns(c, FALSE, TRUE)
  BY <1>1, <1>5, <1>6, <1>9, CommittedEnds DEF Touched, Touches
<1>10. QED
  BY <1>0, <1>5, <1>7, <1>8, <1>9 DEF WriteRefs, Writes, Touched, Touches

\* Identity History, last: everything is in place.
LEMMA WriteHistoryKeeps ==
    ASSUME OrganizationIInv, NEW c \in Commands, WriteHistory(c)
    PROVE  OrganizationIInv'
<1>0. PICK r : r = cmd[c].req
  OBVIOUS
<1>1. cmd[c].pc = "history" /\ cmd[c].pc \in Inside
  BY DEF WriteHistory, At, Inside
<1>2. /\ LagAt(c) \/ Blame
      /\ Forms /\ DuplicatesHaveRows /\ Fits(c) /\ LedgerOK(c) /\ Stage(c) /\ CommandsTyped
      /\ r \in AskedFor /\ cmd[c] \in Records
  BY <1>0, <1>1, InsideFacts
<1>3. r.kind = "rename" /\ cmd[c].plan.history \subseteq AskedFor
  BY <1>0, <1>1, <1>2 DEF Fits, KindsAt, Records
<1>4. /\ LagAt(c) <=> InOrder
  BY <1>1 DEF LagAt
<1>5. UNCHANGED <<layout, files, rows, refs, ledger>>
  BY DEF WriteHistory, Writes
<1>6. /\ cmd[c].plan.history = identityHistory \cup {r}
      /\ r.old # r.new /\ files[r.old] = NoFile /\ files[r.new] # NoFile
      /\ \A n \in Names : files[n] # NoFile => (files[n].id = r.id <=> n = r.new)
      /\ files[r.new].heading # r.old
      /\ RowNames(r.id) = {r.new}
      /\ [id |-> r.id, name |-> r.old] \notin refs
  BY <1>0, <1>1, <1>2, <1>3 DEF Stage, RenameStage
<1>7. /\ DuplicatesHaveRows' /\ (InOrder' <=> InOrder)
      /\ identityHistory' = cmd[c].plan.history => Forms'
      /\ UNCHANGED identityHistory => Forms'
  BY <1>2, <1>3, <1>5 DEF Forms, DuplicatesHaveRows, InOrder, Headings
<1>8. CASE identityHistory' = cmd[c].plan.history /\ Touched(c) /\ Go(c, "leave") /\ UNCHANGED organizationLock
  <2>1. Proceeds(c, "leave")
    BY <1>8, GoesOn DEF Inside
  <2>2. cmd'[c].req = r /\ cmd'[c].pc = "leave"
    BY <1>0, <2>1 DEF Proceeds
  <2>3. RenameStage(c)'
    <3>1. RowNames(r.id)' = RowNames(r.id)
      BY <1>5 DEF RowNames
    <3>2. QED
      BY <1>5, <1>6, <1>8, <2>2, <3>1 DEF RenameStage
  <2>4. LagAt(c)' <=> InOrder'
    BY <2>2 DEF LagAt
  <2>5. "leave" \in Inside /\ cmd[c].req.kind \in KindsAt("leave")
    BY <1>0, <1>3 DEF Inside, KindsAt
  <2>6. QED
    BY <1>1, <1>2, <1>3, <1>4, <1>5, <1>7, <1>8, <2>1, <2>2, <2>3, <2>4, <2>5, OneStage, InsideGoes
       DEF Touched, Touches
<1>9. CASE UNCHANGED <<identityHistory, effects>> /\ Returns(c, FALSE, TRUE)
  BY <1>1, <1>5, <1>7, <1>9, CommittedEnds DEF Touches
<1>10. CASE identityHistory' = cmd[c].plan.history /\ Touched(c) /\ Returns(c, FALSE, TRUE)
  BY <1>1, <1>5, <1>7, <1>10, CommittedEnds DEF Touched, Touches
<1>11. QED
  BY <1>8, <1>9, <1>10 DEF WriteHistory, Writes

\* The operation returns without error: nothing lags that it knew of.
LEMMA LeaveKeeps ==
    ASSUME OrganizationIInv, NEW c \in Commands, Leave(c)
    PROVE  OrganizationIInv'
<1>1. cmd[c].pc = "leave" /\ cmd[c].pc \in Inside
  BY DEF Leave, At, Inside
<1>2. LagAt(c) => InOrder
  BY <1>1 DEF LagAt
<1>3. Returns(c, TRUE, FALSE) /\ UNCHANGED <<layout, files, rows, refs, identityHistory, ledger, effects>>
  BY DEF Leave, Kept, documents
<1>4. QED
  BY <1>1, <1>2, <1>3, NothingDone

\* Nothing lags at the start, and nobody is inside.
LEMMA OrganizationInitHolds ==
    ASSUME OrganizationInit
    PROVE  OrganizationIInv
<1>1. PICK org \in Organizations :
          /\ files = [n \in Names |->
                        IF n \in DOMAIN org
                          THEN [id |-> org[n].id, role |-> org[n].role, heading |-> n] ELSE NoFile]
          /\ layout \in (IF DOMAIN org = {} THEN BOOLEAN ELSE {TRUE})
          /\ \E work \in {"idle", "busy"}, managers \in {{}, {Manager}} :
                rows = IF layout
                         THEN managers \cup {[id |-> org[n].id, name |-> n, work |-> work] : n \in DOMAIN org}
                         ELSE {}
          /\ refs \in {{}, {[id |-> org[n].id, name |-> n] : n \in DOMAIN org}}
  BY DEF OrganizationInit
<1>2. PICK work \in {"idle", "busy"}, managers \in {{}, {Manager}} :
          rows = IF layout
                   THEN managers \cup {[id |-> org[n].id, name |-> n, work |-> work] : n \in DOMAIN org}
                   ELSE {}
  BY <1>1
<1>3. /\ identityHistory = {} /\ organizationLock = NoCommand /\ cmd = [c \in Commands |-> Fresh]
      /\ ledger = [k \in Keys |-> "none"] /\ effects = {}
  BY DEF OrganizationInit
<1>4. DOMAIN org \subseteq Names /\ \A n \in DOMAIN org : org[n].id \in Ids /\ org[n].role \in Roles
  BY OrganizationAssumption
<1>5. layout \in BOOLEAN /\ (~layout => DOMAIN org = {})
  BY <1>1
<1>6. /\ \A n \in DOMAIN org : /\ files[n] \in Files /\ files[n] # NoFile
                               /\ files[n].id = org[n].id /\ files[n].heading = n
      /\ \A n \in Names \ DOMAIN org : files[n] = NoFile
      /\ files \in [Names -> Files \cup {NoFile}]
  <2>1. \A n \in DOMAIN org : [id |-> org[n].id, role |-> org[n].role, heading |-> n] \in Files
    BY <1>4 DEF Files
  <2>2. QED
    BY <1>1, <1>4, <2>1, OrganizationAssumption
<1> DEFINE Row(n) == [id |-> org[n].id, name |-> n, work |-> work]
           Ref(n) == [id |-> org[n].id, name |-> n]
           theirs == {Row(n) : n \in DOMAIN org}
           references == {Ref(n) : n \in DOMAIN org}
<1>7. rows = (IF layout THEN managers \cup theirs ELSE {}) /\ refs \in {{}, references}
  BY <1>1, <1>2
<1>8. /\ \A x \in theirs : \E n \in DOMAIN org : x = Row(n)
      /\ \A n \in DOMAIN org : Row(n) \in theirs
      /\ \A x \in references : \E n \in DOMAIN org : x = Ref(n)
  OBVIOUS
<1>9. \A n \in DOMAIN org : /\ Row(n) \in Rows /\ Row(n).id = files[n].id /\ Row(n).name = n
                            /\ Row(n).id # ManagerId
                            /\ Ref(n) \in References /\ Ref(n) = [id |-> files[n].id, name |-> n]
  BY <1>4, <1>6 DEF Rows, References, Ids, ManagerId
<1> HIDE DEF Row, Ref, theirs, references
<1>10. \A x \in managers : x \in Rows /\ x.id = ManagerId
  BY OrganizationAssumption DEF Manager, Rows
<1>11. rows \subseteq Rows /\ refs \subseteq References
  BY <1>7, <1>8, <1>9, <1>10
<1>12. Filled(files) = DOMAIN org
  BY <1>4, <1>6 DEF Filled
<1>13. InOrder
  <2>1. ASSUME NEW p \in Managed(rows) PROVE p \in Known(files)
    <3>1. PICK x \in rows : x.id # ManagerId /\ p = [id |-> x.id, name |-> x.name]
      BY <2>1, ManagedAre
    <3>2. PICK n \in DOMAIN org : x = Row(n)
      BY <1>7, <1>8, <1>10, <3>1
    <3>3. QED
      BY <1>9, <1>12, <3>1, <3>2, KnownAre
  <2>2. ASSUME NEW p \in Known(files) PROVE p \in Managed(rows)
    <3>1. PICK n \in DOMAIN org : p = [id |-> files[n].id, name |-> n]
      BY <1>12, <2>2, KnownAre
    <3>2. Row(n) \in rows
      BY <1>5, <1>7, <1>8
    <3>3. QED
      BY <1>9, <3>1, <3>2, ManagedAre
  <2>3. ASSUME NEW x \in refs PROVE x \in Known(files)
    BY <1>7, <1>8, <1>9, <1>12, <2>3, KnownAre
  <2>4. Headings(Names)
    BY <1>6 DEF Headings
  <2>5. QED
    BY <2>1, <2>2, <2>3, <2>4 DEF InOrder, Agree
<1>14. DocumentsTyped /\ CommandsTyped
  BY <1>3, <1>5, <1>6, <1>11, FreshTyped DEF DocumentsTyped, CommandsTyped
<1>15. ASSUME NEW c \in Commands PROVE Fits(c) /\ LedgerOK(c) /\ Stage(c)
  <2>1. cmd[c].pc = "idle" /\ cmd[c].req.kind = "none"
    BY <1>3 DEF Fresh, NoRequest
  <2>2. Fits(c)
    BY <1>3, <2>1, OrganizationAssumption DEF Fits, KindsAt, Inside
  <2>3. LedgerOK(c)
    BY <1>3, <2>1 DEF LedgerOK, At, Active
  <2>4. Stage(c)
    BY <2>1 DEF Stage, HireStage, SyncStage, RenameStage, RepairStage
  <2>5. QED
    BY <2>2, <2>3, <2>4
<1>16. LagOK
  BY <1>3, <1>13, OrganizationAssumption DEF LagOK
<1>17. DuplicatesHaveRows
  <2>1. SUFFICES ASSUME NEW m \in Names, NEW n \in Names, files[n] # NoFile
                 PROVE  [id |-> files[n].id, name |-> n] \in Pairs(rows)
    BY DEF DuplicatesHaveRows
  <2>2. [id |-> files[n].id, name |-> n] \in Managed(rows)
    BY <1>13, <2>1, KnownAre DEF InOrder, Agree, Filled
  <2>3. QED
    BY <2>2, ManagedAre, PairsAre
<1>18. QED
  BY <1>3, <1>14, <1>15, <1>16, <1>17 DEF OrganizationIInv

\* A step that changes nothing.
LEMMA OrganizationStutters ==
    ASSUME OrganizationIInv, UNCHANGED organizationVars
    PROVE  OrganizationIInv'
<1>1. UNCHANGED <<layout, files, rows, refs, identityHistory, organizationLock, cmd, ledger, effects>>
  BY DEF organizationVars, documents
<1>2. DocumentsTyped' /\ CommandsTyped' /\ DuplicatesHaveRows'
  BY <1>1 DEF OrganizationIInv, DocumentsTyped, CommandsTyped, DuplicatesHaveRows
<1>3. ASSUME NEW c \in Commands
      PROVE  Key(c)' = Key(c) /\ Candidate(c)' = Candidate(c) /\ (Active(c)' <=> Active(c))
  BY <1>1 DEF Key, Candidate, Active
<1>4. ASSUME NEW c \in Commands PROVE Fits(c)' /\ LedgerOK(c)' /\ Stage(c)'
  <2>1. Moves(c)
    BY <1>1 DEF OrganizationIInv, CommandsTyped, Moves
  <2>2. Fits(c) /\ LedgerOK(c) /\ Stage(c)
    BY DEF OrganizationIInv
  <2>3. Fits(c)' /\ LedgerOK(c)'
    BY <1>1, <1>3, <2>2 DEF Fits, LedgerOK, At
  <2>4. HireStage(c)'
    BY <1>1, <1>3, <2>2 DEF Stage, HireStage, Inventory, Pair, At
  <2>5. SyncStage(c)'
    BY <1>1, <2>2 DEF Stage, SyncStage, At
  <2>6. RenameStage(c)'
    <3>1. RefsRenamed(cmd[c].req)' = RefsRenamed(cmd[c].req)
      BY <1>1 DEF RefsRenamed
    <3>2. RowNames(cmd[c].req.id)' = RowNames(cmd[c].req.id)
      BY <1>1 DEF RowNames
    <3>3. QED
      BY <1>1, <2>2, <3>1, <3>2 DEF Stage, RenameStage
  <2>7. RepairStage(c)'
    <3>1. Pending(cmd[c].left)' <=> Pending(cmd[c].left)
      BY <1>1 DEF Pending, RepairedId, Inventory
    <3>2. QED
      BY <1>1, <2>2, <3>1 DEF Stage, RepairStage, RowsRepaired, RefsRepaired
  <2>8. QED
    BY <2>3, <2>4, <2>5, <2>6, <2>7 DEF Stage
<1>5. LagOK'
  <2>1. InOrder' <=> InOrder
    BY <1>1 DEF InOrder, Headings
  <2>2. Blame => Blame'
    <3>1. ASSUME NEW k \in Keys, Blamed(k) PROVE Blamed(k)'
      <4>1. k[1] \in Commands
        BY DEF Keys
      <4>2. QED
        BY <1>1, <1>3, <3>1, <4>1 DEF Blamed, At
    <3>2. QED
      BY <3>1 DEF Blame
  <2>3. ASSUME NEW c \in Commands, LagAt(c) PROVE LagAt(c)'
    <3>1. FilesRepaired(cmd[c].left)' = FilesRepaired(cmd[c].left)
      BY <1>1 DEF FilesRepaired, RepairedId
    <3>2. \A names : Headings(names)' <=> Headings(names)
      BY <1>1 DEF Headings
    <3>3. QED
      BY <1>1, <2>1, <2>3, <3>1, <3>2 DEF LagAt
  <2>4. QED
    BY <1>1, <2>1, <2>2, <2>3 DEF OrganizationIInv, LagOK
<1>6. QED
  BY <1>1, <1>2, <1>4, <1>5 DEF OrganizationIInv

\* Every step of the organization keeps the invariant, and so does a stutter.
LEMMA OrganizationStep ==
    ASSUME OrganizationIInv, [OrganizationNext]_organizationVars
    PROVE  OrganizationIInv'
<1>1. CASE UNCHANGED organizationVars
  BY <1>1, OrganizationStutters
<1>2. CASE OrganizationNext
  <2>1. PICK c \in Commands :
        \/ Ask(c) \/ Check(c)
        \/ EnterHire(c) \/ EnterSync(c) \/ EnterRename(c) \/ EnterRepair(c)
        \/ Create(c) \/ Sync(c) \/ Intent(c) \/ Identify(c) \/ WriteHeading(c) \/ RepairNext(c)
        \/ WriteRows(c) \/ WriteSomeRefs(c) \/ WriteRefs(c) \/ WriteHistory(c) \/ Leave(c)
        \/ Layout(c) \/ Inspect(c) \/ NextStarter(c) \/ Hired(c)
        \/ Finish(c) \/ Die(c)
    BY <1>2 DEF OrganizationNext
  <2>2. QED
    BY <2>1, AskKeeps, CheckKeeps, EnterHireKeeps, EnterSyncKeeps, EnterRenameKeeps, EnterRepairKeeps,
       CreateKeeps, SyncKeeps, IntentKeeps, IdentifyKeeps, WriteHeadingKeeps, RepairNextKeeps,
       WriteRowsKeeps, WriteSomeRefsKeeps, WriteRefsKeeps, WriteHistoryKeeps, LeaveKeeps, LayoutKeeps,
       InspectKeeps, NextStarterKeeps, HiredKeeps, FinishKeeps, DieKeeps
<1>3. QED
  BY <1>1, <1>2

\* The inductive invariant of the organization holds of every behaviour.
THEOREM OrganizationInvariance == OrganizationSpec => []OrganizationIInv
<1>1. OrganizationInit => OrganizationIInv
  BY OrganizationInitHolds
<1>2. OrganizationIInv /\ [OrganizationNext]_organizationVars => OrganizationIInv'
  BY OrganizationStep
<1>3. QED
  BY <1>1, <1>2, PTL DEF OrganizationSpec

-----------------------------------------------------------------------------
(* What the inductive invariant gives.                                     *)

\* The documents keep their forms, and the lock is held by whoever is inside
\* Hire, Rename, RepairIDs or SyncWorkspaceState.
THEOREM OrganizationTypeCorrect == OrganizationSpec => []OrganizationTypeOK
<1>1. OrganizationIInv => OrganizationTypeOK
  BY DEF OrganizationIInv, DocumentsTyped, Fits, Rows, References, OrganizationTypeOK
<1>2. QED
  BY <1>1, OrganizationInvariance, PTL

\* A Command that is about to report success has every document it promised
\* in place, canonical and projections, whatever earlier ones left undone.
THEOREM LeavesAreComplete == OrganizationSpec => []LeavesComplete
<1>1. ASSUME OrganizationIInv, NEW c \in Commands, At(c, "leave")
      PROVE  LeavesComplete!(c)!2
  <2>0. PICK r : r = cmd[c].req
    OBVIOUS
  <2>1. cmd[c].pc = "leave" /\ cmd[c].pc \in Inside
    BY <1>1 DEF At, Inside
  <2>2. Forms /\ Fits(c) /\ Stage(c) /\ r \in AskedFor
    BY <1>1, <2>0, <2>1, InsideFacts
  <2>3. r.kind \in {"hire", "rename", "sync", "repair", "setup"}
    BY <2>0, <2>1, <2>2 DEF Fits, KindsAt
  <2>4. Pairs(Employees(Inventory)) = Known(files)
    BY <2>2, InventoryReads DEF Forms, Inventory
  <2>5. CASE r.kind \in {"hire", "setup"}
    <3>1. Pair(c) \in Known(files) /\ Pair(c) \in Pairs(rows)
      BY <2>0, <2>1, <2>2, <2>5 DEF Stage, HireStage, At
    <3>2. QED
      BY <2>0, <2>4, <2>5, <3>1 DEF Pair
  <2>6. CASE r.kind = "rename"
    <3>1. /\ files[r.old] = NoFile /\ files[r.new] # NoFile
          /\ \A n \in Names : files[n] # NoFile => (files[n].id = r.id <=> n = r.new)
          /\ files[r.new].heading # r.old
          /\ RowNames(r.id) = {r.new}
          /\ [id |-> r.id, name |-> r.old] \notin refs
          /\ r \in identityHistory
      BY <2>0, <2>1, <2>2, <2>6 DEF Stage, RenameStage
    <3>2. r.new \in Names
      BY <2>2, <2>6, RequestsTyped
    <3>3. QED
      BY <2>0, <2>6, <3>1, <3>2 DEF RowNames
  <2>7. CASE r.kind = "repair"
    <3>1. /\ Pending({})
          /\ \A l \in r.expected : Whose(l) \notin Pairs(rows) /\ Whose(l) \notin refs
      BY <2>0, <2>1, <2>2, <2>7 DEF Stage, RepairStage
    <3>2. ValidInventory(Inventory)
      BY <2>2, <3>1, ValidFiles DEF Pending, RepairedId, Filled
    <3>3. QED
      BY <2>0, <2>7, <3>1, <3>2
  <2>8. CASE r.kind = "sync"
    <3>1. Managed(rows) = Known(files)
      BY <2>0, <2>1, <2>2, <2>8 DEF Stage, SyncStage, At
    <3>2. QED
      BY <2>0, <2>4, <2>8, <3>1 DEF Managed
  <2>9. QED
    BY <2>3, <2>5, <2>6, <2>7, <2>8
<1>2. OrganizationIInv => LeavesComplete
  BY <1>1 DEF LeavesComplete
<1>3. QED
  BY <1>2, OrganizationInvariance, PTL

\* While nobody works on the organization, a projection that lags behind the
\* Employee files is on record, as a partial failure or as still running.
THEOREM LagStaysOnRecord == OrganizationSpec => []LagIsOnRecord
<1>1. ASSUME OrganizationIInv, organizationLock = NoCommand, ~UpToDate
      PROVE  \E k \in effects : /\ ledger[k] \in {"running", "partial"}
                                /\ Active(k[1]) => ~cmd[k[1]].ok
  <2>1. Forms
    BY <1>1 DEF OrganizationIInv, DocumentsTyped, Forms
  <2>2. Pairs(Employees(Inventory)) = Known(files)
    BY <2>1, InventoryReads DEF Forms, Inventory
  <2>3. InOrder => UpToDate
    BY <2>2 DEF InOrder, Agree, Managed, Headings, UpToDate
  <2>4. Blame
    BY <1>1, <2>3 DEF OrganizationIInv, LagOK
  <2>5. QED
    BY <2>4 DEF Blame, Blamed
<1>2. OrganizationIInv => LagIsOnRecord
  BY <1>1 DEF LagIsOnRecord
<1>3. QED
  BY <1>2, OrganizationInvariance, PTL

\* However many Commands died half way, the sync of Workspace State or the ID
\* repair that the duplicates ask for can still be planned.
THEOREM AlwaysRepairable == OrganizationSpec => []CanBeRepaired
<1>1. ASSUME OrganizationIInv, layout PROVE RepairPlanned(IDRepairPlan(Inventory))
  <2>1. Forms /\ DuplicatesHaveRows
    BY <1>1 DEF OrganizationIInv, DocumentsTyped, Forms
  <2>2. /\ Filed(Inventory)
        /\ Employees(Inventory) = {EmployeeOf(files, n) : n \in Filled(files)}
    BY <2>1, InventoryReads DEF Forms, Inventory
  <2>3. ASSUME NEW r \in IDRepairPlan(Inventory) PROVE Whose(r) \in Pairs(rows)
    <3>1. PICK e \in Duplicates(Inventory) :
              r = [name |-> e.name, current |-> e.id, proposed |-> Proposals(Inventory)[e],
                   place |-> Place(Inventory, e)]
      BY <2>2, <2>3, PlanIsSound
    <3>2. PICK d \in Employees(Inventory) : d.id = e.id /\ d.name < e.name
      BY <3>1 DEF Duplicates
    <3>3. e \in Employees(Inventory)
      BY DEF Duplicates
    <3>4. PICK m \in Filled(files), n \in Filled(files) : d = EmployeeOf(files, m) /\ e = EmployeeOf(files, n)
      BY <2>2, <3>2, <3>3
    <3>5. /\ m \in Names /\ n \in Names /\ files[m] # NoFile /\ files[n] # NoFile
          /\ files[m].id = files[n].id /\ m < n
      BY <3>2, <3>4 DEF EmployeeOf, Filled
    <3>6. m # n
      BY <3>5, NamesAssumption
    <3>7. Whose(r) = [id |-> files[n].id, name |-> n]
      BY <3>1, <3>4 DEF Whose, EmployeeOf
    <3>8. QED
      BY <2>1, <3>5, <3>6, <3>7 DEF DuplicatesHaveRows
  <2>4. QED
    BY <1>1, <2>3 DEF RepairPlanned
<1>2. OrganizationIInv => CanBeRepaired
  BY <1>1 DEF CanBeRepaired
<1>3. QED
  BY <1>2, OrganizationInvariance, PTL

-----------------------------------------------------------------------------
(* What the identity audit reports, and how a change adds to it.           *)

\* What the identity audit reports, one issue at a time.
Issue(identities, x) ==
    \/ \E i, j \in identities : i # j /\ i.id = j.id /\ x = [type |-> "duplicate_id", about |-> i.id]
    \/ \E i, j \in identities : i # j /\ i.name = j.name /\ x = [type |-> "exact_match", about |-> i.name]
    \/ \E i, j \in identities : /\ i.name # j.name /\ NormalName[i.name] = NormalName[j.name]
                                /\ x = [type |-> "normalized_match", about |-> NormalName[i.name]]
    \/ \E i \in identities : i.name \notin WellFormed /\ x = [type |-> "invalid_name", about |-> i.name]
    \/ \E i, j \in identities : /\ i # j /\ i.name \in WellFormed /\ j.name \in WellFormed
                                /\ GivenName[i.name] = GivenName[j.name]
                                /\ x = [type |-> "same_given_name", about |-> GivenName[i.name]]

\* What more than one of a set have in common.
LEMMA SharedAre ==
    ASSUME NEW set, NEW Key1, NEW a
    PROVE  a \in Shared(set, Key1) <=> \E i, j \in set : i # j /\ Key1[i] = Key1[j] /\ a = Key1[i]
BY DEF Shared

\* The audit reports these issues and no others.
LEMMA IssuesAre ==
    ASSUME NEW identities, NEW x
    PROVE  x \in BlockingIssues(identities) <=> Issue(identities, x)
<1> DEFINE valid == {i \in identities : i.name \in WellFormed}
           normal == [i \in identities |-> NormalName[i.name]]
           ids == [i \in identities |-> i.id]
           names == [i \in identities |-> i.name]
           given == [i \in valid |-> GivenName[i.name]]
           clash == {normal[i] : i \in {j \in identities : \E other \in identities :
                                       other.name # j.name /\ normal[other] = normal[j]}}
           Issues(type, abouts) == {[type |-> type, about |-> a] : a \in abouts}
<1>1. x \in BlockingIssues(identities) <=>
          \/ x \in Issues("duplicate_id", Shared(identities, ids))
          \/ x \in Issues("exact_match", Shared(identities, names))
          \/ x \in Issues("normalized_match", clash)
          \/ x \in Issues("invalid_name", NamesOf(identities \ valid))
          \/ x \in Issues("same_given_name", Shared(valid, given))
  BY DEF BlockingIssues
<1>2. \A type, abouts : x \in Issues(type, abouts) <=> \E a \in abouts : x = [type |-> type, about |-> a]
  OBVIOUS
<1> HIDE DEF Issues
<1>3. x \in Issues("duplicate_id", Shared(identities, ids)) <=>
          \E i, j \in identities : i # j /\ i.id = j.id /\ x = [type |-> "duplicate_id", about |-> i.id]
  <2>1. \A i \in identities : ids[i] = i.id
    OBVIOUS
  <2> HIDE DEF ids
  <2>2. QED
    BY <1>2, <2>1, SharedAre
<1>4. x \in Issues("exact_match", Shared(identities, names)) <=>
          \E i, j \in identities : i # j /\ i.name = j.name /\ x = [type |-> "exact_match", about |-> i.name]
  <2>1. \A i \in identities : names[i] = i.name
    OBVIOUS
  <2> HIDE DEF names
  <2>2. QED
    BY <1>2, <2>1, SharedAre
<1>5. x \in Issues("normalized_match", clash) <=>
          \E i, j \in identities : /\ i.name # j.name /\ NormalName[i.name] = NormalName[j.name]
                                   /\ x = [type |-> "normalized_match", about |-> NormalName[i.name]]
  <2>1. \A a : a \in clash <=> \E i, j \in identities : /\ i.name # j.name /\ normal[i] = normal[j]
                                                        /\ a = normal[i]
    OBVIOUS
  <2>2. \A i \in identities : normal[i] = NormalName[i.name]
    OBVIOUS
  <2> HIDE DEF clash, normal
  <2>3. QED
    BY <1>2, <2>1, <2>2
<1>6. x \in Issues("invalid_name", NamesOf(identities \ valid)) <=>
          \E i \in identities : i.name \notin WellFormed /\ x = [type |-> "invalid_name", about |-> i.name]
  <2>1. \A a : a \in NamesOf(identities \ valid) <=>
                   \E i \in identities : i.name \notin WellFormed /\ a = i.name
    BY DEF NamesOf
  <2>2. QED
    BY <1>2, <2>1
<1>7. x \in Issues("same_given_name", Shared(valid, given)) <=>
          \E i, j \in identities : /\ i # j /\ i.name \in WellFormed /\ j.name \in WellFormed
                                   /\ GivenName[i.name] = GivenName[j.name]
                                   /\ x = [type |-> "same_given_name", about |-> GivenName[i.name]]
  <2>1. \A i \in valid : given[i] = GivenName[i.name]
    OBVIOUS
  <2>2. \A i : i \in valid <=> i \in identities /\ i.name \in WellFormed
    OBVIOUS
  <2> HIDE DEF given, valid
  <2>3. QED
    BY <1>2, <2>1, <2>2, SharedAre
<1>8. QED
  BY <1>1, <1>3, <1>4, <1>5, <1>6, <1>7 DEF Issue

\* One identity comes to those who stay: with an ID nobody has, and a name
\* that is allowed beside theirs, or that one of those who were there had.
LEMMA NewIdentity ==
    ASSUME NEW before, NEW stay \in SUBSET before, NEW after, NEW e, after \subseteq stay \cup {e},
           e.id \notin IdsOf(stay),
           \/ Allowed(e.name, NamesOf(stay))
           \/ \E d \in before \ stay : d.name = e.name
    PROVE  BlockingIssues(after) \subseteq BlockingIssues(before)
<1>1. \A i \in stay : i.id # e.id
  BY DEF IdsOf
<1>2. SUFFICES ASSUME NEW x, Issue(after, x) PROVE Issue(before, x)
  BY IssuesAre
<1>3. CASE Allowed(e.name, NamesOf(stay))
  <2>1. /\ e.name \in WellFormed
        /\ \A i \in stay : /\ NormalName[i.name] # NormalName[e.name]
                           /\ i.name \in WellFormed => GivenName[i.name] # GivenName[e.name]
    BY <1>3 DEF Allowed, NamesOf
  <2>2. QED
    BY <1>1, <1>2, <2>1 DEF Issue
<1>4. CASE \E d \in before \ stay : d.name = e.name
  <2>1. PICK d \in before \ stay : d.name = e.name
    BY <1>4
  <2>2. QED
    BY <1>1, <1>2, <2>1 DEF Issue
<1>5. QED
  BY <1>3, <1>4

\* Fewer identities have fewer issues.
LEMMA FewerIssues ==
    ASSUME NEW before, NEW after \in SUBSET before
    PROVE  BlockingIssues(after) \subseteq BlockingIssues(before)
<1>1. SUFFICES ASSUME NEW x, Issue(after, x) PROVE Issue(before, x)
  BY IssuesAre
<1>2. QED
  BY <1>1 DEF Issue

\* Those who are there as before, when the files of some names change.
Staying(identities, names) == {i \in identities : i.type = "employee" => i.name \notin names}

\* Who is read after a change was read before it, or is in a file that changed.
LEMMA InventoryChanges ==
    ASSUME NEW fs \in [Names -> Files \cup {NoFile}], NEW gs \in [Names -> Files \cup {NoFile}],
           NEW rs \in SUBSET Rows, NEW qs \in SUBSET Rows, NEW names,
           \A x \in qs : x.id = ManagerId => x \in rs,
           \A n \in Filled(gs) : n \notin names => n \in Filled(fs) /\ EmployeeOf(gs, n) = EmployeeOf(fs, n)
    PROVE  \A i \in InventoryOf(gs, qs) :
               \/ i \in Staying(InventoryOf(fs, rs), names)
               \/ \E n \in Filled(gs) : n \in names /\ i = EmployeeOf(gs, n)
<1>1. SUFFICES ASSUME NEW i \in InventoryOf(gs, qs)
               PROVE  \/ i \in Staying(InventoryOf(fs, rs), names)
                      \/ \E n \in Filled(gs) : n \in names /\ i = EmployeeOf(gs, n)
  OBVIOUS
<1>2. CASE \E n \in Filled(gs) : i = EmployeeOf(gs, n)
  <2>1. PICK n \in Filled(gs) : i = EmployeeOf(gs, n)
    BY <1>2
  <2>2. CASE n \notin names
    <3>1. i \in InventoryOf(fs, rs)
      BY <2>1, <2>2, InventoryReads
    <3>2. i.name = n
      BY <2>1 DEF EmployeeOf
    <3>3. QED
      BY <2>2, <3>1, <3>2 DEF Staying
  <2>3. QED
    BY <2>1, <2>2
<1>3. CASE \E x \in qs : x.id = ManagerId
              /\ i = [id |-> ManagerId, name |-> x.name, type |-> "manager", role |-> NoRole]
  <2>1. PICK x \in qs : x.id = ManagerId
              /\ i = [id |-> ManagerId, name |-> x.name, type |-> "manager", role |-> NoRole]
    BY <1>3
  <2>2. i \in InventoryOf(fs, rs)
    BY <2>1 DEF InventoryOf
  <2>3. i.type # "employee"
    BY <2>1
  <2>4. QED
    BY <2>2, <2>3 DEF Staying
<1>4. QED
  BY <1>2, <1>3, InventoryReads

\* The rows of the Workspace Manager are nobody's to write.
LEMMA ManagersStay ==
    ASSUME Forms, NEW r \in AskedFor
    PROVE  /\ \A x \in Projected : x.id = ManagerId => x \in rows
           /\ r.kind = "rename" => \A x \in RowsRenamed(r, rows) : x.id = ManagerId => x \in rows
           /\ r.kind = "repair" /\ Sound(r.expected) =>
                 \A x \in RowsRepaired(r.expected) : x.id = ManagerId => x \in rows
<1>1. ASSUME NEW x \in Projected, x.id = ManagerId PROVE x \in rows
  <2>1. \A n \in Filled(files) : files[n].id # ManagerId
    BY DEF Forms, Filled, Files, Ids, ManagerId
  <2>2. QED
    BY <1>1, <2>1 DEF Projected, Filled
<1>2. ASSUME r.kind = "rename", NEW x \in RowsRenamed(r, rows), x.id = ManagerId PROVE x \in rows
  <2>1. PICK y \in rows : x = IF y.id = r.id THEN [y EXCEPT !.name = r.new] ELSE y
    BY <1>2, RowsRenamedAre
  <2>2. y \in Rows
    BY DEF Forms
  <2>3. x.id = y.id
    BY <2>1, <2>2 DEF Rows
  <2>4. r.id # ManagerId
    BY <1>2, RequestsTyped DEF Ids, ManagerId
  <2>5. QED
    BY <1>2, <2>1, <2>3, <2>4
<1>3. ASSUME r.kind = "repair", Sound(r.expected), NEW x \in RowsRepaired(r.expected), x.id = ManagerId
      PROVE  x \in rows
  <2>1. PICK y \in rows :
            x = IF \E l \in r.expected : [id |-> y.id, name |-> y.name] = Whose(l)
                  THEN [y EXCEPT !.id = RepairOf(r.expected, y.name).proposed] ELSE y
    BY <1>3, RowsRepairedAre
  <2>2. ASSUME NEW l \in r.expected, [id |-> y.id, name |-> y.name] = Whose(l) PROVE FALSE
    <3>1. y.name = l.name /\ y \in Rows
      BY <2>2 DEF Whose, Forms
    <3>2. RepairOf(r.expected, y.name) = l
      BY <1>3, <3>1, RepairOfIs DEF Sound
    <3>3. x.id = l.proposed
      BY <2>1, <2>2, <3>1, <3>2 DEF Rows
    <3>4. l.proposed \in Ids
      BY <1>3, RequestsTyped DEF Repairs
    <3>5. QED
      BY <1>3, <3>3, <3>4 DEF Ids, ManagerId
  <2>3. QED
    BY <2>1, <2>2
<1>4. QED
  BY <1>1, <1>2, <1>3

-----------------------------------------------------------------------------
(* No step makes an issue.                                                 *)

\* What a step does to the identities, when only some files and rows that are
\* no manager's change.
LEMMA StepChanges ==
    ASSUME Forms, Forms', NEW names,
           \A x \in rows' : x.id = ManagerId => x \in rows,
           \A n \in Filled(files') : n \notin names =>
               n \in Filled(files) /\ files'[n].id = files[n].id /\ files'[n].role = files[n].role
    PROVE  \A i \in Inventory' :
               \/ i \in Staying(Inventory, names)
               \/ \E n \in Filled(files') : n \in names /\ i = EmployeeOf(files', n)
<1>1. PICK fs, gs, rs, qs : fs = files /\ gs = files' /\ rs = rows /\ qs = rows'
  OBVIOUS
<1>2. /\ fs \in [Names -> Files \cup {NoFile}] /\ gs \in [Names -> Files \cup {NoFile}]
      /\ rs \in SUBSET Rows /\ qs \in SUBSET Rows
      /\ \A x \in qs : x.id = ManagerId => x \in rs
  BY <1>1 DEF Forms
<1>3. \A n \in Filled(gs) : n \notin names => n \in Filled(fs) /\ EmployeeOf(gs, n) = EmployeeOf(fs, n)
  BY <1>1 DEF EmployeeOf
<1>4. \A i \in InventoryOf(gs, qs) :
          \/ i \in Staying(InventoryOf(fs, rs), names)
          \/ \E n \in Filled(gs) : n \in names /\ i = EmployeeOf(gs, n)
  BY <1>2, <1>3, InventoryChanges
<1>5. Inventory' = InventoryOf(gs, qs) /\ Inventory = InventoryOf(fs, rs)
  BY <1>1 DEF Inventory
<1>6. QED
  BY <1>1, <1>4, <1>5

\* A step that changes nothing that the audit reads.
LEMMA SameIssues ==
    ASSUME Forms, Forms',
           \A x \in rows' : x.id = ManagerId => x \in rows,
           \A n \in Filled(files') :
               n \in Filled(files) /\ files'[n].id = files[n].id /\ files'[n].role = files[n].role
    PROVE  BlockingIssues(Inventory') \subseteq BlockingIssues(Inventory)
<1>1. \A i \in Inventory' : i \in Staying(Inventory, {})
  BY StepChanges
<1>2. Inventory' \subseteq Inventory
  BY <1>1 DEF Staying
<1>3. QED
  BY <1>2, FewerIssues

\* A step that leaves files and rows alone.
LEMMA NothingNew ==
    ASSUME UNCHANGED <<files, rows>>
    PROVE  BlockingIssues(Inventory') \subseteq BlockingIssues(Inventory)
BY DEF Inventory

\* The ones who stay are those who were there.
LEMMA StayingAre ==
    ASSUME NEW identities, NEW names
    PROVE  Staying(identities, names) \in SUBSET identities
BY DEF Staying

\* A hire brings an ID that nobody has and a name that is allowed.
LEMMA CreateIsClean ==
    ASSUME OrganizationIInv, Forms', NEW c \in Commands, Create(c)
    PROVE  BlockingIssues(Inventory') \subseteq BlockingIssues(Inventory)
<1> DEFINE made == [id |-> Candidate(c).id, role |-> Candidate(c).role, heading |-> Candidate(c).name]
<1>0. PICK n, id : n = Candidate(c).name /\ id = Candidate(c).id
  OBVIOUS
<1>1. cmd[c].pc = "create" /\ cmd[c].pc \in Inside
  BY DEF Create, At, Inside
<1>2. Forms /\ Fits(c) /\ Stage(c) /\ CommandsTyped
  BY <1>1, InsideFacts
<1>3. cmd[c].req.kind \in {"hire", "setup"} /\ (cmd[c].req.kind = "setup" => cmd[c].todo # <<>>)
  BY <1>1, <1>2 DEF Fits, KindsAt
<1>4. n \in Names
  BY <1>0, <1>2, <1>3, CandidateTyped
<1>5. id \notin IdsOf(Inventory) /\ Allowed(n, NamesOf(Inventory))
  BY <1>0, <1>1, <1>2, <1>3 DEF Stage, HireStage, At
<1>6. rows' = rows
  BY DEF Create
<1>7. CASE files' = files
  BY <1>6, <1>7, NothingNew
<1>8. CASE files' = [files EXCEPT ![n] = made]
  <2>1. /\ files'[n] = made /\ \A m \in Names : m # n => files'[m] = files[m]
    BY <1>2, <1>4, <1>8 DEF Forms
  <2>2. made.id = id
    BY <1>0
  <2> HIDE DEF made
  <2>3. PICK e : e = EmployeeOf(files', n)
    OBVIOUS
  <2>4. e.id = id /\ e.name = n
    BY <2>1, <2>2, <2>3 DEF EmployeeOf
  <2>5. \A m \in Filled(files') : m \notin {n} =>
            m \in Filled(files) /\ files'[m].id = files[m].id /\ files'[m].role = files[m].role
    BY <2>1 DEF Filled
  <2>6. \A i \in Inventory' : \/ i \in Staying(Inventory, {n})
                              \/ \E m \in Filled(files') : m \in {n} /\ i = EmployeeOf(files', m)
    BY <1>2, <1>6, <2>5, StepChanges
  <2>7. Inventory' \subseteq Staying(Inventory, {n}) \cup {e}
    BY <2>3, <2>6
  <2>8. e.id \notin IdsOf(Staying(Inventory, {n})) /\ Allowed(e.name, NamesOf(Staying(Inventory, {n})))
    <3>1. \A i \in Staying(Inventory, {n}) : i \in Inventory
      BY StayingAre
    <3>2. QED
      BY <1>5, <2>4, <3>1 DEF IdsOf, NamesOf, Allowed
  <2>9. QED
    BY <2>7, <2>8, StayingAre, NewIdentity
<1>9. QED
  BY <1>0, <1>7, <1>8 DEF Create, Writes

\* A rename brings a name that is allowed beside those who are not renamed.
LEMMA IdentifyIsClean ==
    ASSUME OrganizationIInv, Forms', NEW c \in Commands, Identify(c)
    PROVE  BlockingIssues(Inventory') \subseteq BlockingIssues(Inventory)
<1>0. PICK r : r = cmd[c].req
  OBVIOUS
<1>1. cmd[c].pc = "identity" /\ cmd[c].pc \in Inside
  BY DEF Identify, At, Inside
<1>2. Forms /\ Fits(c) /\ Stage(c) /\ r \in AskedFor
  BY <1>0, <1>1, InsideFacts
<1>3. r.kind = "rename"
  BY <1>0, <1>1, <1>2 DEF Fits, KindsAt
<1>4. RenameReady(r, files, rows)
  BY <1>0, <1>1, <1>2, <1>3 DEF Stage, RenameStage
<1>5. /\ r.id \in Ids /\ r.old \in Names /\ r.new \in Names /\ r.old # r.new
      /\ r.old \in Filled(files) /\ files[r.old].id = r.id /\ files[r.new] = NoFile
      /\ \A n \in Filled(files) : files[n].id = r.id => n = r.old
  BY <1>2, <1>3, <1>4, RenameFinds
<1>6. rows' = rows
  BY DEF Identify
<1>7. CASE files' = files
  BY <1>6, <1>7, NothingNew
<1>8. CASE files' = FilesRenamed(r, files)
  <2> DEFINE names == {r.old, r.new}
  <2>1. /\ files'[r.new] = files[r.old]
        /\ \A n \in Names \ {r.old, r.new} : files'[n] = files[n]
        /\ \A n \in Names : n \in Filled(files') <=> n = r.new \/ (n \in Filled(files) /\ n # r.old)
    BY <1>2, <1>3, <1>4, <1>8, FilesRenamedAre
  <2>2. PICK e : e = EmployeeOf(files', r.new)
    OBVIOUS
  <2>3. e.id = r.id /\ e.name = r.new
    BY <1>5, <2>1, <2>2 DEF EmployeeOf
  <2>4. \A n \in Filled(files') : n \in Names
    BY DEF Filled
  <2>5. \A n \in Filled(files') : n \notin names =>
            n \in Filled(files) /\ files'[n].id = files[n].id /\ files'[n].role = files[n].role
    BY <2>1, <2>4
  <2>6. \A i \in Inventory' : \/ i \in Staying(Inventory, names)
                              \/ \E n \in Filled(files') : n \in names /\ i = EmployeeOf(files', n)
    BY <1>2, <1>6, <2>5, StepChanges
  <2>7. Inventory' \subseteq Staying(Inventory, names) \cup {e}
    <3>1. r.old \notin Filled(files')
      BY <1>5, <2>1
    <3>2. QED
      BY <2>2, <2>6, <3>1
  <2>8. /\ \A i \in Staying(Inventory, names) : i \in Inventory /\ i.id # r.id
    <3>1. \A i \in Staying(Inventory, names) : i \in Inventory /\ (i.type = "employee" => i.name # r.old)
      BY DEF Staying
    <3>2. \A i \in Inventory :
             \/ \E n \in Filled(files) : i = EmployeeOf(files, n)
             \/ \E x \in rows : x.id = ManagerId
                   /\ i = [id |-> ManagerId, name |-> x.name, type |-> "manager", role |-> NoRole]
      BY <1>2, InventoryReads DEF Forms, Inventory
    <3>3. r.id # ManagerId
      BY <1>5 DEF Ids, ManagerId
    <3>4. ASSUME NEW i \in Staying(Inventory, names), i.id = r.id PROVE FALSE
      <4>1. PICK n \in Filled(files) : i = EmployeeOf(files, n)
        BY <3>1, <3>2, <3>3, <3>4
      <4>2. i.type = "employee" /\ i.name = n /\ files[n].id = r.id
        BY <3>4, <4>1 DEF EmployeeOf
      <4>3. QED
        BY <1>5, <3>1, <4>2
    <3>5. QED
      BY <3>1, <3>4
  <2>9. e.id \notin IdsOf(Staying(Inventory, names)) /\ Allowed(e.name, NamesOf(Staying(Inventory, names)))
    <3>1. Allowed(r.new, NamesOf({i \in Inventory : i.id # r.id}))
      BY <1>4 DEF RenameReady, Inventory
    <3>2. NamesOf(Staying(Inventory, names)) \subseteq NamesOf({i \in Inventory : i.id # r.id})
      BY <2>8 DEF NamesOf
    <3>3. e.id \notin IdsOf(Staying(Inventory, names))
      BY <2>3, <2>8 DEF IdsOf
    <3>4. QED
      BY <2>3, <3>1, <3>2, <3>3 DEF Allowed
  <2>10. QED
    BY <2>7, <2>9, StayingAre, NewIdentity
<1>9. QED
  BY <1>0, <1>7, <1>8 DEF Identify, Writes

\* A repair brings an ID that nobody has, and keeps the name.
LEMMA RepairIsClean ==
    ASSUME OrganizationIInv, Forms', NEW c \in Commands, RepairNext(c)
    PROVE  BlockingIssues(Inventory') \subseteq BlockingIssues(Inventory)
<1>0. PICK r, left : r = cmd[c].req /\ left = cmd[c].left
  OBVIOUS
<1>1. cmd[c].pc = "repairs" /\ cmd[c].pc \in Inside
  BY DEF RepairNext, At, Inside
<1>2. Forms /\ Fits(c) /\ Stage(c) /\ r \in AskedFor /\ cmd[c] \in Records
  BY <1>0, <1>1, InsideFacts
<1>3. r.kind = "repair" /\ left \in SUBSET Repairs
  BY <1>0, <1>1, <1>2 DEF Fits, KindsAt, Records
<1>4. Pending(left)
  BY <1>0, <1>1, <1>2, <1>3 DEF Stage, RepairStage, Inside
<1>5. rows' = rows
  BY DEF RepairNext
<1>6. CASE files' = files
  BY <1>5, <1>6, NothingNew
<1>7. ASSUME NEW l \in left, files' = [files EXCEPT ![l.name].id = l.proposed]
      PROVE  BlockingIssues(Inventory') \subseteq BlockingIssues(Inventory)
  <2>1. /\ l.name \in Names /\ l.proposed \in Ids
        /\ files[l.name] # NoFile /\ l.proposed \notin IdsOf(Inventory)
    BY <1>3, <1>4 DEF Repairs, Pending
  <2>2. /\ files'[l.name].id = l.proposed
        /\ \A n \in Names : n # l.name => files'[n] = files[n]
    <3>1. files[l.name] \in Files /\ files \in [Names -> Files \cup {NoFile}]
      BY <1>2, <2>1 DEF Forms
    <3>2. QED
      BY <1>7, <2>1, <3>1 DEF Files
  <2>3. PICK d, e : d = EmployeeOf(files, l.name) /\ e = EmployeeOf(files', l.name)
    OBVIOUS
  <2>4. d.name = l.name /\ d.type = "employee" /\ e.name = l.name /\ e.id = l.proposed
    BY <2>2, <2>3 DEF EmployeeOf
  <2>5. d \in Inventory
    BY <1>2, <2>1, <2>3, InventoryReads DEF Forms, Inventory, Filled
  <2>6. \A n \in Filled(files') : n \notin {l.name} =>
            n \in Filled(files) /\ files'[n].id = files[n].id /\ files'[n].role = files[n].role
    BY <2>2 DEF Filled
  <2>7. \A i \in Inventory' : \/ i \in Staying(Inventory, {l.name})
                              \/ \E n \in Filled(files') : n \in {l.name} /\ i = EmployeeOf(files', n)
    BY <1>2, <1>5, <2>6, StepChanges
  <2>8. Inventory' \subseteq Staying(Inventory, {l.name}) \cup {e}
    BY <2>3, <2>7
  <2>9. e.id \notin IdsOf(Staying(Inventory, {l.name}))
    <3>1. \A i \in Staying(Inventory, {l.name}) : i \in Inventory
      BY StayingAre
    <3>2. QED
      BY <2>1, <2>4, <3>1 DEF IdsOf
  <2>10. d \in Inventory \ Staying(Inventory, {l.name}) /\ d.name = e.name
    BY <2>4, <2>5 DEF Staying
  <2>11. QED
    BY <2>8, <2>9, <2>10, StayingAre, NewIdentity
<1>8. QED
  BY <1>0, <1>6, <1>7 DEF RepairNext

\* The heading of a file is nobody's identity.
LEMMA HeadingIsClean ==
    ASSUME OrganizationIInv, Forms', NEW c \in Commands, WriteHeading(c)
    PROVE  BlockingIssues(Inventory') \subseteq BlockingIssues(Inventory)
<1>0. PICK r : r = cmd[c].req
  OBVIOUS
<1>1. cmd[c].pc = "heading" /\ cmd[c].pc \in Inside
  BY DEF WriteHeading, At, Inside
<1>2. Forms /\ Fits(c) /\ Stage(c) /\ r \in AskedFor
  BY <1>0, <1>1, InsideFacts
<1>3. r.kind = "rename" /\ r.new \in Names
  <2>1. r.kind = "rename"
    BY <1>0, <1>1, <1>2 DEF Fits, KindsAt
  <2>2. QED
    BY <1>2, <2>1, RequestsTyped
<1>4. files[r.new] # NoFile
  BY <1>0, <1>1, <1>2, <1>3 DEF Stage, RenameStage
<1>5. rows' = rows
  BY DEF WriteHeading
<1>6. CASE files' = files
  BY <1>5, <1>6, NothingNew
<1>7. CASE files' = [files EXCEPT ![r.new].heading = IF @ = r.old THEN r.new ELSE @]
  <2>1. files[r.new] \in Files /\ files \in [Names -> Files \cup {NoFile}]
    BY <1>2, <1>3, <1>4 DEF Forms
  <2>2. \A n \in Filled(files') :
            n \in Filled(files) /\ files'[n].id = files[n].id /\ files'[n].role = files[n].role
    BY <1>3, <1>4, <1>7, <2>1 DEF Filled, Files
  <2>3. QED
    BY <1>2, <1>5, <2>2, SameIssues
<1>8. QED
  BY <1>0, <1>6, <1>7 DEF WriteHeading, Writes

\* Workspace State tells of Employees what their files do.
LEMMA RowsAreClean ==
    ASSUME OrganizationIInv, Forms', NEW c \in Commands, Sync(c) \/ WriteRows(c)
    PROVE  BlockingIssues(Inventory') \subseteq BlockingIssues(Inventory)
<1>0. PICK r : r = cmd[c].req
  OBVIOUS
<1>1. cmd[c].pc \in {"sync", "rows"} /\ cmd[c].pc \in Inside
  BY DEF Sync, WriteRows, At, Inside
<1>2. Forms /\ Fits(c) /\ Stage(c) /\ r \in AskedFor
  BY <1>0, <1>1, InsideFacts
<1>3. files' = files
  BY DEF Sync, WriteRows
<1>4. \A x \in rows' : x.id = ManagerId => x \in rows
  <2>1. CASE Sync(c)
    <3>1. rows' = rows \/ rows' = Projected
      BY <2>1 DEF Sync, Writes
    <3>2. QED
      BY <1>2, <3>1, ManagersStay
  <2>2. CASE WriteRows(c)
    <3>1. cmd[c].pc = "rows" /\ (rows' = rows \/ rows' = cmd[c].plan.rows)
      BY <2>2 DEF WriteRows, Writes, At
    <3>2. r.kind \in {"rename", "repair"}
      BY <1>0, <1>2, <3>1 DEF Fits, KindsAt
    <3>3. CASE r.kind = "rename"
      <4>1. cmd[c].plan.rows = RowsRenamed(r, rows)
        BY <1>0, <1>2, <3>1, <3>3 DEF Stage, RenameStage
      <4>2. QED
        BY <1>2, <3>1, <3>3, <4>1, ManagersStay
    <3>4. CASE r.kind = "repair"
      <4>1. cmd[c].plan.rows = RowsRepaired(r.expected) /\ Sound(r.expected)
        BY <1>0, <1>2, <3>1, <3>4 DEF Stage, RepairStage, Inside
      <4>2. QED
        BY <1>2, <3>1, <3>4, <4>1, ManagersStay
    <3>5. QED
      BY <3>2, <3>3, <3>4
  <2>3. QED
    BY <2>1, <2>2
<1>5. QED
  BY <1>2, <1>3, <1>4, SameIssues

\* No operation, whatever runs beside it or died before it, gives the
\* organization a problem the identity audit did not report already.
THEOREM NoIssueIsMade == OrganizationSpec => NoNewIssue
<1>1. ASSUME OrganizationIInv, OrganizationIInv', [OrganizationNext]_organizationVars
      PROVE  BlockingIssues(Inventory)' \subseteq BlockingIssues(Inventory)
  <2>1. Forms'
    BY <1>1 DEF OrganizationIInv, DocumentsTyped, Forms
  <2>2. SUFFICES BlockingIssues(Inventory') \subseteq BlockingIssues(Inventory)
    OBVIOUS
  <2>3. CASE UNCHANGED <<files, rows>>
    BY <2>3, NothingNew
  <2>4. CASE ~UNCHANGED <<files, rows>>
    <3>1. PICK c \in Commands : OrganizationNext!(c)
      BY <1>1, <2>4 DEF OrganizationNext, organizationVars, documents
    <3>2. \/ Create(c) \/ Identify(c) \/ RepairNext(c) \/ WriteHeading(c) \/ Sync(c) \/ WriteRows(c)
      BY <2>4, <3>1 DEF Ask, Check, EnterHire, EnterSync, EnterRename, EnterRepair, Enter, Intent,
         WriteSomeRefs, WriteRefs,
         WriteHistory, Leave, Layout, Inspect, NextStarter, Hired, Finish, Die, Kept, documents
    <3>3. QED
      BY <1>1, <2>1, <3>2, CreateIsClean, IdentifyIsClean, RepairIsClean, HeadingIsClean, RowsAreClean
  <2>5. QED
    BY <2>3, <2>4
<1>2. QED
  BY <1>1, OrganizationInvariance, PTL DEF OrganizationSpec, NoNewIssue
=============================================================================
