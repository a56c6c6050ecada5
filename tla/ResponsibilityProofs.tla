------------------------- MODULE ResponsibilityProofs -------------------------
(***************************************************************************)
(* What holds of Goals, Responsibilities and Bindings, for any number of   *)
(* them and of Commands, failing writes and crashes.                       *)
(*                                                                         *)
(* Every action is one of two steps of the canonical files: a write of one *)
(* file, on top of what the writer expects or where there was none, or a   *)
(* step that leaves all of them alone.  Written and Quiet say what the     *)
(* properties need of each.                                                *)
(***************************************************************************)
EXTENDS Responsibility, TLAPS

-----------------------------------------------------------------------------
(* The inductive invariant *)

ContentsOf(f) == IF f[1] = "goal" THEN GoalRecords ELSE IF f[1] = "record" THEN Records ELSE Bindings

RefsExist(refs) == \A g \in refs : goal[g] # Absent

\* Where a Command of each kind may be.
Underway == {"check", "read", "create", "update", "page", "publish", "finish"}

OnPlan(c) == cmd[c].req.kind = "responsibility.plan"

Changes == {"goal.achieve", "goal.abandon", "responsibility.activate", "responsibility.deactivate"}

PlacesFit(c) ==
    /\ At(c, "idle") <=> cmd[c].req.kind = "none"
    /\ OnPlan(c) => cmd[c].pc \in {"resolve", "generate", "over"}
    /\ cmd[c].pc \in {"resolve", "generate"} => OnPlan(c)
    /\ At(c, "page") => ~OnBinding(c)
    /\ At(c, "check") => cmd[c].req.kind \in {"responsibility.create", "responsibility.assign"}
    /\ At(c, "create") =>
          cmd[c].req.kind \in {"goal.create", "responsibility.create", "responsibility.assign"}
    /\ cmd[c].pc \in {"read", "update"} =>
          cmd[c].req.kind \in Changes \cup {"responsibility.assign", "responsibility.unassign"}

\* What a Command has read and what it is to return are records of its file.
HoldsItsFile(c) ==
    /\ At(c, "update") => cmd[c].read \in ContentsOf(FileOf(c))
    /\ cmd[c].result # Absent => cmd[c].pc \in {"page", "publish"}
    /\ cmd[c].pc \in {"page", "publish"} => cmd[c].result \in ContentsOf(FileOf(c))

LedgerFits(c) ==
    /\ cmd[c].pc \in Underway => ledger[c].state = "running"
    /\ Told(c) => At(c, "over") /\ ~OnPlan(c) /\ ledger[c].result \in ContentsOf(FileOf(c))
    /\ At(c, "idle") \/ OnPlan(c) => ledger[c].state = "none"
    /\ ledger[c].state = "none" => At(c, "idle") \/ OnPlan(c)

\* What was checked before still holds.
ChecksHold(c) ==
    /\ cmd[c].req.kind = "responsibility.create" /\ At(c, "create") => RefsExist(cmd[c].req.refs)
    /\ At(c, "resolve") => cmd[c].read \in Records /\ RefsExist(cmd[c].read.refs)
    /\ cmd[c].req.kind = "responsibility.assign" /\ cmd[c].pc \in {"read", "create", "update"}
          => cmd[c].req.employee \in Staff
    /\ OnBinding(c) /\ cmd[c].pc \in {"create", "update"} => record[cmd[c].req.id] # Absent
    /\ At(c, "update") => Stored(FileOf(c)) # Absent
    /\ OnPlan(c) => cmd[c].ok

\* What a Command wrote: it is about to return it, or has returned it.
Held(c) == IF Told(c) THEN ledger[c].result ELSE cmd[c].result

Stands(c) ==
    Held(c) # Absent =>
        LET now == Stored(FileOf(c)) IN
        /\ now # Absent
        /\ now.version > Held(c).version \/ now = Held(c)

Apart(c, d) ==
    Held(c) # Absent /\ Held(d) # Absent /\ FileOf(c) = FileOf(d) => Held(c).version # Held(d).version

HeldStands == \A c \in Commands : Stands(c) /\ \A d \in Commands \ {c} : Apart(c, d)

\* Who is to blame for a page: it has written, and did not finish well or not
\* yet.
Late(c) == At(c, "page") \/ (cmd[c].pc \in {"finish", "over"} /\ ledger[c].state \in {"running", "failed"})

PagedFiles == {f \in Files : f[1] # "binding"}

\* No page comes before its record.
PagesFollow == \A f \in PagedFiles : Stored(f) = Absent => page[f[2]] = Absent

\* A page that lags is a creation's fault only while there is none and the
\* record is the first version.
Blamed ==
    \A f \in PagedFiles :
        Stored(f) # Absent /\ page[f[2]] # Stored(f).status =>
            \E c \in Commands :
                /\ FileOf(c) = f /\ Late(c) /\ ~At(c, "idle")
                /\ page[f[2]] # Absent \/ Stored(f).status # "active" => cmd[c].req.kind \in Changes

\* Whoever changed a record and is to write its page holds the lock, and the
\* record is what it wrote.
Painters ==
    \A c \in Commands : At(c, "page") =>
        IF cmd[c].req.kind \in Changes
          THEN lock[FileOf(c)] = c /\ Stored(FileOf(c)) = cmd[c].result
          ELSE cmd[c].result.status = "active"

Fits(c) == PlacesFit(c) /\ HoldsItsFile(c) /\ LedgerFits(c) /\ ChecksHold(c)

IInv ==
    /\ TypeOK
    /\ \A c \in Commands : Fits(c)
    /\ RefsResolve
    /\ HeldStands
    /\ PagesFollow /\ Blamed /\ Painters

-----------------------------------------------------------------------------
(* Requests, files and what stands in them *)

LEMMA RequestsTyped ==
    ASSUME TypeOK, NEW c \in Commands, cmd[c].req.kind # "none"
    PROVE  /\ OnGoal(c) \/ OnRecord(c) \/ OnBinding(c) \/ OnPlan(c)
           /\ OnGoal(c) => cmd[c].req.id \in Goals
           /\ OnRecord(c) => cmd[c].req.id \in Responsibilities
           /\ OnBinding(c) => cmd[c].req.id \in Responsibilities
           /\ OnPlan(c) => cmd[c].req.id \in Responsibilities
           /\ cmd[c].req.kind = "responsibility.create" => cmd[c].req.refs \subseteq Goals
           /\ cmd[c].req.kind = "responsibility.assign" => cmd[c].req.employee \in Employees
<1>1. cmd[c].req \in GoalRequests \cup RecordRequests \cup BindingRequests \cup PlanRequests
  BY DEF TypeOK, Asked
<1>2. QED
  BY <1>1 DEF GoalRequests, RecordRequests, BindingRequests, PlanRequests, OnGoal, OnRecord, OnBinding, OnPlan

LEMMA FileTyped ==
    ASSUME TypeOK, NEW c \in Commands, cmd[c].req.kind # "none", ~OnPlan(c)
    PROVE  /\ FileOf(c) \in Files
           /\ FileOf(c)[2] = cmd[c].req.id
           /\ OnGoal(c) <=> FileOf(c)[1] = "goal"
           /\ OnRecord(c) <=> FileOf(c)[1] = "record"
           /\ OnBinding(c) <=> FileOf(c)[1] = "binding"
  BY RequestsTyped DEF FileOf, Files, OnGoal, OnRecord, OnBinding, OnPlan

LEMMA StoredTyped ==
    ASSUME TypeOK, NEW f \in Files
    PROVE  Stored(f) \in ContentsOf(f) \cup {Absent}
  BY DEF TypeOK, Files, Stored, ContentsOf

LEMMA ContentsTyped ==
    ASSUME NEW f \in Files, NEW x \in ContentsOf(f)
    PROVE  x # Absent /\ x.version \in Nat /\ x \in Contents
  BY NamesAssumption DEF Files, ContentsOf, Contents, GoalRecords, Records, Bindings

\* A write replaces one file and leaves the others alone.
LEMMA ReplacesOne ==
    ASSUME TypeOK, NEW f \in Files, NEW content \in ContentsOf(f), Replaces(f, content)
    PROVE  /\ goal' \in [Goals -> GoalRecords \cup {Absent}]
           /\ record' \in [Responsibilities -> Records \cup {Absent}]
           /\ binding' \in [Responsibilities -> Bindings \cup {Absent}]
           /\ Stored(f)' = content
           /\ \A h \in Files \ {f} : Stored(h)' = Stored(h)
<1>1. CASE f[1] = "goal"
  BY <1>1 DEF TypeOK, Files, Stored, ContentsOf, Replaces
<1>2. CASE f[1] = "record"
  BY <1>2 DEF TypeOK, Files, Stored, ContentsOf, Replaces
<1>3. CASE f[1] = "binding"
  BY <1>3 DEF TypeOK, Files, Stored, ContentsOf, Replaces
<1>4. QED
  BY <1>1, <1>2, <1>3 DEF Files

-----------------------------------------------------------------------------
(* The two kinds of step *)

Others(c) == \A d \in Commands \ {c} : cmd'[d] = cmd[d] /\ ledger'[d] = ledger[d]

\* No canonical file changes, and c is told or told of at most what it held.
Quiet(c) ==
    /\ Others(c) /\ UNCHANGED <<goal, record, binding>>
    /\ ~At(c, "idle") => cmd'[c].req = cmd[c].req
    /\ Held(c)' \in {Held(c), Absent}

\* c writes its file, on top of the version that is there.
Writes(c, content) ==
    /\ Others(c) /\ cmd'[c].req = cmd[c].req
    /\ FileOf(c) \in Files /\ content \in ContentsOf(FileOf(c))
    /\ Replaces(FileOf(c), content)
    /\ Stored(FileOf(c)) = Absent \/ content.version = Stored(FileOf(c)).version + 1
    /\ Held(c)' \in {content, Absent}

LEMMA HeldTyped ==
    ASSUME IInv, NEW c \in Commands, Held(c) # Absent
    PROVE  FileOf(c) \in Files /\ Held(c) \in ContentsOf(FileOf(c)) /\ ~At(c, "idle")
<1>1. ~At(c, "idle") /\ ~OnPlan(c) /\ Held(c) \in ContentsOf(FileOf(c))
  BY DEF IInv, Fits, Held, HoldsItsFile, LedgerFits, PlacesFit, At
<1>2. QED
  BY <1>1, FileTyped DEF IInv, Fits, PlacesFit

\* A step that changes no file leaves what was told standing.
LEMMA QuietStands ==
    ASSUME IInv, NEW c \in Commands, Quiet(c)
    PROVE  HeldStands'
<1>1. ASSUME NEW d \in Commands, Held(d)' # Absent
      PROVE  Held(d) # Absent /\ Held(d)' = Held(d) /\ FileOf(d)' = FileOf(d)
  <2>1. CASE d = c
    BY <1>1, <2>1, HeldTyped DEF Quiet, FileOf, OnGoal, OnBinding
  <2>2. CASE d # c
    BY <1>1, <2>2 DEF Quiet, Others, Held, Told, FileOf, OnGoal, OnBinding
  <2>3. QED
    BY <2>1, <2>2
<1>2. \A f : Stored(f)' = Stored(f)
  BY DEF Quiet, Stored
<1>3. HeldStands
  BY DEF IInv
<1>4. QED
  BY <1>1, <1>2, <1>3 DEF HeldStands, Stands, Apart

\* A write leaves standing what others were told: it is a later version.
LEMMA WriteStands ==
    ASSUME IInv, NEW c \in Commands, NEW content, Writes(c, content)
    PROVE  HeldStands'
<1> DEFINE f == FileOf(c)
<1>1. /\ f \in Files /\ content \in ContentsOf(f) /\ f' = f
      /\ content # Absent /\ content.version \in Nat
      /\ Stored(f)' = content
      /\ \A h \in Files \ {f} : Stored(h)' = Stored(h)
  BY ContentsTyped, ReplacesOne DEF IInv, Writes, FileOf, OnGoal, OnBinding
<1>2. ASSUME NEW d \in Commands \ {c}
      PROVE  Held(d)' = Held(d) /\ FileOf(d)' = FileOf(d)
  BY DEF Writes, Others, Held, Told, FileOf, OnGoal, OnBinding
<1>3. ASSUME NEW d \in Commands \ {c}, Held(d) # Absent
      PROVE  /\ FileOf(d) \in Files
             /\ Held(d).version \in Nat
             /\ Stands(d)
             /\ FileOf(d) = f => content.version > Held(d).version
  <2>1. FileOf(d) \in Files /\ Held(d).version \in Nat /\ Stands(d)
    BY <1>3, HeldTyped, ContentsTyped DEF IInv, HeldStands
  <2>2. CASE FileOf(d) = f
    <3>1. Stored(f) # Absent /\ (Stored(f).version > Held(d).version \/ Stored(f) = Held(d))
      BY <1>3, <2>1, <2>2, Zenon DEF Stands
    <3>2. Stored(f) = Held(d) => Stored(f).version = Held(d).version
      OBVIOUS
    <3>3. Stored(f).version \in Nat /\ Held(d).version \in Nat
      BY <1>1, <2>1, <3>1, StoredTyped, ContentsTyped DEF IInv
    <3>4. content.version = Stored(f).version + 1
      BY <3>1 DEF Writes
    <3>5. content.version > Held(d).version
      BY <3>1, <3>2, <3>3, <3>4
    <3>6. QED
      BY <2>1, <3>5
  <2>3. QED
    BY <2>1, <2>2
<1>4. Held(c)' \in {content, Absent}
  BY DEF Writes
<1>5. ASSUME NEW d \in Commands
      PROVE  Stands(d)'
  <2>1. CASE d = c
    BY <1>1, <1>4, <2>1 DEF Stands
  <2>2. CASE d # c /\ FileOf(d) = f
    BY <1>1, <1>2, <1>3, <2>2 DEF Stands
  <2>3. CASE d # c /\ FileOf(d) # f
    BY <1>1, <1>2, <1>3, <2>3 DEF Stands
  <2>4. QED
    BY <2>1, <2>2, <2>3
<1>6. ASSUME NEW d \in Commands, NEW e \in Commands \ {d}
      PROVE  Apart(d, e)'
  <2>1. CASE d = c
    BY <1>1, <1>2, <1>3, <1>4, <2>1 DEF Apart
  <2>2. CASE e = c
    BY <1>1, <1>2, <1>3, <1>4, <2>2 DEF Apart
  <2>3. CASE d # c /\ e # c
    BY <1>2, <2>3 DEF Apart, IInv, HeldStands
  <2>4. QED
    BY <2>1, <2>2, <2>3
<1>7. QED
  BY <1>5, <1>6 DEF HeldStands

LEMMA NamedFiles ==
    /\ \A g \in Goals : /\ <<"goal", g>> \in Files
                       /\ Stored(<<"goal", g>>) = goal[g] /\ Stored(<<"goal", g>>)' = goal'[g]
    /\ \A r \in Responsibilities :
          /\ <<"record", r>> \in Files /\ <<"binding", r>> \in Files
          /\ Stored(<<"record", r>>) = record[r] /\ Stored(<<"record", r>>)' = record'[r]
          /\ Stored(<<"binding", r>>) = binding[r] /\ Stored(<<"binding", r>>)' = binding'[r]
  BY DEF Files, Stored

\* What another Command's step leaves of what a Command knows.
LEMMA OthersFit ==
    ASSUME IInv, NEW c \in Commands, Others(c),
           \A f \in Files : Stored(f) # Absent => Stored(f)' # Absent,
           NEW d \in Commands \ {c}
    PROVE  Fits(d)'
<1>1. cmd'[d] = cmd[d] /\ ledger'[d] = ledger[d] /\ Fits(d)
  BY DEF Others, IInv
<1>2. PlacesFit(d)' /\ HoldsItsFile(d)' /\ LedgerFits(d)'
  BY <1>1, Zenon DEF Fits, PlacesFit, HoldsItsFile, LedgerFits, At, OnPlan, OnBinding, OnGoal, FileOf, Told
<1>3. /\ \A g \in Goals : goal[g] # Absent => goal'[g] # Absent
      /\ \A r \in Responsibilities : record[r] # Absent => record'[r] # Absent
  BY NamedFiles
<1>5. ChecksHold(d)'
  <2>1. ChecksHold(d)
    BY <1>1 DEF Fits
  <2>2. cmd[d].req.kind = "responsibility.create" /\ At(d, "create")
          => \A g \in cmd[d].req.refs : goal'[g] # Absent
    BY <1>3, <2>1, RequestsTyped DEF IInv, ChecksHold, RefsExist
  <2>3. At(d, "resolve") => cmd[d].read \in Records /\ \A g \in cmd[d].read.refs : goal'[g] # Absent
    BY <1>3, <2>1 DEF ChecksHold, RefsExist, Records
  <2>4. OnBinding(d) /\ cmd[d].pc \in {"create", "update"} => record'[cmd[d].req.id] # Absent
    BY <1>3, <2>1, RequestsTyped DEF IInv, ChecksHold, OnBinding
  <2>5. At(d, "update") => Stored(FileOf(d))' # Absent
    <3>1. At(d, "update") => FileOf(d) \in Files
      BY <1>1, FileTyped DEF IInv, Fits, PlacesFit, At
    <3>2. FileOf(d)' = FileOf(d)
      BY <1>1 DEF FileOf, OnGoal, OnBinding
    <3>3. At(d, "update") => Stored(FileOf(d)) # Absent
      BY <2>1 DEF ChecksHold
    <3>4. QED
      BY <3>1, <3>2, <3>3
  <2>6. QED
    BY <1>1, <2>1, <2>2, <2>3, <2>4, <2>5 DEF ChecksHold, At, OnBinding, OnPlan, RefsExist
<1>6. QED
  BY <1>2, <1>5 DEF Fits

\* A step that changes no canonical file, by a Command that does not go on to
\* its page.
LEMMA QuietBase ==
    ASSUME IInv, NEW c \in Commands, Quiet(c), Fits(c)',
           ~At(c, "page")',
           \A f \in Files : lock[f] # c => lock'[f] = lock[f]
    PROVE  /\ \A f : Stored(f)' = Stored(f)
           /\ \A d \in Commands : Fits(d)'
           /\ \A d \in Commands : ~At(d, "idle") =>
                 FileOf(d)' = FileOf(d) /\ cmd'[d].req = cmd[d].req /\ ~At(d, "idle")'
           /\ RefsResolve' /\ HeldStands' /\ Painters'
<1>1. \A f : Stored(f)' = Stored(f)
  BY DEF Quiet, Stored
<1>2. \A d \in Commands : Fits(d)'
  BY <1>1, OthersFit DEF Quiet
<1>3. RefsResolve'
  <2>1. \A d \in Commands : OnPlan(d)' => cmd'[d].ok
    BY <1>2 DEF Fits, ChecksHold
  <2>2. QED
    BY <2>1, Zenon DEF IInv, RefsResolve, Quiet, OnPlan
<1>4. HeldStands'
  BY QuietStands
<1>5. \A d \in Commands \ {c} : cmd'[d] = cmd[d] /\ ledger'[d] = ledger[d]
  BY DEF Quiet, Others
<1>6. ASSUME NEW d \in Commands, ~At(d, "idle")
      PROVE  FileOf(d)' = FileOf(d) /\ cmd'[d].req = cmd[d].req /\ ~At(d, "idle")'
  <2>1. CASE d = c
    <3>1. ~At(c, "idle")'
      BY <1>2, <1>6, <2>1 DEF Quiet, IInv, Fits, PlacesFit
    <3>2. QED
      BY <1>6, <2>1, <3>1 DEF Quiet, FileOf, OnGoal, OnBinding
  <2>2. CASE d # c
    BY <1>5, <1>6, <2>2, Zenon DEF FileOf, OnGoal, OnBinding, At
  <2>3. QED
    BY <2>1, <2>2
<1>7. Painters'
  <2> SUFFICES ASSUME NEW d \in Commands, At(d, "page")'
               PROVE  IF cmd'[d].req.kind \in Changes
                        THEN lock'[FileOf(d)'] = d /\ Stored(FileOf(d))' = cmd'[d].result
                        ELSE cmd'[d].result.status = "active"
    BY DEF Painters
  <2>1. d # c /\ cmd'[d] = cmd[d] /\ At(d, "page")
    BY <1>5 DEF At
  <2>2. FileOf(d) \in Files /\ FileOf(d)' = FileOf(d) /\ Stored(FileOf(d))' = Stored(FileOf(d))
    BY <1>1, <1>6, <2>1, FileTyped DEF IInv, Fits, PlacesFit, At
  <2>3. QED
    BY <2>1, <2>2 DEF IInv, Painters
<1>8. QED
  BY <1>1, <1>2, <1>3, <1>4, <1>6, <1>7

\* It keeps the pages as well: whoever is late stays late.
LEMMA QuietKeeps ==
    ASSUME IInv, NEW c \in Commands, Quiet(c), page' = page, TypeOK', Fits(c)',
           ~At(c, "page")',
           Late(c) /\ ~At(c, "idle") => Late(c)',
           \A f \in Files : lock[f] # c => lock'[f] = lock[f]
    PROVE  IInv'
<1>1. PagesFollow'
  BY QuietBase, Zenon DEF IInv, PagesFollow
<1>2. \A d \in Commands : Late(d) /\ ~At(d, "idle") => Late(d)'
  BY DEF Quiet, Others, Late, At
<1>3. /\ \A f : Stored(f)' = Stored(f)
      /\ \A d \in Commands : ~At(d, "idle") =>
            FileOf(d)' = FileOf(d) /\ cmd'[d].req = cmd[d].req /\ ~At(d, "idle")'
  BY QuietBase
<1>4. Blamed'
  BY <1>2, <1>3, Zenon DEF IInv, Blamed
<1>5. QED
  BY <1>1, <1>4, QuietBase DEF IInv

\* A step that writes the canonical file of c, which then is at its page, or
\* has failed to learn that it wrote.
LEMMA WriteKeeps ==
    ASSUME IInv, NEW c \in Commands, NEW content, Writes(c, content), page' = page, TypeOK', Fits(c)',
           cmd[c].req.kind # "none", ~OnPlan(c),
           OnRecord(c) => \A g \in content.refs : g \in Goals /\ goal[g] # Absent,
           OnBinding(c) => record[cmd[c].req.id] # Absent /\ content.employee \in Staff \cup {Vacant},
           ~OnBinding(c) =>
               /\ Late(c)'
               /\ \/ cmd[c].req.kind \in Changes
                  \/ Stored(FileOf(c)) = Absent /\ content.status = "active",
           At(c, "page")' =>
               cmd'[c].result = content /\ (cmd[c].req.kind \in Changes => lock'[FileOf(c)] = c),
           lock[FileOf(c)] = NoCommand \/ Stored(FileOf(c)) = Absent,
           \A f \in Files : lock[f] # NoCommand => lock'[f] = lock[f]
    PROVE  IInv'
<1> DEFINE f == FileOf(c)
<1>1. /\ f \in Files /\ content \in ContentsOf(f) /\ content # Absent
      /\ Stored(f)' = content
      /\ \A h \in Files \ {f} : Stored(h)' = Stored(h)
      /\ cmd'[c].req = cmd[c].req /\ f' = f
      /\ f[2] = cmd[c].req.id
      /\ OnGoal(c) <=> f[1] = "goal"
      /\ OnRecord(c) <=> f[1] = "record"
      /\ OnBinding(c) <=> f[1] = "binding"
  BY ContentsTyped, FileTyped, ReplacesOne DEF IInv, Writes, FileOf, OnGoal, OnBinding
<1>2. \A h \in Files : Stored(h) # Absent => Stored(h)' # Absent
  BY <1>1
<1>3. \A d \in Commands : Fits(d)'
  BY <1>2, OthersFit DEF Writes
<1>4. /\ \A g \in Goals : goal[g] # Absent => goal'[g] # Absent
      /\ \A r \in Responsibilities : record[r] # Absent => record'[r] # Absent
  BY <1>2, NamedFiles
<1>5. RefsResolve'
  <2>1. \A d \in Commands : OnPlan(d)' => cmd'[d].ok
    BY <1>3 DEF Fits, ChecksHold
  <2>2. /\ OnGoal(c) => record' = record /\ binding' = binding
        /\ OnRecord(c) => record' = [record EXCEPT ![cmd[c].req.id] = content] /\ binding' = binding
        /\ OnBinding(c) => record' = record /\ binding' = [binding EXCEPT ![cmd[c].req.id] = content]
    BY <1>1 DEF Writes, Replaces
  <2>3. ASSUME NEW r \in Responsibilities, record'[r] # Absent, NEW g \in record'[r].refs
        PROVE  goal'[g] # Absent
    <3>1. CASE OnRecord(c) /\ cmd[c].req.id = r
      BY <1>4, <2>2, <2>3, <3>1 DEF IInv, TypeOK
    <3>2. CASE ~(OnRecord(c) /\ cmd[c].req.id = r)
      <4>1. record'[r] = record[r]
        BY <1>1, <2>2, <3>2 DEF IInv, TypeOK, Files
      <4>2. record[r] \in Records /\ g \in record[r].refs /\ goal[g] # Absent
        BY <2>3, <4>1 DEF IInv, TypeOK, RefsResolve
      <4>3. QED
        BY <1>4, <4>2 DEF Records
    <3>3. QED
      BY <3>1, <3>2
  <2>4. ASSUME NEW r \in Responsibilities, binding'[r] # Absent
        PROVE  record'[r] # Absent /\ binding'[r].employee \in Staff \cup {Vacant}
    <3>1. CASE OnBinding(c) /\ cmd[c].req.id = r
      BY <1>4, <2>2, <3>1 DEF IInv, TypeOK
    <3>2. CASE ~(OnBinding(c) /\ cmd[c].req.id = r)
      <4>1. binding'[r] = binding[r]
        BY <1>1, <2>2, <3>2 DEF IInv, TypeOK, Files
      <4>2. QED
        BY <1>4, <2>4, <4>1 DEF IInv, RefsResolve
    <3>3. QED
      BY <3>1, <3>2
  <2>5. QED
    BY <2>1, <2>3, <2>4 DEF RefsResolve, OnPlan
<1>6. HeldStands'
  BY WriteStands
<1>7. PagesFollow'
  BY <1>1, <1>2 DEF IInv, PagesFollow, PagedFiles
<1>8. ASSUME NEW d \in Commands \ {c}
      PROVE  cmd'[d] = cmd[d] /\ ledger'[d] = ledger[d] /\ FileOf(d)' = FileOf(d) /\ (Late(d) => Late(d)')
  BY DEF Writes, Others, FileOf, OnGoal, OnBinding, Late, At
<1>9. Blamed'
  <2> SUFFICES ASSUME NEW h \in PagedFiles, Stored(h)' # Absent, page'[h[2]] # Stored(h)'.status
               PROVE  \E d \in Commands :
                         /\ FileOf(d)' = h /\ Late(d)' /\ ~At(d, "idle")'
                         /\ page'[h[2]] # Absent \/ Stored(h)'.status # "active"
                               => cmd'[d].req.kind \in Changes
    BY DEF Blamed
  <2>1. CASE h = f
    <3>1. ~OnBinding(c) /\ Late(c)' /\ ~At(c, "idle")'
      BY <1>1, <1>3, <2>1 DEF PagedFiles, Fits, PlacesFit
    <3>2. page[h[2]] # Absent \/ content.status # "active" => cmd[c].req.kind \in Changes
      BY <2>1, <3>1 DEF IInv, PagesFollow
    <3>3. QED
      BY <1>1, <2>1, <3>1, <3>2
  <2>2. CASE h # f
    <3>1. Stored(h)' = Stored(h)
      BY <1>1, <2>2 DEF PagedFiles
    <3>2. PICK d \in Commands :
             /\ FileOf(d) = h /\ Late(d) /\ ~At(d, "idle")
             /\ page[h[2]] # Absent \/ Stored(h).status # "active" => cmd[d].req.kind \in Changes
      BY <3>1 DEF IInv, Blamed
    <3>3. d # c
      BY <2>2, <3>2
    <3>4. QED
      BY <1>8, <3>1, <3>2, <3>3, Zenon DEF At
  <2>3. QED
    BY <2>1, <2>2
<1>10. Painters'
  <2> SUFFICES ASSUME NEW d \in Commands, At(d, "page")'
               PROVE  IF cmd'[d].req.kind \in Changes
                        THEN lock'[FileOf(d)'] = d /\ Stored(FileOf(d))' = cmd'[d].result
                        ELSE cmd'[d].result.status = "active"
    BY DEF Painters
  <2>1. CASE d = c
    <3>1. ~OnBinding(c)
      BY <1>1, <1>3, <2>1 DEF Fits, PlacesFit, At, OnBinding
    <3>2. QED
      BY <1>1, <2>1, <3>1
  <2>2. CASE d # c
    <3>1. cmd'[d] = cmd[d] /\ At(d, "page") /\ FileOf(d)' = FileOf(d)
      BY <1>8, <2>2 DEF At
    <3>2. FileOf(d) \in Files /\ ~At(d, "idle")
      BY <3>1, FileTyped DEF IInv, Fits, PlacesFit, At
    <3>3. CASE cmd[d].req.kind \in Changes
      <4>1. lock[FileOf(d)] = d /\ Stored(FileOf(d)) = cmd[d].result /\ cmd[d].result # Absent
        BY <3>1, <3>2, <3>3, ContentsTyped DEF IInv, Painters, Fits, HoldsItsFile, At
      <4>2. FileOf(d) # f /\ lock'[FileOf(d)] = d
        BY <3>2, <4>1, NamesAssumption
      <4>3. QED
        BY <1>1, <3>1, <3>2, <3>3, <4>1, <4>2
    <3>4. CASE cmd[d].req.kind \notin Changes
      BY <3>1, <3>4 DEF IInv, Painters
    <3>5. QED
      BY <3>3, <3>4
  <2>3. QED
    BY <2>1, <2>2
<1>11. QED
  BY <1>3, <1>5, <1>6, <1>7, <1>9, <1>10 DEF IInv

-----------------------------------------------------------------------------
(* The actions *)

Entries == [pc : Places, req : Asked, read : Contents, ok : BOOLEAN, result : Contents]

LedgerEntries == [state : {"none", "running", "succeeded", "failed"}, result : Contents]

\* A step of c to entry, told what its record says, that keeps every type and
\* holds a lock only at its page.
TypedStep(c, entry, told) ==
    /\ cmd' = [cmd EXCEPT ![c] = entry]
    /\ ledger' = [ledger EXCEPT ![c] = told]
    /\ goal' \in [Goals -> GoalRecords \cup {Absent}]
    /\ record' \in [Responsibilities -> Records \cup {Absent}]
    /\ binding' \in [Responsibilities -> Bindings \cup {Absent}]
    /\ page' \in [Paged -> {"active", "achieved", "abandoned", "inactive", Absent}]
    /\ lock' \in [Files -> Commands \cup {NoCommand}]
    /\ \A f \in Files : lock'[f] = c => entry.pc = "page" /\ FileOf(c)' = f
    /\ \A f \in Files : lock'[f] \notin {c, NoCommand} => lock'[f] = lock[f]

LEMMA TypesKeep ==
    ASSUME TypeOK, NEW c \in Commands, NEW entry \in Entries, NEW told \in LedgerEntries,
           TypedStep(c, entry, told)
    PROVE  TypeOK' /\ Others(c) /\ cmd'[c] = entry /\ ledger'[c] = told
<1>1. /\ cmd' \in [Commands -> Entries] /\ ledger' \in [Commands -> LedgerEntries]
      /\ Others(c) /\ cmd'[c] = entry /\ ledger'[c] = told
  BY DEF TypedStep, TypeOK, Others, Entries, LedgerEntries
<1>2. ASSUME NEW f \in Files, lock'[f] # NoCommand
      PROVE  At(lock[f], "page")' /\ FileOf(lock[f])' = f
  <2>1. CASE lock'[f] = c
    <3>1. cmd'[lock'[f]] = cmd'[c] /\ cmd'[c].pc = "page" /\ FileOf(c)' = f
      BY <1>1, <2>1 DEF TypedStep
    <3>2. FileOf(lock[f])' = FileOf(c)'
      BY <3>1, <2>1 DEF FileOf, OnGoal, OnBinding
    <3>3. QED
      BY <3>1, <3>2 DEF At
  <2>2. CASE lock'[f] # c
    <3>1. lock'[f] = lock[f] /\ lock[f] \in Commands \ {c}
      BY <1>2, <2>2 DEF TypedStep
    <3>2. cmd'[lock[f]] = cmd[lock[f]]
      BY <1>1, <3>1 DEF Others
    <3>3. At(lock[f], "page") /\ FileOf(lock[f]) = f
      BY <1>2, <3>1 DEF TypeOK
    <3>4. QED
      BY <3>1, <3>2, <3>3 DEF At, FileOf, OnGoal, OnBinding
  <2>3. QED
    BY <2>1, <2>2
<1>3. QED
  BY <1>1, <1>2 DEF TypedStep, TypeOK, Entries, LedgerEntries

\* Between the reads and writes of the canonical files: c goes on to place.
LEMMA MoveKeeps ==
    ASSUME IInv, NEW c \in Commands, NEW place \in Places, NEW read \in Contents, NEW ok \in BOOLEAN,
           cmd[c].pc \in {"check", "read", "create", "update", "resolve", "generate"},
           cmd' = [cmd EXCEPT ![c] = Standing(place, @.req, read, ok, Absent)],
           UNCHANGED <<files, lock, ledger>>,
           IF OnPlan(c) THEN place \in {"generate", "over"} /\ ok
                        ELSE place \in {"read", "create", "update", "finish"},
           place = "update" => read \in ContentsOf(FileOf(c)) /\ Stored(FileOf(c)) # Absent,
           place = "create" =>
               cmd[c].req.kind \in {"goal.create", "responsibility.create", "responsibility.assign"},
           place \in {"read", "update"} =>
               cmd[c].req.kind \in Changes \cup {"responsibility.assign", "responsibility.unassign"},
           cmd[c].req.kind = "responsibility.create" /\ place = "create" => RefsExist(cmd[c].req.refs),
           cmd[c].req.kind = "responsibility.assign" /\ place \in {"read", "create", "update"}
               => cmd[c].req.employee \in Staff,
           OnBinding(c) /\ place \in {"create", "update"} => record[cmd[c].req.id] # Absent
    PROVE  IInv'
<1> DEFINE entry == Standing(place, cmd[c].req, read, ok, Absent)
<1>1. /\ TypeOK /\ Fits(c) /\ ~At(c, "idle") /\ ~At(c, "page") /\ ~At(c, "over")
      /\ cmd[c].req.kind # "none" /\ cmd[c].req \in Asked
  BY DEF IInv, TypeOK, Fits, PlacesFit, At
<1>2. entry \in Entries /\ ledger[c] \in LedgerEntries /\ Absent \in Contents
  BY <1>1 DEF Entries, Standing, TypeOK, LedgerEntries, Contents
<1>3. TypeOK' /\ Others(c) /\ cmd'[c] = entry /\ ledger'[c] = ledger[c]
  <2>1. \A f \in Files : lock'[f] # c
    BY <1>1, NamesAssumption DEF TypeOK
  <2>2. cmd' = [cmd EXCEPT ![c] = entry] /\ ledger' = [ledger EXCEPT ![c] = ledger[c]]
    BY <1>1 DEF TypeOK
  <2>3. /\ goal' \in [Goals -> GoalRecords \cup {Absent}]
        /\ record' \in [Responsibilities -> Records \cup {Absent}]
        /\ binding' \in [Responsibilities -> Bindings \cup {Absent}]
        /\ page' \in [Paged -> {"active", "achieved", "abandoned", "inactive", Absent}]
        /\ lock' \in [Files -> Commands \cup {NoCommand}]
        /\ lock' = lock
    BY <1>1 DEF TypeOK, files
  <2>4. TypedStep(c, entry, ledger[c])
    BY <2>1, <2>2, <2>3 DEF TypedStep
  <2> HIDE DEF entry
  <2>5. QED
    BY <1>1, <1>2, <2>4, TypesKeep
<1>4. /\ cmd'[c].req = cmd[c].req /\ cmd'[c].pc = place /\ cmd'[c].read = read
      /\ cmd'[c].ok = ok /\ cmd'[c].result = Absent
  BY <1>3 DEF Standing
<1>5. /\ OnPlan(c)' = OnPlan(c) /\ OnBinding(c)' = OnBinding(c) /\ OnGoal(c)' = OnGoal(c)
      /\ FileOf(c)' = FileOf(c)
  BY <1>4 DEF OnPlan, OnBinding, OnGoal, FileOf
<1>6. ~Told(c) /\ ~Told(c)'
  BY <1>1, <1>3 DEF Fits, LedgerFits, Told, At
<1>7. Fits(c)'
  <2>1. PlacesFit(c)'
    BY <1>1, <1>4, <1>5 DEF Fits, PlacesFit, At
  <2>2. HoldsItsFile(c)'
    BY <1>4, <1>5 DEF HoldsItsFile, At, OnPlan
  <2>3. LedgerFits(c)'
    BY <1>1, <1>3, <1>4, <1>5, <1>6 DEF Fits, LedgerFits, At, Underway, PlacesFit
  <2>4. ChecksHold(c)'
    <3>1. place = "create" /\ cmd[c].req.kind = "responsibility.create" => RefsExist(cmd[c].req.refs)
      BY DEF OnRecord
    <3>2. goal' = goal /\ record' = record
      BY DEF files
    <3>3. place # "resolve"
      OBVIOUS
    <3>4. OnPlan(c) => ok
      OBVIOUS
    <3>6. place = "update" => Stored(FileOf(c))' # Absent
      BY <1>5 DEF Stored, files
    <3>5. QED
      BY <1>4, <1>5, <3>1, <3>2, <3>3, <3>4, <3>6, Zenon DEF ChecksHold, At, RefsExist
  <2>5. QED
    BY <2>1, <2>2, <2>3, <2>4 DEF Fits
<1>8. Quiet(c)
  BY <1>3, <1>4, <1>6 DEF Quiet, files, Held
<1>9. ~At(c, "page")' /\ (Late(c) => Late(c)')
  BY <1>1, <1>4 DEF At, Late
<1>10. QED
  BY <1>3, <1>7, <1>8, <1>9, QuietKeeps DEF files

\* A request: c stands at place, and has claimed its record unless it plans.
LEMMA StartKeeps ==
    ASSUME IInv, NEW c \in Commands, NEW place \in Places, NEW r \in Asked, NEW read \in Contents,
           NEW told \in LedgerEntries,
           At(c, "idle"), r.kind # "none",
           cmd' = [cmd EXCEPT ![c] = Standing(place, r, read, TRUE, Absent)],
           ledger' = [ledger EXCEPT ![c] = told],
           UNCHANGED <<files, lock>>,
           told.result = Absent,
           IF r.kind = "responsibility.plan"
             THEN /\ place \in {"resolve", "over"} /\ told.state = "none"
                  /\ place = "resolve" => read \in Records /\ RefsExist(read.refs)
             ELSE /\ place \in {"check", "read", "create", "finish", "over"} /\ told.state = "running"
                  /\ place = "create" => r.kind = "goal.create"
                  /\ place = "read" => r.kind \in Changes \cup {"responsibility.unassign"}
                  /\ place = "check" => r.kind \in {"responsibility.create", "responsibility.assign"}
    PROVE  IInv'
<1> DEFINE entry == Standing(place, r, read, TRUE, Absent)
<1>1. TypeOK /\ Fits(c) /\ ~At(c, "page")
  BY DEF IInv, At
<1>2. entry \in Entries
  BY DEF Entries, Standing, Contents
<1>3. TypeOK' /\ Others(c) /\ cmd'[c] = entry /\ ledger'[c] = told
  <2>1. \A f \in Files : lock'[f] # c
    BY <1>1, NamesAssumption DEF TypeOK
  <2>2. UNCHANGED <<goal, record, binding, page, lock>>
    BY DEF files
  <2>3. TypedStep(c, entry, told)
    BY <1>1, <2>1, <2>2 DEF TypedStep, TypeOK
  <2> HIDE DEF entry
  <2>4. QED
    BY <1>1, <1>2, <2>3, TypesKeep
<1>4. /\ cmd'[c].req = r /\ cmd'[c].pc = place /\ cmd'[c].read = read
      /\ cmd'[c].ok = TRUE /\ cmd'[c].result = Absent
  BY <1>3 DEF Standing
<1>5. ~Told(c) /\ ~Told(c)' /\ cmd[c].result = Absent
  BY <1>1, <1>3 DEF Fits, LedgerFits, HoldsItsFile, Told, At
<1>6. Fits(c)'
  <2>1. PlacesFit(c)'
    BY <1>4 DEF PlacesFit, At, OnPlan
  <2>2. HoldsItsFile(c)'
    BY <1>4 DEF HoldsItsFile, At
  <2>3. LedgerFits(c)'
    BY <1>3, <1>4, <1>5 DEF LedgerFits, At, Underway, OnPlan
  <2>4. ChecksHold(c)'
    <3>1. goal' = goal /\ record' = record
      BY DEF files
    <3>2. place = "resolve" => read \in Records /\ RefsExist(read.refs)'
      BY <3>1 DEF RefsExist
    <3>3. /\ place # "update" /\ (place = "create" => r.kind = "goal.create")
          /\ place = "read" => r.kind # "responsibility.assign"
      BY DEF Changes
    <3>4. QED
      BY <1>4, <3>2, <3>3 DEF ChecksHold, At, OnBinding, OnPlan
  <2>5. QED
    BY <2>1, <2>2, <2>3, <2>4 DEF Fits
<1>7. Quiet(c)
  BY <1>3, <1>5, <1>4 DEF Quiet, files, Held
<1>8. ~At(c, "page")'
  BY <1>4 DEF At
<1>9. QED
  BY <1>3, <1>6, <1>7, <1>8, QuietKeeps DEF files

\* The end of a Command that has not ended yet, with or without its outcome.
LEMMA LeaveKeeps ==
    ASSUME IInv, NEW c \in Commands, NEW told \in LedgerEntries,
           Active(c), Leaves(c, TRUE),
           ledger' = [ledger EXCEPT ![c] = told],
           \/ told = ledger[c]
           \/ /\ cmd[c].pc \in {"publish", "finish"} /\ told.result = cmd[c].result
              /\ told.state \in {"succeeded", "failed"}
              /\ told.state = "succeeded" => At(c, "publish"),
           UNCHANGED files,
           \A f \in Files : lock'[f] = IF lock[f] = c THEN NoCommand ELSE lock[f],
           lock' \in [Files -> Commands \cup {NoCommand}]
    PROVE  IInv'
<1> DEFINE entry == Standing("over", cmd[c].req, Absent, TRUE, Absent)
<1>1. /\ TypeOK /\ Fits(c) /\ ~At(c, "idle") /\ ~At(c, "over")
      /\ cmd[c].req.kind # "none" /\ cmd[c].req \in Asked
  BY DEF IInv, TypeOK, Fits, PlacesFit, At, Active
<1>2. entry \in Entries
  BY <1>1 DEF Entries, Standing, Contents, Places
<1>3. TypeOK' /\ Others(c) /\ cmd'[c] = entry /\ ledger'[c] = told
  <2>1. \A f \in Files : lock'[f] # c
    BY NamesAssumption
  <2>2. UNCHANGED <<goal, record, binding, page>> /\ cmd' = [cmd EXCEPT ![c] = entry]
    BY <1>1 DEF files, Leaves, TypeOK
  <2>3. TypedStep(c, entry, told)
    BY <1>1, <2>1, <2>2 DEF TypedStep, TypeOK
  <2> HIDE DEF entry
  <2>4. QED
    BY <1>1, <1>2, <2>3, TypesKeep
<1>4. /\ cmd'[c].req = cmd[c].req /\ cmd'[c].pc = "over"
      /\ cmd'[c].ok = TRUE /\ cmd'[c].result = Absent
  BY <1>3 DEF Standing
<1>5. /\ OnPlan(c)' = OnPlan(c) /\ OnBinding(c)' = OnBinding(c) /\ FileOf(c)' = FileOf(c)
  BY <1>4 DEF OnPlan, OnBinding, OnGoal, FileOf
<1>6. ~Told(c) /\ (Told(c)' => told.result = cmd[c].result /\ cmd[c].result # Absent)
  BY <1>1, <1>3 DEF Fits, LedgerFits, Told, At
<1>7. Fits(c)'
  <2>1. PlacesFit(c)'
    BY <1>1, <1>4, <1>5 DEF Fits, PlacesFit, At
  <2>2. HoldsItsFile(c)'
    BY <1>4 DEF HoldsItsFile, At
  <2>3. LedgerFits(c)'
    <3>1. Told(c)' => ~OnPlan(c) /\ ledger'[c].result \in ContentsOf(FileOf(c))
      BY <1>1, <1>3, <1>6 DEF Fits, HoldsItsFile, PlacesFit
    <3>2. told.state = "none" <=> OnPlan(c)
      BY <1>1 DEF Fits, LedgerFits, PlacesFit
    <3>3. QED
      BY <1>3, <1>4, <1>5, <3>1, <3>2 DEF LedgerFits, At, Underway, ContentsOf
  <2>4. ChecksHold(c)'
    BY <1>4 DEF ChecksHold, At, OnPlan
  <2>5. QED
    BY <2>1, <2>2, <2>3, <2>4 DEF Fits
<1>8. Quiet(c)
  BY <1>3, <1>4, <1>6 DEF Quiet, files, Held, Told
<1>9. ~At(c, "page")' /\ (Late(c) => Late(c)')
  BY <1>1, <1>3, <1>4 DEF At, Late, Fits, LedgerFits, PlacesFit, Underway
<1>10. QED
  BY <1>3, <1>7, <1>8, <1>9, QuietKeeps DEF files

-----------------------------------------------------------------------------
(* Requests, checks and reads *)

LEMMA AsksKeep ==
    ASSUME IInv, NEW c \in Commands, AskGoal(c) \/ AskRecord(c) \/ AskBinding(c)
    PROVE  IInv'
<1>1. PICK r \in GoalRequests \cup RecordRequests \cup BindingRequests, place \in Places :
         /\ At(c, "idle")
         /\ cmd' = [cmd EXCEPT ![c] = Standing(place, r, Absent, TRUE, Absent)]
         /\ ledger' = [ledger EXCEPT ![c] = [state |-> "running", result |-> Absent]]
         /\ UNCHANGED <<files, lock>>
         /\ place \in {"check", "read", "create", "finish", "over"}
         /\ place = "create" => r.kind = "goal.create"
         /\ place = "read" => r.kind \in Changes \cup {"responsibility.unassign"}
         /\ place = "check" => r.kind \in {"responsibility.create", "responsibility.assign"}
  <2>1. CASE AskGoal(c)
    BY <2>1 DEF AskGoal, Claims, Places, GoalRequests, Changes
  <2>2. CASE AskRecord(c)
    BY <2>2 DEF AskRecord, Claims, Places, RecordRequests, Changes
  <2>3. CASE AskBinding(c)
    BY <2>3 DEF AskBinding, Claims, Places, BindingRequests
  <2>4. QED
    BY <2>1, <2>2, <2>3
<1>2. r \in Asked /\ r.kind \notin {"none", "responsibility.plan"} /\ Absent \in Contents
  BY DEF Asked, GoalRequests, RecordRequests, BindingRequests, Contents
<1>3. [state |-> "running", result |-> Absent] \in LedgerEntries
  BY <1>2 DEF LedgerEntries
<1>4. QED
  BY <1>1, <1>2, <1>3, StartKeeps

LEMMA AskPlanKeeps ==
    ASSUME IInv, NEW c \in Commands, AskPlan(c)
    PROVE  IInv'
<1>1. PICK r \in PlanRequests :
         cmd' = [cmd EXCEPT ![c] =
                   IF record[r.id] # Absent /\ record[r.id].status = "active"
                     THEN Standing("resolve", r, record[r.id], TRUE, Absent)
                     ELSE Standing("over", r, Absent, TRUE, Absent)]
  BY DEF AskPlan
<1>2. /\ r \in Asked /\ r.kind = "responsibility.plan" /\ r.id \in Responsibilities
      /\ Absent \in Contents
  BY DEF Asked, PlanRequests, Contents
<1>3. /\ At(c, "idle") /\ UNCHANGED <<files, lock>> /\ ledger[c] \in LedgerEntries
      /\ ledger' = [ledger EXCEPT ![c] = ledger[c]]
      /\ ledger[c].state = "none" /\ ledger[c].result = Absent
  BY DEF AskPlan, IInv, TypeOK, Fits, LedgerFits, LedgerEntries, Told, At
<1>4. CASE record[r.id] # Absent /\ record[r.id].status = "active"
  <2>1. record[r.id] \in Records /\ record[r.id] \in Contents /\ RefsExist(record[r.id].refs)
    BY <1>2, <1>4 DEF IInv, TypeOK, Contents, RefsResolve, RefsExist
  <2>2. cmd' = [cmd EXCEPT ![c] = Standing("resolve", r, record[r.id], TRUE, Absent)]
    BY <1>1, <1>4
  <2>3. QED
    BY <1>2, <1>3, <2>1, <2>2, StartKeeps DEF Places
<1>5. CASE ~(record[r.id] # Absent /\ record[r.id].status = "active")
  <2>1. cmd' = [cmd EXCEPT ![c] = Standing("over", r, Absent, TRUE, Absent)]
    BY <1>1, <1>5
  <2>2. QED
    BY <1>2, <1>3, <2>1, StartKeeps DEF Places
<1>6. QED
  BY <1>4, <1>5

\* The operation fails before it wrote anything.
LEMMA FailKeeps ==
    ASSUME IInv, NEW c \in Commands, cmd[c].pc \in {"check", "read", "create", "update"}, ~OnPlan(c),
           Fails(c), UNCHANGED <<files, lock, ledger>>
    PROVE  IInv'
<1>1. /\ cmd' = [cmd EXCEPT ![c] = Standing("finish", @.req, Absent, cmd[c].ok, Absent)]
      /\ cmd[c].ok \in BOOLEAN /\ Absent \in Contents /\ "finish" \in Places
  BY DEF Fails, Takes, IInv, TypeOK, Contents, Places
<1>2. QED
  BY <1>1, MoveKeeps

LEMMA ChecksKeep ==
    ASSUME IInv, NEW c \in Commands, CheckGoals(c) \/ CheckEmployee(c) \/ ReadFirst(c)
    PROVE  IInv'
<1>1. /\ UNCHANGED <<files, lock, ledger>> /\ cmd[c].pc \in {"check", "read"} /\ ~OnPlan(c)
      /\ cmd[c].ok \in BOOLEAN /\ Fits(c) /\ cmd[c].result = Absent
  BY DEF CheckGoals, CheckEmployee, ReadFirst, At, OnRecord, OnBinding, OnPlan, IInv, TypeOK,
         Fits, HoldsItsFile
<1>2. CASE Fails(c)
  BY <1>1, <1>2, FailKeeps
<1>3. CASE ~Fails(c)
  <2>1. cmd[c].read \in Contents
    BY DEF IInv, TypeOK
  <2>2. PICK place \in {"read", "create"} :
           /\ Go(c, place)
           /\ OnRecord(c) => RefsExist(cmd[c].req.refs)
           /\ cmd[c].req.kind = "responsibility.assign" => cmd[c].req.employee \in Staff
           /\ OnBinding(c) /\ place = "create" => record[cmd[c].req.id] # Absent
           /\ cmd[c].req.kind \in IF place = "read" THEN {"responsibility.assign"}
                                 ELSE {"responsibility.create", "responsibility.assign"}
    <3>1. CASE CheckGoals(c)
      BY <1>1, <1>3, <3>1 DEF CheckGoals, RefsExist, OnRecord, OnBinding, Fits, PlacesFit
    <3>2. CASE CheckEmployee(c)
      BY <1>1, <1>3, <3>2 DEF CheckEmployee, OnRecord, OnBinding, Fits, PlacesFit
    <3>3. CASE ReadFirst(c)
      BY <1>1, <1>3, <3>3 DEF ReadFirst, Fits, ChecksHold, At, OnRecord
    <3>4. QED
      BY <3>1, <3>2, <3>3
  <2>3. cmd' = [cmd EXCEPT ![c] = Standing(place, @.req, cmd[c].read, cmd[c].ok, Absent)]
    BY <1>1, <2>2 DEF Go, Takes
  <2>4. QED
    BY <1>1, <2>1, <2>2, <2>3, MoveKeeps DEF Places, OnRecord
<1>4. QED
  BY <1>2, <1>3

LEMMA ReadsKeep ==
    ASSUME IInv, NEW c \in Commands, ReadGoal(c) \/ ReadRecord(c) \/ ReadBinding(c)
    PROVE  IInv'
<1>1. /\ UNCHANGED <<files, lock, ledger>> /\ At(c, "read") /\ ~OnPlan(c)
      /\ cmd[c].ok \in BOOLEAN /\ TypeOK /\ Fits(c)
      /\ cmd[c].req.kind # "none"
  BY DEF ReadGoal, ReadRecord, ReadBinding, Reads, At, OnGoal, OnRecord, OnBinding, OnPlan, IInv, TypeOK
<1>2. CASE Fails(c)
  BY <1>1, <1>2, FailKeeps DEF At
<1>3. CASE ~Fails(c)
  <2> DEFINE now == Stored(FileOf(c))
  <2>1. now # Absent /\ Takes(c, "update", now, Absent)
    BY <1>3 DEF ReadGoal, ReadRecord, ReadBinding, Reads
  <2>2. FileOf(c) \in Files /\ now \in ContentsOf(FileOf(c)) /\ now \in Contents
    BY <1>1, <2>1, FileTyped, StoredTyped, ContentsTyped
  <2>3. OnBinding(c) => record[cmd[c].req.id] # Absent
    BY <1>1, <2>1, FileTyped, RequestsTyped DEF IInv, RefsResolve, Stored
  <2>4. cmd[c].req.kind = "responsibility.assign" => cmd[c].req.employee \in Staff
    BY <1>1 DEF Fits, ChecksHold, At
  <2>5. cmd' = [cmd EXCEPT ![c] = Standing("update", @.req, now, cmd[c].ok, Absent)]
    BY <1>1, <2>1 DEF Takes
  <2>6. cmd[c].req.kind \in Changes \cup {"responsibility.assign", "responsibility.unassign"}
    BY <1>1 DEF Fits, PlacesFit, At
  <2>7. QED
    BY <1>1, <2>1, <2>2, <2>3, <2>4, <2>5, <2>6, MoveKeeps DEF Places, At
<1>4. QED
  BY <1>2, <1>3

LEMMA PlansKeep ==
    ASSUME IInv, NEW c \in Commands, PlanResolve(c) \/ PlanGenerate(c)
    PROVE  IInv'
<1>1. /\ UNCHANGED <<files, lock, ledger>> /\ cmd[c].pc \in {"resolve", "generate"} /\ OnPlan(c)
      /\ cmd[c].ok \in BOOLEAN /\ TypeOK /\ Fits(c) /\ cmd[c].ok /\ cmd[c].result = Absent
      /\ cmd[c].read \in Contents /\ Absent \in Contents
  BY DEF PlanResolve, PlanGenerate, At, IInv, TypeOK, Fits, PlacesFit, ChecksHold, HoldsItsFile, Contents
<1>2. CASE PlanResolve(c)
  <2>1. Go(c, "generate")
    BY <1>1, <1>2 DEF PlanResolve, Fits, ChecksHold, RefsExist
  <2>2. cmd' = [cmd EXCEPT ![c] = Standing("generate", @.req, cmd[c].read, cmd[c].ok, Absent)]
    BY <1>1, <2>1 DEF Go, Takes
  <2>3. QED
    BY <1>1, <2>2, MoveKeeps DEF Places, OnPlan, OnBinding, OnRecord
<1>3. CASE PlanGenerate(c)
  <2>1. cmd' = [cmd EXCEPT ![c] = Standing("over", @.req, Absent, TRUE, Absent)]
    BY <1>3 DEF PlanGenerate, Leaves
  <2>2. QED
    BY <1>1, <2>1, MoveKeeps DEF Places, OnPlan, OnBinding, OnRecord
<1>4. QED
  BY <1>2, <1>3

LEMMA EndsKeep ==
    ASSUME IInv, NEW c \in Commands, Publish(c) \/ Finish(c) \/ Die(c)
    PROVE  IInv'
<1>1. TypeOK /\ Fits(c) /\ ledger[c] \in LedgerEntries /\ ledger = [ledger EXCEPT ![c] = ledger[c]]
  BY DEF IInv, TypeOK, LedgerEntries
<1>2. CASE Die(c)
  <2>1. ledger' = [ledger EXCEPT ![c] = ledger[c]]
    BY <1>1, <1>2 DEF Die
  <2>2. QED
    BY <1>1, <1>2, <2>1, LeaveKeeps DEF Die, TypeOK
<1>3. CASE Publish(c) \/ Finish(c)
  <2>1. /\ cmd[c].pc \in {"publish", "finish"} /\ Leaves(c, TRUE) /\ UNCHANGED <<files, lock>>
        /\ Active(c)
    BY <1>3 DEF Publish, Finish, Finishes, At, Active
  <2>2. PICK told \in LedgerEntries :
           /\ ledger' = [ledger EXCEPT ![c] = told]
           /\ \/ told = ledger[c]
              \/ /\ told.result = cmd[c].result /\ told.state \in {"succeeded", "failed"}
                 /\ told.state = "succeeded" => At(c, "publish")
    <3>1. cmd[c].result \in Contents
      BY <1>1 DEF TypeOK
    <3>2. CASE ledger' = ledger
      BY <1>1, <3>2
    <3>3. CASE ledger' # ledger
      BY <1>3, <3>1, <3>3 DEF Publish, Finish, Finishes, LedgerEntries
    <3>4. QED
      BY <3>2, <3>3
  <2>3. \A f \in Files : lock[f] # c
    BY <1>1, <2>1, NamesAssumption DEF TypeOK, At
  <2>4. QED
    BY <1>1, <2>1, <2>2, <2>3, LeaveKeeps DEF TypeOK
<1>4. QED
  BY <1>2, <1>3

-----------------------------------------------------------------------------
(* Writes *)

\* A write of the canonical file, whatever came of it.
LEMMA WrittenKeeps ==
    ASSUME IInv, NEW c \in Commands, NEW content, NEW place \in {"page", "publish"},
           cmd[c].pc \in {"create", "update"},
           Written(c, FileOf(c), content, place),
           content \in ContentsOf(FileOf(c)),
           cmd[c].req.kind # "none", ~OnPlan(c),
           OnBinding(c) <=> place = "publish",
           Stored(FileOf(c)) = Absent \/ content.version = Stored(FileOf(c)).version + 1,
           IF At(c, "update") THEN lock[FileOf(c)] = NoCommand ELSE Stored(FileOf(c)) = Absent,
           OnRecord(c) => \A g \in content.refs : g \in Goals /\ goal[g] # Absent,
           OnBinding(c) => content.employee \in Staff \cup {Vacant},
           ~OnBinding(c) =>
               IF At(c, "update") THEN cmd[c].req.kind \in Changes
               ELSE cmd[c].req.kind \notin Changes /\ content.status = "active"
    PROVE  IInv'
<1> DEFINE f == FileOf(c)
<1>1. /\ TypeOK /\ Fits(c) /\ ~At(c, "page") /\ ~At(c, "over") /\ ~At(c, "idle")
      /\ cmd[c].req \in Asked /\ cmd[c].ok \in BOOLEAN /\ Absent \in Contents
      /\ f \in Files /\ content \in Contents /\ content # Absent
  BY FileTyped, ContentsTyped DEF IInv, TypeOK, At, Contents
<1>2. CASE Fails(c) /\ UNCHANGED <<goal, record, binding, lock>>
  BY <1>2, FailKeeps DEF Written, files
<1>3. CASE Replaces(f, content)
  <2>1. PICK stop \in {place, "finish"}, result \in {content, Absent} :
           /\ cmd' = [cmd EXCEPT ![c] = Standing(stop, cmd[c].req, Absent, cmd[c].ok, result)]
           /\ stop = place <=> result = content
           /\ lock' = IF At(c, "update") /\ stop = "page" THEN [lock EXCEPT ![f] = c] ELSE lock
    <3>1. CASE Takes(c, place, Absent, content)
              /\ lock' = IF At(c, "update") /\ place = "page" THEN [lock EXCEPT ![f] = c] ELSE lock
      BY <1>1, <3>1 DEF Takes, TypeOK
    <3>2. CASE Fails(c) /\ UNCHANGED lock
      BY <1>1, <3>2 DEF Fails, Takes, TypeOK
    <3>3. QED
      BY <1>2, <3>1, <3>2 DEF Written
  <2> DEFINE entry == Standing(stop, cmd[c].req, Absent, cmd[c].ok, result)
  <2>2. page' = page /\ ledger' = ledger
    BY DEF Written
  <2>3. entry \in Entries /\ ledger[c] \in LedgerEntries
    BY <1>1 DEF Entries, LedgerEntries, Standing, Places, TypeOK
  <2>4. FileOf(c)' = f /\ cmd'[c] = entry
    BY <1>1, <2>1, <2>3 DEF TypeOK, FileOf, OnGoal, OnBinding, Standing
  <2>5. \A h \in Files : lock[h] # c
    BY <1>1, NamesAssumption DEF TypeOK
  <2>6. /\ lock' \in [Files -> Commands \cup {NoCommand}]
        /\ \A h \in Files : lock'[h] = c => stop = "page" /\ h = f
        /\ \A h \in Files : lock[h] # NoCommand => lock'[h] = lock[h]
        /\ \A h \in Files : lock'[h] \notin {c, NoCommand} => lock'[h] = lock[h]
        /\ At(c, "update") /\ stop = "page" => lock'[f] = c
    BY <1>1, <2>1, <2>5 DEF TypeOK
  <2>7. TypeOK' /\ Others(c) /\ cmd'[c] = entry /\ ledger'[c] = ledger[c]
    <3>1. /\ goal' \in [Goals -> GoalRecords \cup {Absent}]
          /\ record' \in [Responsibilities -> Records \cup {Absent}]
          /\ binding' \in [Responsibilities -> Bindings \cup {Absent}]
      BY <1>1, <1>3, ReplacesOne
    <3>2. ledger' = [ledger EXCEPT ![c] = ledger[c]]
      BY <1>1, <2>2 DEF TypeOK
    <3>3. entry.pc = stop
      BY DEF Standing
    <3>4. page' \in [Paged -> {"active", "achieved", "abandoned", "inactive", Absent}]
      BY <1>1, <2>2 DEF TypeOK
    <3>5. \A h \in Files : lock'[h] = c => entry.pc = "page" /\ FileOf(c)' = h
      BY <2>4, <2>6, <3>3
    <3>6. cmd' = [cmd EXCEPT ![c] = entry]
      BY <2>1
    <3>7. TypedStep(c, entry, ledger[c])
      BY <2>6, <3>1, <3>2, <3>4, <3>5, <3>6 DEF TypedStep
    <3> HIDE DEF entry
    <3>8. QED
      BY <1>1, <2>3, <3>7, TypesKeep
  <2>8. /\ cmd'[c].req = cmd[c].req /\ cmd'[c].pc = stop
        /\ cmd'[c].ok = cmd[c].ok /\ cmd'[c].result = result
    BY <2>7 DEF Standing
  <2>9. OnPlan(c)' = OnPlan(c) /\ OnBinding(c)' = OnBinding(c)
    BY <2>8 DEF OnPlan, OnBinding
  <2>10. ~Told(c) /\ ~Told(c)'
    BY <1>1, <2>7 DEF Fits, LedgerFits, Told, At
  <2>11. Fits(c)'
    <3>1. PlacesFit(c)'
      BY <1>1, <2>8, <2>9 DEF Fits, PlacesFit, At
    <3>2. HoldsItsFile(c)'
      BY <1>1, <2>1, <2>4, <2>8 DEF HoldsItsFile, At, ContentsOf
    <3>3. LedgerFits(c)'
      BY <1>1, <2>4, <2>7, <2>8, <2>9, <2>10 DEF Fits, LedgerFits, At, Underway, PlacesFit
    <3>4. ChecksHold(c)'
      BY <2>8, <2>9 DEF ChecksHold, At
    <3>5. QED
      BY <3>1, <3>2, <3>3, <3>4 DEF Fits
  <2>12. Writes(c, content)
    BY <1>1, <1>3, <2>7, <2>8, <2>10 DEF Writes, Held
  <2>13. ~OnBinding(c) => Late(c)'
    BY <1>1, <2>7, <2>8 DEF Late, At, Fits, LedgerFits, Underway
  <2>14. At(c, "page")' => cmd'[c].result = content /\ (cmd[c].req.kind \in Changes => lock'[f] = c)
    BY <1>1, <2>1, <2>6, <2>8 DEF At, OnBinding, Changes
  <2>15. OnBinding(c) => record[cmd[c].req.id] # Absent
    BY <1>1 DEF Fits, ChecksHold
  <2>16. lock[f] = NoCommand \/ Stored(f) = Absent
    OBVIOUS
  <2>17. ~OnBinding(c) => cmd[c].req.kind \in Changes \/ (Stored(f) = Absent /\ content.status = "active")
    OBVIOUS
  <2>18. QED
    BY <2>2, <2>6, <2>7, <2>11, <2>12, <2>13, <2>14, <2>15, <2>16, <2>17, WriteKeeps
<1>4. QED
  BY <1>2, <1>3 DEF Written

LEMMA CreatesKeep ==
    ASSUME IInv, NEW c \in Commands, CreateGoal(c) \/ CreateRecord(c) \/ CreateBinding(c)
    PROVE  IInv'
<1>1. /\ TypeOK /\ Fits(c) /\ At(c, "create") /\ cmd[c].req.kind # "none" /\ ~OnPlan(c)
      /\ ~At(c, "update") /\ cmd[c].pc \in {"create", "update"}
  BY DEF IInv, CreateGoal, CreateRecord, CreateBinding, Creates, OnGoal, OnRecord, OnBinding, OnPlan, At
<1>2. CASE Stored(FileOf(c)) # Absent
  <2>1. Fails(c) /\ UNCHANGED <<files, lock, ledger>>
    BY <1>2 DEF CreateGoal, CreateRecord, CreateBinding, Creates
  <2>2. QED
    BY <1>1, <2>1, FailKeeps
<1>3. CASE Stored(FileOf(c)) = Absent
  <2>1. CASE CreateGoal(c)
    <3> DEFINE content == [status |-> "active", version |-> 1]
    <3>1. OnGoal(c) /\ Written(c, FileOf(c), content, "page")
      BY <1>3, <2>1 DEF CreateGoal, Creates
    <3>2. ~OnBinding(c) /\ ~OnRecord(c) /\ FileOf(c)[1] = "goal"
      BY <1>1, <3>1, FileTyped DEF OnGoal, OnBinding, OnRecord
    <3>3. content \in ContentsOf(FileOf(c))
      BY <3>2 DEF ContentsOf, GoalRecords
    <3>4. cmd[c].req.kind \notin Changes
      BY <1>1 DEF Fits, PlacesFit, Changes
    <3>5. QED
      BY <1>1, <1>3, <3>1, <3>2, <3>3, <3>4, WrittenKeeps
  <2>2. CASE CreateRecord(c)
    <3> DEFINE content == [status |-> "active", version |-> 1, refs |-> cmd[c].req.refs]
    <3>1. OnRecord(c) /\ Written(c, FileOf(c), content, "page")
      BY <1>3, <2>2 DEF CreateRecord, Creates
    <3>2. ~OnBinding(c) /\ ~OnGoal(c) /\ FileOf(c)[1] = "record"
      BY <1>1, <3>1, FileTyped DEF OnGoal, OnBinding, OnRecord
    <3>3. cmd[c].req.kind = "responsibility.create" /\ cmd[c].req.kind \notin Changes
      BY <1>1, <3>1 DEF Fits, PlacesFit, Changes, OnRecord
    <3>4. cmd[c].req.refs \subseteq Goals /\ RefsExist(cmd[c].req.refs)
      BY <1>1, <3>3, RequestsTyped DEF Fits, ChecksHold
    <3>5. content \in ContentsOf(FileOf(c))
      BY <3>2, <3>4 DEF ContentsOf, Records
    <3>6. \A g \in content.refs : g \in Goals /\ goal[g] # Absent
      BY <3>4 DEF RefsExist
    <3>7. QED
      BY <1>1, <1>3, <3>1, <3>2, <3>3, <3>5, <3>6, WrittenKeeps
  <2>3. CASE CreateBinding(c)
    <3> DEFINE content == [employee |-> cmd[c].req.employee, version |-> 1]
    <3>1. OnBinding(c) /\ Written(c, FileOf(c), content, "publish")
      BY <1>3, <2>3 DEF CreateBinding, Creates
    <3>2. ~OnRecord(c) /\ ~OnGoal(c) /\ FileOf(c)[1] = "binding"
      BY <1>1, <3>1, FileTyped DEF OnGoal, OnBinding, OnRecord
    <3>3. cmd[c].req.kind = "responsibility.assign"
      BY <1>1, <3>1 DEF Fits, PlacesFit, OnBinding
    <3>4. cmd[c].req.employee \in Staff
      BY <1>1, <3>3 DEF Fits, ChecksHold, At
    <3>5. content \in ContentsOf(FileOf(c)) /\ content.employee \in Staff
      BY <3>2, <3>4, NamesAssumption DEF ContentsOf, Bindings
    <3>6. QED
      BY <1>1, <1>3, <3>1, <3>2, <3>5, WrittenKeeps
  <2>4. QED
    BY <2>1, <2>2, <2>3
<1>4. QED
  BY <1>2, <1>3

LEMMA UpdatesKeep ==
    ASSUME IInv, NEW c \in Commands, UpdateGoal(c) \/ UpdateRecord(c) \/ UpdateBinding(c)
    PROVE  IInv'
<1>1. /\ TypeOK /\ Fits(c) /\ At(c, "update") /\ cmd[c].req.kind # "none" /\ ~OnPlan(c)
      /\ cmd[c].pc \in {"create", "update"}
      /\ cmd[c].read \in ContentsOf(FileOf(c)) /\ lock[FileOf(c)] = NoCommand
      /\ cmd[c].req.kind \in Changes \cup {"responsibility.assign", "responsibility.unassign"}
      /\ FileOf(c) \in Files
  BY FileTyped DEF IInv, UpdateGoal, UpdateRecord, UpdateBinding, Updates, OnGoal, OnRecord, OnBinding,
         OnPlan, At, Fits, HoldsItsFile, PlacesFit
<1> DEFINE now == Stored(FileOf(c))
<1>2. CASE Fails(c) /\ UNCHANGED <<files, lock, ledger>>
  BY <1>1, <1>2, FailKeeps
<1>3. CASE UpdateGoal(c) /\ ~(Fails(c) /\ UNCHANGED <<files, lock, ledger>>)
  <2>1. PICK next \in NextGoals(cmd[c].read, cmd[c].req) :
           /\ GoalAccepts(now, next, cmd[c].req.expected)
           /\ Written(c, FileOf(c), next, "page")
    BY <1>3 DEF UpdateGoal, Updates
  <2>2. OnGoal(c) /\ ~OnRecord(c) /\ ~OnBinding(c) /\ FileOf(c)[1] = "goal"
    BY <1>1, <1>3, FileTyped DEF UpdateGoal, OnGoal, OnRecord, OnBinding
  <2>3. next \in ContentsOf(FileOf(c)) /\ next.version = now.version + 1
    BY <1>1, <2>1, <2>2 DEF NextGoals, GoalAccepts, ContentsOf, GoalRecords
  <2>4. cmd[c].req.kind \in Changes
    BY <1>1, <2>2 DEF OnBinding
  <2>5. QED
    BY <1>1, <2>1, <2>2, <2>3, <2>4, WrittenKeeps
<1>4. CASE UpdateRecord(c) /\ ~(Fails(c) /\ UNCHANGED <<files, lock, ledger>>)
  <2>1. PICK next \in NextRecords(cmd[c].read, cmd[c].req) :
           /\ RecordAccepts(now, next, cmd[c].req.expected)
           /\ Written(c, FileOf(c), next, "page")
    BY <1>4 DEF UpdateRecord, Updates
  <2>2. OnRecord(c) /\ ~OnGoal(c) /\ ~OnBinding(c) /\ FileOf(c)[1] = "record"
    BY <1>1, <1>4, FileTyped DEF UpdateRecord, OnGoal, OnRecord, OnBinding
  <2>3. next \in ContentsOf(FileOf(c)) /\ next.version = now.version + 1 /\ next.refs = now.refs
    BY <1>1, <2>1, <2>2 DEF NextRecords, RecordAccepts, ContentsOf, Records
  <2>4. cmd[c].req.kind \in Changes
    BY <1>1, <2>2 DEF OnBinding
  <2>5. now # Absent
    BY <1>1, <2>2 DEF Fits, ChecksHold
  <2>6. \A g \in next.refs : g \in Goals /\ goal[g] # Absent
    <3>1. now = record[cmd[c].req.id] /\ cmd[c].req.id \in Responsibilities
      BY <1>1, <2>2, FileTyped, RequestsTyped DEF Stored
    <3>2. now \in Records
      BY <1>1, <2>5, <3>1 DEF TypeOK
    <3>3. QED
      BY <2>3, <2>5, <3>1, <3>2 DEF IInv, RefsResolve, Records
  <2>7. QED
    BY <1>1, <2>1, <2>2, <2>3, <2>4, <2>6, WrittenKeeps
<1>5. CASE UpdateBinding(c) /\ ~(Fails(c) /\ UNCHANGED <<files, lock, ledger>>)
  <2>1. PICK next \in NextBindings(cmd[c].read, cmd[c].req) :
           /\ BindingAccepts(now, next, cmd[c].read.version)
           /\ Written(c, FileOf(c), next, "publish")
    BY <1>5 DEF UpdateBinding, Updates
  <2>2. OnBinding(c) /\ ~OnGoal(c) /\ ~OnRecord(c) /\ FileOf(c)[1] = "binding"
    BY <1>1, <1>5, FileTyped DEF UpdateBinding, OnGoal, OnRecord, OnBinding
  <2>3. cmd[c].req.kind = "responsibility.assign" => cmd[c].req.employee \in Staff
    BY <1>1 DEF Fits, ChecksHold, At
  <2>4. /\ next \in ContentsOf(FileOf(c)) /\ next.version = now.version + 1
        /\ next.employee \in Staff \cup {Vacant}
    BY <1>1, <2>1, <2>2, <2>3, NamesAssumption DEF NextBindings, BindingAccepts, ContentsOf, Bindings
  <2>5. QED
    BY <1>1, <2>1, <2>2, <2>4, WrittenKeeps
<1>6. QED
  BY <1>2, <1>3, <1>4, <1>5

\* The page of a Goal or Responsibility.
LEMMA PagesKeep ==
    ASSUME IInv, NEW c \in Commands, PageGoal(c) \/ PageRecord(c)
    PROVE  IInv'
<1> DEFINE f == FileOf(c)
<1>1. /\ TypeOK /\ Fits(c) /\ At(c, "page") /\ ~OnPlan(c) /\ ~At(c, "idle")
      /\ cmd[c].req.kind # "none" /\ ~OnBinding(c)
      /\ cmd[c].req \in Asked /\ cmd[c].ok \in BOOLEAN /\ Absent \in Contents
      /\ cmd[c].result \in ContentsOf(f)
  BY DEF IInv, TypeOK, PageGoal, PageRecord, Paints, OnGoal, OnRecord, OnBinding, OnPlan, At, Contents,
         Fits, HoldsItsFile
<1>2. /\ f \in PagedFiles /\ f \in Files /\ f[2] = cmd[c].req.id /\ f[2] \in Paged
      /\ cmd[c].result # Absent /\ cmd[c].result \in Contents
      /\ cmd[c].result.status \in {"active", "achieved", "abandoned", "inactive"}
  BY <1>1, FileTyped, ContentsTyped DEF PagedFiles, Files, Paged, ContentsOf, GoalRecords, Records
<1>3. PICK stop \in {"publish", "finish"}, result \in {cmd[c].result, Absent}, read \in Contents :
         /\ cmd' = [cmd EXCEPT ![c] = Standing(stop, cmd[c].req, read, cmd[c].ok, result)]
         /\ stop = "publish" <=> result = cmd[c].result
         /\ \/ page' = page /\ stop = "finish"
            \/ page' = [page EXCEPT ![f[2]] =
                            IF cmd[c].req.kind \in {"goal.create", "responsibility.create"}
                               /\ page[f[2]] # Absent
                            THEN page[f[2]] ELSE cmd[c].result.status]
  <2>1. PICK status :
           /\ Paints(c, status)
           /\ status = IF cmd[c].req.kind \in {"goal.create", "responsibility.create"}
                          /\ page[f[2]] # Absent
                       THEN page[f[2]] ELSE cmd[c].result.status
    BY <1>2 DEF PageGoal, PageRecord, PageOf, OnGoal, OnRecord
  <2>2. cmd[c].read \in Contents
    BY <1>1 DEF TypeOK
  <2>3. CASE Fails(c)
    BY <1>1, <1>2, <2>1, <2>3 DEF Paints, Fails, Takes, TypeOK
  <2>4. CASE ~Fails(c)
    BY <1>1, <1>2, <2>1, <2>2, <2>4 DEF Paints, Go, Takes, TypeOK
  <2>5. QED
    BY <2>3, <2>4
<1>4. /\ UNCHANGED <<goal, record, binding, ledger>>
      /\ lock' = IF lock[f] = c THEN [lock EXCEPT ![f] = NoCommand] ELSE lock
  BY DEF PageGoal, PageRecord, Paints
<1>5. /\ \A h \in Files : lock[h] = c => h = f
      /\ \A h \in Files : lock'[h] # c
      /\ \A h \in Files : lock[h] # c => lock'[h] = lock[h]
      /\ lock' \in [Files -> Commands \cup {NoCommand}]
  <2>1. \A h \in Files : lock[h] = c => h = f
    BY <1>1, NamesAssumption DEF TypeOK
  <2>2. QED
    BY <1>1, <1>2, <1>4, <2>1, NamesAssumption DEF TypeOK
<1> DEFINE entry == Standing(stop, cmd[c].req, read, cmd[c].ok, result)
<1>6. entry \in Entries /\ ledger[c] \in LedgerEntries
  BY <1>1, <1>2 DEF Entries, LedgerEntries, Standing, Places, TypeOK
<1>7. TypeOK' /\ Others(c) /\ cmd'[c] = entry /\ ledger'[c] = ledger[c]
  <2>1. page' \in [Paged -> {"active", "achieved", "abandoned", "inactive", Absent}]
    BY <1>1, <1>2, <1>3 DEF TypeOK
  <2>2. ledger' = [ledger EXCEPT ![c] = ledger[c]]
    BY <1>1, <1>4 DEF TypeOK
  <2>3. TypedStep(c, entry, ledger[c])
    BY <1>1, <1>3, <1>4, <1>5, <2>1, <2>2 DEF TypedStep, TypeOK
  <2> HIDE DEF entry
  <2>4. QED
    BY <1>1, <1>6, <2>3, TypesKeep
<1>8. /\ cmd'[c].req = cmd[c].req /\ cmd'[c].pc = stop
      /\ cmd'[c].ok = cmd[c].ok /\ cmd'[c].result = result
  BY <1>7 DEF Standing
<1>9. OnPlan(c)' = OnPlan(c) /\ OnBinding(c)' = OnBinding(c) /\ FileOf(c)' = f
  BY <1>8 DEF OnPlan, OnBinding, OnGoal, FileOf
<1>10. ~Told(c) /\ ~Told(c)'
  BY <1>1, <1>7 DEF Fits, LedgerFits, Told, At
<1>11. Fits(c)'
  <2>1. PlacesFit(c)'
    BY <1>1, <1>8, <1>9 DEF Fits, PlacesFit, At
  <2>2. HoldsItsFile(c)'
    BY <1>1, <1>2, <1>3, <1>8, <1>9 DEF HoldsItsFile, At, ContentsOf
  <2>3. LedgerFits(c)'
    BY <1>1, <1>7, <1>8, <1>9, <1>10 DEF Fits, LedgerFits, At, Underway, PlacesFit
  <2>4. ChecksHold(c)'
    BY <1>1, <1>8, <1>9 DEF ChecksHold, At
  <2>5. QED
    BY <2>1, <2>2, <2>3, <2>4 DEF Fits
<1>12. Quiet(c)
  BY <1>3, <1>4, <1>7, <1>8, <1>10 DEF Quiet, Held
<1>13. ~At(c, "page")'
  BY <1>8 DEF At
<1>14. stop = "finish" => Late(c)'
  BY <1>1, <1>7, <1>8 DEF Late, At, Fits, LedgerFits, Underway
<1>15. CASE page' = page /\ stop = "finish"
  BY <1>5, <1>7, <1>11, <1>12, <1>13, <1>14, <1>15, QuietKeeps
<1>16. CASE ~(page' = page /\ stop = "finish")
  <2>1. page' = [page EXCEPT ![f[2]] =
                    IF cmd[c].req.kind \in {"goal.create", "responsibility.create"} /\ page[f[2]] # Absent
                    THEN page[f[2]] ELSE cmd[c].result.status]
    BY <1>3, <1>16
  <2>2. ASSUME NEW h \in PagedFiles, h # f
        PROVE  h[2] # f[2] /\ page'[h[2]] = page[h[2]]
    <3>1. h[2] # f[2]
      BY <1>2, <2>2, NamesAssumption DEF PagedFiles, Files
    <3>2. QED
      BY <1>1, <1>2, <2>1, <3>1 DEF TypeOK, PagedFiles, Files, Paged
  <2>3. page'[f[2]] = IF cmd[c].req.kind \in {"goal.create", "responsibility.create"} /\ page[f[2]] # Absent
                      THEN page[f[2]] ELSE cmd[c].result.status
    BY <1>1, <1>2, <2>1 DEF TypeOK
  <2>4. /\ \A h : Stored(h)' = Stored(h)
        /\ \A d \in Commands : Fits(d)'
        /\ \A d \in Commands : ~At(d, "idle") =>
              FileOf(d)' = FileOf(d) /\ cmd'[d].req = cmd[d].req /\ ~At(d, "idle")'
        /\ RefsResolve' /\ HeldStands' /\ Painters'
    BY <1>5, <1>11, <1>12, <1>13, QuietBase
  <2>5. Stored(f) # Absent
    <3>1. Held(c) # Absent
      BY <1>2, <1>10 DEF Held
    <3>2. QED
      BY <3>1 DEF IInv, HeldStands, Stands
  <2>6. PagesFollow'
    BY <2>2, <2>4, <2>5 DEF IInv, PagesFollow
  <2>7. \A d \in Commands \ {c} : Late(d) => Late(d)'
    BY <1>12 DEF Quiet, Others, Late, At
  <2>8. Blamed'
    <3> SUFFICES ASSUME NEW h \in PagedFiles, Stored(h)' # Absent, page'[h[2]] # Stored(h)'.status
                 PROVE  \E d \in Commands :
                           /\ FileOf(d)' = h /\ Late(d)' /\ ~At(d, "idle")'
                           /\ page'[h[2]] # Absent \/ Stored(h)'.status # "active"
                                 => cmd'[d].req.kind \in Changes
      BY DEF Blamed
    <3>1. CASE h = f
      <4>1. cmd[c].req.kind \notin Changes /\ cmd[c].result.status = "active"
        BY <1>1, <2>3, <2>4, <3>1 DEF IInv, Painters, Changes
      <4>2. page[f[2]] # Stored(f).status /\ (page[f[2]] # Absent \/ Stored(f).status # "active")
        <5>1. page'[f[2]] # Stored(f).status /\ Stored(f) \in GoalRecords \cup Records
          <6>1. Stored(h)' = Stored(h) /\ page'[h[2]] # Stored(h).status
            BY <2>4
          <6>2. Stored(f) \in ContentsOf(f)
            BY <1>1, <1>2, <2>5, StoredTyped
          <6>3. ContentsOf(f) \in {GoalRecords, Records}
            BY <1>2 DEF PagedFiles, Files, ContentsOf
          <6>4. QED
            BY <3>1, <6>1, <6>2, <6>3
        <5>2. CASE page[f[2]] # Absent
          <6>1. cmd[c].req.kind \in {"goal.create", "responsibility.create"}
            BY <1>1, <4>1, RequestsTyped DEF Changes, OnGoal, OnRecord
          <6>2. page'[f[2]] = page[f[2]]
            BY <2>3, <5>2, <6>1
          <6>3. QED
            BY <5>1, <5>2, <6>2
        <5>3. CASE page[f[2]] = Absent
          <6>1. page'[f[2]] = "active"
            BY <2>3, <4>1, <5>3
          <6>2. Absent # Stored(f).status
            BY <5>1, NamesAssumption DEF GoalRecords, Records
          <6>3. QED
            BY <5>1, <5>3, <6>1, <6>2
        <5>4. QED
          BY <5>2, <5>3
      <4>3. PICK d \in Commands :
               FileOf(d) = f /\ Late(d) /\ ~At(d, "idle") /\ cmd[d].req.kind \in Changes
        BY <1>2, <2>5, <4>2 DEF IInv, Blamed
      <4>4. d # c
        BY <4>1, <4>3
      <4>5. QED
        BY <2>4, <2>7, <3>1, <4>3, <4>4
    <3>2. CASE h # f
      <4>1. page'[h[2]] = page[h[2]] /\ Stored(h)' = Stored(h)
        BY <2>2, <2>4, <3>2
      <4>2. PICK d \in Commands :
               /\ FileOf(d) = h /\ Late(d) /\ ~At(d, "idle")
               /\ page[h[2]] # Absent \/ Stored(h).status # "active" => cmd[d].req.kind \in Changes
        BY <4>1 DEF IInv, Blamed
      <4>3. d # c
        BY <3>2, <4>2
      <4>4. QED
        BY <2>4, <2>7, <4>1, <4>2, <4>3
    <3>3. QED
      BY <3>1, <3>2
  <2>9. QED
    BY <1>7, <2>4, <2>6, <2>8 DEF IInv
<1>17. QED
  BY <1>15, <1>16

-----------------------------------------------------------------------------
(* Theorems *)

LEMMA InitHolds == Init => IInv
<1> SUFFICES ASSUME Init
             PROVE  IInv
  OBVIOUS
<1>1. /\ goal \in [Goals -> GoalRecords \cup {Absent}]
      /\ record \in [Responsibilities -> Records \cup {Absent}]
      /\ binding \in [Responsibilities -> Bindings \cup {Absent}]
  BY NamesAssumption DEF Init, GoalRecords, Records, Bindings
<1>2. page \in [Paged -> {"active", "achieved", "abandoned", "inactive", Absent}]
  BY DEF Init
<1>3. lock = [f \in Files |-> NoCommand]
  BY DEF Init
<1>4. \A c \in Commands : /\ cmd[c] = Fresh /\ cmd[c].pc = "idle" /\ cmd[c].req.kind = "none"
                          /\ cmd[c].result = Absent /\ cmd[c].ok
                          /\ ledger[c].state = "none" /\ ledger[c].result = Absent
  BY DEF Init, Fresh, Standing
<1>5. Fresh \in [pc : Places, req : Asked, read : Contents, ok : BOOLEAN, result : Contents]
  BY DEF Fresh, Standing, Places, Asked, Contents
<1>6. TypeOK
  <2>1. cmd \in [Commands -> [pc : Places, req : Asked, read : Contents, ok : BOOLEAN, result : Contents]]
    BY <1>5 DEF Init
  <2>2. ledger \in [Commands -> [state : {"none", "running", "succeeded", "failed"}, result : Contents]]
    BY DEF Init, Contents
  <2>3. QED
    BY <1>1, <1>2, <1>3, <2>1, <2>2 DEF TypeOK
<1>7. \A c \in Commands : ~Told(c) /\ Held(c) = Absent /\ ~At(c, "page")
  BY <1>4 DEF Told, Held, At
<1>8. ASSUME NEW c \in Commands
      PROVE  Fits(c)
  <2>1. PlacesFit(c) /\ HoldsItsFile(c) /\ LedgerFits(c)
    BY <1>4, <1>7 DEF PlacesFit, HoldsItsFile, LedgerFits, At, OnPlan, Underway
  <2>2. ChecksHold(c)
    BY <1>4 DEF ChecksHold, At, OnPlan, OnBinding
  <2>3. QED
    BY <2>1, <2>2 DEF Fits
<1>9. RefsResolve
  <2>1. \A r \in Responsibilities : record[r] # Absent => \A g \in record[r].refs : goal[g] # Absent
    BY DEF Init
  <2>2. \A r \in Responsibilities : binding[r] # Absent => binding[r].employee \in Staff
    BY DEF Init
  <2>3. QED
    BY <1>4, <2>1, <2>2 DEF Init, RefsResolve, At
<1>10. HeldStands /\ Painters
  BY <1>7 DEF HeldStands, Stands, Apart, Painters
<1>11. \A f \in PagedFiles :
          IF Stored(f) = Absent THEN page[f[2]] = Absent ELSE page[f[2]] = Stored(f).status
  BY NamesAssumption DEF Init, PagedFiles, Files, Paged, Stored
<1>12. PagesFollow /\ Blamed
  BY <1>11 DEF PagesFollow, Blamed
<1>13. QED
  BY <1>6, <1>8, <1>9, <1>10, <1>12 DEF IInv

LEMMA NextKeeps == IInv /\ [Next]_vars => IInv'
<1> SUFFICES ASSUME IInv, [Next]_vars
             PROVE  IInv'
  OBVIOUS
<1>1. CASE UNCHANGED vars
  <2>1. /\ goal' = goal /\ record' = record /\ binding' = binding /\ page' = page
        /\ lock' = lock /\ cmd' = cmd /\ ledger' = ledger
    BY <1>1 DEF vars, files
  <2>2. TypeOK' /\ RefsResolve'
    BY <2>1 DEF IInv, TypeOK, RefsResolve, At, FileOf, OnGoal, OnBinding
  <2>3. \A f : Stored(f)' = Stored(f)
    BY <2>1 DEF Stored
  <2>4. \A c \in Commands : FileOf(c)' = FileOf(c) /\ Held(c)' = Held(c)
    BY <2>1 DEF FileOf, OnGoal, OnBinding, Held, Told
  <2>5. ASSUME NEW c \in Commands
        PROVE  Fits(c)'
    <3>1. Fits(c)
      BY DEF IInv
    <3>2. PlacesFit(c)' /\ HoldsItsFile(c)' /\ LedgerFits(c)'
      BY <2>1, <3>1, Zenon DEF Fits, PlacesFit, HoldsItsFile, LedgerFits, At, OnPlan, OnBinding, OnGoal, FileOf, Told
    <3>3. ChecksHold(c)'
      BY <2>1, <2>3, <2>4, <3>1 DEF Fits, ChecksHold, RefsExist, At, OnPlan, OnBinding
    <3>4. QED
      BY <3>2, <3>3 DEF Fits
  <2>6. HeldStands'
    BY <2>3, <2>4 DEF IInv, HeldStands, Stands, Apart
  <2>7. PagesFollow' /\ Painters'
    BY <2>1, <2>3, <2>4 DEF IInv, PagesFollow, Painters, At
  <2>8. Blamed'
    BY <2>1, <2>3, <2>4 DEF IInv, Blamed, Late, At
  <2>9. QED
    BY <2>2, <2>5, <2>6, <2>7, <2>8 DEF IInv
<1>2. ASSUME NEW c \in Commands,
             \/ AskGoal(c) \/ CreateGoal(c) \/ ReadGoal(c) \/ UpdateGoal(c) \/ PageGoal(c)
             \/ AskRecord(c) \/ CheckGoals(c) \/ CreateRecord(c)
             \/ ReadRecord(c) \/ UpdateRecord(c) \/ PageRecord(c)
             \/ AskBinding(c) \/ CheckEmployee(c) \/ ReadFirst(c) \/ CreateBinding(c)
             \/ ReadBinding(c) \/ UpdateBinding(c)
             \/ Publish(c) \/ Finish(c)
             \/ AskPlan(c) \/ PlanResolve(c) \/ PlanGenerate(c)
             \/ Die(c)
      PROVE  IInv'
  <2>1. CASE AskGoal(c) \/ AskRecord(c) \/ AskBinding(c)
    BY <2>1, AsksKeep
  <2>2. CASE AskPlan(c)
    BY <2>2, AskPlanKeeps
  <2>3. CASE CheckGoals(c) \/ CheckEmployee(c) \/ ReadFirst(c)
    BY <2>3, ChecksKeep
  <2>4. CASE ReadGoal(c) \/ ReadRecord(c) \/ ReadBinding(c)
    BY <2>4, ReadsKeep
  <2>5. CASE CreateGoal(c) \/ CreateRecord(c) \/ CreateBinding(c)
    BY <2>5, CreatesKeep
  <2>6. CASE UpdateGoal(c) \/ UpdateRecord(c) \/ UpdateBinding(c)
    BY <2>6, UpdatesKeep
  <2>7. CASE PageGoal(c) \/ PageRecord(c)
    BY <2>7, PagesKeep
  <2>8. CASE PlanResolve(c) \/ PlanGenerate(c)
    BY <2>8, PlansKeep
  <2>9. CASE Publish(c) \/ Finish(c) \/ Die(c)
    BY <2>9, EndsKeep
  <2>10. QED
    BY <1>2, <2>1, <2>2, <2>3, <2>4, <2>5, <2>6, <2>7, <2>8, <2>9
<1>3. QED
  BY <1>1, <1>2 DEF Next

\* IInv holds of every reachable state.
THEOREM Invariant == Spec => []IInv
<1>1. Init => IInv
  BY InitHolds
<1>2. IInv /\ [Next]_vars => IInv'
  BY NextKeeps
<1>3. QED
  BY <1>1, <1>2, PTL DEF Spec

\* Every file, page, lock and Command record has the shape the Go types give
\* it, and whoever holds the lock of a file is about to write its page.
THEOREM TypeCorrect == Spec => []TypeOK
<1>1. IInv => TypeOK
  BY DEF IInv
<1>2. QED
  BY <1>1, Invariant, PTL

\* What a Command was told it wrote is in the file or replaced by a later
\* version, and no two Commands were told the same version of one file,
\* however Creates without a lock and Updates under it interleave, fail and
\* die.
THEOREM ToldResultsStand == Spec => []ToldStands
<1>1. IInv => ToldStands
  <2> SUFFICES ASSUME IInv, NEW c \in Commands, Told(c)
               PROVE  LET now == Stored(FileOf(c)) IN
                      /\ now # Absent
                      /\ now.version > ledger[c].result.version \/ now = ledger[c].result
                      /\ \A d \in Commands \ {c} :
                            Told(d) /\ FileOf(d) = FileOf(c)
                              => ledger[d].result.version # ledger[c].result.version
    BY DEF ToldStands
  <2>1. \A d \in Commands : Told(d) => Held(d) = ledger[d].result /\ Held(d) # Absent
    BY DEF Held, Told
  <2>2. Stands(c) /\ \A d \in Commands \ {c} : Apart(c, d)
    BY DEF IInv, HeldStands
  <2>3. \A d \in Commands \ {c} :
           Told(d) /\ FileOf(d) = FileOf(c) => ledger[d].result.version # ledger[c].result.version
    BY <2>1, <2>2 DEF Apart
  <2>4. QED
    BY <2>1, <2>2, <2>3 DEF Stands
<1>2. QED
  BY <1>1, Invariant, PTL

\* A page that does not show its record is explained by a Command on it that
\* is under way or not recorded as succeeded: a late page of a creation never
\* covers the page of a change.
THEOREM PagesExplained == Spec => []PageLagIsOnRecord
<1>1. IInv => PageLagIsOnRecord
  <2> SUFFICES ASSUME IInv, NEW f \in {"goal", "record"} \X Paged, f \in Files, Stored(f) # Absent,
                      page[f[2]] # Stored(f).status
               PROVE  \E c \in Commands : /\ ~At(c, "idle") /\ FileOf(c) = f
                                          /\ ledger[c].state \in {"running", "failed"}
    BY DEF PageLagIsOnRecord
  <2>1. f \in PagedFiles
    BY DEF PagedFiles, Files
  <2>2. PICK c \in Commands : FileOf(c) = f /\ Late(c) /\ ~At(c, "idle")
    BY <2>1 DEF IInv, Blamed
  <2>3. ledger[c].state \in {"running", "failed"}
    BY <2>2 DEF IInv, Fits, LedgerFits, Late, At, Underway
  <2>4. QED
    BY <2>2, <2>3
<1>2. QED
  BY <1>1, Invariant, PTL

\* Goals that are named exist, Employees that are bound are in the inventory,
\* a Binding has its Record, and no plan stops for a Goal that is not there.
THEOREM ReferencesResolve == Spec => []RefsResolve
<1>1. IInv => RefsResolve
  BY DEF IInv
<1>2. QED
  BY <1>1, Invariant, PTL

\* A Goal that is achieved or abandoned never changes again: a creation finds
\* it there, a transition that read it earlier finds its version gone.
THEOREM EndedGoalsStay == Spec => EndedGoalStays
<1>1. IInv /\ [Next]_vars
        => [\A g \in Goals : goal[g] # Absent /\ goal[g].status # "active" => goal'[g] = goal[g]]_vars
  <2> SUFFICES ASSUME IInv, Next, NEW g \in Goals, goal[g] # Absent, goal[g].status # "active"
               PROVE  goal'[g] = goal[g]
    OBVIOUS
  <2>1. CASE UNCHANGED goal
    BY <2>1
  <2>2. ASSUME NEW c \in Commands, NEW content, NEW place, Written(c, FileOf(c), content, place),
               FileOf(c) # <<"goal", g>>, ~OnPlan(c), cmd[c].req.kind # "none"
        PROVE  goal'[g] = goal[g]
    <3>1. FileOf(c) \in Files
      BY <2>2, FileTyped DEF IInv
    <3>2. CASE UNCHANGED goal
      BY <3>2
    <3>3. CASE Replaces(FileOf(c), content)
      BY <2>2, <3>1, <3>3 DEF Replaces, IInv, TypeOK, Files
    <3>4. QED
      BY <2>2, <3>2, <3>3 DEF Written
  <2>3. ASSUME NEW c \in Commands,
               CreateGoal(c) \/ CreateRecord(c) \/ CreateBinding(c)
        PROVE  goal'[g] = goal[g]
    <3>1. At(c, "create") /\ Fits(c)
      BY <2>3 DEF CreateGoal, CreateRecord, CreateBinding, Creates, IInv
    <3>2. ~OnPlan(c) /\ cmd[c].req.kind # "none"
      BY <3>1 DEF Fits, PlacesFit, At, OnPlan
    <3>3. Stored(<<"goal", g>>) = goal[g]
      BY NamedFiles
    <3>4. CASE Stored(FileOf(c)) = Absent
      <4>1. PICK content, place : Written(c, FileOf(c), content, place)
        BY <2>3, <3>4 DEF CreateGoal, CreateRecord, CreateBinding, Creates
      <4>2. FileOf(c) # <<"goal", g>>
        BY <3>3, <3>4
      <4>3. QED
        BY <2>2, <3>2, <4>1, <4>2
    <3>5. CASE Stored(FileOf(c)) # Absent
      BY <2>3, <3>5 DEF CreateGoal, CreateRecord, CreateBinding, Creates, files
    <3>6. QED
      BY <3>4, <3>5
  <2>4. ASSUME NEW c \in Commands,
               UpdateGoal(c) \/ UpdateRecord(c) \/ UpdateBinding(c)
        PROVE  goal'[g] = goal[g]
    <3>1. At(c, "update") /\ Fits(c)
      BY <2>4 DEF UpdateGoal, UpdateRecord, UpdateBinding, IInv
    <3>2. ~OnPlan(c) /\ cmd[c].req.kind # "none"
      BY <3>1 DEF Fits, PlacesFit, At, OnPlan
    <3>3. FileOf(c) = <<"goal", g>> => OnGoal(c) /\ Stored(FileOf(c)) = goal[g]
      BY <3>2, FileTyped, NamedFiles DEF IInv
    <3>4. PICK content, accepted, place : 
             /\ Updates(c, content, accepted, place)
             /\ FileOf(c) = <<"goal", g>> => ~accepted
      <4>1. CASE UpdateGoal(c)
        <5>1. PICK content : Updates(c, content, GoalAccepts(Stored(FileOf(c)), content, cmd[c].req.expected), "page")
          BY <4>1 DEF UpdateGoal
        <5>2. FileOf(c) = <<"goal", g>> => ~GoalAccepts(Stored(FileOf(c)), content, cmd[c].req.expected)
          BY <3>3 DEF GoalAccepts
        <5>3. QED
          BY <5>1, <5>2
      <4>2. CASE UpdateRecord(c)
        <5>1. ~OnGoal(c)
          BY <4>2 DEF UpdateRecord, OnRecord, OnGoal
        <5>2. QED
          BY <3>3, <4>2, <5>1 DEF UpdateRecord
      <4>3. CASE UpdateBinding(c)
        <5>1. ~OnGoal(c)
          BY <4>3 DEF UpdateBinding, OnBinding, OnGoal
        <5>2. QED
          BY <3>3, <4>3, <5>1 DEF UpdateBinding
      <4>4. QED
        BY <2>4, <4>1, <4>2, <4>3
    <3>5. CASE accepted
      <4>1. Written(c, FileOf(c), content, place)
        BY <3>4, <3>5 DEF Updates
      <4>2. QED
        BY <2>2, <3>2, <3>4, <3>5, <4>1
    <3>6. CASE ~accepted
      BY <3>4, <3>6 DEF Updates, files
    <3>7. QED
      BY <3>5, <3>6
  <2>5. PICK c \in Commands :
             \/ AskGoal(c) \/ CreateGoal(c) \/ ReadGoal(c) \/ UpdateGoal(c) \/ PageGoal(c)
             \/ AskRecord(c) \/ CheckGoals(c) \/ CreateRecord(c)
             \/ ReadRecord(c) \/ UpdateRecord(c) \/ PageRecord(c)
             \/ AskBinding(c) \/ CheckEmployee(c) \/ ReadFirst(c) \/ CreateBinding(c)
             \/ ReadBinding(c) \/ UpdateBinding(c)
             \/ Publish(c) \/ Finish(c)
             \/ AskPlan(c) \/ PlanResolve(c) \/ PlanGenerate(c)
             \/ Die(c)
    BY DEF Next
  <2>6. CASE AskGoal(c) \/ AskRecord(c) \/ AskBinding(c) \/ AskPlan(c)
    BY <2>1, <2>6 DEF AskGoal, AskRecord, AskBinding, AskPlan, Claims, files
  <2>7. CASE CheckGoals(c) \/ CheckEmployee(c) \/ ReadFirst(c) \/ PlanResolve(c) \/ PlanGenerate(c)
    BY <2>1, <2>7 DEF CheckGoals, CheckEmployee, ReadFirst, PlanResolve, PlanGenerate, files
  <2>8. CASE ReadGoal(c) \/ ReadRecord(c) \/ ReadBinding(c)
    BY <2>1, <2>8 DEF ReadGoal, ReadRecord, ReadBinding, Reads, files
  <2>9. CASE PageGoal(c) \/ PageRecord(c)
    BY <2>1, <2>9 DEF PageGoal, PageRecord, Paints
  <2>10. CASE Publish(c) \/ Finish(c) \/ Die(c)
    BY <2>1, <2>10 DEF Publish, Finish, Finishes, Die, files
  <2>11. QED
    BY <2>3, <2>4, <2>5, <2>6, <2>7, <2>8, <2>9, <2>10
<1>2. QED
  BY <1>1, Invariant, PTL DEF Spec, EndedGoalStays

=============================================================================
