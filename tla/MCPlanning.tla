------------------------------ MODULE MCPlanning ------------------------------
(* Three Employees, four role titles of which two differ in letter case    *)
(* only and one has no holder, Intents of up to four steps, Plans          *)
(* written by hand with every fault the validation knows, and every kind   *)
(* of answer a Provider gives.                                             *)
EXTENDS Planning

MCEmployees == {"e1", "e2", "e3"}
MCRoles == {"Writer", "writer", "Analyst", "Poet"}
MCFold == [r \in MCRoles |-> IF r = "writer" THEN "Writer" ELSE r]

Person(id, role) == [id |-> id, role |-> role]

MCRosters == {
  {Person("e1", "Writer"), Person("e1", "Analyst"), Person("e2", "Analyst")},
  {Person("e1", "Writer"), Person("e2", "Analyst")},
  {Person("e1", "writer"), Person("e2", "Analyst")}}

\* Steps of an Intent.
Step(kind, role, parallel) == [kind |-> kind, desc |-> "draft", role |-> role, parallel |-> parallel]

Usable ==
  {Step("write", r, p) : r \in {"Writer", "Poet"}, p \in BOOLEAN}
  \cup {Step("research", "Analyst", p) : p \in BOOLEAN}
  \cup {Step("review", "absent", FALSE)}

Odd ==
  {[Step("write", "Writer", FALSE) EXCEPT !.desc = d] : d \in {"", "lines", "placeholder"}}
  \cup {Step(k, "Writer", FALSE) : k \in {"", "dance"}}
  \cup {Step("write", r, FALSE) : r \in {"", "absent", "null"}}
  \cup {Step("review", "", FALSE), Step("research", "Poet", FALSE), Step("research", "Writer", TRUE)}

Said(name, summary, steps) ==
  [unknown |-> FALSE, name |-> name, summary |-> summary, steps |-> steps, questions |-> TRUE]

Plain == <<Step("write", "Writer", FALSE)>>

Intents ==
  {Said("site", "about", s) : s \in UNION {[1 .. n -> Usable] : n \in 0 .. 2}}
  \cup {Said("site", "about", s) :
          s \in UNION {[1 .. n -> {u \in Usable : u.role # "Poet"}] : n \in 3 .. 4}}
  \cup {Said("site", "", <<Plain[1], s>>) : s \in Odd}
  \cup {Said(n, "about", Plain) : n \in {"", "absent", "null", "a/b"}}
  \cup {Said("site", "placeholder", Plain),
        [Said("site", "about", Plain) EXCEPT !.unknown = TRUE],
        [Said("site", "about", Plain) EXCEPT !.questions = FALSE]}

\* Answers of the Provider.
Text(t) == [type |-> "text", text |-> t]

Message(stop, blocks, says) ==
  [kind |-> "message", stop |-> stop, blocks |-> blocks, says |-> says, model |-> TRUE]

Blocks == {
  <<>>, <<Text("")>>, <<Text("json")>>, <<Text("prose")>>, <<Text("json json")>>, <<Text("json prose")>>,
  <<Text("json"), Text("json")>>, <<[type |-> "thinking", text |-> ""], Text("json")>>,
  <<[type |-> "tool_use", text |-> ""]>>, <<Text("the title")>>}

Stops == {"end_turn", "max_tokens", "stop_sequence", "pause_turn", "refusal"}

Unanswered ==
  {[kind |-> "error", cause |-> c] : c \in Causes}
  \cup {[kind |-> "status", status |-> s, type |-> ""] : s \in {400, 401, 402, 403, 418, 429, 500}}
  \cup {[kind |-> "status", status |-> 400, type |-> "billing_error"],
        [kind |-> "status", status |-> 529, type |-> "overloaded_error"],
        [kind |-> "garbled"]}

\* The few of them that the other two Commands need be asked about.
Unheard == {[kind |-> "error", cause |-> "deadline"], [kind |-> "error", cause |-> "reset"],
            [kind |-> "status", status |-> 429, type |-> ""], [kind |-> "garbled"]}

Shapes(says) ==
  {Message("end_turn", blocks, says) : blocks \in Blocks}
  \cup {Message(stop, blocks, says) : stop \in Stops, blocks \in {<<>>, <<Text("json")>>, <<Text("prose")>>}}
  \cup {[Message(stop, <<Text("json")>>, says) EXCEPT !.model = FALSE] : stop \in Stops}

Decision(verdict, summary, issues) ==
  [unknown |-> FALSE, verdict |-> verdict, listed |-> TRUE, summary |-> summary, issues |-> issues]

Decisions ==
  {Decision(v, s, i) :
     v \in {"Approve", "approve", "Request Changes", "Reject"},
     s \in {"", "approved", "changes requested"},
     i \in {<<>>, <<"">>, <<"", "invalid_issue_category">>}}
  \cup {[Decision("Approve", "approved", <<>>) EXCEPT !.listed = FALSE],
        [Decision("Approve", "approved", <<>>) EXCEPT !.unknown = TRUE]}

MCAnswers == [
  plan   |-> Unanswered \cup Shapes(Said("site", "about", Plain))
               \cup {Message("end_turn", <<Text("json")>>, i) : i \in Intents},
  plain  |-> Unheard \cup Shapes(Said("site", "about", Plain)),
  review |-> Unheard \cup Shapes(Decision("Approve", "approved", <<>>))
               \cup {Message("end_turn", <<Text("json")>>, d) : d \in Decisions}]

\* Plans written by hand.
Task(role, assignee, deps) == [title |-> "draft", role |-> role, assignee |-> assignee, deps |-> deps]

Sheet(tasks) ==
  [name |-> "site", summary |-> "", roles |-> <<>>, assigned |-> {}, tasks |-> tasks, numbered |-> TRUE]

Deps == {<<>>, <<1>>, <<2>>, <<3>>, <<1, 2>>, <<2, 3>>, <<1, 1>>}

MCWritten ==
  {Sheet([i \in 1 .. 3 |-> Task("Analyst", "nobody", d[i])]) : d \in [1 .. 3 -> Deps]}
  \cup {Sheet(<<Task(r, a, <<>>)>>) : r \in {"", "Writer", "Poet"}, a \in {"nobody", "e1", "e3"}}
  \cup {Sheet(<<>>), [Sheet(<<Task("Writer", "nobody", <<>>)>>) EXCEPT !.numbered = FALSE],
        [Sheet(<<Task("Writer", "nobody", <<>>)>>) EXCEPT !.assigned = {"e3"}],
        Sheet(<<Task("Writer", "nobody", <<4>>)>>)}
=============================================================================
