------------------------- MODULE SupervisorProofs --------------------------
(***************************************************************************)
(* Proofs about Supervisor, for any number of sessions, runtimes, agents   *)
(* and operations.                                                         *)
(*                                                                         *)
(* Custody, in every scope: a session has one holder at a time, because an *)
(* object is put in a map when it is made, or moved there from where it    *)
(* was parked, into a map that is empty until then.                        *)
(*                                                                         *)
(* Order, where operations neither overlap nor are caught by a reload: one *)
(* runtime hosts, and a session has one operation at most, which says what *)
(* its agent and its row are like meanwhile; while nobody hosts, what      *)
(* lives is parked.  A transcript is named by one session only.            *)
(***************************************************************************)
EXTENDS Supervisor, TLAPS

-----------------------------------------------------------------------------
(* Custody: the invariant.                                                 *)

\* Whatever is held has been made, and holds an agent.
Made(o) == o < nextAgent /\ object[o].agent # None
HeldAreMade ==
    /\ \A r \in Runtime, s \in Sessions : live[r][s] # None => Made(live[r][s])
    /\ \A s \in Sessions : /\ stash.of[s] # None => Made(stash.of[s]) /\ stash.by # None
                           /\ dying.of[s] # None => Made(dying.of[s]) /\ dying.by # None

\* A runtime holds nothing before it adopts, and its operations come later.
Early(r) == rt[r].phase \in {"unstarted", "identity"}
EarlyHoldsNothing == \A r \in Runtime, s \in Sessions : Early(r) => live[r][s] = None
OpsAreUnderWay ==
    \A i \in Op : op[i].kind # "free" => op[i].sid \in Sessions /\ ~Early(op[i].rt)

\* An agent that lives has a session, and one that runs, or was asked to, lives.
AgentsAreNamed ==
    \A a \in Agent : /\ agent[a].running => agent[a].state = "alive"
                     /\ agent[a].prompt # "none" => agent[a].state = "alive"
                     /\ agent[a].state = "alive" => agent[a].sid \in Sessions

\* Runtimes start one after the other, when the one before is torn down; sessions are parked
\* for one that has not taken them.
InTurn ==
    /\ \A q, r \in Runtime : q < r /\ rt[r].phase # "unstarted" => rt[q].torn /\ rt[q].phase # "unstarted"
    /\ ParkedIsAwaited

InCustody ==
    /\ TypeOK /\ HeldOnce /\ HeldAreMade /\ EarlyHoldsNothing /\ OpsAreUnderWay /\ AgentsAreNamed /\ InTurn

-----------------------------------------------------------------------------
(* The types of what the steps write.                                      *)

LEMMA EmptyOnesAreTyped ==
    /\ NoAgent \in AgentRecord /\ NoObject \in ObjectRecord /\ NoRow \in Row /\ NoOp \in OpRecord
    /\ Nobody \in [Sessions -> Agent \cup {None}] /\ NoStash \in Stash
<1>1. 1 \in Runtime
  BY RuntimeBound DEF Runtime
<1>2. NoAgent \in AgentRecord
  BY DEF NoAgent, AgentRecord
<1>3. NoObject \in ObjectRecord
  BY DEF NoObject, ObjectRecord
<1>4. NoRow \in Row
  BY DEF NoRow, Row
<1>5. NoOp \in OpRecord
  BY <1>1 DEF NoOp, OpRecord, Kinds
<1>6. Nobody \in [Sessions -> Agent \cup {None}]
  BY DEF Nobody
<1>7. NoStash \in Stash
  BY <1>6 DEF NoStash, Stash
<1> QED
  BY <1>2, <1>3, <1>4, <1>5, <1>6, <1>7

LEMMA RowOfIsTyped ==
    ASSUME InCustody, NEW r \in Runtime, NEW s \in Sessions,
           NEW status \in {"none", "idle", "running", "closed"}
    PROVE  RowOf(r, s, status) \in Row
<1>1. CASE live[r][s] = None
  BY <1>1 DEF RowOf, Row
<1>2. CASE live[r][s] # None
  <2> DEFINE o == live[r][s]
  <2>1. o \in Agent /\ object[o].agent # None
    BY <1>2 DEF InCustody, TypeOK, HeldAreMade, Made
  <2>2. object[o].agent \in Agent
    BY <2>1 DEF InCustody, TypeOK, ObjectRecord
  <2>3. agent[object[o].agent].file \in Transcript \cup {None}
    BY <2>2 DEF InCustody, TypeOK, AgentRecord
  <2> QED
    BY <1>2, <2>3 DEF RowOf, Row
<1> QED
  BY <1>1, <1>2

LEMMA ClosedRowIsTyped ==
    ASSUME NEW row \in Row, NEW status \in {"none", "idle", "running", "closed"}
    PROVE  [row EXCEPT !.status = status] \in Row
BY DEF Row

LEMMA SavedIsTyped ==
    ASSUME TypeOK, NEW r \in Runtime, NEW s \in Sessions, NEW row \in Row, Save(r, s, row)
    PROVE  rows' \in [Runtime -> [Sessions -> Row]] /\ disk' \in [Sessions -> Row]
<1>1. rows[r] \in [Sessions -> Row] /\ rows \in [Runtime -> [Sessions -> Row]]
  BY DEF TypeOK
<1>2. disk' \in [Sessions -> Row]
  BY <1>1 DEF Save
<1>3. [rows[r] EXCEPT ![s] = row] \in [Sessions -> Row]
  BY <1>1
<1>4. rows' = [rows EXCEPT ![r] = [rows[r] EXCEPT ![s] = row]]
  BY DEF Save
<1> QED
  BY <1>1, <1>2, <1>3, <1>4

LEMMA CommandIsTyped ==
    ASSUME TypeOK, NEW kind \in Kinds, NEW at \in {"create", "settle", "stop"},
           NEW r \in Runtime, NEW s \in Sessions
    PROVE  /\ Command(kind, at, r, s) \in OpRecord
           /\ Command(kind, at, r, s).kind = kind /\ Command(kind, at, r, s).at = at
           /\ Command(kind, at, r, s).rt = r /\ Command(kind, at, r, s).sid = s
           /\ Command(kind, at, r, s).obj = live[r][s]
<1>1. live[r][s] \in Agent \cup {None}
  BY DEF TypeOK
<1> QED
  BY <1>1, EmptyOnesAreTyped DEF Command, OpRecord, NoOp

\* An operation that begins is well-formed and the others are as they were.
LEMMA BegunIsTyped ==
    ASSUME TypeOK, NEW rec \in OpRecord, Begins(rec)
    PROVE  /\ op' \in [Op -> OpRecord]
           /\ \A j \in Op : op'[j] = op[j] \/ op'[j] = rec
BY DEF TypeOK, Begins

LEMMA EndedIsTyped ==
    ASSUME TypeOK, NEW i \in Op, Ends(i)
    PROVE  /\ op' \in [Op -> OpRecord]
           /\ \A j \in Op : op'[j] = op[j] \/ op'[j] = NoOp
BY EmptyOnesAreTyped DEF TypeOK, Ends

LEMMA DisposedIsTyped ==
    ASSUME TypeOK, NEW a
    PROVE  /\ Disposed(a, agent) \in [Agent -> AgentRecord]
           /\ \A b \in Agent :
                              /\ Disposed(a, agent)[b].sid = agent[b].sid
                              /\ b # a => Disposed(a, agent)[b] = agent[b]
                              /\ b = a => /\ ~Disposed(a, agent)[b].running
                                         /\ Disposed(a, agent)[b].prompt = "none"
                                         /\ Disposed(a, agent)[b].state = "disposed"
                                         /\ Disposed(a, agent)[b].heardBy = {}
                                         /\ Disposed(a, agent)[b].of = agent[b].of
                                         /\ Disposed(a, agent)[b].file = agent[b].file
<1> DEFINE new == [agent[a] EXCEPT !.state = "disposed", !.running = FALSE, !.prompt = "none",
                                   !.heardBy = {}]
<1>1. Disposed(a, agent) = [agent EXCEPT ![a] = new]
  BY DEF Disposed, TypeOK
<1>2. \A b \in Agent : agent[b] \in AgentRecord
  BY DEF TypeOK
<1>3. a \in Agent => /\ new \in AgentRecord /\ new.sid = agent[a].sid /\ ~new.running
                     /\ new.state = "disposed" /\ new.heardBy = {} /\ new.of = agent[a].of
                     /\ new.prompt = "none"
                     /\ new.file = agent[a].file
  BY <1>2 DEF AgentRecord
<1> HIDE DEF new
<1> QED
  BY <1>1, <1>2, <1>3 DEF TypeOK

LEMMA PromptedIsTyped ==
    ASSUME NEW u \in AgentRecord
    PROVE  /\ Prompted(u) \in AgentRecord
           /\ Prompted(u).sid = u.sid /\ Prompted(u).state = u.state /\ Prompted(u).of = u.of
           /\ Prompted(u).file = u.file /\ Prompted(u).heardBy = u.heardBy
           /\ Prompted(u).running <=> u.running
           /\ Prompted(u).running \/ Prompted(u).prompt = "preparing"
<1>1. CASE u.running
  BY <1>1 DEF Prompted
<1>2. CASE ~u.running
  <2>1. Prompted(u) = [u EXCEPT !.prompt = "preparing"]
    BY <1>2 DEF Prompted
  <2> QED
    BY <1>2, <2>1 DEF AgentRecord
<1> QED
  BY <1>1, <1>2

LEMMA UnheardIsTyped ==
    ASSUME TypeOK, NEW o \in Agent
    PROVE  /\ Unheard(o, agent) \in [Agent -> AgentRecord]
           /\ \A b \in Agent :
                              /\ Unheard(o, agent)[b].sid = agent[b].sid
                              /\ Unheard(o, agent)[b].state = agent[b].state
                              /\ Unheard(o, agent)[b].running = agent[b].running
                              /\ Unheard(o, agent)[b].prompt = agent[b].prompt
                              /\ Unheard(o, agent)[b].file = agent[b].file
                              /\ Unheard(o, agent)[b].of = agent[b].of
                              /\ b # object[o].agent => Unheard(o, agent)[b] = agent[b]
                              /\ (b = object[o].agent /\ object[o].unsub # None) =>
                                    Unheard(o, agent)[b].heardBy = agent[b].heardBy \ {object[o].unsub}
<1> DEFINE a == object[o].agent
           new == [agent[a] EXCEPT !.heardBy = @ \ {object[o].unsub}]
<1>1. CASE object[o].unsub = None
  BY <1>1 DEF Unheard, TypeOK
<1>2. CASE object[o].unsub # None
  <2>1. Unheard(o, agent) = [agent EXCEPT ![a] = new]
    BY <1>2 DEF Unheard, TypeOK
  <2>2. \A b \in Agent : agent[b] \in AgentRecord
    BY DEF TypeOK
  <2>3. a \in Agent => /\ new \in AgentRecord /\ new.sid = agent[a].sid /\ new.state = agent[a].state
                       /\ new.running = agent[a].running /\ new.file = agent[a].file
                       /\ new.prompt = agent[a].prompt
                       /\ new.of = agent[a].of /\ new.heardBy = agent[a].heardBy \ {object[o].unsub}
    BY <2>2 DEF AgentRecord
  <2> HIDE DEF new
  <2> QED
    BY <2>1, <2>2, <2>3 DEF TypeOK
<1> QED
  BY <1>1, <1>2

-----------------------------------------------------------------------------
(* Custody: the steps that move no session.                                *)

LEMMA HoldersKept ==
    ASSUME InCustody, UNCHANGED <<live, stash, dying, rt>>, nextAgent \in Nat, nextAgent' \in Nat,
           nextAgent <= nextAgent',
           \A o \in Agent : object[o].agent # None => object'[o].agent # None
    PROVE  HeldOnce' /\ HeldAreMade' /\ EarlyHoldsNothing' /\ InTurn'
<1>1. HeldOnce'
  BY DEF InCustody, HeldOnce
<1>2. \A o \in Agent : Made(o) => (o < nextAgent' /\ object'[o].agent # None)
  BY DEF Made, Agent
<1>3. /\ \A r \in Runtime, s \in Sessions : live[r][s] \in Agent \cup {None}
      /\ \A s \in Sessions : stash.of[s] \in Agent \cup {None} /\ dying.of[s] \in Agent \cup {None}
  BY DEF InCustody, TypeOK, Stash
<1>4. HeldAreMade'
  BY <1>2, <1>3 DEF InCustody, HeldAreMade, Made
<1>5. EarlyHoldsNothing'
  BY DEF InCustody, EarlyHoldsNothing, Early
<1>6. InTurn'
  BY DEF InCustody, InTurn, ParkedIsAwaited
<1> QED
  BY <1>1, <1>4, <1>5, <1>6

LEMMA NextAgentIsNumber == TypeOK => nextAgent \in Nat
BY AgentBound DEF TypeOK

LEMMA OpsKept ==
    ASSUME InCustody, UNCHANGED rt, NEW rec, \A j \in Op : op'[j] = op[j] \/ op'[j] = rec,
           rec.kind # "free" => rec.sid \in Sessions /\ ~Early(rec.rt)
    PROVE  OpsAreUnderWay'
BY DEF InCustody, OpsAreUnderWay, Early

LEMMA NoOpIsFree == NoOp.kind = "free" /\ NoOp.at = "create" /\ NoOp.sid = None /\ NoOp.obj = None
BY DEF NoOp

\* A command begins.
LEMMA SpawnKeepsCustody ==
    ASSUME InCustody, NEW r \in Runtime, NEW s \in Sessions, Spawn(r, s)
    PROVE  InCustody'
<1> DEFINE c == Command("spawn", "create", r, s)
           rec == [c EXCEPT !.held = TRUE]
<1>0. TypeOK
  BY DEF InCustody
<1>1. c \in OpRecord /\ c.kind = "spawn" /\ c.at = "create" /\ c.rt = r /\ c.sid = s
  BY <1>0, CommandIsTyped DEF Kinds
<1>2. Begins(rec) /\ ~Early(r)
  BY DEF Spawn, Free, Early
<1> HIDE DEF c
<1>3. rec \in OpRecord /\ rec.kind = "spawn" /\ rec.rt = r /\ rec.sid = s
  BY <1>1 DEF OpRecord
<1> HIDE DEF rec
<1>4. op' \in [Op -> OpRecord] /\ \A j \in Op : op'[j] = op[j] \/ op'[j] = rec
  BY <1>0, <1>2, <1>3, BegunIsTyped
<1>5. rows' \in [Runtime -> [Sessions -> Row]] /\ disk' \in [Sessions -> Row]
  <2>1. CASE Save(r, s, NoRow)
    BY <2>1, <1>0, SavedIsTyped, EmptyOnesAreTyped
  <2>2. CASE UNCHANGED <<rows, disk>>
    BY <2>2, <1>0 DEF TypeOK
  <2> QED
    BY <2>1, <2>2 DEF Spawn
<1>6. UNCHANGED <<scope, agent, nextAgent, object, rt, live, stash, dying, cut>>
  BY DEF Spawn
<1>7. TypeOK'
  BY <1>0, <1>4, <1>5, <1>6 DEF TypeOK
<1>8. HeldOnce' /\ HeldAreMade' /\ EarlyHoldsNothing' /\ InTurn'
  BY <1>0, <1>6, HoldersKept, NextAgentIsNumber
<1>9. OpsAreUnderWay'
  BY <1>2, <1>3, <1>4, <1>6, OpsKept
<1>10. AgentsAreNamed'
  BY <1>6 DEF InCustody, AgentsAreNamed
<1> QED
  BY <1>7, <1>8, <1>9, <1>10 DEF InCustody

LEMMA ResumeKeepsCustody ==
    ASSUME InCustody, NEW r \in Runtime, NEW s \in Sessions, Resume(r, s)
    PROVE  InCustody'
<1> DEFINE c == Command("resume", "create", r, s)
           rec == [c EXCEPT !.held = TRUE, !.file = rows[r][s].file]
<1>0. TypeOK
  BY DEF InCustody
<1>1. c \in OpRecord /\ c.kind = "resume" /\ c.at = "create" /\ c.rt = r /\ c.sid = s
  BY <1>0, CommandIsTyped DEF Kinds
<1>2. Begins(rec) /\ ~Early(r)
  BY DEF Resume, Free, Early
<1> HIDE DEF c
<1>3. rows[r][s].file \in Transcript \cup {None}
  BY <1>0 DEF TypeOK, Row
<1>4. rec \in OpRecord /\ rec.kind = "resume" /\ rec.rt = r /\ rec.sid = s
  BY <1>1, <1>3 DEF OpRecord
<1> HIDE DEF rec
<1>5. op' \in [Op -> OpRecord] /\ \A j \in Op : op'[j] = op[j] \/ op'[j] = rec
  BY <1>0, <1>2, <1>4, BegunIsTyped
<1>6. UNCHANGED <<scope, agent, nextAgent, object, rt, live, rows, disk, stash, dying, cut>>
  BY DEF Resume
<1>7. TypeOK'
  BY <1>0, <1>5, <1>6 DEF TypeOK
<1>8. HeldOnce' /\ HeldAreMade' /\ EarlyHoldsNothing' /\ InTurn'
  BY <1>0, <1>6, HoldersKept, NextAgentIsNumber
<1>9. OpsAreUnderWay'
  BY <1>2, <1>4, <1>5, <1>6, OpsKept
<1>10. AgentsAreNamed'
  BY <1>6 DEF InCustody, AgentsAreNamed
<1> QED
  BY <1>7, <1>8, <1>9, <1>10 DEF InCustody

\* A live session's handler is taken off its agent while it is stopped.
LEMMA UnheardKeepsCustody ==
    ASSUME InCustody, NEW r \in Runtime, NEW s \in Sessions, live[r][s] # None, ~Early(r),
           agent' = Unheard(live[r][s], agent), NEW rec \in OpRecord, Begins(rec),
           rec.sid = s, rec.rt = r,
           UNCHANGED <<scope, nextAgent, object, rt, live, rows, disk, stash, dying, cut>>
    PROVE  InCustody'
<1>0. TypeOK
  BY DEF InCustody
<1>1. live[r][s] \in Agent
  BY <1>0 DEF TypeOK
<1>2. /\ agent' \in [Agent -> AgentRecord]
      /\ \A b \in Agent : /\ agent'[b].sid = agent[b].sid /\ agent'[b].state = agent[b].state
                          /\ agent'[b].running = agent[b].running
                          /\ agent'[b].prompt = agent[b].prompt
  <2> DEFINE o == live[r][s]
  <2>1. o \in Agent /\ agent' = Unheard(o, agent)
    BY <1>1
  <2> HIDE DEF o
  <2> QED
    BY <1>0, <2>1, UnheardIsTyped
<1>3. op' \in [Op -> OpRecord] /\ \A j \in Op : op'[j] = op[j] \/ op'[j] = rec
  BY <1>0, BegunIsTyped
<1>4. TypeOK'
  BY <1>0, <1>2, <1>3 DEF TypeOK
<1>5. HeldOnce' /\ HeldAreMade' /\ EarlyHoldsNothing' /\ InTurn'
  BY <1>0, HoldersKept, NextAgentIsNumber
<1>6. OpsAreUnderWay'
  BY <1>3, OpsKept
<1>7. AgentsAreNamed'
  BY <1>2 DEF InCustody, AgentsAreNamed
<1> QED
  BY <1>4, <1>5, <1>6, <1>7 DEF InCustody

LEMMA DespawnKeepsCustody ==
    ASSUME InCustody, NEW r \in Runtime, NEW s \in Sessions, Despawn(r, s)
    PROVE  InCustody'
<1>0. TypeOK
  BY DEF InCustody
<1>1. PICK kind \in {"despawn", "delete"}, held \in BOOLEAN :
        Begins([Command(kind, "stop", r, s) EXCEPT !.held = held])
  BY DEF Despawn
<1> DEFINE c == Command(kind, "stop", r, s)
           rec == [c EXCEPT !.held = held]
<1>2. c \in OpRecord /\ c.rt = r /\ c.sid = s
  BY <1>0, CommandIsTyped DEF Kinds
<1>3. Begins(rec)
  BY <1>1
<1> HIDE DEF c
<1>4. rec \in OpRecord /\ rec.rt = r /\ rec.sid = s
  BY <1>2 DEF OpRecord
<1> HIDE DEF rec
<1> QED
  BY <1>3, <1>4, UnheardKeepsCustody DEF Despawn, Early

LEMMA ClearKeepsCustody ==
    ASSUME InCustody, NEW r \in Runtime, NEW s \in Sessions, Clear(r, s)
    PROVE  InCustody'
<1> DEFINE c == Command("clear", "stop", r, s)
<1>0. TypeOK
  BY DEF InCustody
<1>1. c \in OpRecord /\ c.rt = r /\ c.sid = s
  BY <1>0, CommandIsTyped DEF Kinds
<1>2. Begins(c)
  BY DEF Clear
<1> HIDE DEF c
<1> QED
  BY <1>1, <1>2, UnheardKeepsCustody DEF Clear, Free, Early

LEMMA SetModelKeepsCustody ==
    ASSUME InCustody, NEW r \in Runtime, NEW s \in Sessions, SetModel(r, s)
    PROVE  InCustody'
<1> DEFINE c == Command("model", "settle", r, s)
<1>0. TypeOK
  BY DEF InCustody
<1>1. c \in OpRecord /\ c.rt = r /\ c.sid = s
  BY <1>0, CommandIsTyped DEF Kinds
<1>2. Begins(c) /\ ~Early(r)
  BY DEF SetModel, Free, Early
<1> HIDE DEF c
<1>3. op' \in [Op -> OpRecord] /\ \A j \in Op : op'[j] = op[j] \/ op'[j] = c
  BY <1>0, <1>1, <1>2, BegunIsTyped
<1>4. UNCHANGED <<scope, agent, nextAgent, object, rt, live, rows, disk, stash, dying, cut>>
  BY DEF SetModel
<1>5. TypeOK'
  BY <1>0, <1>3, <1>4 DEF TypeOK
<1>6. HeldOnce' /\ HeldAreMade' /\ EarlyHoldsNothing' /\ InTurn'
  BY <1>0, <1>4, HoldersKept, NextAgentIsNumber
<1>7. OpsAreUnderWay'
  BY <1>1, <1>2, <1>3, <1>4, OpsKept
<1>8. AgentsAreNamed'
  BY <1>4 DEF InCustody, AgentsAreNamed
<1> QED
  BY <1>5, <1>6, <1>7, <1>8 DEF InCustody

\* What a step that moves no session, and no runtime, has to keep.
LEMMA QuietStep ==
    ASSUME InCustody, UNCHANGED <<scope, rt, live, stash, dying>>,
           agent' \in [Agent -> AgentRecord], object' \in [Agent -> ObjectRecord],
           nextAgent' \in 1 .. (MaxAgents + 1), nextAgent <= nextAgent',
           rows' \in [Runtime -> [Sessions -> Row]], disk' \in [Sessions -> Row],
           op' \in [Op -> OpRecord], cut' \in SUBSET Sessions,
           \A o \in Agent : object[o].agent # None => object'[o].agent # None,
           OpsAreUnderWay', AgentsAreNamed'
    PROVE  InCustody'
<1>1. TypeOK'
  BY DEF InCustody, TypeOK
<1>2. nextAgent \in Nat /\ nextAgent' \in Nat
  BY NextAgentIsNumber, AgentBound DEF InCustody
<1>3. HeldOnce' /\ HeldAreMade' /\ EarlyHoldsNothing' /\ InTurn'
  BY <1>2, HoldersKept
<1> QED
  BY <1>1, <1>3 DEF InCustody

LEMMA NextAgentIsNotLess == TypeOK => nextAgent <= nextAgent
BY NextAgentIsNumber

LEMMA OpIsSomewhere ==
    ASSUME InCustody, NEW i \in Op, op[i].kind # "free"
    PROVE  op[i].rt \in Runtime /\ op[i].sid \in Sessions /\ ~Early(op[i].rt)
           /\ op[i].obj \in Agent \cup {None}
BY DEF InCustody, OpsAreUnderWay, TypeOK, OpRecord

\* An operation that ends leaves the others under way.
LEMMA OpsKeptAtTheEnd ==
    ASSUME InCustody, NEW i \in Op, Ends(i), UNCHANGED rt
    PROVE  op' \in [Op -> OpRecord] /\ OpsAreUnderWay'
<1>0. TypeOK
  BY DEF InCustody
<1>1. op' \in [Op -> OpRecord] /\ \A j \in Op : op'[j] = op[j] \/ op'[j] = NoOp
  BY <1>0, EndedIsTyped
<1> QED
  BY <1>1, OpsKept, NoOpIsFree

LEMMA CloseRowKeepsCustody ==
    ASSUME InCustody, NEW r \in Runtime, NEW s \in Sessions, CloseRow(r, s)
    PROVE  InCustody'
<1>0. TypeOK
  BY DEF InCustody
<1>1. PICK row \in {NoRow, [rows[r][s] EXCEPT !.status = "closed"]} : Save(r, s, row)
  BY DEF CloseRow
<1>2. rows[r][s] \in Row
  BY <1>0 DEF TypeOK
<1>3. row \in Row
  BY <1>2, ClosedRowIsTyped, EmptyOnesAreTyped
<1>4. rows' \in [Runtime -> [Sessions -> Row]] /\ disk' \in [Sessions -> Row]
  BY <1>0, <1>1, <1>3, SavedIsTyped
<1>5. UNCHANGED <<scope, agent, nextAgent, object, rt, live, stash, dying, op, cut>>
  BY DEF CloseRow
<1>6. OpsAreUnderWay' /\ AgentsAreNamed'
  BY <1>5 DEF InCustody, OpsAreUnderWay, AgentsAreNamed, Early
<1>7. nextAgent <= nextAgent'
  BY <1>0, <1>5, NextAgentIsNumber
<1> QED
  BY <1>0, <1>4, <1>5, <1>6, <1>7, QuietStep DEF TypeOK

LEMMA SettledKeepsCustody ==
    ASSUME InCustody, NEW i \in Op, Settled(i)
    PROVE  InCustody'
<1> DEFINE r == op[i].rt
           s == op[i].sid
           o == op[i].obj
           a == object[o].agent
           nudged == op[i].nudge /\ rt[r].phase # "dead" /\ live[r][s] = o
           wired == [object[o] EXCEPT !.submits = TRUE, !.unsub = r, !.working = @ \/ nudged]
           hears == [agent[a] EXCEPT !.heardBy = @ \cup {r}]
           told == IF nudged THEN Prompted(hears) ELSE hears
<1>0. TypeOK
  BY DEF InCustody
<1>1. r \in Runtime /\ s \in Sessions
  BY OpIsSomewhere DEF Settled
<1>2. nudged \in BOOLEAN
  OBVIOUS
<1>3. object' = [object EXCEPT ![o] = wired]
  BY <1>0 DEF Settled, Wired, TypeOK
<1>4. agent' = agent \/ (Alive(a) /\ agent' = [agent EXCEPT ![a] = told])
  BY <1>0 DEF Settled, Heard, TypeOK
<1>5. Save(r, s, RowOf(r, s, "idle")) /\ Ends(i)
  BY DEF Settled
<1>6. /\ UNCHANGED <<scope, nextAgent, rt, live, stash, dying>>
      /\ cut' \in SUBSET Sessions
  BY <1>0 DEF Settled, TypeOK
<1> HIDE DEF nudged, r, s
<1>7. o \in Agent => wired \in ObjectRecord /\ wired.agent = object[o].agent
  BY <1>0, <1>1, <1>2 DEF TypeOK, ObjectRecord
<1>8. a \in Agent => told \in AgentRecord /\ told.sid = agent[a].sid /\ told.state = agent[a].state
  <2>1. a \in Agent => hears \in AgentRecord /\ hears.sid = agent[a].sid /\ hears.state = agent[a].state
    <3> SUFFICES ASSUME a \in Agent
                 PROVE  hears \in AgentRecord /\ hears.sid = agent[a].sid /\ hears.state = agent[a].state
      OBVIOUS
    <3>1. agent[a] \in AgentRecord
      BY <1>0 DEF TypeOK
    <3> QED
      BY <1>1, <3>1 DEF AgentRecord
  <2> HIDE DEF hears
  <2> QED
    BY <2>1, PromptedIsTyped
<1> HIDE DEF wired, told
<1>9. object' \in [Agent -> ObjectRecord] /\ \A x \in Agent : object'[x].agent = object[x].agent
  BY <1>0, <1>3, <1>7 DEF TypeOK
<1>10. agent' \in [Agent -> AgentRecord] /\ AgentsAreNamed'
  <2>1. CASE agent' = agent
    BY <2>1, <1>0 DEF InCustody, AgentsAreNamed, TypeOK
  <2>2. CASE Alive(a) /\ agent' = [agent EXCEPT ![a] = told]
    <3>1. agent' \in [Agent -> AgentRecord]
      BY <2>2, <1>0, <1>8 DEF TypeOK
    <3>2. \A b \in Agent : agent'[b] = agent[b] \/ (b = a /\ agent'[b] = told)
      BY <2>2, <1>0 DEF TypeOK
    <3>3. AgentsAreNamed'
      BY <2>2, <3>2, <1>8 DEF InCustody, AgentsAreNamed, Alive
    <3> QED
      BY <3>1, <3>3
  <2> QED
    BY <1>4, <2>1, <2>2
<1>11. RowOf(r, s, "idle") \in Row
  BY <1>1, RowOfIsTyped
<1>12. rows' \in [Runtime -> [Sessions -> Row]] /\ disk' \in [Sessions -> Row]
  BY <1>0, <1>1, <1>5, <1>11, SavedIsTyped
<1>13. op' \in [Op -> OpRecord] /\ OpsAreUnderWay'
  BY <1>5, <1>6, OpsKeptAtTheEnd
<1>14. nextAgent' \in 1 .. (MaxAgents + 1) /\ nextAgent <= nextAgent'
  BY <1>0, <1>6, NextAgentIsNumber DEF TypeOK
<1> QED
  BY <1>6, <1>9, <1>10, <1>12, <1>13, <1>14, QuietStep

LEMMA ClearStoppedKeepsCustody ==
    ASSUME InCustody, NEW i \in Op, ClearStopped(i)
    PROVE  InCustody'
<1> DEFINE a == object[op[i].obj].agent
           rec == [op[i] EXCEPT !.at = "create"]
<1>0. TypeOK
  BY DEF InCustody
<1>1. UNCHANGED <<scope, nextAgent, object, rt, live, rows, disk, stash, dying, cut>>
  BY DEF ClearStopped
<1>2. agent' = Disposed(a, agent)
  BY DEF ClearStopped
<1>3. op' = [op EXCEPT ![i] = rec]
  BY <1>0 DEF ClearStopped, TypeOK
<1>4. rec \in OpRecord /\ rec.sid = op[i].sid /\ rec.rt = op[i].rt
  BY <1>0 DEF TypeOK, OpRecord
<1>5. rec.sid \in Sessions /\ ~Early(rec.rt)
  BY <1>4, OpIsSomewhere DEF ClearStopped
<1> HIDE DEF rec, a
<1>6. op' \in [Op -> OpRecord] /\ \A j \in Op : op'[j] = op[j] \/ op'[j] = rec
  BY <1>0, <1>3, <1>4 DEF TypeOK
<1>7. OpsAreUnderWay'
  BY <1>1, <1>5, <1>6, OpsKept
<1>8. /\ agent' \in [Agent -> AgentRecord]
      /\ \A b \in Agent : \/ agent'[b] = agent[b]
                          \/ ~agent'[b].running /\ agent'[b].prompt = "none" /\ agent'[b].state = "disposed"
  BY <1>0, <1>2, DisposedIsTyped
<1>9. AgentsAreNamed'
  BY <1>8 DEF InCustody, AgentsAreNamed
<1>10. nextAgent <= nextAgent'
  BY <1>0, <1>1, NextAgentIsNumber
<1> QED
  BY <1>0, <1>1, <1>6, <1>7, <1>8, <1>9, <1>10, QuietStep DEF TypeOK

LEMMA ScopeBoundsAgents ==
    ASSUME TypeOK, nextAgent <= scope.agents
    PROVE  /\ nextAgent \in Agent /\ nextAgent + 1 \in 1 .. (MaxAgents + 1)
           /\ nextAgent <= nextAgent + 1
<1>1. scope.agents \in 1 .. MaxAgents
  BY ScopeBound DEF TypeOK
<1>2. nextAgent \in 1 .. (MaxAgents + 1)
  BY DEF TypeOK
<1> QED
  BY <1>1, <1>2, AgentBound DEF Agent

LEMMA ClearedKeepsCustody ==
    ASSUME InCustody, NEW i \in Op, Cleared(i)
    PROVE  InCustody'
<1> DEFINE r == op[i].rt
           s == op[i].sid
           o == op[i].obj
           a == nextAgent
           born == [Born(a, s, o) EXCEPT !.heardBy = {r}]
           wired == [object[o] EXCEPT !.submits = TRUE, !.unsub = r, !.agent = a, !.working = FALSE]
           row == IF live[r][s] = o THEN [status |-> "idle", file |-> a] ELSE RowOf(r, s, "idle")
<1>0. TypeOK
  BY DEF InCustody
<1>1. r \in Runtime /\ s \in Sessions /\ o \in Agent \cup {None}
  BY OpIsSomewhere DEF Cleared
<1>2. a \in Agent /\ nextAgent' \in 1 .. (MaxAgents + 1) /\ nextAgent <= nextAgent'
  BY <1>0, ScopeBoundsAgents DEF Cleared
<1>3. UNCHANGED <<scope, rt, live, stash, dying, cut>> /\ Save(r, s, row) /\ Ends(i)
  BY DEF Cleared
<1>4. object' = [object EXCEPT ![o] = wired]
  BY <1>0 DEF Cleared, Wired, TypeOK
<1>5. agent' = [agent EXCEPT ![a] = born]
  BY <1>0, <1>2 DEF Cleared, Heard, Born, TypeOK
<1>6. o \in Agent => wired \in ObjectRecord /\ wired.agent = a
  BY <1>0, <1>1, <1>2 DEF TypeOK, ObjectRecord
<1>7. born \in AgentRecord /\ born.sid = s /\ born.state = "alive"
  BY <1>1, <1>2 DEF Born, AgentRecord, Transcript
<1>8. row \in Row
  <2>1. [status |-> "idle", file |-> a] \in Row
    BY <1>2 DEF Row, Transcript
  <2>2. RowOf(r, s, "idle") \in Row
    BY <1>1, RowOfIsTyped
  <2> QED
    BY <2>1, <2>2
<1> HIDE DEF born, wired, row
<1>9. object' \in [Agent -> ObjectRecord] /\ \A x \in Agent : object'[x] = object[x] \/ object'[x].agent = a
  BY <1>0, <1>4, <1>6 DEF TypeOK
<1>10. a # None
  BY <1>2, TranscriptsApart
<1>11. \A x \in Agent : object[x].agent # None => object'[x].agent # None
  BY <1>9, <1>10
<1>12. agent' \in [Agent -> AgentRecord] /\ \A b \in Agent : agent'[b] = agent[b] \/ agent'[b] = born
  BY <1>0, <1>5, <1>7 DEF TypeOK
<1>13. AgentsAreNamed'
  BY <1>12, <1>7, <1>1 DEF InCustody, AgentsAreNamed
<1>14. rows' \in [Runtime -> [Sessions -> Row]] /\ disk' \in [Sessions -> Row]
  BY <1>0, <1>1, <1>3, <1>8, SavedIsTyped
<1>15. op' \in [Op -> OpRecord] /\ OpsAreUnderWay'
  BY <1>3, OpsKeptAtTheEnd
<1>16. cut' \in SUBSET Sessions
  BY <1>0, <1>3 DEF TypeOK
<1> QED
  BY <1>2, <1>3, <1>9, <1>11, <1>12, <1>13, <1>14, <1>15, <1>16, QuietStep

LEMMA CreateFailsKeepsCustody ==
    ASSUME InCustody, NEW i \in Op, CreateFails(i)
    PROVE  InCustody'
<1>0. TypeOK
  BY DEF InCustody
<1>1. UNCHANGED <<scope, agent, nextAgent, object, rt, live, rows, disk, stash, dying, cut>> /\ Ends(i)
  BY DEF CreateFails
<1>2. op' \in [Op -> OpRecord] /\ OpsAreUnderWay'
  BY <1>1, OpsKeptAtTheEnd
<1>3. nextAgent <= nextAgent' /\ AgentsAreNamed'
  BY <1>0, <1>1, NextAgentIsNumber DEF InCustody, AgentsAreNamed
<1> QED
  BY <1>0, <1>1, <1>2, <1>3, QuietStep DEF TypeOK

LEMMA ModelSetKeepsCustody ==
    ASSUME InCustody, NEW i \in Op, ModelSet(i)
    PROVE  InCustody'
<1> DEFINE r == op[i].rt
           s == op[i].sid
           row == RowOf(r, s, StatusOf(r, s))
<1>0. TypeOK
  BY DEF InCustody
<1>1. UNCHANGED <<scope, agent, nextAgent, object, rt, live, stash, dying, cut>> /\ Ends(i)
      /\ Save(r, s, row)
  BY DEF ModelSet
<1>2. op' \in [Op -> OpRecord] /\ OpsAreUnderWay'
  BY <1>1, OpsKeptAtTheEnd
<1>3. nextAgent <= nextAgent' /\ AgentsAreNamed'
  BY <1>0, <1>1, NextAgentIsNumber DEF InCustody, AgentsAreNamed
<1>4. r \in Runtime /\ s \in Sessions
  BY OpIsSomewhere DEF ModelSet
<1>5. StatusOf(r, s) \in {"none", "idle", "running", "closed"}
  BY DEF StatusOf
<1>6. row \in Row
  BY <1>4, <1>5, RowOfIsTyped
<1>7. rows' \in [Runtime -> [Sessions -> Row]] /\ disk' \in [Sessions -> Row]
  BY <1>0, <1>1, <1>4, <1>6, SavedIsTyped
<1> QED
  BY <1>0, <1>1, <1>2, <1>3, <1>7, QuietStep DEF TypeOK

LEMMA MessageKeepsCustody ==
    ASSUME InCustody, NEW r \in Runtime, NEW s \in Sessions, Message(r, s)
    PROVE  InCustody'
<1> DEFINE o == live[r][s]
           a == object[o].agent
           new == [object[o] EXCEPT !.working = TRUE]
           told == Prompted(agent[a])
<1>0. TypeOK
  BY DEF InCustody
<1>1. UNCHANGED <<scope, nextAgent, rt, live, rows, disk, stash, dying, op, cut>>
  BY DEF Message
<1>2. object' = [object EXCEPT ![o] = new]
  BY <1>0 DEF Message, TypeOK
<1>3. agent' = agent \/ (Alive(a) /\ agent' = [agent EXCEPT ![a] = told])
  BY <1>0 DEF Message, TypeOK
<1>4. o \in Agent => new \in ObjectRecord /\ new.agent = object[o].agent
  BY <1>0 DEF TypeOK, ObjectRecord
<1>5. a \in Agent => told \in AgentRecord /\ told.sid = agent[a].sid /\ told.state = agent[a].state
  BY <1>0, PromptedIsTyped DEF TypeOK
<1> HIDE DEF new, told
<1>6. object' \in [Agent -> ObjectRecord] /\ \A x \in Agent : object'[x].agent = object[x].agent
  BY <1>0, <1>2, <1>4 DEF TypeOK
<1>7. agent' \in [Agent -> AgentRecord] /\ AgentsAreNamed'
  <2>1. CASE agent' = agent
    BY <2>1, <1>0 DEF InCustody, AgentsAreNamed, TypeOK
  <2>2. CASE Alive(a) /\ agent' = [agent EXCEPT ![a] = told]
    <3>1. agent' \in [Agent -> AgentRecord]
      BY <2>2, <1>0, <1>5 DEF TypeOK
    <3>2. \A b \in Agent : agent'[b] = agent[b] \/ (b = a /\ agent'[b] = told)
      BY <2>2, <1>0 DEF TypeOK
    <3>3. AgentsAreNamed'
      BY <2>2, <3>2, <1>5 DEF InCustody, AgentsAreNamed, Alive
    <3> QED
      BY <3>1, <3>3
  <2> QED
    BY <1>3, <2>1, <2>2
<1>8. nextAgent <= nextAgent' /\ OpsAreUnderWay'
  BY <1>0, <1>1, NextAgentIsNumber DEF InCustody, OpsAreUnderWay, Early
<1> QED
  BY <1>0, <1>1, <1>6, <1>7, <1>8, QuietStep DEF TypeOK

\* The two ways in which preparing ends change the agent, and its object's status.
LEMMA PreparedKeepsCustody ==
    ASSUME InCustody, NEW a \in Agent, TurnBegins(a) \/ PromptRefused(a)
    PROVE  InCustody'
<1> DEFINE o == agent[a].of
           begun == [agent[a] EXCEPT !.running = TRUE, !.prompt = "none"]
           refused == [agent[a] EXCEPT !.prompt = "refused"]
           busy == [object[o] EXCEPT !.working = TRUE]
<1>0. TypeOK /\ agent[a].state = "alive"
  BY DEF InCustody, AgentsAreNamed, TurnBegins, PromptRefused
<1>1. UNCHANGED <<scope, nextAgent, rt, live, rows, disk, stash, dying, op, cut>>
  BY DEF TurnBegins, PromptRefused
<1>2. agent' = [agent EXCEPT ![a] = begun] \/ agent' = [agent EXCEPT ![a] = refused]
  BY <1>0 DEF TurnBegins, PromptRefused, TypeOK
<1>3. /\ begun \in AgentRecord /\ begun.sid = agent[a].sid /\ begun.state = agent[a].state
      /\ refused \in AgentRecord /\ refused.sid = agent[a].sid /\ refused.state = agent[a].state
  BY <1>0 DEF TypeOK, AgentRecord
<1>4. object' = object \/ object' = [object EXCEPT ![o] = busy]
  BY <1>0 DEF TurnBegins, PromptRefused, TypeOK
<1>5. o \in Agent => busy \in ObjectRecord /\ busy.agent = object[o].agent
  BY <1>0 DEF TypeOK, ObjectRecord
<1> HIDE DEF begun, refused, busy
<1>6. /\ agent' \in [Agent -> AgentRecord]
      /\ \A b \in Agent : agent'[b] = agent[b] \/ (b = a /\ agent'[b] \in {begun, refused})
  BY <1>0, <1>2, <1>3 DEF TypeOK
<1>7. AgentsAreNamed'
  BY <1>0, <1>3, <1>6 DEF InCustody, AgentsAreNamed
<1>8. object' \in [Agent -> ObjectRecord] /\ \A x \in Agent : object'[x].agent = object[x].agent
  BY <1>0, <1>4, <1>5 DEF TypeOK
<1>9. nextAgent <= nextAgent' /\ OpsAreUnderWay'
  BY <1>0, <1>1, NextAgentIsNumber DEF InCustody, OpsAreUnderWay, Early
<1> QED
  BY <1>0, <1>1, <1>6, <1>7, <1>8, <1>9, QuietStep DEF TypeOK

LEMMA TurnEndsKeepsCustody ==
    ASSUME InCustody, NEW a \in Agent, TurnEnds(a)
    PROVE  InCustody'
<1> DEFINE s == agent[a].sid
           hears == agent[a].heardBy
           o == agent[a].of
           quiet == [agent[a] EXCEPT !.running = FALSE]
           rest == [object[o] EXCEPT !.working = FALSE]
<1>0. TypeOK
  BY DEF InCustody
<1>1. UNCHANGED <<scope, nextAgent, rt, live, stash, dying, op, cut>>
  BY DEF TurnEnds
<1>2. s \in Sessions
  BY DEF TurnEnds, InCustody, AgentsAreNamed
<1>3. agent' = [agent EXCEPT ![a] = quiet]
  BY <1>0 DEF TurnEnds, TypeOK
<1>4. quiet \in AgentRecord /\ ~quiet.running /\ quiet.sid = agent[a].sid /\ quiet.state = agent[a].state
      /\ agent[a].state = "alive"
  BY <1>0 DEF TypeOK, AgentRecord, InCustody, AgentsAreNamed, TurnEnds
<1>5. object' = object \/ object' = [object EXCEPT ![o] = rest]
  BY <1>0 DEF TurnEnds, TypeOK
<1>6. o \in Agent => rest \in ObjectRecord /\ rest.agent = object[o].agent
  BY <1>0 DEF TypeOK, ObjectRecord
<1> HIDE DEF quiet, rest
<1>7. agent' \in [Agent -> AgentRecord] /\ \A b \in Agent : agent'[b] = agent[b] \/ (b = a /\ agent'[b] = quiet)
  BY <1>0, <1>3, <1>4 DEF TypeOK
<1>8. AgentsAreNamed'
  BY <1>4, <1>7 DEF InCustody, AgentsAreNamed
<1>9. object' \in [Agent -> ObjectRecord] /\ \A x \in Agent : object'[x].agent = object[x].agent
  BY <1>0, <1>5, <1>6 DEF TypeOK
<1>10. rows' \in [Runtime -> [Sessions -> Row]]
  <2>1. \A r \in Runtime : RowOf(r, s, "idle") \in Row
    BY <1>2, RowOfIsTyped
  <2>2. \A r \in Runtime : rows[r] \in [Sessions -> Row]
    BY <1>0 DEF TypeOK
  <2>3. \A r \in Runtime : [rows[r] EXCEPT ![s] = RowOf(r, s, "idle")] \in [Sessions -> Row]
    BY <2>1, <2>2
  <2>4. rows' = [r \in Runtime |-> IF r \in hears THEN [rows[r] EXCEPT ![s] = RowOf(r, s, "idle")]
                                   ELSE rows[r]]
    BY DEF TurnEnds
  <2> QED
    BY <2>2, <2>3, <2>4
<1>11. disk' \in [Sessions -> Row]
  <2>1. hears \subseteq Runtime
    BY <1>0 DEF TypeOK, AgentRecord
  <2>2. disk' = disk \/ \E last \in hears : disk' = rows'[last]
    BY DEF TurnEnds
  <2> QED
    BY <1>0, <1>10, <2>1, <2>2 DEF TypeOK
<1>12. nextAgent <= nextAgent' /\ OpsAreUnderWay'
  BY <1>0, <1>1, NextAgentIsNumber DEF InCustody, OpsAreUnderWay, Early
<1> QED
  BY <1>0, <1>1, <1>7, <1>8, <1>9, <1>10, <1>11, <1>12, QuietStep DEF TypeOK

-----------------------------------------------------------------------------
(* Custody: the steps that move a session.                                 *)

LEMMA CreatedKeepsCustody ==
    ASSUME InCustody, NEW i \in Op, Created(i)
    PROVE  InCustody'
<1> DEFINE r == op[i].rt
           s == op[i].sid
           a == nextAgent
           file == IF op[i].kind = "spawn" THEN a ELSE op[i].file
           born == Born(file, s, a)
           new == [NoObject EXCEPT !.agent = a]
           rec == [op[i] EXCEPT !.at = "settle", !.obj = a]
<1>0. TypeOK
  BY DEF InCustody
<1>1. r \in Runtime /\ s \in Sessions /\ ~Early(r)
  BY OpIsSomewhere DEF Created
<1>2. a \in Agent /\ nextAgent' \in 1 .. (MaxAgents + 1) /\ nextAgent' = a + 1 /\ a \in Nat
  BY <1>0, ScopeBoundsAgents, NextAgentIsNumber DEF Created
<1>3. a # None
  BY <1>2, TranscriptsApart
<1>4. UNCHANGED <<scope, rt, rows, disk, stash, dying, cut>>
  BY DEF Created
<1>5. file \in Transcript \cup {None}
  BY <1>0, <1>2 DEF TypeOK, OpRecord, Transcript
<1>6. agent' = [agent EXCEPT ![a] = born]
  BY DEF Created
<1>7. born \in AgentRecord /\ born.sid = s /\ born.state = "alive"
  BY <1>1, <1>2, <1>5 DEF Born, AgentRecord
<1>8. object' = [object EXCEPT ![a] = new]
  BY DEF Created
<1>9. new \in ObjectRecord /\ new.agent = a
  BY <1>2 DEF NoObject, ObjectRecord
<1>10. op' = [op EXCEPT ![i] = rec]
  BY <1>0 DEF Created, TypeOK
<1>11. rec \in OpRecord /\ rec.sid = s /\ rec.rt = r
  BY <1>0, <1>2 DEF TypeOK, OpRecord
<1> HIDE DEF born, new, rec
<1>12. live[r] \in [Sessions -> Agent \cup {None}] /\ live \in [Runtime -> [Sessions -> Agent \cup {None}]]
  BY <1>0, <1>1 DEF TypeOK
<1>13. live' = [live EXCEPT ![r] = [live[r] EXCEPT ![s] = a]]
  BY <1>12 DEF Created
<1>14. [live[r] EXCEPT ![s] = a] \in [Sessions -> Agent \cup {None}]
  BY <1>2, <1>12
<1>15. live' \in [Runtime -> [Sessions -> Agent \cup {None}]]
  BY <1>12, <1>13, <1>14
<1>16. \A q \in Runtime, t \in Sessions :
          /\ (q = r /\ t = s) => live'[q][t] = a
          /\ ~(q = r /\ t = s) => live'[q][t] = live[q][t]
  BY <1>1, <1>12, <1>13
<1>17. \A q \in Runtime, t \in Sessions : live[q][t] # a
  BY <1>2, <1>3, <1>0 DEF InCustody, HeldAreMade, Made, TypeOK
<1>18. \A t \in Sessions : stash.of[t] # a /\ dying.of[t] # a
  BY <1>2, <1>3, <1>0 DEF InCustody, HeldAreMade, Made, TypeOK, Stash
<1>19. object' \in [Agent -> ObjectRecord]
       /\ \A x \in Agent : object[x].agent # None \/ x = a => object'[x].agent # None
  BY <1>0, <1>3, <1>8, <1>9 DEF TypeOK
<1>20. agent' \in [Agent -> AgentRecord] /\ \A b \in Agent : agent'[b] = agent[b] \/ agent'[b] = born
  BY <1>0, <1>6, <1>7 DEF TypeOK
<1>21. op' \in [Op -> OpRecord] /\ \A j \in Op : op'[j] = op[j] \/ op'[j] = rec
  BY <1>0, <1>10, <1>11 DEF TypeOK
<1>22. TypeOK'
  BY <1>0, <1>2, <1>4, <1>15, <1>19, <1>20, <1>21 DEF TypeOK
<1>23. HeldOnce'
  <2>1. \A q, p \in Runtime, t, u \in Sessions :
           live'[q][t] # None /\ live'[q][t] = live'[p][u] => q = p /\ t = u
    BY <1>16, <1>17 DEF InCustody, HeldOnce
  <2>2. \A q \in Runtime, t, u \in Sessions :
           live'[q][t] # None => live'[q][t] \notin {stash.of[u], dying.of[u]}
    BY <1>16, <1>18 DEF InCustody, HeldOnce
  <2> QED
    BY <1>4, <2>1, <2>2 DEF InCustody, HeldOnce
<1>24. HeldAreMade'
  <2>1. \A x \in Agent : Made(x) \/ x = a => (x < nextAgent' /\ object'[x].agent # None)
    BY <1>2, <1>19 DEF Made, Agent
  <2>2. /\ \A q \in Runtime, t \in Sessions : live[q][t] \in Agent \cup {None}
        /\ \A t \in Sessions : stash.of[t] \in Agent \cup {None} /\ dying.of[t] \in Agent \cup {None}
    BY <1>0 DEF TypeOK, Stash
  <2>3. \A q \in Runtime, t \in Sessions :
           live'[q][t] # None => (live'[q][t] < nextAgent' /\ object'[live'[q][t]].agent # None)
    BY <2>1, <2>2, <1>2, <1>16 DEF InCustody, HeldAreMade
  <2>4. \A t \in Sessions :
           /\ stash.of[t] # None => stash.by # None /\ stash.of[t] < nextAgent' /\ object'[stash.of[t]].agent # None
           /\ dying.of[t] # None => dying.by # None /\ dying.of[t] < nextAgent' /\ object'[dying.of[t]].agent # None
    BY <2>1, <2>2 DEF InCustody, HeldAreMade
  <2> QED
    BY <1>4, <2>3, <2>4 DEF HeldAreMade, Made
<1>25. EarlyHoldsNothing'
  BY <1>1, <1>4, <1>16 DEF InCustody, EarlyHoldsNothing, Early
<1>26. OpsAreUnderWay'
  BY <1>1, <1>4, <1>11, <1>21, OpsKept
<1>27. AgentsAreNamed'
  BY <1>1, <1>7, <1>20 DEF InCustody, AgentsAreNamed
<1>28. InTurn'
  BY <1>4 DEF InCustody, InTurn, ParkedIsAwaited
<1> QED
  BY <1>22, <1>23, <1>24, <1>25, <1>26, <1>27, <1>28 DEF InCustody

\* A map that only loses sessions holds each of them once.
LEMMA FewerHeld ==
    ASSUME InCustody, live' \in [Runtime -> [Sessions -> Agent \cup {None}]],
           \A r \in Runtime, s \in Sessions : live'[r][s] = live[r][s] \/ live'[r][s] = None,
           UNCHANGED <<stash, dying, object, nextAgent, rt>>
    PROVE  HeldOnce' /\ HeldAreMade' /\ EarlyHoldsNothing' /\ InTurn'
<1>1. HeldOnce'
  BY DEF InCustody, HeldOnce
<1>2. HeldAreMade'
  BY DEF InCustody, HeldAreMade, Made
<1>3. EarlyHoldsNothing'
  BY DEF InCustody, EarlyHoldsNothing, Early
<1>4. InTurn'
  BY DEF InCustody, InTurn, ParkedIsAwaited
<1> QED
  BY <1>1, <1>2, <1>3, <1>4

LEMMA DespawnedKeepsCustody ==
    ASSUME InCustody, NEW i \in Op, Despawned(i)
    PROVE  InCustody'
<1> DEFINE r == op[i].rt
           s == op[i].sid
           a == object[op[i].obj].agent
           row == IF op[i].kind = "delete" THEN NoRow ELSE [rows[r][s] EXCEPT !.status = "closed"]
<1>0. TypeOK
  BY DEF InCustody
<1>1. r \in Runtime /\ s \in Sessions
  BY OpIsSomewhere DEF Despawned
<1>2. UNCHANGED <<scope, nextAgent, object, rt, stash, dying, cut>> /\ Ends(i)
  BY DEF Despawned
<1>3. agent' = Disposed(a, agent)
  BY DEF Despawned
<1>4. UNCHANGED <<rows, disk>> \/ Save(r, s, row)
  BY DEF Despawned
<1>5. rows[r][s] \in Row
  BY <1>0, <1>1 DEF TypeOK
<1>6. row \in Row
  BY <1>5, ClosedRowIsTyped, EmptyOnesAreTyped
<1> HIDE DEF a, row
<1>7. rows' \in [Runtime -> [Sessions -> Row]] /\ disk' \in [Sessions -> Row]
  <2>1. CASE Save(r, s, row)
    BY <2>1, <1>0, <1>1, <1>6, SavedIsTyped
  <2>2. CASE UNCHANGED <<rows, disk>>
    BY <2>2, <1>0 DEF TypeOK
  <2> QED
    BY <1>4, <2>1, <2>2
<1>8. /\ agent' \in [Agent -> AgentRecord]
      /\ \A b \in Agent : \/ agent'[b] = agent[b]
                          \/ ~agent'[b].running /\ agent'[b].prompt = "none" /\ agent'[b].state = "disposed"
  BY <1>0, <1>3, DisposedIsTyped
<1>9. AgentsAreNamed'
  BY <1>8 DEF InCustody, AgentsAreNamed
<1>10. live[r] \in [Sessions -> Agent \cup {None}] /\ live \in [Runtime -> [Sessions -> Agent \cup {None}]]
  BY <1>0, <1>1 DEF TypeOK
<1>11. live' = [live EXCEPT ![r] = [live[r] EXCEPT ![s] = None]]
  BY <1>10 DEF Despawned
<1>12. [live[r] EXCEPT ![s] = None] \in [Sessions -> Agent \cup {None}]
  BY <1>10
<1>13. /\ live' \in [Runtime -> [Sessions -> Agent \cup {None}]]
       /\ \A q \in Runtime, t \in Sessions : live'[q][t] = live[q][t] \/ live'[q][t] = None
  BY <1>10, <1>11, <1>12
<1>14. HeldOnce' /\ HeldAreMade' /\ EarlyHoldsNothing' /\ InTurn'
  BY <1>2, <1>13, FewerHeld
<1>15. op' \in [Op -> OpRecord] /\ OpsAreUnderWay'
  BY <1>2, OpsKeptAtTheEnd
<1>16. TypeOK'
  BY <1>0, <1>2, <1>7, <1>8, <1>13, <1>15 DEF TypeOK
<1> QED
  BY <1>9, <1>14, <1>15, <1>16 DEF InCustody

\* A bootstrap goes on.
LEMMA StartKeepsCustody ==
    ASSUME InCustody, NEW r \in Runtime, Start(r)
    PROVE  InCustody'
<1> DEFINE new == [rt[r] EXCEPT !.phase = "identity"]
<1>0. TypeOK
  BY DEF InCustody
<1>1. UNCHANGED <<scope, agent, nextAgent, object, live, rows, disk, stash, dying, op, cut>>
  BY DEF Start
<1>2. rt' = [rt EXCEPT ![r] = new]
  BY <1>0 DEF Start, TypeOK
<1>3. new \in RuntimeRecord /\ new.phase = "identity" /\ new.torn = rt[r].torn
  BY <1>0 DEF TypeOK, RuntimeRecord, Phases
<1> HIDE DEF new
<1>4. /\ rt' \in [Runtime -> RuntimeRecord]
      /\ \A q \in Runtime : rt'[q] = IF q = r THEN new ELSE rt[q]
  BY <1>0, <1>2, <1>3 DEF TypeOK
<1>5. TypeOK'
  BY <1>0, <1>1, <1>4 DEF TypeOK
<1>6. rt[r].phase = "unstarted" /\ \A q \in Runtime : q < r => rt[q].torn /\ rt[q].phase # "unstarted"
  <2>1. \A q \in Runtime : q < r => q \in 1 .. (r - 1)
    BY RuntimeBound DEF Runtime
  <2> QED
    BY <2>1 DEF Start
<1>7. HeldOnce' /\ AgentsAreNamed'
  BY <1>1 DEF InCustody, HeldOnce, AgentsAreNamed
<1>8. HeldAreMade'
  BY <1>1 DEF InCustody, HeldAreMade, Made
<1>9. \A q \in Runtime : (rt'[q].phase \in {"unstarted", "identity"}) = Early(q)
  BY <1>3, <1>4, <1>6 DEF Early
<1>10. EarlyHoldsNothing' /\ OpsAreUnderWay'
  <2>1. \A i \in Op : op[i].rt \in Runtime
    BY <1>0 DEF TypeOK, OpRecord
  <2> QED
    BY <2>1, <1>1, <1>9 DEF InCustody, EarlyHoldsNothing, OpsAreUnderWay, Early
<1>11. InTurn'
  <2>1. ASSUME NEW p \in Runtime, NEW q \in Runtime, p < q, rt'[q].phase # "unstarted"
        PROVE  rt'[p].torn /\ rt'[p].phase # "unstarted"
    <3>1. CASE q = r
      <4>1. p # r
        BY <3>1, <2>1, RuntimeBound DEF Runtime
      <4> QED
        BY <3>1, <4>1, <2>1, <1>4, <1>6
    <3>2. CASE q # r
      <4>1. rt[p].torn /\ rt[p].phase # "unstarted"
        BY <3>2, <2>1, <1>4 DEF InCustody, InTurn
      <4> QED
        BY <4>1, <1>4, <1>6
    <3> QED
      BY <3>1, <3>2
  <2>2. ParkedIsAwaited'
    BY <1>1, <1>9 DEF InCustody, InTurn, ParkedIsAwaited, Early
  <2> QED
    BY <2>1, <2>2 DEF InTurn
<1> QED
  BY <1>5, <1>7, <1>8, <1>10, <1>11 DEF InCustody

\* A runtime that has loaded the registry goes from one phase to another.
LEMMA PhaseKeepsCustody ==
    ASSUME InCustody, NEW r \in Runtime, ~Early(r), NEW new \in RuntimeRecord,
           rt' = [rt EXCEPT ![r] = new], new.torn = rt[r].torn,
           new.phase \notin {"unstarted", "identity"},
           op' \in [Op -> OpRecord],
           \A j \in Op : op'[j].kind # "free" => op'[j] = op[j] \/ (op'[j].sid \in Sessions /\ op'[j].rt = r),
           UNCHANGED <<scope, agent, nextAgent, object, live, rows, disk, stash, dying, cut>>
    PROVE  InCustody'
<1>0. TypeOK
  BY DEF InCustody
<1>4. /\ rt' \in [Runtime -> RuntimeRecord]
      /\ \A q \in Runtime : rt'[q] = IF q = r THEN new ELSE rt[q]
  BY <1>0 DEF TypeOK
<1>5. TypeOK'
  BY <1>0, <1>4 DEF TypeOK
<1>7. HeldOnce' /\ AgentsAreNamed'
  BY DEF InCustody, HeldOnce, AgentsAreNamed
<1>8. HeldAreMade'
  BY DEF InCustody, HeldAreMade, Made
<1>9. \A q \in Runtime : rt'[q].phase \in {"unstarted", "identity"} <=> Early(q)
  BY <1>4 DEF Early
<1>10. EarlyHoldsNothing'
  BY <1>9 DEF InCustody, EarlyHoldsNothing, Early
<1>11. OpsAreUnderWay'
  <2>1. \A i \in Op : op'[i].rt \in Runtime
    BY <1>5 DEF TypeOK, OpRecord
  <2> QED
    BY <2>1, <1>9 DEF InCustody, OpsAreUnderWay, Early
<1>12. InTurn'
  <2>1. \A q \in Runtime : rt'[q].torn = rt[q].torn
    BY <1>4
  <2>2. \A q \in Runtime : rt'[q].phase = "unstarted" <=> rt[q].phase = "unstarted"
    BY <1>4 DEF Early
  <2>3. ParkedIsAwaited'
    BY <1>9 DEF InCustody, InTurn, ParkedIsAwaited, Early
  <2> QED
    BY <2>1, <2>2, <2>3 DEF InCustody, InTurn
<1> QED
  BY <1>5, <1>7, <1>8, <1>10, <1>11, <1>12 DEF InCustody

LEMMA RestoreNextKeepsCustody ==
    ASSUME InCustody, NEW r \in Runtime, RestoreNext(r)
    PROVE  InCustody'
<1>0. TypeOK
  BY DEF InCustody
<1>1. PICK s \in rt[r].restore :
        /\ rt' = [rt EXCEPT ![r].restore = @ \ {s}]
        /\ \/ Begins([NoOp EXCEPT !.kind = "restore", !.rt = r, !.sid = s, !.file = rows[r][s].file,
                                  !.nudge = rows[r][s].status = "running"])
           \/ UNCHANGED op
  BY DEF RestoreNext
<1> DEFINE new == [rt[r] EXCEPT !.restore = @ \ {s}]
           nudge == rows[r][s].status = "running"
           rec == [NoOp EXCEPT !.kind = "restore", !.rt = r, !.sid = s, !.file = rows[r][s].file,
                               !.nudge = nudge]
<1>2. rt' = [rt EXCEPT ![r] = new]
  BY <1>0, <1>1 DEF TypeOK
<1>3. new \in RuntimeRecord /\ new.torn = rt[r].torn /\ new.phase = rt[r].phase
  BY <1>0 DEF TypeOK, RuntimeRecord
<1>4. s \in Sessions
  BY <1>0 DEF TypeOK, RuntimeRecord
<1>5. nudge \in BOOLEAN /\ rows[r][s].file \in Transcript \cup {None}
  BY <1>0, <1>4 DEF TypeOK, Row
<1>6. UNCHANGED op \/ Begins(rec)
  BY <1>1
<1> HIDE DEF new, nudge
<1>7. rec \in OpRecord /\ rec.sid = s /\ rec.rt = r
  BY <1>4, <1>5, EmptyOnesAreTyped DEF OpRecord, NoOp, Kinds
<1> HIDE DEF rec
<1>8. op' \in [Op -> OpRecord] /\ \A j \in Op : op'[j] = op[j] \/ op'[j] = rec
  <2>1. CASE UNCHANGED op
    BY <2>1, <1>0 DEF TypeOK
  <2>2. CASE Begins(rec)
    BY <2>2, <1>0, <1>7, BegunIsTyped
  <2> QED
    BY <1>6, <2>1, <2>2
<1>9. ~Early(r) /\ rt[r].phase \notin {"unstarted", "identity"}
  BY DEF RestoreNext, Early
<1>10. UNCHANGED <<scope, agent, nextAgent, object, live, rows, disk, stash, dying, cut>>
  BY DEF RestoreNext
<1> QED
  BY <1>2, <1>3, <1>4, <1>7, <1>8, <1>9, <1>10, PhaseKeepsCustody

LEMMA BootstrapEndsKeepsCustody ==
    ASSUME InCustody, NEW r \in Runtime, RestoreEnds(r) \/ BootstrapStalls(r)
    PROVE  InCustody'
<1>0. TypeOK
  BY DEF InCustody
<1>1. PICK phase \in {"serving", "stalled"} : rt' = [rt EXCEPT ![r].phase = phase]
  BY DEF RestoreEnds, BootstrapStalls
<1> DEFINE new == [rt[r] EXCEPT !.phase = phase]
<1>2. rt' = [rt EXCEPT ![r] = new]
  BY <1>0, <1>1 DEF TypeOK
<1>3. new \in RuntimeRecord /\ new.torn = rt[r].torn /\ new.phase = phase
  BY <1>0 DEF TypeOK, RuntimeRecord, Phases
<1> HIDE DEF new
<1>4. ~Early(r)
  BY DEF RestoreEnds, BootstrapStalls, Early
<1>5. UNCHANGED <<scope, agent, nextAgent, object, live, rows, disk, stash, dying, op, cut>>
  BY DEF RestoreEnds, BootstrapStalls
<1>6. op' \in [Op -> OpRecord]
  BY <1>0, <1>5 DEF TypeOK
<1> QED
  BY <1>2, <1>3, <1>4, <1>5, <1>6, PhaseKeepsCustody

\* What a parked session, and a session in the maps, holds.
LEMMA HeldHasAgent ==
    ASSUME InCustody, NEW o \in Agent,
           \/ \E r \in Runtime, s \in Sessions : live[r][s] = o
           \/ \E s \in Sessions : o \in {stash.of[s], dying.of[s]}
    PROVE  object[o].agent \in Agent /\ o < nextAgent
<1>1. o # None
  BY TranscriptsApart
<1>2. Made(o)
  BY <1>1 DEF InCustody, HeldAreMade
<1> QED
  BY <1>2 DEF Made, InCustody, TypeOK, ObjectRecord

LEMMA AdoptKeepsCustody ==
    ASSUME InCustody, NEW r \in Runtime, Adopt(r)
    PROVE  InCustody'
<1> DEFINE parked(s) == object[stash.of[s]].agent
           adoptedRow(s) == [status |-> IF agent[parked(s)].running THEN "running" ELSE "idle",
                             file |-> agent[parked(s)].file]
           loaded == [s \in Sessions |-> IF Adopted(s) THEN adoptedRow(s) ELSE disk[s]]
           new == [rt[r] EXCEPT !.phase = "restoring",
                                !.restore = {s \in Sessions : Restorable(loaded[s])}]
           taken(o) == [object[o] EXCEPT !.working = agent[object[o].agent].running,
                                         !.submits = TRUE, !.unsub = r]
<1>0. TypeOK
  BY DEF InCustody
<1>1. /\ rt[r].phase = "identity" /\ live' = [live EXCEPT ![r] = stash.of]
      /\ rows' = [rows EXCEPT ![r] = loaded] /\ disk' = loaded /\ stash' = NoStash
      /\ UNCHANGED <<scope, nextAgent, dying, op, cut>>
  BY DEF Adopt, TakeStash
<1>2. rt' = [rt EXCEPT ![r] = new]
  BY <1>0 DEF Adopt, TypeOK
<1>3. new \in RuntimeRecord /\ new.torn = rt[r].torn /\ new.phase = "restoring"
  <2> HIDE DEF loaded
  <2> QED
    BY <1>0 DEF TypeOK, RuntimeRecord, Phases
<1>4. agent' = [a \in Agent |-> IF Alive(a) /\ IsAdopted(agent[a].of) THEN Rewired(r, a) ELSE agent[a]]
  BY DEF Adopt
<1>5. object' = [o \in Agent |-> IF IsAdopted(o) THEN taken(o) ELSE object[o]]
  BY DEF Adopt
<1> HIDE DEF new
<1>6. \A o \in Agent : IsAdopted(o) => object[o].agent \in Agent
  BY HeldHasAgent DEF IsAdopted
<1>7. \A o \in Agent : IsAdopted(o) => taken(o) \in ObjectRecord /\ taken(o).agent = object[o].agent
  <2> SUFFICES ASSUME NEW o \in Agent, IsAdopted(o)
               PROVE  taken(o) \in ObjectRecord /\ taken(o).agent = object[o].agent
    OBVIOUS
  <2> DEFINE w == agent[object[o].agent].running
  <2>1. w \in BOOLEAN
    BY <1>0, <1>6 DEF TypeOK, AgentRecord
  <2>2. object[o] \in ObjectRecord /\ taken(o) = [object[o] EXCEPT !.working = w, !.submits = TRUE, !.unsub = r]
    BY <1>0 DEF TypeOK
  <2> HIDE DEF w
  <2> QED
    BY <2>1, <2>2 DEF ObjectRecord
<1> HIDE DEF taken
<1>8. object' \in [Agent -> ObjectRecord] /\ \A o \in Agent : object'[o].agent = object[o].agent
  BY <1>0, <1>5, <1>7 DEF TypeOK
<1>9. \A a \in Agent : /\ Rewired(r, a) \in AgentRecord /\ Rewired(r, a).sid = agent[a].sid
                       /\ Rewired(r, a).state = agent[a].state /\ Rewired(r, a).running = agent[a].running
                       /\ Rewired(r, a).prompt = agent[a].prompt
  BY <1>0 DEF Rewired, TypeOK, AgentRecord
<1>10. agent' \in [Agent -> AgentRecord] /\ AgentsAreNamed'
  <2>1. agent' \in [Agent -> AgentRecord]
    BY <1>0, <1>4, <1>9 DEF TypeOK
  <2>2. \A a \in Agent : /\ agent'[a].sid = agent[a].sid /\ agent'[a].state = agent[a].state
                         /\ agent'[a].running = agent[a].running
                         /\ agent'[a].prompt = agent[a].prompt
    BY <1>4, <1>9
  <2> QED
    BY <2>1, <2>2 DEF InCustody, AgentsAreNamed
<1>11. \A s \in Sessions : Adopted(s) => parked(s) \in Agent
  <2> SUFFICES ASSUME NEW s \in Sessions, Adopted(s) PROVE parked(s) \in Agent
    OBVIOUS
  <2>1. PICK o \in Agent : o = stash.of[s]
    BY <1>0 DEF Adopted, TypeOK, Stash
  <2> QED
    BY <2>1, HeldHasAgent
<1>12. \A s \in Sessions : Adopted(s) => adoptedRow(s) \in Row
  BY <1>0, <1>11 DEF TypeOK, AgentRecord, Row
<1> HIDE DEF parked, adoptedRow
<1>13. loaded \in [Sessions -> Row]
  BY <1>0, <1>12 DEF TypeOK
<1> HIDE DEF loaded
<1>14. /\ rt' \in [Runtime -> RuntimeRecord]
       /\ \A q \in Runtime : rt'[q] = IF q = r THEN new ELSE rt[q]
  BY <1>0, <1>2, <1>3 DEF TypeOK
<1>15. stash.of \in [Sessions -> Agent \cup {None}] /\ live \in [Runtime -> [Sessions -> Agent \cup {None}]]
  BY <1>0 DEF TypeOK, Stash
<1>16. TypeOK'
  <2>1. live' \in [Runtime -> [Sessions -> Agent \cup {None}]]
    BY <1>1, <1>15
  <2>2. rows' \in [Runtime -> [Sessions -> Row]]
    BY <1>0, <1>1, <1>13 DEF TypeOK
  <2> QED
    BY <1>0, <1>1, <1>8, <1>10, <1>13, <1>14, <2>1, <2>2, EmptyOnesAreTyped DEF TypeOK
<1>17. \A q \in Runtime, s \in Sessions : live'[q][s] = IF q = r THEN stash.of[s] ELSE live[q][s]
  BY <1>1, <1>15
<1>18. \A s \in Sessions : stash'.of[s] = None
  BY <1>1 DEF NoStash, Nobody
<1>19. HeldOnce'
  <2>1. \A p, q \in Runtime, s, t \in Sessions :
           live'[p][s] # None /\ live'[p][s] = live'[q][t] => p = q /\ s = t
    BY <1>17 DEF InCustody, HeldOnce
  <2>2. \A q \in Runtime, s, t \in Sessions : live'[q][s] # None => live'[q][s] # dying.of[t]
    BY <1>17 DEF InCustody, HeldOnce
  <2> QED
    BY <1>1, <1>18, <2>1, <2>2 DEF InCustody, HeldOnce
<1>20. HeldAreMade'
  <2>1. \A o \in Agent : Made(o) => (o < nextAgent /\ object'[o].agent # None)
    BY <1>8 DEF Made
  <2>2. \A q \in Runtime, s \in Sessions : live'[q][s] # None => Made(live'[q][s]) /\ live'[q][s] \in Agent
    BY <1>15, <1>17 DEF InCustody, HeldAreMade
  <2>3. \A s \in Sessions : dying.of[s] # None => Made(dying.of[s]) /\ dying.of[s] \in Agent /\ dying.by # None
    BY <1>0 DEF InCustody, HeldAreMade, TypeOK, Stash
  <2> QED
    BY <1>1, <1>18, <2>1, <2>2, <2>3 DEF HeldAreMade, Made
<1>21. EarlyHoldsNothing'
  <2>1. \A q \in Runtime : q # r => rt'[q] = rt[q] /\ \A s \in Sessions : live'[q][s] = live[q][s]
    BY <1>14, <1>17
  <2>2. rt'[r].phase = "restoring"
    BY <1>3, <1>14
  <2> QED
    BY <2>1, <2>2 DEF InCustody, EarlyHoldsNothing, Early
<1>22. OpsAreUnderWay'
  <2>1. \A i \in Op : op[i].rt \in Runtime
    BY <1>0 DEF TypeOK, OpRecord
  <2>2. \A q \in Runtime : rt'[q].phase \in {"unstarted", "identity"} => Early(q)
    BY <1>3, <1>14 DEF Early
  <2> QED
    BY <1>1, <2>1, <2>2 DEF InCustody, OpsAreUnderWay, Early
<1>23. InTurn'
  <2>1. \A q \in Runtime : rt'[q].torn = rt[q].torn /\ (rt'[q].phase = "unstarted" <=> rt[q].phase = "unstarted")
    BY <1>1, <1>3, <1>14
  <2> QED
    BY <1>1, <2>1 DEF InCustody, InTurn, ParkedIsAwaited
<1> QED
  BY <1>10, <1>16, <1>19, <1>20, <1>21, <1>22, <1>23 DEF InCustody

LEMMA TeardownKeepsCustody ==
    ASSUME InCustody, NEW r \in Runtime, Teardown(r)
    PROVE  InCustody'
<1> DEFINE phase == IF rt[r].phase = "identity" THEN "identity" ELSE "dead"
           new == [rt[r] EXCEPT !.torn = TRUE, !.restore = {}, !.phase = phase]
           left(o) == [object[o] EXCEPT !.submits = FALSE]
<1>0. TypeOK
  BY DEF InCustody
<1>1. /\ rt[r].phase # "unstarted" /\ ~rt[r].torn /\ r < MaxRuntimes
      /\ live' = [live EXCEPT ![r] = Nobody]
      /\ stash' = IF live[r] = Nobody THEN stash ELSE [by |-> r, of |-> live[r]]
      /\ UNCHANGED <<scope, agent, nextAgent, rows, disk, dying, op, cut>>
  BY DEF Teardown, Current
<1>2. rt' = [rt EXCEPT ![r] = new]
  BY <1>0 DEF Teardown, TypeOK
<1>3. object' = [o \in Agent |-> IF \E s \in Sessions : live[r][s] = o THEN left(o) ELSE object[o]]
  BY DEF Teardown
<1>4. new \in RuntimeRecord /\ new.torn /\ new.phase = phase
  <2>1. rt[r] \in RuntimeRecord /\ phase \in Phases
    BY <1>0 DEF TypeOK, Phases
  <2> HIDE DEF phase
  <2> QED
    BY <2>1 DEF RuntimeRecord
<1>5. phase # "unstarted" /\ (phase = "identity" <=> rt[r].phase = "identity")
  OBVIOUS
<1> HIDE DEF new, phase
<1>6. \A o \in Agent : left(o) \in ObjectRecord /\ left(o).agent = object[o].agent
  BY <1>0 DEF TypeOK, ObjectRecord
<1>7. object' \in [Agent -> ObjectRecord] /\ \A o \in Agent : object'[o].agent = object[o].agent
  BY <1>0, <1>3, <1>6 DEF TypeOK
<1>8. live \in [Runtime -> [Sessions -> Agent \cup {None}]] /\ Nobody \in [Sessions -> Agent \cup {None}]
  BY <1>0, EmptyOnesAreTyped DEF TypeOK
<1>9. /\ live' \in [Runtime -> [Sessions -> Agent \cup {None}]]
      /\ \A q \in Runtime, s \in Sessions : live'[q][s] = IF q = r THEN None ELSE live[q][s]
  BY <1>1, <1>8 DEF Nobody
<1>10. stash' \in Stash
  BY <1>0, <1>1, <1>8 DEF TypeOK, Stash
<1>11. /\ rt' \in [Runtime -> RuntimeRecord]
       /\ \A q \in Runtime : rt'[q] = IF q = r THEN new ELSE rt[q]
  BY <1>0, <1>2, <1>4 DEF TypeOK
<1>12. TypeOK'
  BY <1>0, <1>1, <1>7, <1>9, <1>10, <1>11 DEF TypeOK
<1>13. \A s \in Sessions : stash'.of[s] = live[r][s] \/ stash' = stash
  BY <1>1
<1>14. HeldOnce'
  <2>1. CASE stash' = stash
    BY <2>1, <1>1, <1>9 DEF InCustody, HeldOnce
  <2>2. CASE stash' = [by |-> r, of |-> live[r]]
    <3>1. \A s \in Sessions : stash'.of[s] = live[r][s]
      BY <2>2
    <3>2. \A p, q \in Runtime, s, t \in Sessions :
             live'[p][s] # None /\ live'[p][s] = live'[q][t] => p = q /\ s = t
      BY <1>9 DEF InCustody, HeldOnce
    <3>3. \A s, t \in Sessions :
             /\ stash'.of[s] # None /\ stash'.of[s] = stash'.of[t] => s = t
             /\ stash'.of[s] # None => stash'.of[s] # dying.of[t]
      BY <3>1 DEF InCustody, HeldOnce
    <3>4. \A q \in Runtime, s, t \in Sessions :
             live'[q][s] # None => live'[q][s] \notin {stash'.of[t], dying.of[t]}
      BY <3>1, <1>9 DEF InCustody, HeldOnce
    <3> QED
      BY <1>1, <3>2, <3>3, <3>4 DEF InCustody, HeldOnce
  <2> QED
    BY <1>1, <2>1, <2>2
<1>15. HeldAreMade'
  <2>1. \A o \in Agent : Made(o) => (o < nextAgent /\ object'[o].agent # None)
    BY <1>7 DEF Made
  <2>2. \A q \in Runtime, s \in Sessions : live'[q][s] # None => Made(live'[q][s]) /\ live'[q][s] \in Agent
    BY <1>8, <1>9 DEF InCustody, HeldAreMade
  <2>3. \A s \in Sessions : dying.of[s] # None => Made(dying.of[s]) /\ dying.of[s] \in Agent /\ dying.by # None
    BY <1>0 DEF InCustody, HeldAreMade, TypeOK, Stash
  <2>4. \A s \in Sessions : stash'.of[s] # None =>
            Made(stash'.of[s]) /\ stash'.of[s] \in Agent /\ stash'.by # None
    <3>1. CASE stash' = stash
      BY <3>1, <1>0 DEF InCustody, HeldAreMade, TypeOK, Stash
    <3>2. CASE stash' = [by |-> r, of |-> live[r]]
      BY <3>2, <1>8, TranscriptsApart DEF InCustody, HeldAreMade
    <3> QED
      BY <1>1, <3>1, <3>2
  <2> QED
    BY <1>1, <2>1, <2>2, <2>3, <2>4 DEF HeldAreMade, Made
<1>16. \A q \in Runtime : /\ rt'[q].phase = "unstarted" <=> rt[q].phase = "unstarted"
                          /\ rt'[q].phase = "identity" <=> rt[q].phase = "identity"
                          /\ rt[q].torn => rt'[q].torn
  BY <1>1, <1>4, <1>5, <1>11
<1>17. EarlyHoldsNothing'
  BY <1>9, <1>16 DEF InCustody, EarlyHoldsNothing, Early
<1>18. OpsAreUnderWay'
  <2>1. \A i \in Op : op[i].rt \in Runtime
    BY <1>0 DEF TypeOK, OpRecord
  <2> QED
    BY <2>1, <1>1, <1>16 DEF InCustody, OpsAreUnderWay, Early
<1>19. AgentsAreNamed'
  BY <1>1 DEF InCustody, AgentsAreNamed
<1>20. InTurn'
  <2>1. PICK n \in Runtime : n = r + 1
    BY <1>1, RuntimeBound DEF Runtime
  <2>2. rt[n].phase = "unstarted"
    <3>1. r < n
      BY <2>1, RuntimeBound DEF Runtime
    <3> QED
      BY <3>1, <1>1 DEF InCustody, InTurn
  <2>3. ParkedIsAwaited'
    BY <2>2, <1>16 DEF ParkedIsAwaited
  <2> QED
    BY <2>3, <1>16 DEF InCustody, InTurn
<1> QED
  BY <1>12, <1>14, <1>15, <1>17, <1>18, <1>19, <1>20 DEF InCustody

LEMMA AbandonStashKeepsCustody ==
    ASSUME InCustody, AbandonStash
    PROVE  InCustody'
<1>0. TypeOK
  BY DEF InCustody
<1>1. dying' = stash /\ stash' = NoStash
      /\ UNCHANGED <<scope, agent, nextAgent, object, rt, live, rows, disk, op, cut>>
  BY DEF AbandonStash
<1>2. \A s \in Sessions : NoStash.of[s] = None
  BY DEF NoStash, Nobody
<1>3. TypeOK'
  BY <1>0, <1>1, EmptyOnesAreTyped DEF TypeOK
<1>4. HeldOnce'
  BY <1>1, <1>2 DEF InCustody, HeldOnce
<1>5. HeldAreMade'
  BY <1>1, <1>2 DEF InCustody, HeldAreMade, Made
<1>6. EarlyHoldsNothing' /\ OpsAreUnderWay' /\ AgentsAreNamed' /\ InTurn'
  BY <1>1 DEF InCustody, EarlyHoldsNothing, OpsAreUnderWay, AgentsAreNamed, InTurn, ParkedIsAwaited, Early
<1> QED
  BY <1>3, <1>4, <1>5, <1>6 DEF InCustody

LEMMA AbandonOneKeepsCustody ==
    ASSUME InCustody, NEW s \in Sessions, AbandonOne(s)
    PROVE  InCustody'
<1> DEFINE a == object[dying.of[s]].agent
           r == dying.by
           row == IF agent[a].running /\ r \in agent[a].heardBy
                  THEN RowOf(r, s, "idle") ELSE [rows[r][s] EXCEPT !.status = "idle"]
<1>0. TypeOK
  BY DEF InCustody
<1>1. UNCHANGED <<scope, nextAgent, object, rt, live, stash, op>>
  BY DEF AbandonOne
<1>2. agent' = Disposed(a, agent) /\ Save(r, s, row)
  BY DEF AbandonOne
<1>3. r \in Runtime
  BY <1>0 DEF AbandonOne, InCustody, HeldAreMade, TypeOK, Stash
<1>4. rows[r][s] \in Row
  BY <1>0, <1>3 DEF TypeOK
<1>5. row \in Row
  BY <1>3, <1>4, ClosedRowIsTyped, RowOfIsTyped
<1>6. cut' \in SUBSET Sessions
  BY <1>0 DEF AbandonOne, TypeOK
<1>7. dying' = NoStash \/ dying' = [dying EXCEPT !.of[s] = None]
  BY DEF AbandonOne
<1> HIDE DEF a, row, r
<1>8. rows' \in [Runtime -> [Sessions -> Row]] /\ disk' \in [Sessions -> Row]
  BY <1>0, <1>2, <1>3, <1>5, SavedIsTyped
<1>9. /\ agent' \in [Agent -> AgentRecord]
      /\ \A b \in Agent : \/ agent'[b] = agent[b]
                          \/ ~agent'[b].running /\ agent'[b].prompt = "none" /\ agent'[b].state = "disposed"
  BY <1>0, <1>2, DisposedIsTyped
<1>10. AgentsAreNamed'
  BY <1>9 DEF InCustody, AgentsAreNamed
<1>11. /\ dying' \in Stash
       /\ \A t \in Sessions : dying'.of[t] = None \/ (dying'.of[t] = dying.of[t] /\ dying'.by = dying.by)
  <2>1. dying \in Stash
    BY <1>0 DEF TypeOK
  <2>2. CASE dying' = NoStash
    BY <2>2, EmptyOnesAreTyped DEF NoStash, Nobody
  <2>3. CASE dying' = [dying EXCEPT !.of[s] = None]
    <3>1. dying' = [dying EXCEPT !.of = [dying.of EXCEPT ![s] = None]]
      BY <2>1, <2>3 DEF Stash
    <3> QED
      BY <2>1, <3>1 DEF Stash
  <2> QED
    BY <1>7, <2>2, <2>3
<1>12. TypeOK'
  BY <1>0, <1>1, <1>6, <1>8, <1>9, <1>11 DEF TypeOK
<1>13. HeldOnce'
  BY <1>1, <1>11 DEF InCustody, HeldOnce
<1>14. HeldAreMade'
  BY <1>1, <1>11 DEF InCustody, HeldAreMade, Made
<1>15. EarlyHoldsNothing' /\ OpsAreUnderWay' /\ InTurn'
  BY <1>1 DEF InCustody, EarlyHoldsNothing, OpsAreUnderWay, InTurn, ParkedIsAwaited, Early
<1> QED
  BY <1>10, <1>12, <1>13, <1>14, <1>15 DEF InCustody

LEMMA CrashKeepsCustody ==
    ASSUME InCustody, Crash
    PROVE  InCustody'
<1> DEFINE gone == [phase |-> "dead", torn |-> TRUE, restore |-> {}]
           lost == [NoAgent EXCEPT !.state = "disposed"]
<1>0. TypeOK
  BY DEF InCustody
<1>1. /\ agent' = [a \in Agent |-> IF agent[a].state = "unused" THEN NoAgent ELSE lost]
      /\ object' = [a \in Agent |-> NoObject]
      /\ rt' = [r \in Runtime |-> IF rt[r].phase = "unstarted" THEN rt[r] ELSE gone]
      /\ live' = [r \in Runtime |-> Nobody]
      /\ stash' = NoStash /\ dying' = NoStash /\ op' = [i \in Op |-> NoOp]
      /\ UNCHANGED <<scope, nextAgent, rows, disk>>
  BY DEF Crash
<1>2. lost \in AgentRecord /\ ~lost.running /\ lost.prompt = "none" /\ lost.state = "disposed"
  BY DEF NoAgent, AgentRecord
<1>3. gone \in RuntimeRecord
  BY DEF RuntimeRecord, Phases
<1>4. cut' \in SUBSET Sessions
  <2>1. \A a \in Agent : Asked(a) => agent[a].sid \in Sessions
    BY DEF InCustody, AgentsAreNamed, Asked
  <2>2. \A i \in Op : op[i].kind \in {"despawn", "delete", "clear"} => op[i].sid \in Sessions
    BY DEF InCustody, OpsAreUnderWay
  <2> QED
    BY <1>0, <2>1, <2>2 DEF Crash, TypeOK
<1>5. TypeOK'
  <2>1. agent' \in [Agent -> AgentRecord] /\ object' \in [Agent -> ObjectRecord]
    BY <1>1, <1>2, EmptyOnesAreTyped
  <2>2. rt' \in [Runtime -> RuntimeRecord]
    BY <1>0, <1>1, <1>3 DEF TypeOK
  <2>3. live' \in [Runtime -> [Sessions -> Agent \cup {None}]] /\ op' \in [Op -> OpRecord]
    BY <1>1, EmptyOnesAreTyped
  <2> QED
    BY <1>0, <1>1, <1>4, <2>1, <2>2, <2>3, EmptyOnesAreTyped DEF TypeOK
<1>6. /\ \A r \in Runtime, s \in Sessions : live'[r][s] = None
      /\ \A s \in Sessions : stash'.of[s] = None /\ dying'.of[s] = None
  BY <1>1 DEF NoStash, Nobody
<1>7. HeldOnce' /\ HeldAreMade' /\ EarlyHoldsNothing'
  BY <1>6 DEF HeldOnce, HeldAreMade, EarlyHoldsNothing
<1>8. OpsAreUnderWay'
  BY <1>1, NoOpIsFree DEF OpsAreUnderWay
<1>9. AgentsAreNamed'
  BY <1>1, <1>2 DEF AgentsAreNamed, NoAgent
<1>10. InTurn'
  <2>1. \A q \in Runtime : /\ rt'[q].phase = "unstarted" <=> rt[q].phase = "unstarted"
                           /\ rt'[q].phase # "unstarted" => rt'[q].torn
    BY <1>1
  <2> QED
    BY <1>1, <2>1 DEF InCustody, InTurn, ParkedIsAwaited
<1> QED
  BY <1>5, <1>7, <1>8, <1>9, <1>10 DEF InCustody

LEMMA InitIsInCustody == Init => InCustody
<1> SUFFICES ASSUME Init PROVE InCustody
  OBVIOUS
<1> DEFINE none == [phase |-> "unstarted", torn |-> FALSE, restore |-> {}]
<1>1. none \in RuntimeRecord /\ none.phase = "unstarted"
  BY DEF RuntimeRecord, Phases
<1>2. /\ agent = [a \in Agent |-> NoAgent] /\ nextAgent = 1 /\ object = [a \in Agent |-> NoObject]
      /\ rt = [r \in Runtime |-> none] /\ live = [r \in Runtime |-> Nobody]
      /\ rows = [r \in Runtime |-> [s \in Sessions |-> NoRow]]
      /\ scope \in Scopes /\ stash = NoStash /\ dying = NoStash /\ op = [i \in Op |-> NoOp] /\ cut = {}
  BY DEF Init
<1> HIDE DEF none
<1>3. disk \in [Sessions -> Row]
  <2>1. PICK had \in {{}, scope.sessions} :
          disk = [s \in Sessions |-> IF s \in had THEN [status |-> "idle", file |-> s] ELSE NoRow]
    BY DEF Init
  <2>2. \A s \in Sessions : [status |-> "idle", file |-> s] \in Row
    BY DEF Row, Transcript
  <2> QED
    BY <2>1, <2>2, EmptyOnesAreTyped
<1>4. TypeOK
  <2>1. /\ agent \in [Agent -> AgentRecord] /\ object \in [Agent -> ObjectRecord]
        /\ rt \in [Runtime -> RuntimeRecord] /\ op \in [Op -> OpRecord]
    BY <1>1, <1>2, EmptyOnesAreTyped
  <2>2. live \in [Runtime -> [Sessions -> Agent \cup {None}]] /\ rows \in [Runtime -> [Sessions -> Row]]
    BY <1>2, EmptyOnesAreTyped
  <2>3. nextAgent \in 1 .. (MaxAgents + 1)
    BY <1>2, AgentBound
  <2> QED
    BY <1>2, <1>3, <2>1, <2>2, <2>3, EmptyOnesAreTyped DEF TypeOK
<1>5. /\ \A r \in Runtime, s \in Sessions : live[r][s] = None
      /\ \A s \in Sessions : stash.of[s] = None /\ dying.of[s] = None
  BY <1>2 DEF NoStash, Nobody
<1>6. HeldOnce /\ HeldAreMade /\ EarlyHoldsNothing
  BY <1>5 DEF HeldOnce, HeldAreMade, EarlyHoldsNothing
<1>7. OpsAreUnderWay /\ AgentsAreNamed
  BY <1>2, NoOpIsFree DEF OpsAreUnderWay, AgentsAreNamed, NoAgent
<1>8. InTurn
  BY <1>1, <1>2 DEF InTurn, ParkedIsAwaited
<1> QED
  BY <1>4, <1>6, <1>7, <1>8 DEF InCustody

LEMMA NextKeepsCustody ==
    ASSUME InCustody, [Next]_vars
    PROVE  InCustody'
<1>1. ASSUME NEW r \in Runtime, Start(r) \/ BootstrapStep(r) \/ BootstrapStalls(r) \/ Teardown(r)
      PROVE  InCustody'
  BY <1>1, StartKeepsCustody, AdoptKeepsCustody, RestoreNextKeepsCustody, BootstrapEndsKeepsCustody,
     TeardownKeepsCustody DEF BootstrapStep
<1>2. ASSUME NEW r \in Runtime, NEW s \in Sessions,
             \/ Spawn(r, s) \/ Resume(r, s) \/ Despawn(r, s) \/ CloseRow(r, s)
             \/ Clear(r, s) \/ SetModel(r, s) \/ Message(r, s)
      PROVE  InCustody'
  BY <1>2, SpawnKeepsCustody, ResumeKeepsCustody, DespawnKeepsCustody, CloseRowKeepsCustody,
     ClearKeepsCustody, SetModelKeepsCustody, MessageKeepsCustody
<1>3. ASSUME NEW i \in Op, OpStep(i) \/ CreateFails(i)
      PROVE  InCustody'
  BY <1>3, CreatedKeepsCustody, SettledKeepsCustody, DespawnedKeepsCustody, ClearStoppedKeepsCustody,
     ClearedKeepsCustody, ModelSetKeepsCustody, CreateFailsKeepsCustody DEF OpStep
<1>4. ASSUME NEW a \in Agent, TurnBegins(a) \/ PromptRefused(a) \/ TurnEnds(a)
      PROVE  InCustody'
  BY <1>4, PreparedKeepsCustody, TurnEndsKeepsCustody
<1>5. ASSUME NEW s \in Sessions, AbandonOne(s)
      PROVE  InCustody'
  BY <1>5, AbandonOneKeepsCustody
<1>6. CASE UNCHANGED vars
  BY <1>6 DEF vars, InCustody, TypeOK, HeldOnce, HeldAreMade, Made, EarlyHoldsNothing, Early,
              OpsAreUnderWay, AgentsAreNamed, InTurn, ParkedIsAwaited
<1> QED
  BY <1>1, <1>2, <1>3, <1>4, <1>5, <1>6, AbandonStashKeepsCustody, CrashKeepsCustody DEF Next

\* A session has one holder, whatever reloads, crashes, adoption deadlines and
\* overlapping operations do to each other, and the state keeps its types
\* (stashForReload, adoptStashedSessions, abandonStash).
THEOREM OneHolder == Spec => []SessionsAreHeldOnce
<1>1. InCustody => SessionsAreHeldOnce
  BY DEF InCustody, SessionsAreHeldOnce
<1> QED
  BY <1>1, InitIsInCustody, NextKeepsCustody, PTL DEF Spec

\* Sessions are parked only while a runtime that will take them is still to
\* come: a reload never leaves them to the adoption deadline for want of one
\* (the half of NothingStranded that does not speak of ENABLED).
THEOREM SomebodyWillAdopt == Spec => []ParkedIsAwaited
<1>1. InCustody => ParkedIsAwaited
  BY DEF InCustody, InTurn
<1> QED
  BY <1>1, InitIsInCustody, NextKeepsCustody, PTL DEF Spec

-----------------------------------------------------------------------------
(* Order: the invariant of a host whose operations neither overlap nor     *)
(* fail, and are not caught by a reload (Orderly).  At most one runtime    *)
(* hosts, nothing is parked while it does, and each of its sessions is     *)
(* described by the one operation it may have.                             *)

Hosts(r) == rt[r].phase \in {"restoring", "serving"}
Open(row) == row.status \in {"idle", "running"}
Opens(i) == op[i].kind \in {"spawn", "resume", "restore"}
Stops(i) == op[i].kind \in {"despawn", "delete"}

\* What the runtimes are up to.
OneHosts ==
    /\ dying = NoStash
    /\ \A r \in Runtime : /\ rt[r].phase # "stalled"
                          /\ rt[r].torn <=> rt[r].phase = "dead"
                          /\ ~Hosts(r) => \A s \in Sessions : live[r][s] = None
                          /\ Hosts(r) => \A s \in Sessions : stash.of[s] = None
    /\ \A i \in Op : /\ op[i].kind = "free" => op[i] = NoOp
                     /\ op[i].kind # "free" => Hosts(op[i].rt)

\* What was not created yet is blank.
Unborn ==
    /\ \A a \in Agent : a >= nextAgent => agent[a].state = "unused" /\ agent[a].sid = None
    /\ \A o \in Agent : object[o].agent # None => object[o].agent < nextAgent

\* A session has one operation at a time, which knows its object.
OpsAt(r, s) ==
    /\ \A i, j \in Op : op[i].sid = s /\ op[j].sid = s => i = j
    /\ \A i \in Op : op[i].sid = s =>
          /\ op[i].rt = r /\ op[i].obj = live[r][s]
          /\ op[i].kind = "restore" <=> rt[r].phase = "restoring"
          /\ op[i].obj = None <=> (Opens(i) /\ op[i].at = "create")
          /\ op[i].kind \in {"spawn", "resume"} \/ Stops(i) => op[i].held

\* What is to be restored has a row that is open.
RestoreAt(r, s) ==
    rt[r].phase = "restoring" /\ (s \in rt[r].restore \/ \E i \in Op : op[i].sid = s) => Open(disk[s])

\* The agent of a live session: usable, or fresh, or being stopped, or gone.
Usable(r, o) ==
    /\ agent[object[o].agent].state = "alive" /\ agent[object[o].agent].heardBy = {r}
    /\ object[o].submits /\ object[o].unsub = r
    /\ agent[object[o].agent].running => object[o].working
    /\ object[o].working => agent[object[o].agent].running \/ agent[object[o].agent].prompt # "none"
Fresh(o) ==
    /\ agent[object[o].agent].state = "alive" /\ agent[object[o].agent].heardBy = {}
    /\ ~agent[object[o].agent].running /\ agent[object[o].agent].prompt = "none" /\ ~object[o].working
Stopping(o) ==
    /\ agent[object[o].agent].state = "alive" /\ agent[object[o].agent].heardBy = {}
Belongs(o, s) == agent[object[o].agent].of = o /\ agent[object[o].agent].sid = s
AgentAt(r, s) ==
    live[r][s] # None =>
        /\ Belongs(live[r][s], s)
        /\ (\A i \in Op : op[i].sid = s => op[i].kind = "model") => Usable(r, live[r][s])
        /\ \A i \in Op : op[i].sid = s =>
              /\ Opens(i) => Fresh(live[r][s])
              /\ Stops(i) \/ (op[i].kind = "clear" /\ op[i].at # "create") => Stopping(live[r][s])
              /\ op[i].kind = "clear" /\ op[i].at = "create" =>
                    agent[object[live[r][s]].agent].state = "disposed"

\* No other agent of the session lives.
OnlyAt(r, s) ==
    \A a \in Agent : agent[a].state = "alive" /\ agent[a].sid = s =>
        live[r][s] # None /\ object[live[r][s]].agent = a

\* The row of a live session brings it back; a row that says "running" is about
\* work that was asked for, that was cut off, or that is being stopped.
RowAt(r, s) ==
    live[r][s] # None /\ (\A i \in Op : op[i].sid = s => ~Opens(i)) =>
        Open(disk[s]) /\ disk[s].file = agent[object[live[r][s]].agent].file
RunsAt(s) ==
    disk[s].status = "running" =>
        \/ s \in cut
        \/ \E a \in Agent : agent[a].sid = s /\ (agent[a].running \/ agent[a].prompt # "none")
        \/ \E i \in Op : op[i].sid = s /\ (Stops(i) \/ op[i].kind = "clear")

HostedAt(r, s) ==
    OpsAt(r, s) /\ RestoreAt(r, s) /\ AgentAt(r, s) /\ OnlyAt(r, s) /\ RowAt(r, s)
Hosted == \A r \in Runtime : Hosts(r) => rows[r] = disk /\ \A s \in Sessions : HostedAt(r, s)

\* While nobody hosts, what lives is parked, and heard by the one who parked it.
ParkedAt(s) ==
    /\ \A a \in Agent : agent[a].state = "alive" /\ agent[a].sid = s =>
          stash.of[s] # None /\ object[stash.of[s]].agent = a
    /\ stash.of[s] # None =>
          /\ Belongs(stash.of[s], s) /\ Open(disk[s])
          /\ agent[object[stash.of[s]].agent].state = "alive"
          /\ agent[object[stash.of[s]].agent].heardBy = {stash.by}
          /\ object[stash.of[s]].unsub = stash.by
          /\ rows[stash.by] = disk
Parked == (\A r \in Runtime : ~Hosts(r)) => \A s \in Sessions : ParkedAt(s)

\* A transcript is mentioned by one session: in its row, by its agent, or by
\* the operation that opens it.
Mentions(s, f) ==
    \/ disk[s].file = f
    \/ \E a \in Agent : agent[a].state = "alive" /\ agent[a].sid = s /\ agent[a].file = f
    \/ \E i \in Op : op[i].sid = s /\ op[i].file = f
FilesApart ==
    \A f \in Transcript : /\ \A s, t \in Sessions : Mentions(s, f) /\ Mentions(t, f) => s = t
                          /\ \A s \in Sessions : Mentions(s, f) /\ f \in Agent => f < nextAgent

InOrder == /\ OneHosts /\ Unborn /\ Hosted /\ Parked /\ FilesApart
           /\ \A s \in Sessions : RunsAt(s)
OrderlyInv == Orderly => InOrder

LEMMA OneAtATime ==
    ASSUME InCustody, OneHosts, NEW q \in Runtime, NEW r \in Runtime, Hosts(q), rt[r].phase # "unstarted",
           ~rt[r].torn
    PROVE  q = r
<1>1. ~rt[q].torn /\ rt[q].phase # "unstarted"
  BY DEF OneHosts, Hosts
<1>2. ~(q < r) /\ ~(r < q)
  BY <1>1 DEF InCustody, InTurn
<1> QED
  BY <1>2, RuntimeBound DEF Runtime

LEMMA HostIsUp == OneHosts => \A r \in Runtime : Hosts(r) => rt[r].phase # "unstarted" /\ ~rt[r].torn
BY DEF OneHosts, Hosts

LEMMA OneHostAtATime ==
    ASSUME InCustody, OneHosts, NEW q \in Runtime, NEW r \in Runtime, Hosts(q), Hosts(r)
    PROVE  q = r
BY HostIsUp, OneAtATime

\* What a step at one session leaves alone.
AwayFrom(r, s) ==
    /\ UNCHANGED <<stash, dying>>
    /\ \A q \in Runtime : /\ rt'[q].phase = rt[q].phase /\ (rt'[q].torn <=> rt[q].torn)
                          /\ rt'[q].restore \subseteq rt[q].restore
    /\ \A q \in Runtime, t \in Sessions : live'[q][t] = live[q][t] \/ (q = r /\ t = s)
    /\ \A t \in Sessions : t # s => disk'[t] = disk[t]
    /\ \A o \in Agent : object'[o] = object[o] \/ o \in {live[r][s], live'[r][s]}
    /\ \A b \in Agent : agent'[b] = agent[b] \/ (agent[b].sid \in {s, None} /\ agent'[b].sid = s)
    /\ \A i \in Op : \/ op'[i] = op[i]
                     \/ op[i].sid \in {s, None} /\ op'[i] = NoOp
                     \/ op[i].sid \in {s, None} /\ op'[i].sid = s /\ op'[i].kind # "free" /\ op'[i].rt = r
    /\ \A t \in cut : t = s \/ t \in cut'
    /\ rows'[r] = disk'
    /\ nextAgent <= nextAgent'

LEMMA OthersKept ==
    ASSUME InCustody, InCustody', InOrder, NEW r \in Runtime, Hosts(r), NEW s \in Sessions,
           AwayFrom(r, s), NEW t \in Sessions, t # s
    PROVE  HostedAt(r, t)' /\ RunsAt(t)' /\ \A f \in Transcript : Mentions(t, f)' => Mentions(t, f)
<1>0. HostedAt(r, t) /\ RunsAt(t)
  BY DEF InOrder, Hosted
<1>1. None \notin Agent /\ s # None /\ t # None
  BY NoneIsNoSession, TranscriptsApart
<1>2. \A i \in Op : /\ op[i].sid = t => op'[i] = op[i]
                    /\ op'[i].sid = t => op'[i] = op[i]
  BY <1>1, NoOpIsFree DEF AwayFrom
<1>3. \A b \in Agent : /\ agent[b].sid = t => agent'[b] = agent[b]
                       /\ agent'[b].sid = t => agent'[b] = agent[b]
  BY <1>1 DEF AwayFrom
<1>4. live'[r][t] = live[r][t] /\ disk'[t] = disk[t]
  BY DEF AwayFrom
<1>5. live[r][t] # None => object'[live[r][t]] = object[live[r][t]] /\ live[r][t] \in Agent
  <2> SUFFICES ASSUME live[r][t] # None
               PROVE  object'[live[r][t]] = object[live[r][t]] /\ live[r][t] \in Agent
    OBVIOUS
  <2>1. live[r][t] \in Agent
    BY DEF InCustody, TypeOK
  <2>2. live[r][t] # live[r][s]
    BY DEF InCustody, HeldOnce
  <2>3. live'[r][t] # live'[r][s]
    BY <1>4 DEF InCustody, HeldOnce
  <2> QED
    BY <2>1, <2>2, <2>3, <1>4 DEF AwayFrom
<1>6. live[r][t] # None => object[live[r][t]].agent \in Agent
  BY <1>5, HeldHasAgent
<1>7. rt'[r].phase = rt[r].phase /\ rt'[r].restore \subseteq rt[r].restore
  BY DEF AwayFrom
<1>8. OpsAt(r, t)'
  BY <1>0, <1>2, <1>4, <1>7 DEF HostedAt, OpsAt, Opens, Stops
<1>9. RestoreAt(r, t)'
  BY <1>0, <1>2, <1>4, <1>7 DEF HostedAt, RestoreAt, Open
<1>10. AgentAt(r, t)'
  <2> SUFFICES ASSUME live[r][t] # None PROVE AgentAt(r, t)'
    BY <1>4 DEF AgentAt
  <2> DEFINE o == live[r][t]
             a == object[o].agent
  <2>1. Belongs(o, t)
    BY <1>0 DEF HostedAt, AgentAt
  <2>2. object'[o] = object[o] /\ agent'[a] = agent[a]
    BY <1>3, <1>5, <1>6, <2>1 DEF Belongs
  <2>3. Belongs(o, t)' /\ (Usable(r, o) => Usable(r, o)') /\ (Fresh(o) => Fresh(o)')
        /\ (Stopping(o) => Stopping(o)')
        /\ (agent[object[o].agent].state = "disposed" => agent'[object'[o].agent].state = "disposed")
    BY <1>4, <2>1, <2>2 DEF Belongs, Usable, Fresh, Stopping
  <2>4. AgentAt(r, t)
    BY <1>0 DEF HostedAt
  <2> QED
    BY <2>3, <2>4, <1>2, <1>4 DEF AgentAt, Opens, Stops, Belongs, Usable, Fresh, Stopping
<1>11. OnlyAt(r, t)'
  BY <1>0, <1>3, <1>4, <1>5 DEF HostedAt, OnlyAt
<1>12. RowAt(r, t)'
  <2> SUFFICES ASSUME live[r][t] # None PROVE RowAt(r, t)'
    BY <1>4 DEF RowAt
  <2>1. Belongs(live[r][t], t)
    BY <1>0 DEF HostedAt, AgentAt
  <2>2. object'[live[r][t]] = object[live[r][t]]
        /\ agent'[object[live[r][t]].agent] = agent[object[live[r][t]].agent]
    BY <1>3, <1>5, <1>6, <2>1 DEF Belongs
  <2> QED
    BY <2>2, <1>0, <1>2, <1>4 DEF HostedAt, RowAt, Opens, Open
<1>13. RunsAt(t)'
  BY <1>0, <1>2, <1>3, <1>4 DEF AwayFrom, RunsAt, Stops
<1>14. \A f \in Transcript : Mentions(t, f)' => Mentions(t, f)
  BY <1>2, <1>3, <1>4 DEF Mentions
<1> QED
  BY <1>8, <1>9, <1>10, <1>11, <1>12, <1>13, <1>14 DEF HostedAt

\* So a step at one session has to be right about that session.
LEMMA StepAtOne ==
    ASSUME InCustody, InCustody', InOrder, NEW r \in Runtime, Hosts(r), NEW s \in Sessions,
           AwayFrom(r, s), HostedAt(r, s)', RunsAt(s)', Unborn',
           \A f \in Transcript : Mentions(s, f)' => Mentions(s, f) \/ (f = nextAgent /\ nextAgent < nextAgent')
    PROVE  InOrder'
<1>0. OneHosts
  BY DEF InOrder
<1>1. \A q \in Runtime : Hosts(q)' <=> Hosts(q)
  BY DEF AwayFrom, Hosts
<1>2. \A q \in Runtime : Hosts(q) => q = r
  BY <1>0, OneHostAtATime
<1>3. OneHosts'
  <2>1. \A q \in Runtime : /\ rt'[q].phase # "stalled"
                           /\ rt'[q].torn <=> rt'[q].phase = "dead"
    BY <1>0 DEF AwayFrom, OneHosts
  <2>2. \A q \in Runtime : /\ ~Hosts(q) => \A t \in Sessions : live'[q][t] = None
                           /\ Hosts(q) => \A t \in Sessions : stash'.of[t] = None
    BY <1>0 DEF AwayFrom, OneHosts
  <2>3. \A i \in Op : /\ op'[i].kind = "free" => op'[i] = NoOp
                      /\ op'[i].kind # "free" => Hosts(op'[i].rt)
    BY <1>0, NoOpIsFree DEF AwayFrom, OneHosts
  <2>4. \A i \in Op : op'[i].rt \in Runtime
    BY DEF InCustody, TypeOK, OpRecord
  <2>5. dying' = NoStash
    BY <1>0 DEF AwayFrom, OneHosts
  <2> QED
    BY <1>1, <2>1, <2>2, <2>3, <2>4, <2>5 DEF OneHosts, Hosts
<1>4. \A t \in Sessions : t # s => HostedAt(r, t)' /\ RunsAt(t)' /\ \A f \in Transcript : Mentions(t, f)' => Mentions(t, f)
  BY OthersKept
<1>5. Hosted'
  <2> SUFFICES ASSUME NEW q \in Runtime, Hosts(q)', NEW t \in Sessions
               PROVE  rows'[q] = disk' /\ HostedAt(q, t)'
    BY DEF Hosted
  <2>1. q = r
    BY <1>1, <1>2
  <2>2. HostedAt(r, t)'
    BY <1>4
  <2> QED
    BY <2>1, <2>2 DEF AwayFrom
<1>6. Parked'
  BY <1>1 DEF Parked
<1>7. FilesApart'
  <2> SUFFICES ASSUME NEW f \in Transcript
               PROVE  /\ \A t, u \in Sessions : Mentions(t, f)' /\ Mentions(u, f)' => t = u
                      /\ \A t \in Sessions : Mentions(t, f)' /\ f \in Agent => f < nextAgent'
    BY DEF FilesApart
  <2>1. \A t \in Sessions : Mentions(t, f)' => Mentions(t, f) \/ (t = s /\ f = nextAgent /\ nextAgent < nextAgent')
    BY <1>4
  <2>2. /\ \A t, u \in Sessions : Mentions(t, f) /\ Mentions(u, f) => t = u
        /\ \A t \in Sessions : Mentions(t, f) /\ f \in Agent => f < nextAgent
    BY DEF InOrder, FilesApart
  <2>3. nextAgent \in Nat /\ nextAgent' \in Nat /\ nextAgent <= nextAgent'
    BY AgentBound DEF InCustody, TypeOK, AwayFrom
  <2>4. \A t \in Sessions : Mentions(t, f)' /\ f \in Agent => f < nextAgent'
    <3> SUFFICES ASSUME NEW t \in Sessions, Mentions(t, f)', f \in Agent PROVE f < nextAgent'
      OBVIOUS
    <3>1. CASE Mentions(t, f)
      BY <3>1, <2>2, <2>3 DEF Agent
    <3>2. CASE f = nextAgent /\ nextAgent < nextAgent'
      BY <3>2
    <3> QED
      BY <2>1, <3>1, <3>2
  <2>5. \A t, u \in Sessions : Mentions(t, f)' /\ Mentions(u, f)' => t = u
    <3> SUFFICES ASSUME NEW t \in Sessions, NEW u \in Sessions, Mentions(t, f)', Mentions(u, f)', t # u
                 PROVE  FALSE
      OBVIOUS
    <3>1. nextAgent < nextAgent' => nextAgent \in Agent
      BY <2>3, AgentBound DEF InCustody, TypeOK, Agent
    <3>2. ~(nextAgent < nextAgent)
      BY <2>3
    <3> QED
      BY <2>1, <2>2, <3>1, <3>2
  <2> QED
    BY <2>4, <2>5
<1>8. \A t \in Sessions : RunsAt(t)'
  BY <1>4
<1> QED
  BY <1>3, <1>5, <1>6, <1>7, <1>8 DEF InOrder

-----------------------------------------------------------------------------
(* Order: what every step at one session uses.                             *)

LEMMA OrderlyEvents ==
    Orderly => /\ "overlap" \notin scope.events /\ "busy reload" \notin scope.events
               /\ "deadline" \notin scope.events /\ "stall" \notin scope.events
               /\ "failure" \notin scope.events
BY DEF Orderly

LEMMA NoOpOn ==
    ASSUME InCustody, InOrder, Orderly, NEW r \in Runtime, Hosts(r), NEW s \in Sessions, NoOverlap(r, s)
    PROVE  \A i \in Op : op[i].sid # s
<1> SUFFICES ASSUME NEW i \in Op, op[i].sid = s PROVE FALSE
  OBVIOUS
<1>1. op[i].kind # "free"
  BY NoneIsNoSession, NoOpIsFree DEF InOrder, OneHosts
<1>2. op[i].rt = r
  <2>1. op[i].rt \in Runtime /\ Hosts(op[i].rt)
    BY <1>1 DEF InCustody, TypeOK, OpRecord, InOrder, OneHosts
  <2> QED
    BY <2>1, OneHostAtATime DEF InOrder
<1> QED
  BY <1>1, <1>2, OrderlyEvents DEF NoOverlap

\* The operation under way, and its session.
LEMMA OpAt ==
    ASSUME InCustody, InOrder, NEW i \in Op, op[i].kind # "free"
    PROVE  /\ op[i].rt \in Runtime /\ op[i].sid \in Sessions /\ Hosts(op[i].rt)
           /\ HostedAt(op[i].rt, op[i].sid) /\ RunsAt(op[i].sid) /\ rows[op[i].rt] = disk
           /\ op[i].obj = live[op[i].rt][op[i].sid]
           /\ \A j \in Op : op[j].sid = op[i].sid => j = i
<1>1. op[i].rt \in Runtime /\ op[i].sid \in Sessions
  BY OpIsSomewhere
<1>2. Hosts(op[i].rt)
  BY DEF InOrder, OneHosts
<1>3. HostedAt(op[i].rt, op[i].sid) /\ RunsAt(op[i].sid) /\ rows[op[i].rt] = disk
  BY <1>1, <1>2 DEF InOrder, Hosted
<1> QED
  BY <1>1, <1>2, <1>3 DEF HostedAt, OpsAt

LEMMA SavedHere ==
    ASSUME InCustody, NEW r \in Runtime, rows[r] = disk, NEW s \in Sessions, NEW row, Save(r, s, row)
    PROVE  rows'[r] = disk' /\ disk'[s] = row /\ \A t \in Sessions : t # s => disk'[t] = disk[t]
<1>1. rows \in [Runtime -> [Sessions -> Row]] /\ disk \in [Sessions -> Row]
  BY DEF InCustody, TypeOK
<1>2. rows' = [rows EXCEPT ![r] = [rows[r] EXCEPT ![s] = row]]
  BY DEF Save
<1> QED
  BY <1>1, <1>2 DEF Save

LEMMA BegunHere ==
    ASSUME InCustody, InOrder, NEW rec \in OpRecord, Begins(rec)
    PROVE  \E i \in Op : op[i] = NoOp /\ op'[i] = rec /\ \A j \in Op : j # i => op'[j] = op[j]
BY DEF InCustody, TypeOK, InOrder, OneHosts, Begins

LEMMA EndedHere ==
    ASSUME InCustody, NEW i \in Op, Ends(i)
    PROVE  op'[i] = NoOp /\ \A j \in Op : j # i => op'[j] = op[j]
BY DEF InCustody, TypeOK, Ends

\* A step that leaves the agents and their objects alone.
LEMMA RowsAndOpsOnly ==
    ASSUME InCustody, InOrder, NEW r \in Runtime, NEW s \in Sessions,
           UNCHANGED <<agent, nextAgent, object, rt, live, stash, dying, cut>>,
           \A t \in Sessions : t # s => disk'[t] = disk[t], rows'[r] = disk',
           \A i \in Op : \/ op'[i] = op[i]
                         \/ op[i].sid \in {s, None} /\ op'[i] = NoOp
                         \/ op[i].sid \in {s, None} /\ op'[i].sid = s /\ op'[i].kind # "free" /\ op'[i].rt = r
    PROVE  AwayFrom(r, s) /\ Unborn'
<1>1. nextAgent <= nextAgent'
  BY NextAgentIsNumber DEF InCustody
<1> QED
  BY <1>1 DEF AwayFrom, InOrder, Unborn

LEMMA NoneIsNoTranscript == None \notin Transcript
BY NoneIsNoSession, TranscriptsApart DEF Transcript

LEMMA NoneIsNoAgent == None \notin Agent /\ None \notin Runtime
BY TranscriptsApart

\* A command begins at a session that has no other.
LEMMA SpawnKeepsOrder ==
    ASSUME InCustody, InCustody', InOrder, Orderly, NEW r \in Runtime, NEW s \in Sessions, Spawn(r, s)
    PROVE  InOrder'
<1> DEFINE c == Command("spawn", "create", r, s)
           rec == [c EXCEPT !.held = TRUE]
<1>0. TypeOK /\ Hosts(r) /\ live[r][s] = None /\ rt[r].phase = "serving"
  BY DEF InCustody, Spawn, Free, Hosts
<1>1. \A i \in Op : op[i].sid # s
  BY <1>0, NoOpOn DEF Spawn, Free
<1>2. HostedAt(r, s) /\ rows[r] = disk
  BY <1>0 DEF InOrder, Hosted
<1>3. c \in OpRecord /\ c.kind = "spawn" /\ c.at = "create" /\ c.rt = r /\ c.sid = s /\ c.obj = live[r][s]
  BY <1>0, CommandIsTyped DEF Kinds
<1>4. c.file = None
  BY DEF Command, NoOp
<1>5. Begins(rec)
  BY DEF Spawn
<1> HIDE DEF c
<1>6. /\ rec \in OpRecord /\ rec.kind = "spawn" /\ rec.at = "create" /\ rec.rt = r /\ rec.sid = s
      /\ rec.obj = None /\ rec.file = None /\ rec.held
  BY <1>0, <1>3, <1>4 DEF OpRecord
<1> HIDE DEF rec
<1>7. PICK i \in Op : op[i] = NoOp /\ op'[i] = rec /\ \A j \in Op : j # i => op'[j] = op[j]
  BY <1>5, <1>6, BegunHere
<1>8. UNCHANGED <<scope, agent, nextAgent, object, rt, live, stash, dying, cut>>
  BY DEF Spawn
<1>9. /\ rows'[r] = disk' /\ \A t \in Sessions : t # s => disk'[t] = disk[t]
      /\ disk'[s] = NoRow \/ (disk'[s] = disk[s] /\ disk[s].status = "none")
  <2>1. CASE Save(r, s, NoRow)
    BY <2>1, <1>2, SavedHere
  <2>2. CASE rows[r][s].status # "closed"
    BY <2>2, <1>2 DEF Spawn
  <2> QED
    BY <2>1, <2>2 DEF Spawn
<1>10. AwayFrom(r, s) /\ Unborn'
  BY <1>6, <1>7, <1>8, <1>9, NoOpIsFree, RowsAndOpsOnly
<1>11. \A j \in Op : op'[j].sid = s => j = i
  BY <1>1, <1>7
<1>12. HostedAt(r, s)'
  <2>1. OpsAt(r, s)'
    BY <1>0, <1>6, <1>7, <1>8, <1>11 DEF OpsAt, Opens, Stops
  <2>2. RestoreAt(r, s)' /\ AgentAt(r, s)' /\ RowAt(r, s)'
    BY <1>0, <1>8 DEF RestoreAt, AgentAt, RowAt
  <2>3. OnlyAt(r, s)'
    BY <1>2, <1>8 DEF HostedAt, OnlyAt
  <2> QED
    BY <2>1, <2>2, <2>3 DEF HostedAt
<1>13. RunsAt(s)'
  BY <1>9 DEF RunsAt, NoRow
<1>14. \A f \in Transcript : Mentions(s, f)' => Mentions(s, f)
  BY <1>6, <1>7, <1>8, <1>9, <1>11, NoneIsNoTranscript DEF Mentions, NoRow
<1> QED
  BY <1>0, <1>10, <1>12, <1>13, <1>14, StepAtOne

LEMMA ResumeKeepsOrder ==
    ASSUME InCustody, InCustody', InOrder, Orderly, NEW r \in Runtime, NEW s \in Sessions, Resume(r, s)
    PROVE  InOrder'
<1> DEFINE c == Command("resume", "create", r, s)
           rec == [c EXCEPT !.held = TRUE, !.file = rows[r][s].file]
<1>0. TypeOK /\ Hosts(r) /\ live[r][s] = None /\ rt[r].phase = "serving"
  BY DEF InCustody, Resume, Free, Hosts
<1>1. \A i \in Op : op[i].sid # s
  BY <1>0, NoOpOn DEF Resume, Free
<1>2. HostedAt(r, s) /\ RunsAt(s) /\ rows[r] = disk
  BY <1>0 DEF InOrder, Hosted
<1>3. c \in OpRecord /\ c.kind = "resume" /\ c.at = "create" /\ c.rt = r /\ c.sid = s /\ c.obj = live[r][s]
  BY <1>0, CommandIsTyped DEF Kinds
<1>4. rows[r][s].file \in Transcript \cup {None}
  BY <1>0 DEF TypeOK, Row
<1>5. Begins(rec)
  BY DEF Resume
<1> HIDE DEF c
<1>6. /\ rec \in OpRecord /\ rec.kind = "resume" /\ rec.at = "create" /\ rec.rt = r /\ rec.sid = s
      /\ rec.obj = None /\ rec.file = disk[s].file /\ rec.held
  BY <1>0, <1>2, <1>3, <1>4 DEF OpRecord
<1> HIDE DEF rec
<1>7. PICK i \in Op : op[i] = NoOp /\ op'[i] = rec /\ \A j \in Op : j # i => op'[j] = op[j]
  BY <1>5, <1>6, BegunHere
<1>8. UNCHANGED <<scope, agent, nextAgent, object, rt, live, rows, disk, stash, dying, cut>>
  BY DEF Resume
<1>9. AwayFrom(r, s) /\ Unborn'
  BY <1>2, <1>6, <1>7, <1>8, NoOpIsFree, RowsAndOpsOnly
<1>10. \A j \in Op : op'[j].sid = s => j = i
  BY <1>1, <1>7
<1>11. HostedAt(r, s)'
  <2>1. OpsAt(r, s)'
    BY <1>0, <1>6, <1>7, <1>8, <1>10 DEF OpsAt, Opens, Stops
  <2>2. RestoreAt(r, s)' /\ AgentAt(r, s)' /\ RowAt(r, s)'
    BY <1>0, <1>8 DEF RestoreAt, AgentAt, RowAt
  <2>3. OnlyAt(r, s)'
    BY <1>2, <1>8 DEF HostedAt, OnlyAt
  <2> QED
    BY <2>1, <2>2, <2>3 DEF HostedAt
<1>12. RunsAt(s)'
  BY <1>1, <1>2, <1>8 DEF RunsAt
<1>13. \A f \in Transcript : Mentions(s, f)' => Mentions(s, f)
  BY <1>6, <1>7, <1>8, <1>10 DEF Mentions
<1> QED
  BY <1>0, <1>9, <1>11, <1>12, <1>13, StepAtOne

LEMMA SetModelKeepsOrder ==
    ASSUME InCustody, InCustody', InOrder, Orderly, NEW r \in Runtime, NEW s \in Sessions, SetModel(r, s)
    PROVE  InOrder'
<1> DEFINE c == Command("model", "settle", r, s)
<1>0. TypeOK /\ Hosts(r) /\ live[r][s] # None /\ rt[r].phase = "serving"
  BY DEF InCustody, SetModel, Free, Hosts
<1>1. \A i \in Op : op[i].sid # s
  BY <1>0, NoOpOn DEF SetModel, Free
<1>2. HostedAt(r, s) /\ RunsAt(s) /\ rows[r] = disk
  BY <1>0 DEF InOrder, Hosted
<1>3. c \in OpRecord /\ c.kind = "model" /\ c.at = "settle" /\ c.rt = r /\ c.sid = s /\ c.obj = live[r][s]
  BY <1>0, CommandIsTyped DEF Kinds
<1>4. c.file = None
  BY DEF Command, NoOp
<1>5. Begins(c)
  BY DEF SetModel
<1> HIDE DEF c
<1>6. PICK i \in Op : op[i] = NoOp /\ op'[i] = c /\ \A j \in Op : j # i => op'[j] = op[j]
  BY <1>3, <1>5, BegunHere
<1>7. UNCHANGED <<scope, agent, nextAgent, object, rt, live, rows, disk, stash, dying, cut>>
  BY DEF SetModel
<1>8. AwayFrom(r, s) /\ Unborn'
  BY <1>2, <1>3, <1>6, <1>7, NoOpIsFree, RowsAndOpsOnly
<1>9. \A j \in Op : op'[j].sid = s => j = i
  BY <1>1, <1>6
<1>10. HostedAt(r, s)'
  <2>1. OpsAt(r, s)'
    BY <1>0, <1>3, <1>6, <1>7, <1>9 DEF OpsAt, Opens, Stops
  <2>2. RestoreAt(r, s)'
    BY <1>0, <1>7 DEF RestoreAt
  <2>3. AgentAt(r, s)'
    BY <1>1, <1>2, <1>3, <1>6, <1>7, <1>9
       DEF HostedAt, AgentAt, Opens, Stops, Belongs, Usable, Fresh, Stopping
  <2>4. RowAt(r, s)' /\ OnlyAt(r, s)'
    BY <1>1, <1>2, <1>7 DEF HostedAt, RowAt, OnlyAt, Open
  <2> QED
    BY <2>1, <2>2, <2>3, <2>4 DEF HostedAt
<1>11. RunsAt(s)'
  BY <1>1, <1>2, <1>7 DEF RunsAt
<1>12. \A f \in Transcript : Mentions(s, f)' => Mentions(s, f)
  BY <1>4, <1>6, <1>7, <1>9, NoneIsNoTranscript DEF Mentions
<1> QED
  BY <1>0, <1>8, <1>10, <1>11, <1>12, StepAtOne

LEMMA CloseRowKeepsOrder ==
    ASSUME InCustody, InCustody', InOrder, Orderly, NEW r \in Runtime, NEW s \in Sessions, CloseRow(r, s)
    PROVE  InOrder'
<1>0. TypeOK /\ Hosts(r) /\ live[r][s] = None /\ rt[r].phase = "serving"
  BY DEF InCustody, CloseRow, Free, Hosts
<1>1. \A i \in Op : op[i].sid # s
  BY <1>0, NoOpOn DEF CloseRow, Free
<1>2. HostedAt(r, s) /\ rows[r] = disk
  BY <1>0 DEF InOrder, Hosted
<1>3. UNCHANGED <<scope, agent, nextAgent, object, rt, live, stash, dying, op, cut>>
  BY DEF CloseRow
<1>4. PICK row \in {NoRow, [rows[r][s] EXCEPT !.status = "closed"]} : Save(r, s, row)
  BY DEF CloseRow
<1>5. disk[s] \in Row
  BY <1>0 DEF TypeOK
<1>6. row.status \in {"none", "closed"} /\ row.file \in {None, disk[s].file}
  BY <1>2, <1>5 DEF NoRow, Row
<1>7. rows'[r] = disk' /\ disk'[s] = row /\ \A t \in Sessions : t # s => disk'[t] = disk[t]
  BY <1>2, <1>4, SavedHere
<1>8. AwayFrom(r, s) /\ Unborn'
  BY <1>3, <1>7, RowsAndOpsOnly
<1>9. HostedAt(r, s)'
  <2>1. OpsAt(r, s)' /\ RestoreAt(r, s)' /\ AgentAt(r, s)' /\ RowAt(r, s)'
    BY <1>0, <1>1, <1>3 DEF OpsAt, RestoreAt, AgentAt, RowAt
  <2>2. OnlyAt(r, s)'
    BY <1>2, <1>3 DEF HostedAt, OnlyAt
  <2> QED
    BY <2>1, <2>2 DEF HostedAt
<1>10. RunsAt(s)'
  BY <1>6, <1>7 DEF RunsAt
<1>11. \A f \in Transcript : Mentions(s, f)' => Mentions(s, f)
  BY <1>3, <1>6, <1>7, NoneIsNoTranscript DEF Mentions
<1> QED
  BY <1>0, <1>8, <1>9, <1>10, <1>11, StepAtOne

LEMMA RestoreNextKeepsOrder ==
    ASSUME InCustody, InCustody', InOrder, Orderly, NEW r \in Runtime, RestoreNext(r)
    PROVE  InOrder'
<1>0. TypeOK /\ Hosts(r) /\ rt[r].phase = "restoring"
  BY DEF InCustody, RestoreNext, Hosts, InOrder, OneHosts
<1>1. PICK s \in rt[r].restore :
        /\ rt' = [rt EXCEPT ![r].restore = @ \ {s}]
        /\ IF live[r][s] = None
           THEN Begins([NoOp EXCEPT !.kind = "restore", !.rt = r, !.sid = s, !.file = rows[r][s].file,
                                    !.nudge = rows[r][s].status = "running"])
           ELSE UNCHANGED op
  BY DEF RestoreNext
<1> DEFINE new == [rt[r] EXCEPT !.restore = @ \ {s}]
           nudge == rows[r][s].status = "running"
           rec == [NoOp EXCEPT !.kind = "restore", !.rt = r, !.sid = s, !.file = rows[r][s].file,
                               !.nudge = nudge]
<1>2. s \in Sessions
  BY <1>0 DEF TypeOK, RuntimeRecord
<1>3. HostedAt(r, s) /\ RunsAt(s) /\ rows[r] = disk
  BY <1>0, <1>2 DEF InOrder, Hosted
<1>4. rt' = [rt EXCEPT ![r] = new]
  BY <1>0, <1>1 DEF TypeOK
<1>5. new.torn = rt[r].torn /\ new.phase = rt[r].phase /\ new.restore = rt[r].restore \ {s}
  BY <1>0 DEF TypeOK, RuntimeRecord
<1> HIDE DEF new
<1>6. \A q \in Runtime : /\ rt'[q].phase = rt[q].phase /\ rt'[q].torn = rt[q].torn
                         /\ rt'[q].restore \subseteq rt[q].restore
  BY <1>0, <1>4, <1>5 DEF TypeOK
<1>7. UNCHANGED <<scope, agent, nextAgent, object, live, rows, disk, stash, dying, cut>>
  BY DEF RestoreNext
<1>8. \A i \in Op : op[i].sid # s
  <2> SUFFICES ASSUME NEW i \in Op, op[i].sid = s PROVE FALSE
    OBVIOUS
  <2>1. op[i].rt = r /\ op[i].kind = "restore"
    BY <1>0, <1>3 DEF HostedAt, OpsAt
  <2> QED
    BY <2>1 DEF RestoreNext
<1>9. Open(disk[s])
  BY <1>0, <1>3 DEF HostedAt, RestoreAt
<1>10. nextAgent <= nextAgent' /\ Unborn'
  BY <1>0, <1>7, NextAgentIsNumber DEF InOrder, Unborn
<1>11. CASE live[r][s] # None
  <2>1. UNCHANGED op
    BY <1>1, <1>11
  <2>2. AwayFrom(r, s)
    BY <2>1, <1>3, <1>6, <1>7, <1>10 DEF AwayFrom
  <2>3. OpsAt(r, s)' /\ RestoreAt(r, s)'
    BY <2>1, <1>7, <1>8, <1>9 DEF OpsAt, RestoreAt, Open
  <2>4. AgentAt(r, s)' /\ OnlyAt(r, s)' /\ RowAt(r, s)'
    BY <2>1, <1>3, <1>7 DEF HostedAt, AgentAt, OnlyAt, RowAt, Opens, Stops, Belongs, Usable, Fresh, Stopping, Open
  <2>5. RunsAt(s)' /\ \A f \in Transcript : Mentions(s, f)' => Mentions(s, f)
    BY <2>1, <1>3, <1>7 DEF RunsAt, Mentions, Stops
  <2> QED
    BY <1>0, <1>2, <1>10, <2>2, <2>3, <2>4, <2>5, StepAtOne DEF HostedAt
<1>12. CASE live[r][s] = None
  <2>1. Begins(rec)
    BY <1>1, <1>12
  <2>2. nudge \in BOOLEAN /\ rows[r][s].file \in Transcript \cup {None}
    BY <1>0, <1>2 DEF TypeOK, Row
  <2> HIDE DEF nudge
  <2>3. /\ rec \in OpRecord /\ rec.sid = s /\ rec.rt = r /\ rec.kind = "restore" /\ rec.at = "create"
        /\ rec.obj = None /\ rec.file = rows[r][s].file
    BY <1>2, <2>2, EmptyOnesAreTyped DEF OpRecord, NoOp, Kinds
  <2> HIDE DEF rec
  <2>4. PICK i \in Op : op[i] = NoOp /\ op'[i] = rec /\ \A j \in Op : j # i => op'[j] = op[j]
    BY <2>1, <2>3, BegunHere
  <2>5. \A j \in Op : op'[j].sid = s => j = i
    BY <2>4, <1>8
  <2>6. AwayFrom(r, s)
    BY <2>3, <2>4, <1>3, <1>6, <1>7, <1>10, NoOpIsFree DEF AwayFrom
  <2>7. OpsAt(r, s)'
    BY <2>3, <2>4, <2>5, <1>0, <1>6, <1>7, <1>12 DEF OpsAt, Opens, Stops
  <2>8. RestoreAt(r, s)' /\ AgentAt(r, s)' /\ RowAt(r, s)'
    BY <1>7, <1>9, <1>12 DEF RestoreAt, AgentAt, RowAt, Open
  <2>9. OnlyAt(r, s)' /\ RunsAt(s)'
    BY <1>3, <1>7, <1>8 DEF HostedAt, OnlyAt, RunsAt
  <2>10. \A f \in Transcript : Mentions(s, f)' => Mentions(s, f)
    BY <2>3, <2>4, <2>5, <1>3, <1>7 DEF Mentions
  <2> QED
    BY <1>0, <1>2, <1>10, <2>6, <2>7, <2>8, <2>9, <2>10, StepAtOne DEF HostedAt
<1> QED
  BY <1>11, <1>12

\* The agent of a live session.
LEMMA LiveAgent ==
    ASSUME InCustody, NEW r \in Runtime, NEW s \in Sessions, live[r][s] # None
    PROVE  live[r][s] \in Agent /\ object[live[r][s]].agent \in Agent
<1>1. live[r][s] \in Agent
  BY DEF InCustody, TypeOK
<1> QED
  BY <1>1, HeldHasAgent

\* A usable session begins to be stopped: its handler is off, and the rest is
\* as it was.
LEMMA StopKeepsOrder ==
    ASSUME InCustody, InCustody', InOrder, Orderly, NEW r \in Runtime, NEW s \in Sessions,
           live[r][s] # None, NoOverlap(r, s), rt[r].phase = "serving",
           agent' = Unheard(live[r][s], agent), NEW rec \in OpRecord, Begins(rec),
           rec.sid = s, rec.rt = r, rec.obj = live[r][s], rec.file = None,
           rec.kind \in {"despawn", "delete", "clear"}, rec.at = "stop", rec.kind # "clear" => rec.held,
           UNCHANGED <<scope, nextAgent, object, rt, live, rows, disk, stash, dying, cut>>
    PROVE  InOrder'
<1> DEFINE o == live[r][s]
           a == object[o].agent
<1>0. TypeOK /\ Hosts(r) /\ o \in Agent /\ a \in Agent
  BY LiveAgent DEF InCustody, Hosts
<1>1. \A i \in Op : op[i].sid # s
  BY <1>0, NoOpOn
<1>2. HostedAt(r, s) /\ RunsAt(s) /\ rows[r] = disk
  BY <1>0 DEF InOrder, Hosted
<1>3. Belongs(o, s) /\ Usable(r, o)
  BY <1>1, <1>2 DEF HostedAt, AgentAt
<1>4. agent' = Unheard(o, agent)
  OBVIOUS
<1>5. object[o].unsub # None /\ object[o].unsub = r
  BY <1>3, NoneIsNoAgent DEF Usable
<1>6. \A b \in Agent : /\ agent'[b].sid = agent[b].sid /\ agent'[b].state = agent[b].state
                       /\ agent'[b].running = agent[b].running /\ agent'[b].file = agent[b].file
                       /\ agent'[b].prompt = agent[b].prompt
                       /\ agent'[b].of = agent[b].of
                       /\ b # a => agent'[b] = agent[b]
                       /\ b = a => agent'[b].heardBy = agent[b].heardBy \ {r}
  BY <1>0, <1>4, <1>5, UnheardIsTyped
<1>7. Stopping(o)'
  BY <1>0, <1>3, <1>6 DEF Stopping, Usable
<1>8. PICK i \in Op : op[i] = NoOp /\ op'[i] = rec /\ \A j \in Op : j # i => op'[j] = op[j]
  BY BegunHere
<1>9. \A j \in Op : op'[j].sid = s => j = i
  BY <1>1, <1>8
<1>10. AwayFrom(r, s)
  <2>1. nextAgent <= nextAgent'
    BY <1>0, NextAgentIsNumber
  <2>2. \A b \in Agent : agent'[b] = agent[b] \/ (agent[b].sid = s /\ agent'[b].sid = s)
    BY <1>3, <1>6 DEF Belongs
  <2>3. \A j \in Op : \/ op'[j] = op[j]
                      \/ op[j].sid \in {s, None} /\ op'[j].sid = s /\ op'[j].kind # "free" /\ op'[j].rt = r
    BY <1>8, NoOpIsFree
  <2> QED
    BY <1>2, <2>1, <2>2, <2>3 DEF AwayFrom
<1>11. Unborn'
  BY <1>6 DEF InOrder, Unborn
<1>12. HostedAt(r, s)'
  <2>1. OpsAt(r, s)'
    BY <1>8, <1>9 DEF OpsAt, Opens, Stops
  <2>2. RestoreAt(r, s)'
    BY DEF RestoreAt
  <2>3. AgentAt(r, s)'
    <3>1. Belongs(o, s)'
      BY <1>0, <1>3, <1>6 DEF Belongs
    <3>2. op'[i].sid = s /\ op'[i].kind # "model" /\ ~Opens(i)' /\ op'[i].at = "stop"
      BY <1>8 DEF Opens
    <3> QED
      BY <1>7, <1>9, <3>1, <3>2 DEF AgentAt, Opens, Stops
  <2>4. OnlyAt(r, s)'
    BY <1>2, <1>6 DEF HostedAt, OnlyAt
  <2>5. RowAt(r, s)'
    BY <1>0, <1>1, <1>2, <1>6 DEF HostedAt, RowAt, Open
  <2> QED
    BY <2>1, <2>2, <2>3, <2>4, <2>5 DEF HostedAt
<1>13. RunsAt(s)'
  BY <1>1, <1>2, <1>6 DEF RunsAt
<1>14. \A f \in Transcript : Mentions(s, f)' => Mentions(s, f)
  BY <1>6, <1>8, <1>9, NoneIsNoTranscript DEF Mentions
<1> QED
  BY <1>0, <1>10, <1>11, <1>12, <1>13, <1>14, StepAtOne

LEMMA DespawnKeepsOrder ==
    ASSUME InCustody, InCustody', InOrder, Orderly, NEW r \in Runtime, NEW s \in Sessions, Despawn(r, s)
    PROVE  InOrder'
<1>1. PICK kind \in {"despawn", "delete"}, held \in BOOLEAN :
        /\ ~held => "overlap" \in scope.events /\ kind = "despawn"
        /\ Begins([Command(kind, "stop", r, s) EXCEPT !.held = held])
  BY DEF Despawn
<1> DEFINE c == Command(kind, "stop", r, s)
           rec == [c EXCEPT !.held = held]
<1>2. /\ c \in OpRecord /\ c.kind = kind /\ c.at = "stop" /\ c.rt = r /\ c.sid = s
      /\ c.obj = live[r][s]
  BY CommandIsTyped DEF InCustody, Kinds
<1>10. c.file = None
  BY DEF Command, NoOp
<1>3. Begins(rec) /\ held
  BY <1>1, OrderlyEvents
<1> HIDE DEF c
<1>4. /\ rec \in OpRecord /\ rec.kind = kind /\ rec.at = "stop" /\ rec.rt = r /\ rec.sid = s
      /\ rec.obj = live[r][s] /\ rec.file = None /\ rec.held
  BY <1>2, <1>3, <1>10 DEF OpRecord
<1> HIDE DEF rec
<1>5. /\ live[r][s] # None /\ NoOverlap(r, s) /\ rt[r].phase = "serving"
      /\ agent' = Unheard(live[r][s], agent)
      /\ UNCHANGED <<scope, nextAgent, object, rt, live, rows, disk, stash, dying, cut>>
  BY DEF Despawn
<1> QED
  BY <1>3, <1>4, <1>5, StopKeepsOrder

LEMMA ClearKeepsOrder ==
    ASSUME InCustody, InCustody', InOrder, Orderly, NEW r \in Runtime, NEW s \in Sessions, Clear(r, s)
    PROVE  InOrder'
<1> DEFINE c == Command("clear", "stop", r, s)
<1>1. /\ c \in OpRecord /\ c.kind = "clear" /\ c.at = "stop" /\ c.rt = r /\ c.sid = s
      /\ c.obj = live[r][s]
  BY CommandIsTyped DEF InCustody, Kinds
<1>10. c.file = None
  BY DEF Command, NoOp
<1>2. Begins(c)
  BY DEF Clear
<1> HIDE DEF c
<1>3. /\ live[r][s] # None /\ NoOverlap(r, s) /\ rt[r].phase = "serving"
      /\ agent' = Unheard(live[r][s], agent)
      /\ UNCHANGED <<scope, nextAgent, object, rt, live, rows, disk, stash, dying, cut>>
  BY DEF Clear, Free
<1> QED
  BY <1>1, <1>10, <1>2, <1>3, StopKeepsOrder

\* A message finds a session that is usable.
LEMMA MessageKeepsOrder ==
    ASSUME InCustody, InCustody', InOrder, Orderly, NEW r \in Runtime, NEW s \in Sessions, Message(r, s)
    PROVE  InOrder'
<1> DEFINE o == live[r][s]
           a == object[o].agent
           new == [object[o] EXCEPT !.working = TRUE]
           told == Prompted(agent[a])
<1>0. TypeOK /\ Hosts(r) /\ o # None /\ o \in Agent /\ a \in Agent /\ rt[r].phase = "serving"
  BY LiveAgent DEF InCustody, Message, Hosts
<1>1. HostedAt(r, s) /\ RunsAt(s) /\ rows[r] = disk
  BY <1>0 DEF InOrder, Hosted
<1>2. \A i \in Op : op[i].sid = s => op[i].kind = "model"
  <2> SUFFICES ASSUME NEW i \in Op, op[i].sid = s PROVE op[i].kind = "model"
    OBVIOUS
  <2>1. op[i].rt = r /\ op[i].obj = o /\ (op[i].kind = "restore" <=> rt[r].phase = "restoring")
        /\ (op[i].kind \in {"spawn", "resume"} \/ Stops(i) => op[i].held)
    BY <1>1 DEF HostedAt, OpsAt
  <2>2. op[i].kind \in Kinds /\ op[i].kind # "free"
    BY <1>0, NoneIsNoSession, NoOpIsFree DEF TypeOK, OpRecord, InOrder, OneHosts
  <2>3. ~op[i].held
    BY <2>1, <2>2 DEF Message, Held
  <2>4. op[i].kind # "clear"
    BY <2>1, OrderlyEvents DEF Message
  <2> QED
    BY <1>0, <2>1, <2>2, <2>3, <2>4 DEF Kinds, Stops
<1>3. Belongs(o, s) /\ Usable(r, o)
  BY <1>0, <1>1, <1>2 DEF HostedAt, AgentAt
<1>4. object' = [object EXCEPT ![o] = new]
  BY <1>0 DEF Message, TypeOK
<1>5. agent' = [agent EXCEPT ![a] = told]
  BY <1>0, <1>3, NoneIsNoAgent DEF Message, TypeOK, Usable, Alive
<1>6. new.agent = a /\ new.working /\ new.submits = object[o].submits /\ new.unsub = object[o].unsub
  BY <1>0 DEF TypeOK, ObjectRecord
<1>7. /\ told.sid = agent[a].sid /\ told.state = agent[a].state /\ told.of = agent[a].of
      /\ told.file = agent[a].file /\ told.heardBy = agent[a].heardBy
      /\ told.running <=> agent[a].running
      /\ told.running \/ told.prompt # "none"
  BY <1>0, PromptedIsTyped DEF TypeOK
<1> HIDE DEF new, told
<1>8. object'[o] = new /\ \A x \in Agent : x # o => object'[x] = object[x]
  BY <1>0, <1>4 DEF TypeOK
<1>9. agent'[a] = told /\ \A b \in Agent : b # a => agent'[b] = agent[b]
  BY <1>0, <1>5 DEF TypeOK
<1>10. UNCHANGED <<scope, nextAgent, rt, live, rows, disk, stash, dying, op, cut>>
  BY DEF Message
<1>11. AwayFrom(r, s)
  <2>1. nextAgent <= nextAgent'
    BY <1>0, <1>10, NextAgentIsNumber
  <2>2. \A b \in Agent : agent'[b] = agent[b] \/ (agent[b].sid = s /\ agent'[b].sid = s)
    BY <1>3, <1>7, <1>9 DEF Belongs
  <2> QED
    BY <1>1, <1>8, <1>10, <2>1, <2>2 DEF AwayFrom
<1>12. Unborn'
  BY <1>0, <1>6, <1>7, <1>8, <1>9, <1>10 DEF InOrder, Unborn
<1>13. HostedAt(r, s)'
  <2>1. OpsAt(r, s)' /\ RestoreAt(r, s)'
    BY <1>1, <1>10 DEF HostedAt, OpsAt, RestoreAt, Opens, Stops, Open
  <2>2. AgentAt(r, s)'
    <3>1. Belongs(o, s)' /\ Usable(r, o)'
      BY <1>3, <1>6, <1>7, <1>8, <1>9, <1>10 DEF Belongs, Usable
    <3> QED
      BY <1>2, <1>10, <3>1 DEF AgentAt, Opens, Stops
  <2>3. OnlyAt(r, s)'
    BY <1>1, <1>6, <1>7, <1>8, <1>9, <1>10 DEF HostedAt, OnlyAt
  <2>4. RowAt(r, s)'
    BY <1>1, <1>6, <1>7, <1>8, <1>9, <1>10 DEF HostedAt, RowAt, Opens, Open
  <2> QED
    BY <2>1, <2>2, <2>3, <2>4 DEF HostedAt
<1>14. RunsAt(s)'
  BY <1>1, <1>7, <1>9, <1>10 DEF RunsAt, Stops
<1>15. \A f \in Transcript : Mentions(s, f)' => Mentions(s, f)
  BY <1>7, <1>9, <1>10 DEF Mentions
<1> QED
  BY <1>0, <1>11, <1>12, <1>13, <1>14, <1>15, StepAtOne

\* An agent is created for a session that has none.
LEMMA CreatedKeepsOrder ==
    ASSUME InCustody, InCustody', InOrder, Orderly, NEW i \in Op, Created(i),
           NEW r, r = op[i].rt, NEW s, s = op[i].sid, NEW a, a = nextAgent
    PROVE  InOrder'
<1> DEFINE file == IF op[i].kind = "spawn" THEN a ELSE op[i].file
           born == Born(file, s, a)
           new == [NoObject EXCEPT !.agent = a]
           rec == [op[i] EXCEPT !.at = "settle", !.obj = a]
<1>0. TypeOK /\ a \in Agent /\ nextAgent' = a + 1 /\ a \in Nat /\ a # None /\ op[i].kind # "free"
  BY ScopeBoundsAgents, NextAgentIsNumber, NoneIsNoAgent DEF InCustody, Created
<1>1. /\ r \in Runtime /\ s \in Sessions /\ Hosts(r) /\ HostedAt(r, s) /\ RunsAt(s) /\ rows[r] = disk
      /\ op[i].obj = live[r][s] /\ \A j \in Op : op[j].sid = s => j = i
  BY <1>0, OpAt
<1>2. Opens(i) /\ op[i].at = "create" /\ live[r][s] = None
      /\ (op[i].kind = "restore" <=> rt[r].phase = "restoring")
  BY <1>1 DEF Created, HostedAt, OpsAt, Opens
<1>3. UNCHANGED <<scope, rt, rows, disk, stash, dying, cut>>
  BY DEF Created
<1>4. agent'[a] = born /\ \A b \in Agent : b # a => agent'[b] = agent[b]
  BY <1>0 DEF Created, TypeOK
<1>5. object'[a] = new /\ \A x \in Agent : x # a => object'[x] = object[x]
  BY <1>0 DEF Created, TypeOK
<1>6. op'[i] = rec /\ \A j \in Op : j # i => op'[j] = op[j]
  BY <1>0 DEF Created, TypeOK
<1>7. /\ rec.kind = op[i].kind /\ rec.at = "settle" /\ rec.rt = r /\ rec.sid = s /\ rec.obj = a
      /\ rec.file = op[i].file /\ rec.held = op[i].held
  BY <1>0 DEF TypeOK, OpRecord
<1>8. /\ born.state = "alive" /\ born.sid = s /\ born.of = a /\ born.heardBy = {} /\ ~born.running
      /\ born.file = file /\ born.prompt = "none"
  BY DEF Born
<1>9. new.agent = a /\ ~new.working
  BY DEF NoObject
<1> HIDE DEF born, new, rec
<1>10. live'[r][s] = a /\ \A q \in Runtime, t \in Sessions : live'[q][t] = live[q][t] \/ (q = r /\ t = s)
  BY <1>0, <1>1 DEF Created, TypeOK
<1>11. agent[a].state = "unused" /\ agent[a].sid = None
  BY <1>0 DEF InOrder, Unborn
<1>12. AwayFrom(r, s)
  <2>1. nextAgent <= nextAgent'
    BY <1>0
  <2>2. \A b \in Agent : agent'[b] = agent[b] \/ (agent[b].sid = None /\ agent'[b].sid = s)
    BY <1>4, <1>8, <1>11
  <2>3. \A j \in Op : \/ op'[j] = op[j]
                      \/ op[j].sid = s /\ op'[j].sid = s /\ op'[j].kind # "free" /\ op'[j].rt = r
    BY <1>0, <1>6, <1>7
  <2>4. \A x \in Agent : object'[x] = object[x] \/ x = live'[r][s]
    BY <1>5, <1>10
  <2> QED
    BY <1>1, <1>3, <1>10, <2>1, <2>2, <2>3, <2>4 DEF AwayFrom
<1>13. Unborn'
  <2>1. \A b \in Agent : b >= nextAgent' => b >= nextAgent /\ b # a
    BY <1>0 DEF Agent
  <2>2. \A o \in Agent : object'[o].agent # None => object'[o].agent < nextAgent'
    <3> SUFFICES ASSUME NEW o \in Agent, object'[o].agent # None PROVE object'[o].agent < nextAgent'
      OBVIOUS
    <3>1. CASE o = a
      BY <3>1, <1>0, <1>5, <1>9
    <3>2. CASE o # a
      <4>1. object[o].agent # None /\ object[o].agent < nextAgent /\ object'[o].agent = object[o].agent
        BY <3>2, <1>5 DEF InOrder, Unborn
      <4>2. object[o].agent \in Agent
        BY <4>1, <1>0 DEF TypeOK, ObjectRecord
      <4> QED
        BY <4>1, <4>2, <1>0 DEF Agent
    <3> QED
      BY <3>1, <3>2
  <2> QED
    BY <2>1, <2>2, <1>4 DEF InOrder, Unborn
<1>14. \A j \in Op : op'[j].sid = s => j = i
  BY <1>1, <1>6
<1>15. HostedAt(r, s)'
  <2>1. OpsAt(r, s)'
    BY <1>0, <1>1, <1>2, <1>3, <1>6, <1>7, <1>10, <1>14 DEF HostedAt, OpsAt, Opens, Stops
  <2>2. RestoreAt(r, s)'
    BY <1>1, <1>3, <1>6, <1>14 DEF HostedAt, RestoreAt, Open
  <2>3. AgentAt(r, s)'
    <3>1. Belongs(a, s)' /\ Fresh(a)'
      <4>1. live'[r][s] = a
        BY <1>10
      <4>2. agent'[object'[a].agent].state = "alive" /\ agent'[object'[a].agent].heardBy = {}
            /\ ~agent'[object'[a].agent].running /\ ~object'[a].working
            /\ agent'[object'[a].agent].prompt = "none"
            /\ agent'[object'[a].agent].of = a /\ agent'[object'[a].agent].sid = s
        BY <1>4, <1>5, <1>8, <1>9
      <4> QED
        BY <1>10, <4>1, <4>2 DEF Belongs, Fresh
    <3> QED
      BY <1>2, <1>6, <1>7, <1>10, <1>14, <3>1 DEF AgentAt, Opens, Stops, Belongs, Fresh
  <2>4. OnlyAt(r, s)'
    BY <1>0, <1>1, <1>2, <1>4, <1>5, <1>9, <1>10 DEF HostedAt, OnlyAt
  <2>5. RowAt(r, s)'
    BY <1>2, <1>6, <1>7 DEF RowAt, Opens
  <2> QED
    BY <2>1, <2>2, <2>3, <2>4, <2>5 DEF HostedAt
<1>16. RunsAt(s)'
  <2>1. \A b \in Agent : agent[b].running \/ agent[b].prompt # "none" => b # a
    BY <1>11 DEF InCustody, AgentsAreNamed
  <2>2. \A j \in Op : op[j].sid = s => ~Stops(j) /\ op[j].kind # "clear"
    BY <1>1, <1>2 DEF Stops, Opens
  <2> QED
    BY <1>1, <1>3, <1>4, <2>1, <2>2 DEF RunsAt
<1>17. \A f \in Transcript : Mentions(s, f)' => Mentions(s, f) \/ (f = nextAgent /\ nextAgent < nextAgent')
  <2> SUFFICES ASSUME NEW f \in Transcript, Mentions(s, f)', ~Mentions(s, f)
               PROVE  f = nextAgent /\ nextAgent < nextAgent'
    OBVIOUS
  <2>1. op[i].file # f
    BY <1>1 DEF Mentions
  <2>2. born.file = f
    BY <2>1, <1>3, <1>4, <1>6, <1>7, <1>14 DEF Mentions
  <2> QED
    BY <2>1, <2>2, <1>0, <1>8
<1> QED
  BY <1>1, <1>12, <1>13, <1>15, <1>16, <1>17, StepAtOne

LEMMA LiveRow ==
    ASSUME NEW r \in Runtime, NEW s \in Sessions, live[r][s] # None, NEW status
    PROVE  /\ RowOf(r, s, status).status = status
           /\ RowOf(r, s, status).file = agent[object[live[r][s]].agent].file
BY DEF RowOf

\* The session that was opened is wired up, and usable from then on.
LEMMA SettledKeepsOrder ==
    ASSUME InCustody, InCustody', InOrder, Orderly, NEW i \in Op, Settled(i),
           NEW r, r = op[i].rt, NEW s, s = op[i].sid, NEW o, o = op[i].obj, NEW a, a = object[o].agent
    PROVE  InOrder'
<1> DEFINE nudged == op[i].nudge /\ rt[r].phase # "dead" /\ live[r][s] = o
           wired == [object[o] EXCEPT !.submits = TRUE, !.unsub = r, !.working = @ \/ nudged]
           hears == [agent[a] EXCEPT !.heardBy = @ \cup {r}]
           told == IF nudged THEN Prompted(hears) ELSE hears
<1>0. TypeOK /\ op[i].kind # "free" /\ Opens(i) /\ op[i].at = "settle"
  BY DEF InCustody, Settled, Opens
<1>1. /\ r \in Runtime /\ s \in Sessions /\ Hosts(r) /\ HostedAt(r, s) /\ RunsAt(s) /\ rows[r] = disk
      /\ o = live[r][s] /\ \A j \in Op : op[j].sid = s => j = i
  BY <1>0, OpAt
<1>2. live[r][s] # None /\ o # None
  BY <1>0, <1>1 DEF HostedAt, OpsAt
<1>3. o \in Agent /\ a \in Agent /\ a # None
  BY <1>1, <1>2, LiveAgent, NoneIsNoAgent
<1>4. Belongs(o, s) /\ Fresh(o)
  BY <1>0, <1>1, <1>2 DEF HostedAt, AgentAt
<1>5. nudged \in BOOLEAN
  OBVIOUS
<1>6. object' = [object EXCEPT ![o] = wired]
  BY <1>0, <1>3 DEF Settled, Wired, TypeOK
<1>7. agent' = [agent EXCEPT ![a] = told]
  BY <1>0, <1>3, <1>4 DEF Settled, Heard, TypeOK, Fresh, Alive
<1> HIDE DEF nudged
<1>8. /\ wired.agent = a /\ wired.submits /\ wired.unsub = r /\ (wired.working <=> nudged)
  BY <1>0, <1>3, <1>4, <1>5 DEF TypeOK, ObjectRecord, Fresh
<1>9. /\ told.sid = s /\ told.state = "alive" /\ told.of = o /\ told.file = agent[a].file
      /\ told.heardBy = {r} /\ ~told.running /\ (told.prompt # "none" <=> nudged)
  <2>1. /\ hears \in AgentRecord /\ hears.sid = s /\ hears.state = "alive" /\ hears.of = o
        /\ hears.file = agent[a].file /\ hears.heardBy = {r} /\ ~hears.running /\ hears.prompt = "none"
    BY <1>0, <1>1, <1>3, <1>4 DEF TypeOK, AgentRecord, Fresh, Belongs
  <2> HIDE DEF hears
  <2>2. Prompted(hears).prompt = "preparing"
    BY <2>1, PromptedIsTyped
  <2> QED
    BY <2>1, <2>2, PromptedIsTyped
<1> HIDE DEF wired, told
<1>10. object'[o] = wired /\ \A x \in Agent : x # o => object'[x] = object[x]
  BY <1>0, <1>3, <1>6 DEF TypeOK
<1>11. agent'[a] = told /\ \A b \in Agent : b # a => agent'[b] = agent[b]
  BY <1>0, <1>3, <1>7 DEF TypeOK
<1>12. Save(r, s, RowOf(r, s, "idle")) /\ Ends(i) /\ cut' = cut \ {s}
       /\ UNCHANGED <<scope, nextAgent, rt, live, stash, dying>>
  BY DEF Settled
<1>13. op'[i] = NoOp /\ \A j \in Op : j # i => op'[j] = op[j]
  BY <1>12, EndedHere
<1>14. \A j \in Op : op'[j].sid # s
  BY <1>1, <1>13, NoOpIsFree, NoneIsNoSession
<1>15. rows'[r] = disk' /\ disk'[s] = RowOf(r, s, "idle") /\ \A t \in Sessions : t # s => disk'[t] = disk[t]
  BY <1>1, <1>12, SavedHere
<1>16. disk'[s].status = "idle" /\ disk'[s].file = agent[a].file
  BY <1>1, <1>2, <1>15, LiveRow
<1>17. AwayFrom(r, s)
  <2>1. nextAgent <= nextAgent'
    BY <1>0, <1>12, NextAgentIsNumber
  <2>2. \A b \in Agent : agent'[b] = agent[b] \/ (agent[b].sid = s /\ agent'[b].sid = s)
    BY <1>4, <1>9, <1>11 DEF Belongs
  <2>3. \A t \in cut : t = s \/ t \in cut'
    BY <1>12
  <2>4. \A j \in Op : op'[j] = op[j] \/ (op[j].sid = s /\ op'[j] = NoOp)
    BY <1>13
  <2> QED
    BY <1>1, <1>10, <1>12, <1>15, <2>1, <2>2, <2>3, <2>4 DEF AwayFrom
<1>18. Unborn'
  BY <1>0, <1>3, <1>4, <1>8, <1>9, <1>10, <1>11, <1>12 DEF InOrder, Unborn, Fresh
<1>19. HostedAt(r, s)'
  <2>1. OpsAt(r, s)'
    BY <1>14 DEF OpsAt
  <2>2. RestoreAt(r, s)'
    BY <1>16 DEF RestoreAt, Open
  <2>3. AgentAt(r, s)'
    <3>1. Belongs(o, s)' /\ Usable(r, o)'
      BY <1>8, <1>9, <1>10, <1>11 DEF Belongs, Usable
    <3>2. live'[r][s] = o
      BY <1>1, <1>12
    <3> QED
      BY <1>14, <3>1, <3>2 DEF AgentAt, Belongs, Usable
  <2>4. OnlyAt(r, s)'
    <3>1. \A b \in Agent : agent[b].state = "alive" /\ agent[b].sid = s => b = a
      BY <1>1 DEF HostedAt, OnlyAt
    <3>2. \A b \in Agent : agent'[b].state = "alive" /\ agent'[b].sid = s => b = a
      BY <3>1, <1>11
    <3>3. live'[r][s] = o /\ object'[o].agent = a
      BY <1>1, <1>8, <1>10, <1>12
    <3> QED
      BY <1>2, <3>2, <3>3 DEF OnlyAt
  <2>5. RowAt(r, s)'
    BY <1>1, <1>8, <1>9, <1>10, <1>11, <1>12, <1>16 DEF RowAt, Open
  <2> QED
    BY <2>1, <2>2, <2>3, <2>4, <2>5 DEF HostedAt
<1>20. RunsAt(s)'
  BY <1>16 DEF RunsAt
<1>21. \A f \in Transcript : Mentions(s, f)' => Mentions(s, f)
  BY <1>3, <1>4, <1>9, <1>11, <1>14, <1>16 DEF Mentions, Fresh, Belongs
<1> QED
  BY <1>1, <1>17, <1>18, <1>19, <1>20, <1>21, StepAtOne

\* The session that was stopped leaves the map, and its row is closed.
LEMMA DespawnedKeepsOrder ==
    ASSUME InCustody, InCustody', InOrder, Orderly, NEW i \in Op, Despawned(i),
           NEW r, r = op[i].rt, NEW s, s = op[i].sid, NEW o, o = op[i].obj, NEW a, a = object[o].agent
    PROVE  InOrder'
<1> DEFINE row == IF op[i].kind = "delete" THEN NoRow ELSE [rows[r][s] EXCEPT !.status = "closed"]
<1>0. TypeOK /\ op[i].kind # "free" /\ Stops(i) /\ op[i].kind \notin {"restore", "spawn", "resume"}
  BY DEF InCustody, Despawned, Stops
<1>1. /\ r \in Runtime /\ s \in Sessions /\ Hosts(r) /\ HostedAt(r, s) /\ RunsAt(s) /\ rows[r] = disk
      /\ o = live[r][s] /\ \A j \in Op : op[j].sid = s => j = i
  BY <1>0, OpAt
<1>2. live[r][s] # None /\ rt[r].phase # "restoring"
  BY <1>0, <1>1 DEF HostedAt, OpsAt, Opens
<1>3. o \in Agent /\ a \in Agent
  BY <1>1, <1>2, LiveAgent
<1>4. Belongs(o, s) /\ Open(disk[s])
  BY <1>0, <1>1, <1>2 DEF HostedAt, AgentAt, RowAt, Opens
<1>5. agent' = Disposed(a, agent) /\ Ends(i) /\ Save(r, s, row)
      /\ UNCHANGED <<scope, nextAgent, object, rt, stash, dying, cut>>
  BY <1>1, <1>4 DEF Despawned, Open
<1>6. /\ live'[r][s] = None
      /\ \A q \in Runtime, t \in Sessions : live'[q][t] = live[q][t] \/ (q = r /\ t = s)
  BY <1>0, <1>1 DEF Despawned, TypeOK
<1>7. \A b \in Agent : /\ agent'[b].sid = agent[b].sid
                       /\ b # a => agent'[b] = agent[b]
                       /\ b = a => /\ ~agent'[b].running /\ agent'[b].state = "disposed"
                                   /\ agent'[b].file = agent[b].file
  BY <1>0, <1>5, DisposedIsTyped
<1>8. op'[i] = NoOp /\ \A j \in Op : j # i => op'[j] = op[j]
  BY <1>5, EndedHere
<1>9. \A j \in Op : op'[j].sid # s
  BY <1>1, <1>8, NoOpIsFree, NoneIsNoSession
<1>10. rows'[r] = disk' /\ disk'[s] = row /\ \A t \in Sessions : t # s => disk'[t] = disk[t]
  BY <1>1, <1>5, SavedHere
<1>11. row.status \in {"none", "closed"} /\ row.file \in {None, disk[s].file}
  <2>1. disk[s] \in Row
    BY <1>0, <1>1 DEF TypeOK
  <2> QED
    BY <1>1, <2>1 DEF NoRow, Row
<1> HIDE DEF row
<1>12. AwayFrom(r, s)
  <2>1. nextAgent <= nextAgent'
    BY <1>0, <1>5, NextAgentIsNumber
  <2>2. \A b \in Agent : agent'[b] = agent[b] \/ (agent[b].sid = s /\ agent'[b].sid = s)
    BY <1>1, <1>4, <1>7 DEF Belongs
  <2>3. \A j \in Op : op'[j] = op[j] \/ (op[j].sid = s /\ op'[j] = NoOp)
    BY <1>8
  <2> QED
    BY <1>1, <1>5, <1>6, <1>10, <2>1, <2>2, <2>3 DEF AwayFrom
<1>13. Unborn'
  <2>1. object[o].agent # None
    BY <1>3, NoneIsNoAgent
  <2>2. a < nextAgent
    BY <1>3, <2>1 DEF InOrder, Unborn
  <2>3. \A b \in Agent : b >= nextAgent => b # a
    BY <2>2, <1>0, NextAgentIsNumber DEF Agent
  <2> QED
    BY <1>5, <1>7, <2>3 DEF InOrder, Unborn
<1>14. HostedAt(r, s)'
  <2>1. OpsAt(r, s)' /\ AgentAt(r, s)' /\ RowAt(r, s)' /\ RestoreAt(r, s)'
    BY <1>2, <1>5, <1>6, <1>9 DEF OpsAt, AgentAt, RowAt, RestoreAt
  <2>2. OnlyAt(r, s)'
    BY <1>1, <1>7 DEF HostedAt, OnlyAt
  <2> QED
    BY <2>1, <2>2 DEF HostedAt
<1>15. RunsAt(s)'
  BY <1>10, <1>11 DEF RunsAt
<1>16. \A f \in Transcript : Mentions(s, f)' => Mentions(s, f)
  BY <1>7, <1>9, <1>10, <1>11, NoneIsNoTranscript DEF Mentions
<1> QED
  BY <1>1, <1>12, <1>13, <1>14, <1>15, <1>16, StepAtOne

\* The agent that is cleared away is disposed; its session stays in the map.
LEMMA ClearStoppedKeepsOrder ==
    ASSUME InCustody, InCustody', InOrder, Orderly, NEW i \in Op, ClearStopped(i),
           NEW r, r = op[i].rt, NEW s, s = op[i].sid, NEW o, o = op[i].obj, NEW a, a = object[o].agent
    PROVE  InOrder'
<1> DEFINE rec == [op[i] EXCEPT !.at = "create"]
<1>0. TypeOK /\ op[i].kind = "clear" /\ op[i].at = "stop"
  BY DEF InCustody, ClearStopped
<1>1. /\ r \in Runtime /\ s \in Sessions /\ Hosts(r) /\ HostedAt(r, s) /\ RunsAt(s) /\ rows[r] = disk
      /\ o = live[r][s] /\ \A j \in Op : op[j].sid = s => j = i
  BY <1>0, OpAt
<1>2. live[r][s] # None /\ rt[r].phase # "restoring" /\ o # None
  BY <1>0, <1>1 DEF HostedAt, OpsAt, Opens
<1>3. o \in Agent /\ a \in Agent
  BY <1>1, <1>2, LiveAgent
<1>4. Belongs(o, s)
  BY <1>1, <1>2 DEF HostedAt, AgentAt
<1>5. agent' = Disposed(a, agent) /\ UNCHANGED <<scope, nextAgent, object, rt, live, rows, disk, stash, dying, cut>>
  BY DEF ClearStopped
<1>6. op'[i] = rec /\ \A j \in Op : j # i => op'[j] = op[j]
  BY <1>0 DEF ClearStopped, TypeOK
<1>7. /\ rec.kind = "clear" /\ rec.at = "create" /\ rec.rt = r /\ rec.sid = s /\ rec.obj = o
      /\ rec.file = op[i].file /\ rec.held = op[i].held
  BY <1>0 DEF TypeOK, OpRecord
<1> HIDE DEF rec
<1>8. \A b \in Agent : /\ agent'[b].sid = agent[b].sid
                       /\ b # a => agent'[b] = agent[b]
                       /\ b = a => /\ ~agent'[b].running /\ agent'[b].state = "disposed"
                                   /\ agent'[b].file = agent[b].file /\ agent'[b].of = agent[b].of
  BY <1>0, <1>5, DisposedIsTyped
<1>9. \A j \in Op : op'[j].sid = s => j = i
  BY <1>1, <1>6
<1>10. AwayFrom(r, s)
  <2>1. nextAgent <= nextAgent'
    BY <1>0, <1>5, NextAgentIsNumber
  <2>2. \A b \in Agent : agent'[b] = agent[b] \/ (agent[b].sid = s /\ agent'[b].sid = s)
    BY <1>1, <1>4, <1>8 DEF Belongs
  <2>3. \A j \in Op : \/ op'[j] = op[j]
                      \/ op[j].sid = s /\ op'[j].sid = s /\ op'[j].kind # "free" /\ op'[j].rt = r
    BY <1>6, <1>7
  <2> QED
    BY <1>1, <1>5, <2>1, <2>2, <2>3 DEF AwayFrom
<1>11. Unborn'
  <2>1. object[o].agent # None
    BY <1>3, NoneIsNoAgent
  <2>2. a < nextAgent
    BY <1>3, <2>1 DEF InOrder, Unborn
  <2>3. \A b \in Agent : b >= nextAgent => b # a
    BY <2>2, <1>0, NextAgentIsNumber DEF Agent
  <2> QED
    BY <1>5, <1>8, <2>3 DEF InOrder, Unborn
<1>12. HostedAt(r, s)'
  <2>1. OpsAt(r, s)'
    BY <1>1, <1>2, <1>5, <1>6, <1>7, <1>9 DEF OpsAt, Opens, Stops
  <2>2. RestoreAt(r, s)'
    BY <1>2, <1>5 DEF RestoreAt
  <2>3. AgentAt(r, s)'
    <3>1. Belongs(o, s)' /\ agent'[object'[o].agent].state = "disposed"
      BY <1>3, <1>4, <1>5, <1>8 DEF Belongs
    <3>2. live'[r][s] = o
      BY <1>1, <1>5
    <3> QED
      BY <1>6, <1>7, <1>9, <3>1, <3>2 DEF AgentAt, Opens, Stops, Belongs
  <2>4. OnlyAt(r, s)'
    BY <1>1, <1>5, <1>8 DEF HostedAt, OnlyAt
  <2>5. RowAt(r, s)'
    <3>1. Open(disk[s]) /\ disk[s].file = agent[a].file
      BY <1>0, <1>1, <1>2 DEF HostedAt, RowAt, Opens
    <3> QED
      BY <3>1, <1>1, <1>3, <1>5, <1>8 DEF RowAt, Open
  <2> QED
    BY <2>1, <2>2, <2>3, <2>4, <2>5 DEF HostedAt
<1>13. RunsAt(s)'
  BY <1>6, <1>7 DEF RunsAt
<1>14. \A f \in Transcript : Mentions(s, f)' => Mentions(s, f)
  <2> SUFFICES ASSUME NEW f \in Transcript, Mentions(s, f)' PROVE Mentions(s, f)
    OBVIOUS
  <2>1. CASE disk'[s].file = f
    BY <2>1, <1>5 DEF Mentions
  <2>2. CASE \E b \in Agent : agent'[b].state = "alive" /\ agent'[b].sid = s /\ agent'[b].file = f
    BY <2>2, <1>8 DEF Mentions
  <2>3. CASE \E j \in Op : op'[j].sid = s /\ op'[j].file = f
    BY <2>3, <1>6, <1>7, <1>9 DEF Mentions
  <2> QED
    BY <2>1, <2>2, <2>3 DEF Mentions
<1> QED
  BY <1>1, <1>10, <1>11, <1>12, <1>13, <1>14, StepAtOne

\* A new agent takes its place.
LEMMA ClearedKeepsOrder ==
    ASSUME InCustody, InCustody', InOrder, Orderly, NEW i \in Op, Cleared(i),
           NEW r, r = op[i].rt, NEW s, s = op[i].sid, NEW o, o = op[i].obj, NEW a, a = nextAgent
    PROVE  InOrder'
<1> DEFINE born == [Born(a, s, o) EXCEPT !.heardBy = {r}]
           wired == [object[o] EXCEPT !.submits = TRUE, !.unsub = r, !.agent = a, !.working = FALSE]
           row == [status |-> "idle", file |-> a]
<1>0. TypeOK /\ op[i].kind = "clear" /\ op[i].at = "create"
  BY DEF InCustody, Cleared
<1>1. /\ r \in Runtime /\ s \in Sessions /\ Hosts(r) /\ HostedAt(r, s) /\ RunsAt(s) /\ rows[r] = disk
      /\ o = live[r][s] /\ \A j \in Op : op[j].sid = s => j = i
  BY <1>0, OpAt
<1>2. live[r][s] # None /\ rt[r].phase # "restoring" /\ o # None
  BY <1>0, <1>1 DEF HostedAt, OpsAt, Opens
<1>3. o \in Agent /\ object[o].agent \in Agent
  BY <1>1, <1>2, LiveAgent
<1>4. Belongs(o, s) /\ agent[object[o].agent].state = "disposed"
  BY <1>0, <1>1, <1>2 DEF HostedAt, AgentAt
<1>5. a \in Agent /\ a \in Nat /\ a # None /\ nextAgent' = a + 1 /\ nextAgent <= scope.agents
  BY <1>0, ScopeBoundsAgents, NextAgentIsNumber, NoneIsNoAgent DEF Cleared
<1>6. UNCHANGED <<scope, rt, live, stash, dying, cut>> /\ Ends(i) /\ Save(r, s, row)
  BY <1>1 DEF Cleared
<1>7. object' = [object EXCEPT ![o] = wired]
  BY <1>0, <1>3 DEF Cleared, Wired, TypeOK
<1>8. agent' = [agent EXCEPT ![a] = born]
  BY <1>0, <1>5 DEF Cleared, Heard, Born, TypeOK
<1>9. wired.agent = a /\ ~wired.working /\ wired.submits /\ wired.unsub = r
  BY <1>0, <1>3 DEF TypeOK, ObjectRecord
<1>10. /\ born.sid = s /\ born.state = "alive" /\ born.of = o /\ born.heardBy = {r} /\ ~born.running
       /\ born.file = a
  BY DEF Born
<1> HIDE DEF born, wired
<1>11. object'[o] = wired /\ \A x \in Agent : x # o => object'[x] = object[x]
  BY <1>0, <1>3, <1>7 DEF TypeOK
<1>12. agent'[a] = born /\ \A b \in Agent : b # a => agent'[b] = agent[b]
  BY <1>0, <1>5, <1>8 DEF TypeOK
<1>13. op'[i] = NoOp /\ \A j \in Op : j # i => op'[j] = op[j]
  BY <1>6, EndedHere
<1>14. \A j \in Op : op'[j].sid # s
  BY <1>1, <1>13, NoOpIsFree, NoneIsNoSession
<1>15. rows'[r] = disk' /\ disk'[s] = row /\ \A t \in Sessions : t # s => disk'[t] = disk[t]
  BY <1>1, <1>6, SavedHere
<1>16. agent[a].state = "unused" /\ agent[a].sid = None
  BY <1>0, <1>5 DEF InOrder, Unborn
<1>17. AwayFrom(r, s)
  <2>1. nextAgent <= nextAgent'
    BY <1>5
  <2>2. \A b \in Agent : agent'[b] = agent[b] \/ (agent[b].sid = None /\ agent'[b].sid = s)
    BY <1>10, <1>12, <1>16
  <2>3. \A j \in Op : op'[j] = op[j] \/ (op[j].sid = s /\ op'[j] = NoOp)
    BY <1>13
  <2> QED
    BY <1>1, <1>6, <1>11, <1>15, <2>1, <2>2, <2>3 DEF AwayFrom
<1>18. Unborn'
  <2>1. \A b \in Agent : b >= nextAgent' => b >= nextAgent /\ b # a
    BY <1>5 DEF Agent
  <2>2. \A x \in Agent : object'[x].agent # None => object'[x].agent < nextAgent'
    <3> SUFFICES ASSUME NEW x \in Agent, object'[x].agent # None PROVE object'[x].agent < nextAgent'
      OBVIOUS
    <3>1. CASE x = o
      BY <3>1, <1>5, <1>9, <1>11
    <3>2. CASE x # o
      <4>1. object[x].agent # None /\ object[x].agent < nextAgent /\ object'[x].agent = object[x].agent
        BY <3>2, <1>11 DEF InOrder, Unborn
      <4>2. object[x].agent \in Agent
        BY <4>1, <1>0 DEF TypeOK, ObjectRecord
      <4> QED
        BY <4>1, <4>2, <1>5 DEF Agent
    <3> QED
      BY <3>1, <3>2
  <2> QED
    BY <2>1, <2>2, <1>12 DEF InOrder, Unborn
<1>19. HostedAt(r, s)'
  <2>1. OpsAt(r, s)' /\ RestoreAt(r, s)'
    BY <1>2, <1>6, <1>14 DEF OpsAt, RestoreAt
  <2>2. AgentAt(r, s)'
    <3>1. Belongs(o, s)' /\ Usable(r, o)'
      BY <1>9, <1>10, <1>11, <1>12 DEF Belongs, Usable
    <3>2. live'[r][s] = o
      BY <1>1, <1>6
    <3> QED
      BY <1>14, <3>1, <3>2 DEF AgentAt, Belongs, Usable
  <2>3. OnlyAt(r, s)'
    <3>1. \A b \in Agent : agent[b].state = "alive" /\ agent[b].sid = s => FALSE
      BY <1>1, <1>4 DEF HostedAt, OnlyAt
    <3> QED
      BY <3>1, <1>1, <1>2, <1>6, <1>9, <1>11, <1>12 DEF OnlyAt
  <2>4. RowAt(r, s)'
    BY <1>1, <1>6, <1>9, <1>10, <1>11, <1>12, <1>15 DEF RowAt, Open
  <2> QED
    BY <2>1, <2>2, <2>3, <2>4 DEF HostedAt
<1>20. RunsAt(s)'
  BY <1>15 DEF RunsAt
<1>21. \A f \in Transcript : Mentions(s, f)' => Mentions(s, f) \/ (f = nextAgent /\ nextAgent < nextAgent')
  <2>1. nextAgent < nextAgent'
    BY <1>5
  <2> QED
    BY <2>1, <1>10, <1>12, <1>14, <1>15 DEF Mentions
<1> QED
  BY <1>1, <1>17, <1>18, <1>19, <1>20, <1>21, StepAtOne

LEMMA ModelSetKeepsOrder ==
    ASSUME InCustody, InCustody', InOrder, Orderly, NEW i \in Op, ModelSet(i),
           NEW r, r = op[i].rt, NEW s, s = op[i].sid, NEW o, o = op[i].obj, NEW a, a = object[o].agent
    PROVE  InOrder'
<1> DEFINE status == StatusOf(r, s)
<1>0. TypeOK /\ op[i].kind = "model"
  BY DEF InCustody, ModelSet
<1>1. /\ r \in Runtime /\ s \in Sessions /\ Hosts(r) /\ HostedAt(r, s) /\ RunsAt(s) /\ rows[r] = disk
      /\ o = live[r][s] /\ \A j \in Op : op[j].sid = s => j = i
  BY <1>0, OpAt
<1>2. live[r][s] # None /\ rt[r].phase # "restoring" /\ o # None
  BY <1>0, <1>1 DEF HostedAt, OpsAt, Opens
<1>3. o \in Agent /\ a \in Agent
  BY <1>1, <1>2, LiveAgent
<1>4. Belongs(o, s) /\ Usable(r, o)
  BY <1>0, <1>1, <1>2 DEF HostedAt, AgentAt
<1>5. UNCHANGED <<scope, agent, nextAgent, object, rt, live, stash, dying, cut>> /\ Ends(i)
      /\ Save(r, s, RowOf(r, s, status))
  BY DEF ModelSet
<1>6. status \in {"idle", "running"} /\ (status = "running" => agent[a].running \/ agent[a].prompt # "none")
  BY <1>1, <1>4 DEF StatusOf, Usable
<1> HIDE DEF status
<1>7. op'[i] = NoOp /\ \A j \in Op : j # i => op'[j] = op[j]
  BY <1>5, EndedHere
<1>8. \A j \in Op : op'[j].sid # s
  BY <1>1, <1>7, NoOpIsFree, NoneIsNoSession
<1>9. rows'[r] = disk' /\ disk'[s] = RowOf(r, s, status) /\ \A t \in Sessions : t # s => disk'[t] = disk[t]
  BY <1>1, <1>5, SavedHere
<1>10. disk'[s].status = status /\ disk'[s].file = agent[a].file
  BY <1>1, <1>2, <1>9, LiveRow
<1>11. AwayFrom(r, s) /\ Unborn'
  <2>1. \A j \in Op : op'[j] = op[j] \/ (op[j].sid = s /\ op'[j] = NoOp)
    BY <1>7
  <2> QED
    BY <2>1, <1>1, <1>5, <1>9, RowsAndOpsOnly
<1>12. HostedAt(r, s)'
  <2>1. OpsAt(r, s)' /\ RestoreAt(r, s)'
    BY <1>2, <1>5, <1>8 DEF OpsAt, RestoreAt
  <2>2. AgentAt(r, s)'
    BY <1>1, <1>4, <1>5, <1>8 DEF AgentAt, Belongs, Usable
  <2>3. OnlyAt(r, s)'
    BY <1>1, <1>5 DEF HostedAt, OnlyAt
  <2>4. RowAt(r, s)'
    BY <1>1, <1>5, <1>6, <1>10 DEF RowAt, Open
  <2> QED
    BY <2>1, <2>2, <2>3, <2>4 DEF HostedAt
<1>13. RunsAt(s)'
  BY <1>3, <1>4, <1>5, <1>6, <1>10 DEF RunsAt, Belongs
<1>14. \A f \in Transcript : Mentions(s, f)' => Mentions(s, f)
  BY <1>3, <1>4, <1>5, <1>8, <1>10 DEF Mentions, Belongs, Usable
<1> QED
  BY <1>1, <1>11, <1>12, <1>13, <1>14, StepAtOne

\* What an operation may be.
LEMMA KindOfOp ==
    ASSUME InCustody, InOrder, NEW s \in Sessions, NEW i \in Op, op[i].sid = s
    PROVE  /\ op[i].kind # "free"
           /\ Opens(i) \/ Stops(i) \/ op[i].kind = "clear" \/ op[i].kind = "model"
<1>1. op[i].kind # "free"
  BY NoneIsNoSession, NoOpIsFree DEF InOrder, OneHosts
<1>2. op[i].kind \in Kinds
  BY DEF InCustody, TypeOK, OpRecord
<1> QED
  BY <1>1, <1>2 DEF Opens, Stops, Kinds

\* The run of a usable session ends, which its runtime hears.
LEMMA HeardEndKeepsOrder ==
    ASSUME InCustody, InCustody', InOrder, Orderly, NEW a \in Agent, TurnEnds(a),
           NEW s \in Sessions, s = agent[a].sid, NEW r \in Runtime, Hosts(r), agent[a].heardBy = {r}
    PROVE  InOrder'
<1> DEFINE o == live[r][s]
           quiet == [agent[a] EXCEPT !.running = FALSE]
           rest == [object[o] EXCEPT !.working = FALSE]
<1>0. TypeOK /\ agent[a].running /\ agent[a].state = "alive"
  BY DEF InCustody, TurnEnds, AgentsAreNamed
<1>1. HostedAt(r, s) /\ RunsAt(s) /\ rows[r] = disk
  BY DEF InOrder, Hosted
<1>2. o # None /\ object[o].agent = a
  BY <1>0, <1>1 DEF HostedAt, OnlyAt
<1>3. o \in Agent
  BY <1>2, LiveAgent
<1>4. Belongs(o, s) /\ agent[a].of = o
  BY <1>1, <1>2 DEF HostedAt, AgentAt, Belongs
<1>5. \A i \in Op : op[i].sid = s => op[i].kind = "model"
  <2> SUFFICES ASSUME NEW i \in Op, op[i].sid = s PROVE op[i].kind = "model"
    OBVIOUS
  <2>1. /\ Opens(i) => Fresh(o)
        /\ Stops(i) \/ (op[i].kind = "clear" /\ op[i].at # "create") => Stopping(o)
        /\ op[i].kind = "clear" /\ op[i].at = "create" => agent[object[o].agent].state = "disposed"
    BY <1>1, <1>2 DEF HostedAt, AgentAt
  <2>2. ~Fresh(o) /\ ~Stopping(o) /\ agent[object[o].agent].state # "disposed"
    BY <1>0, <1>2 DEF Fresh, Stopping
  <2> QED
    BY <2>1, <2>2, KindOfOp
<1>6. Usable(r, o)
  BY <1>1, <1>2, <1>5 DEF HostedAt, AgentAt
<1>7. agent' = [agent EXCEPT ![a] = quiet]
  BY <1>0 DEF TurnEnds, TypeOK
<1>8. object' = [object EXCEPT ![o] = rest]
  BY <1>0, <1>4 DEF TurnEnds, TypeOK
<1>9. /\ ~quiet.running /\ quiet.sid = s /\ quiet.state = "alive" /\ quiet.of = o
      /\ quiet.heardBy = {r} /\ quiet.file = agent[a].file
  BY <1>0, <1>4 DEF TypeOK, AgentRecord
<1>10. ~rest.working /\ rest.agent = a /\ rest.submits = object[o].submits /\ rest.unsub = object[o].unsub
  BY <1>0, <1>2, <1>3 DEF TypeOK, ObjectRecord
<1> HIDE DEF quiet, rest
<1>11. agent'[a] = quiet /\ \A b \in Agent : b # a => agent'[b] = agent[b]
  BY <1>0, <1>7 DEF TypeOK
<1>12. object'[o] = rest /\ \A x \in Agent : x # o => object'[x] = object[x]
  BY <1>0, <1>3, <1>8 DEF TypeOK
<1>13. UNCHANGED <<scope, nextAgent, rt, live, stash, dying, op, cut>>
  BY DEF TurnEnds
<1>14. rows'[r] = [rows[r] EXCEPT ![s] = RowOf(r, s, "idle")] /\ disk' = rows'[r]
  BY DEF TurnEnds
<1>15. disk'[s] = RowOf(r, s, "idle") /\ \A t \in Sessions : t # s => disk'[t] = disk[t]
  BY <1>0, <1>1, <1>14 DEF TypeOK
<1>16. disk'[s].status = "idle" /\ disk'[s].file = agent[a].file
  BY <1>2, <1>15, LiveRow
<1>17. AwayFrom(r, s)
  <2>1. nextAgent <= nextAgent'
    BY <1>0, <1>13, NextAgentIsNumber
  <2>2. \A b \in Agent : agent'[b] = agent[b] \/ (agent[b].sid = s /\ agent'[b].sid = s)
    BY <1>9, <1>11
  <2> QED
    BY <1>12, <1>13, <1>14, <1>15, <2>1, <2>2 DEF AwayFrom
<1>18. Unborn'
  <2>1. a < nextAgent
    BY <1>2, <1>3, NoneIsNoAgent DEF InOrder, Unborn
  <2>2. \A b \in Agent : b >= nextAgent => b # a
    BY <2>1, <1>0, NextAgentIsNumber DEF Agent
  <2> QED
    BY <2>2, <1>2, <1>10, <1>11, <1>12, <1>13 DEF InOrder, Unborn
<1>19. HostedAt(r, s)'
  <2>1. OpsAt(r, s)' /\ RestoreAt(r, s)'
    BY <1>1, <1>13, <1>16 DEF HostedAt, OpsAt, RestoreAt, Opens, Stops, Open
  <2>2. AgentAt(r, s)'
    <3>1. Belongs(o, s)' /\ Usable(r, o)'
      BY <1>6, <1>9, <1>10, <1>11, <1>12, <1>13 DEF Belongs, Usable
    <3> QED
      BY <1>5, <1>13, <3>1 DEF AgentAt, Opens, Stops
  <2>3. OnlyAt(r, s)'
    <3>1. \A b \in Agent : agent'[b].state = "alive" /\ agent'[b].sid = s => b = a
      BY <1>1, <1>2, <1>11 DEF HostedAt, OnlyAt
    <3> QED
      BY <1>2, <1>10, <1>12, <1>13, <3>1 DEF OnlyAt
  <2>4. RowAt(r, s)'
    BY <1>9, <1>10, <1>11, <1>12, <1>13, <1>16 DEF RowAt, Open
  <2> QED
    BY <2>1, <2>2, <2>3, <2>4 DEF HostedAt
<1>20. RunsAt(s)'
  BY <1>16 DEF RunsAt
<1>21. \A f \in Transcript : Mentions(s, f)' => Mentions(s, f)
  BY <1>0, <1>9, <1>11, <1>13, <1>16 DEF Mentions
<1> QED
  BY <1>17, <1>18, <1>19, <1>20, <1>21, StepAtOne

\* The run of a session that is being stopped ends, which nobody hears.
LEMMA UnheardEndKeepsOrder ==
    ASSUME InCustody, InCustody', InOrder, Orderly, NEW a \in Agent, TurnEnds(a),
           NEW s \in Sessions, s = agent[a].sid, NEW r \in Runtime, Hosts(r), agent[a].heardBy = {}
    PROVE  InOrder'
<1> DEFINE o == live[r][s]
           quiet == [agent[a] EXCEPT !.running = FALSE]
<1>0. TypeOK /\ agent[a].running /\ agent[a].state = "alive"
  BY DEF InCustody, TurnEnds, AgentsAreNamed
<1>1. HostedAt(r, s) /\ RunsAt(s) /\ rows[r] = disk
  BY DEF InOrder, Hosted
<1>2. o # None /\ object[o].agent = a
  BY <1>0, <1>1 DEF HostedAt, OnlyAt
<1>3. o \in Agent
  BY <1>2, LiveAgent
<1>4. Belongs(o, s)
  BY <1>1, <1>2 DEF HostedAt, AgentAt
<1>5. ~Usable(r, o) /\ ~Fresh(o)
  BY <1>0, <1>2 DEF Usable, Fresh
<1>6. /\ \E i \in Op : op[i].sid = s
      /\ \A i \in Op : op[i].sid = s =>
            (Stops(i) \/ op[i].kind = "clear") /\ ~Opens(i) /\ op[i].kind # "model"
            /\ (op[i].kind = "clear" => op[i].at # "create")
  <2>1. PICK i \in Op : op[i].sid = s /\ op[i].kind # "model"
    BY <1>1, <1>2, <1>5 DEF HostedAt, AgentAt
  <2>2. ~Opens(i) /\ (op[i].kind = "clear" => op[i].at # "create")
    BY <1>0, <1>1, <1>2, <1>5, <2>1 DEF HostedAt, AgentAt
  <2>3. \A j \in Op : op[j].sid = s => j = i
    BY <1>1, <2>1 DEF HostedAt, OpsAt
  <2> QED
    BY <2>1, <2>2, <2>3, KindOfOp
<1>7. agent' = [agent EXCEPT ![a] = quiet]
  BY <1>0 DEF TurnEnds, TypeOK
<1>8. /\ ~quiet.running /\ quiet.sid = s /\ quiet.state = "alive" /\ quiet.of = agent[a].of
      /\ quiet.heardBy = {} /\ quiet.file = agent[a].file
  BY <1>0 DEF TypeOK, AgentRecord
<1> HIDE DEF quiet
<1>9. agent'[a] = quiet /\ \A b \in Agent : b # a => agent'[b] = agent[b]
  BY <1>0, <1>7 DEF TypeOK
<1>10. UNCHANGED <<scope, nextAgent, object, rt, live, disk, stash, dying, op, cut>>
  BY DEF TurnEnds
<1>11. rows'[r] = disk'
  BY <1>1, <1>10 DEF TurnEnds
<1>12. AwayFrom(r, s)
  <2>1. nextAgent <= nextAgent'
    BY <1>0, <1>10, NextAgentIsNumber
  <2>2. \A b \in Agent : agent'[b] = agent[b] \/ (agent[b].sid = s /\ agent'[b].sid = s)
    BY <1>8, <1>9
  <2> QED
    BY <1>10, <1>11, <2>1, <2>2 DEF AwayFrom
<1>13. Unborn'
  <2>1. a < nextAgent
    BY <1>2, <1>3, NoneIsNoAgent DEF InOrder, Unborn
  <2>2. \A b \in Agent : b >= nextAgent => b # a
    BY <2>1, <1>0, NextAgentIsNumber DEF Agent
  <2> QED
    BY <2>2, <1>9, <1>10 DEF InOrder, Unborn
<1>14. HostedAt(r, s)'
  <2>1. OpsAt(r, s)' /\ RestoreAt(r, s)'
    BY <1>1, <1>10 DEF HostedAt, OpsAt, RestoreAt, Opens, Stops, Open
  <2>2. AgentAt(r, s)'
    <3>1. Belongs(o, s)' /\ Stopping(o)'
      BY <1>2, <1>4, <1>8, <1>9, <1>10 DEF Belongs, Stopping
    <3> QED
      BY <1>6, <1>10, <3>1 DEF AgentAt, Opens, Stops
  <2>3. OnlyAt(r, s)'
    <3>1. \A b \in Agent : agent'[b].state = "alive" /\ agent'[b].sid = s => b = a
      BY <1>1, <1>2, <1>9 DEF HostedAt, OnlyAt
    <3> QED
      BY <1>2, <1>10, <3>1 DEF OnlyAt
  <2>4. RowAt(r, s)'
    BY <1>1, <1>2, <1>8, <1>9, <1>10 DEF HostedAt, RowAt, Opens, Open
  <2> QED
    BY <2>1, <2>2, <2>3, <2>4 DEF HostedAt
<1>15. RunsAt(s)'
  BY <1>6, <1>10 DEF RunsAt, Stops
<1>16. \A f \in Transcript : Mentions(s, f)' => Mentions(s, f)
  BY <1>0, <1>8, <1>9, <1>10 DEF Mentions
<1> QED
  BY <1>12, <1>13, <1>14, <1>15, <1>16, StepAtOne

\* The run of a parked session ends, which the runtime that parked it hears.
LEMMA ParkedEndKeepsOrder ==
    ASSUME InCustody, InCustody', InOrder, Orderly, NEW a \in Agent, TurnEnds(a),
           NEW s \in Sessions, s = agent[a].sid, \A r \in Runtime : ~Hosts(r)
    PROVE  InOrder'
<1> DEFINE o == stash.of[s]
           r == stash.by
           quiet == [agent[a] EXCEPT !.running = FALSE]
           rest == [object[o] EXCEPT !.working = FALSE]
<1>0. TypeOK /\ agent[a].running /\ agent[a].state = "alive"
  BY DEF InCustody, TurnEnds, AgentsAreNamed
<1>1. \A t \in Sessions : ParkedAt(t)
  BY DEF InOrder, Parked
<1>2. o # None /\ object[o].agent = a
  BY <1>0, <1>1 DEF ParkedAt
<1>3. o \in Agent /\ r \in Runtime
  BY <1>0, <1>2 DEF TypeOK, Stash, InCustody, HeldAreMade
<1>4. Belongs(o, s) /\ agent[a].of = o /\ agent[a].heardBy = {r} /\ object[o].unsub = r /\ rows[r] = disk
  BY <1>1, <1>2 DEF ParkedAt, Belongs
<1>5. agent' = [agent EXCEPT ![a] = quiet]
  BY <1>0 DEF TurnEnds, TypeOK
<1>6. object' = [object EXCEPT ![o] = rest]
  BY <1>0, <1>4 DEF TurnEnds, TypeOK
<1>7. /\ ~quiet.running /\ quiet.sid = s /\ quiet.state = "alive" /\ quiet.of = o
      /\ quiet.heardBy = {r} /\ quiet.file = agent[a].file
  BY <1>0, <1>4 DEF TypeOK, AgentRecord
<1>8. rest.agent = a /\ rest.unsub = object[o].unsub
  BY <1>0, <1>2, <1>3 DEF TypeOK, ObjectRecord
<1> HIDE DEF quiet, rest
<1>9. agent'[a] = quiet /\ \A b \in Agent : b # a => agent'[b] = agent[b]
  BY <1>0, <1>5 DEF TypeOK
<1>10. object'[o] = rest /\ \A x \in Agent : x # o => object'[x] = object[x]
  BY <1>0, <1>3, <1>6 DEF TypeOK
<1>11. UNCHANGED <<scope, nextAgent, rt, live, stash, dying, op, cut>>
  BY DEF TurnEnds
<1>12. rows'[r] = [rows[r] EXCEPT ![s] = RowOf(r, s, "idle")] /\ disk' = rows'[r]
  BY <1>3, <1>4 DEF TurnEnds
<1>13. disk'[s] = RowOf(r, s, "idle") /\ \A t \in Sessions : t # s => disk'[t] = disk[t]
  BY <1>0, <1>3, <1>4, <1>12 DEF TypeOK
<1>14. live[r][s] = None
  BY <1>3 DEF InOrder, OneHosts
<1>15. disk'[s].status = "idle" /\ disk'[s].file = None
  BY <1>13, <1>14 DEF RowOf
<1>16. OneHosts' /\ Hosted'
  BY <1>11 DEF InOrder, OneHosts, Hosted, Hosts
<1>17. Unborn'
  <2>1. a < nextAgent
    BY <1>2, <1>3, NoneIsNoAgent DEF InOrder, Unborn
  <2>2. \A b \in Agent : b >= nextAgent => b # a
    BY <2>1, <1>0, NextAgentIsNumber DEF Agent
  <2> QED
    BY <2>2, <1>2, <1>8, <1>9, <1>10, <1>11 DEF InOrder, Unborn
<1>18. Parked'
  <2> SUFFICES ASSUME NEW t \in Sessions PROVE ParkedAt(t)'
    BY DEF Parked
  <2>1. CASE t = s
    <3>1. Belongs(o, s)'
      BY <1>7, <1>8, <1>9, <1>10, <1>11 DEF Belongs
    <3>2. \A b \in Agent : agent'[b].state = "alive" /\ agent'[b].sid = s => b = a
      BY <1>1, <1>2, <1>9 DEF ParkedAt
    <3>3. stash' = stash /\ object'[o].agent = a /\ object'[o].unsub = r
      BY <1>4, <1>8, <1>10, <1>11
    <3>4. /\ agent'[a].state = "alive" /\ agent'[a].heardBy = {r} /\ agent'[a].of = o /\ agent'[a].sid = s
      BY <1>7, <1>9
    <3> QED
      BY <2>1, <1>2, <1>12, <1>15, <3>2, <3>3, <3>4 DEF ParkedAt, Open, Belongs
  <2>2. CASE t # s
    <3>1. stash.of[t] # None => stash.of[t] # o /\ stash.of[t] \in Agent /\ object[stash.of[t]].agent \in Agent
      <4>1. stash.of[t] # None => stash.of[t] \in Agent
        BY <1>0 DEF TypeOK, Stash
      <4> QED
        BY <2>2, <4>1, HeldHasAgent DEF InCustody, HeldOnce
    <3>2. \A b \in Agent : agent[b].sid = t \/ agent'[b].sid = t => agent'[b] = agent[b]
      BY <2>2, <1>7, <1>9
    <3>3. stash.of[t] # None => object'[stash.of[t]] = object[stash.of[t]]
      BY <3>1, <1>10
    <3>4. ParkedAt(t)
      BY <1>1
    <3>5. stash' = stash /\ disk'[t] = disk[t] /\ rows'[r] = disk'
      BY <2>2, <1>11, <1>12, <1>13
    <3> QED
      BY <3>1, <3>2, <3>3, <3>4, <3>5 DEF ParkedAt, Open, Belongs
  <2> QED
    BY <2>1, <2>2
<1>19. \A t \in Sessions, f \in Transcript : Mentions(t, f)' => Mentions(t, f)
  <2> SUFFICES ASSUME NEW t \in Sessions, NEW f \in Transcript, Mentions(t, f)' PROVE Mentions(t, f)
    OBVIOUS
  <2>1. CASE disk'[t].file = f
    BY <2>1, <1>13, <1>15, NoneIsNoTranscript DEF Mentions
  <2>2. CASE \E b \in Agent : agent'[b].state = "alive" /\ agent'[b].sid = t /\ agent'[b].file = f
    BY <2>2, <1>0, <1>7, <1>9 DEF Mentions
  <2>3. CASE \E j \in Op : op'[j].sid = t /\ op'[j].file = f
    BY <2>3, <1>11 DEF Mentions
  <2> QED
    BY <2>1, <2>2, <2>3 DEF Mentions
<1>20. FilesApart'
  BY <1>11, <1>19 DEF InOrder, FilesApart
<1>21. \A t \in Sessions : RunsAt(t)'
  <2> SUFFICES ASSUME NEW t \in Sessions PROVE RunsAt(t)'
    OBVIOUS
  <2>1. CASE t = s
    BY <2>1, <1>15 DEF RunsAt
  <2>2. CASE t # s
    BY <2>2, <1>7, <1>9, <1>11, <1>13 DEF InOrder, RunsAt, Stops
  <2> QED
    BY <2>1, <2>2
<1> QED
  BY <1>16, <1>17, <1>18, <1>20, <1>21 DEF InOrder

\* An agent that runs while a runtime hosts is the one its session holds, heard
\* by that runtime or by nobody; by nobody while its session is being opened,
\* stopped or cleared.
LEMMA RunnerIsLive ==
    ASSUME InCustody, InOrder, NEW a \in Agent, agent[a].running, NEW s \in Sessions, s = agent[a].sid,
           NEW r \in Runtime, Hosts(r)
    PROVE  /\ live[r][s] # None /\ object[live[r][s]].agent = a
           /\ \/ agent[a].heardBy = {}
              \/ agent[a].heardBy = {r} /\ \A i \in Op : op[i].sid = s => op[i].kind = "model"
<1>1. agent[a].state = "alive"
  BY DEF InCustody, AgentsAreNamed
<1>2. HostedAt(r, s)
  BY DEF InOrder, Hosted
<1>3. live[r][s] # None /\ object[live[r][s]].agent = a
  BY <1>1, <1>2 DEF HostedAt, OnlyAt
<1>4. CASE \A i \in Op : op[i].sid = s => op[i].kind = "model"
  BY <1>2, <1>3, <1>4 DEF HostedAt, AgentAt, Usable
<1>5. CASE \E i \in Op : op[i].sid = s /\ op[i].kind # "model"
  <2>1. PICK i \in Op : op[i].sid = s /\ op[i].kind # "model"
    BY <1>5
  <2>2. Opens(i) \/ Stops(i) \/ op[i].kind = "clear"
    BY <2>1, KindOfOp
  <2> QED
    BY <1>1, <1>2, <1>3, <2>1, <2>2 DEF HostedAt, AgentAt, Fresh, Stopping
<1> QED
  BY <1>3, <1>4, <1>5

LEMMA TurnEndsKeepsOrder ==
    ASSUME InCustody, InCustody', InOrder, Orderly, NEW a \in Agent, TurnEnds(a)
    PROVE  InOrder'
<1>1. agent[a].running /\ agent[a].sid \in Sessions
  BY DEF TurnEnds, InCustody, AgentsAreNamed
<1>2. PICK s \in Sessions : s = agent[a].sid
  BY <1>1
<1>3. CASE \A r \in Runtime : ~Hosts(r)
  BY <1>2, <1>3, ParkedEndKeepsOrder
<1>4. CASE \E r \in Runtime : Hosts(r)
  <2>1. PICK r \in Runtime : Hosts(r)
    BY <1>4
  <2>2. agent[a].heardBy \in {{}, {r}}
    BY <1>1, <1>2, <2>1, RunnerIsLive
  <2> QED
    BY <1>2, <2>1, <2>2, HeardEndKeepsOrder, UnheardEndKeepsOrder
<1> QED
  BY <1>3, <1>4

-----------------------------------------------------------------------------
(* Order: the steps of a runtime's life.                                   *)

\* Nothing is said of sessions while the registry, the agents and the
\* operations stay as they are.
LEMMA SessionsKept ==
    ASSUME InOrder, UNCHANGED <<disk, op, nextAgent>>, cut \subseteq cut',
           \A a \in Agent : /\ agent'[a].state = agent[a].state /\ agent'[a].sid = agent[a].sid
                            /\ agent'[a].file = agent[a].file
                            /\ agent[a].running \/ agent[a].prompt # "none" =>
                                  agent'[a].running \/ agent'[a].prompt # "none"
    PROVE  FilesApart' /\ \A s \in Sessions : RunsAt(s)'
<1>1. \A s \in Sessions, f \in Transcript : Mentions(s, f)' => Mentions(s, f)
  BY DEF Mentions
<1>2. FilesApart'
  BY <1>1 DEF InOrder, FilesApart
<1>3. \A s \in Sessions : RunsAt(s)'
  BY DEF InOrder, RunsAt, Stops
<1> QED
  BY <1>2, <1>3

\* Preparing ends: the agent runs, which whoever hears it is told, or was asked
\* in vain, which nobody is.
LEMMA PreparedKeepsOrder ==
    ASSUME InCustody, InCustody', InOrder, Orderly, NEW a \in Agent, TurnBegins(a) \/ PromptRefused(a)
    PROVE  InOrder'
<1> DEFINE begun == [agent[a] EXCEPT !.running = TRUE, !.prompt = "none"]
           refused == [agent[a] EXCEPT !.prompt = "refused"]
           busy(o) == [object[o] EXCEPT !.working = TRUE]
<1>0. TypeOK /\ agent[a].prompt = "preparing" /\ agent[a].state = "alive" /\ agent[a].sid \in Sessions
  BY DEF InCustody, AgentsAreNamed, TurnBegins, PromptRefused
<1>1. PICK s \in Sessions : s = agent[a].sid
  BY <1>0
<1>2. PICK x : x = agent[a].of
  OBVIOUS
<1>3. UNCHANGED <<scope, nextAgent, rt, live, rows, disk, stash, dying, op, cut>>
  BY DEF TurnBegins, PromptRefused
<1>4. /\ begun.running /\ begun.prompt = "none"
      /\ begun.sid = s /\ begun.state = "alive" /\ begun.of = x
      /\ begun.heardBy = agent[a].heardBy /\ begun.file = agent[a].file
  BY <1>0, <1>1, <1>2 DEF TypeOK, AgentRecord
<1>5. /\ refused.running <=> agent[a].running
      /\ refused.prompt = "refused" /\ refused.sid = s /\ refused.state = "alive" /\ refused.of = x
      /\ refused.heardBy = agent[a].heardBy /\ refused.file = agent[a].file
  BY <1>0, <1>1, <1>2 DEF TypeOK, AgentRecord
<1>6. x \in Agent => /\ busy(x).agent = object[x].agent /\ busy(x).submits = object[x].submits
                     /\ busy(x).unsub = object[x].unsub /\ busy(x).working
  BY <1>0 DEF TypeOK, ObjectRecord
<1>7. \/ /\ agent' = [agent EXCEPT ![a] = begun]
         /\ \/ agent[a].heardBy = {} /\ object' = object
            \/ agent[a].heardBy # {} /\ object' = [object EXCEPT ![x] = busy(x)]
      \/ agent' = [agent EXCEPT ![a] = refused] /\ object' = object
  BY <1>0, <1>2 DEF TurnBegins, PromptRefused, TypeOK
<1> HIDE DEF begun, refused, busy
<1>8. \/ /\ agent'[a] = begun
         /\ \/ agent[a].heardBy = {} /\ \A o \in Agent : object'[o] = object[o]
            \/ agent[a].heardBy # {} /\ \A o \in Agent : object'[o] = IF o = x THEN busy(x) ELSE object[o]
      \/ agent'[a] = refused /\ \A o \in Agent : object'[o] = object[o]
  BY <1>0, <1>7 DEF TypeOK
<1>9. \A b \in Agent : b # a => agent'[b] = agent[b]
  BY <1>0, <1>7 DEF TypeOK
<1>10. \A b \in Agent :
          /\ agent'[b].state = agent[b].state /\ agent'[b].sid = agent[b].sid /\ agent'[b].of = agent[b].of
          /\ agent'[b].file = agent[b].file /\ agent'[b].heardBy = agent[b].heardBy
          /\ agent[b].running \/ agent[b].prompt # "none" => agent'[b].running \/ agent'[b].prompt # "none"
  BY <1>0, <1>1, <1>2, <1>4, <1>5, <1>8, <1>9
<1>11. \A o \in Agent :
          /\ object'[o].agent = object[o].agent /\ object'[o].submits = object[o].submits
          /\ object'[o].unsub = object[o].unsub
          /\ o # x => object'[o] = object[o]
  BY <1>6, <1>8
<1>12. OneHosts' /\ Unborn'
  BY <1>3, <1>10, <1>11 DEF InOrder, OneHosts, Unborn, Hosts
<1>13. FilesApart' /\ \A t \in Sessions : RunsAt(t)'
  BY <1>3, <1>10, SessionsKept
<1>14. \A t \in Sessions : stash.of[t] # None => stash.of[t] \in Agent /\ object[stash.of[t]].agent \in Agent
  <2>1. \A t \in Sessions : stash.of[t] # None => stash.of[t] \in Agent
    BY <1>0 DEF TypeOK, Stash
  <2> QED
    BY <2>1, HeldHasAgent
<1>15. Parked'
  <2> SUFFICES ASSUME \A r \in Runtime : ~Hosts(r), NEW t \in Sessions PROVE ParkedAt(t)'
    BY <1>3 DEF Parked, Hosts
  <2>1. ParkedAt(t)
    BY DEF InOrder, Parked
  <2> QED
    BY <1>3, <1>10, <1>11, <1>14, <2>1 DEF ParkedAt, Belongs, Open
<1>16. ASSUME NEW r \in Runtime, Hosts(r)
       PROVE  /\ live[r][s] # None /\ object[live[r][s]].agent = a /\ live[r][s] = x
              /\ x \in Agent /\ rows[r] = disk /\ \A t \in Sessions : HostedAt(r, t)
  <2>1. rows[r] = disk /\ \A t \in Sessions : HostedAt(r, t)
    BY <1>16 DEF InOrder, Hosted
  <2>2. live[r][s] # None /\ object[live[r][s]].agent = a
    BY <1>0, <1>1, <2>1 DEF HostedAt, OnlyAt
  <2> QED
    BY <2>1, <2>2, <1>2, LiveAgent DEF HostedAt, AgentAt, Belongs
<1>17. Hosted'
  <2> SUFFICES ASSUME NEW r \in Runtime, Hosts(r), NEW t \in Sessions
               PROVE  rows'[r] = disk' /\ HostedAt(r, t)'
    BY <1>3 DEF Hosted, Hosts
  <2>1. HostedAt(r, t) /\ rows'[r] = disk'
    BY <1>3, <1>16
  <2>2. OpsAt(r, t)' /\ RestoreAt(r, t)'
    BY <1>3, <2>1 DEF HostedAt, OpsAt, RestoreAt, Opens, Stops, Open
  <2>3. CASE live[r][t] = None
    <3>1. OnlyAt(r, t)'
      BY <1>3, <1>10, <2>1, <2>3 DEF HostedAt, OnlyAt
    <3> QED
      BY <1>3, <2>1, <2>2, <2>3, <3>1 DEF HostedAt, AgentAt, RowAt
  <2>4. CASE live[r][t] # None
    <3>1. PICK o : o = live[r][t]
      OBVIOUS
    <3>2. o \in Agent /\ object[o].agent \in Agent /\ live'[r][t] = o
      BY <1>3, <2>4, <3>1, LiveAgent
    <3>3. OnlyAt(r, t)' /\ RowAt(r, t)'
      BY <1>3, <1>10, <1>11, <2>1, <3>1, <3>2 DEF HostedAt, OnlyAt, RowAt, Opens, Open
    <3>4. Belongs(o, t)' /\ (Stopping(o) => Stopping(o)')
      BY <1>10, <1>11, <2>1, <2>4, <3>1, <3>2 DEF HostedAt, AgentAt, Belongs, Stopping
    <3>5. CASE t = s
      <4>1. o = x /\ object[o].agent = a
        BY <1>16, <3>1, <3>5
      <4>2. ~Fresh(o)
        BY <1>0, <4>1 DEF Fresh
      <4>3. Usable(r, o) => Usable(r, o)'
        <5> SUFFICES ASSUME Usable(r, o) PROVE Usable(r, o)'
          OBVIOUS
        <5>1. agent[a].heardBy # {}
          BY <4>1 DEF Usable
        <5>2. CASE agent'[a] = begun
          <6>1. agent'[a] # refused
            BY <1>4, <1>5, <5>2
          <6>2. object'[o].working \/ (agent'[a] = refused /\ object'[o] = object[o])
            BY <1>6, <1>8, <3>2, <4>1, <5>1
          <6>3. object'[o].working
            BY <6>1, <6>2
          <6>4. agent'[a].running /\ object'[o].agent = a
            BY <1>4, <1>11, <3>2, <4>1, <5>2
          <6> QED
            BY <6>3, <6>4, <1>10, <1>11, <3>2, <4>1 DEF Usable
        <5>3. CASE agent'[a] # begun
          <6>1. agent'[a] = refused /\ object'[o] = object[o]
            BY <5>3, <1>8, <3>2
          <6>2. (agent'[a].running <=> agent[a].running) /\ agent'[a].prompt # "none"
            BY <6>1, <1>5
          <6> QED
            BY <6>1, <6>2, <1>10, <4>1 DEF Usable
        <5> QED
          BY <5>2, <5>3
      <4>4. agent[object[o].agent].state # "disposed"
        BY <1>0, <4>1
      <4> QED
        BY <1>3, <2>1, <2>2, <3>1, <3>2, <3>3, <3>4, <4>2, <4>3, <4>4
        DEF HostedAt, AgentAt, Opens, Stops
    <3>6. CASE t # s
      <4>1. agent[object[o].agent].sid = t
        BY <2>1, <2>4, <3>1 DEF HostedAt, AgentAt, Belongs
      <4>2. object[o].agent # a
        BY <1>1, <3>6, <4>1
      <4>3. o # x
        BY <1>16, <4>2
      <4>4. object'[o] = object[o] /\ agent'[object[o].agent] = agent[object[o].agent]
        BY <1>9, <1>11, <3>2, <4>2, <4>3
      <4>5. /\ Usable(r, o) => Usable(r, o)'
            /\ Fresh(o) => Fresh(o)'
            /\ agent[object[o].agent].state = "disposed" => agent'[object'[o].agent].state = "disposed"
        BY <4>4 DEF Usable, Fresh
      <4> QED
        BY <1>3, <2>1, <2>2, <3>1, <3>2, <3>3, <3>4, <4>5 DEF HostedAt, AgentAt, Opens, Stops
    <3> QED
      BY <3>5, <3>6
  <2> QED
    BY <2>1, <2>3, <2>4
<1> QED
  BY <1>12, <1>13, <1>15, <1>17 DEF InOrder

LEMMA StartKeepsOrder ==
    ASSUME InCustody, InCustody', InOrder, Orderly, NEW r \in Runtime, Start(r)
    PROVE  InOrder'
<1> DEFINE new == [rt[r] EXCEPT !.phase = "identity"]
<1>0. TypeOK /\ rt[r].phase = "unstarted"
  BY DEF InCustody, Start
<1>1. rt' = [rt EXCEPT ![r] = new]
  BY <1>0 DEF Start, TypeOK
<1>2. new.phase = "identity" /\ new.torn = rt[r].torn
  BY <1>0 DEF TypeOK, RuntimeRecord
<1> HIDE DEF new
<1>3. rt'[r] = new /\ \A q \in Runtime : q # r => rt'[q] = rt[q]
  BY <1>0, <1>1 DEF TypeOK
<1>4. UNCHANGED <<scope, agent, nextAgent, object, live, rows, disk, stash, dying, op, cut>>
  BY DEF Start
<1>5. \A q \in Runtime : Hosts(q)' <=> Hosts(q)
  BY <1>0, <1>2, <1>3 DEF Hosts
<1>6. OneHosts'
  <2>1. \A q \in Runtime : /\ rt'[q].phase # "stalled"
                           /\ rt'[q].torn <=> rt'[q].phase = "dead"
    BY <1>0, <1>2, <1>3 DEF InOrder, OneHosts
  <2>2. \A q \in Runtime : /\ ~Hosts(q)' => \A s \in Sessions : live'[q][s] = None
                           /\ Hosts(q)' => \A s \in Sessions : stash'.of[s] = None
    BY <1>4, <1>5 DEF InOrder, OneHosts
  <2>3. \A i \in Op : /\ op'[i].kind = "free" => op'[i] = NoOp
                      /\ op'[i].kind # "free" => Hosts(op[i].rt)'
    <3> SUFFICES ASSUME NEW i \in Op, op[i].kind # "free" PROVE Hosts(op[i].rt)'
      BY <1>4 DEF InOrder, OneHosts
    <3>1. op[i].rt \in Runtime /\ Hosts(op[i].rt)
      BY <1>0 DEF TypeOK, OpRecord, InOrder, OneHosts
    <3> QED
      BY <3>1, <1>0, <1>2, <1>3, <1>4 DEF Hosts
  <2>4. dying' = NoStash
    BY <1>4 DEF InOrder, OneHosts
  <2> QED
    BY <2>1, <2>2, <2>3, <2>4, <1>4 DEF OneHosts, Hosts
<1>7. Unborn'
  BY <1>4 DEF InOrder, Unborn
<1>8. Hosted'
  <2> SUFFICES ASSUME NEW q \in Runtime, Hosts(q)'
               PROVE  rows'[q] = disk' /\ \A s \in Sessions : HostedAt(q, s)'
    BY DEF Hosted
  <2>0. Hosts(q) /\ rows'[q] = disk'
    BY <1>4, <1>5 DEF InOrder, Hosted
  <2> SUFFICES ASSUME NEW s \in Sessions PROVE HostedAt(q, s)'
    BY <2>0
  <2>1. rt'[q] = rt[q]
    BY <2>0, <1>0, <1>3 DEF Hosts
  <2>2. rows[q] = disk /\ HostedAt(q, s)
    BY <2>0 DEF InOrder, Hosted
  <2> QED
    BY <2>1, <2>2, <1>4 DEF HostedAt, OpsAt, RestoreAt, AgentAt, OnlyAt, RowAt, Opens, Stops, Open,
                            Belongs, Usable, Fresh, Stopping
<1>9. Parked'
  BY <1>4, <1>5 DEF InOrder, Parked, ParkedAt, Belongs, Open
<1>10. FilesApart' /\ \A s \in Sessions : RunsAt(s)'
  BY <1>4, SessionsKept
<1> QED
  BY <1>6, <1>7, <1>8, <1>9, <1>10 DEF InOrder

LEMMA RestoreEndsKeepsOrder ==
    ASSUME InCustody, InCustody', InOrder, Orderly, NEW r \in Runtime, RestoreEnds(r)
    PROVE  InOrder'
<1> DEFINE new == [rt[r] EXCEPT !.phase = "serving"]
<1>0. TypeOK /\ rt[r].phase = "restoring" /\ Hosts(r)
  BY DEF InCustody, RestoreEnds, Hosts
<1>1. rt' = [rt EXCEPT ![r] = new]
  BY <1>0 DEF RestoreEnds, TypeOK
<1>2. new.phase = "serving" /\ new.torn = rt[r].torn
  BY <1>0 DEF TypeOK, RuntimeRecord
<1> HIDE DEF new
<1>3. rt'[r] = new /\ \A q \in Runtime : q # r => rt'[q] = rt[q]
  BY <1>0, <1>1 DEF TypeOK
<1>4. UNCHANGED <<scope, agent, nextAgent, object, live, rows, disk, stash, dying, op, cut>>
  BY DEF RestoreEnds
<1>5. \A q \in Runtime : Hosts(q)' <=> Hosts(q)
  BY <1>0, <1>2, <1>3 DEF Hosts
<1>6. OneHosts'
  <2>1. \A q \in Runtime : /\ rt'[q].phase # "stalled"
                           /\ rt'[q].torn <=> rt'[q].phase = "dead"
    BY <1>0, <1>2, <1>3 DEF InOrder, OneHosts
  <2>2. \A q \in Runtime : /\ ~Hosts(q)' => \A s \in Sessions : live'[q][s] = None
                           /\ Hosts(q)' => \A s \in Sessions : stash'.of[s] = None
    BY <1>4, <1>5 DEF InOrder, OneHosts
  <2>3. \A i \in Op : /\ op'[i].kind = "free" => op'[i] = NoOp
                      /\ op'[i].kind # "free" => Hosts(op[i].rt)'
    <3> SUFFICES ASSUME NEW i \in Op, op[i].kind # "free" PROVE Hosts(op[i].rt)'
      BY <1>4 DEF InOrder, OneHosts
    <3>1. op[i].rt \in Runtime /\ Hosts(op[i].rt)
      BY <1>0 DEF TypeOK, OpRecord, InOrder, OneHosts
    <3> QED
      BY <3>1, <1>0, <1>2, <1>3, <1>4 DEF Hosts
  <2>4. dying' = NoStash
    BY <1>4 DEF InOrder, OneHosts
  <2> QED
    BY <2>1, <2>2, <2>3, <2>4, <1>4 DEF OneHosts, Hosts
<1>7. Unborn'
  BY <1>4 DEF InOrder, Unborn
<1>8. Hosted'
  <2> SUFFICES ASSUME NEW q \in Runtime, Hosts(q)'
               PROVE  rows'[q] = disk' /\ \A s \in Sessions : HostedAt(q, s)'
    BY DEF Hosted
  <2>0. Hosts(q) /\ rows'[q] = disk'
    BY <1>4, <1>5 DEF InOrder, Hosted
  <2> SUFFICES ASSUME NEW s \in Sessions PROVE HostedAt(q, s)'
    BY <2>0
  <2>1. q = r
    BY <2>0, <1>0, OneHostAtATime DEF InOrder
  <2>2. rows[r] = disk /\ HostedAt(r, s)
    BY <1>0 DEF InOrder, Hosted
  <2>3. \A i \in Op : op[i].sid # s
    <3> SUFFICES ASSUME NEW i \in Op, op[i].sid = s PROVE FALSE
      OBVIOUS
    <3>1. op[i].rt = r /\ op[i].kind = "restore"
      BY <1>0, <2>2 DEF HostedAt, OpsAt
    <3> QED
      BY <3>1 DEF RestoreEnds
  <2>4. OpsAt(r, s)' /\ RestoreAt(r, s)'
    BY <1>2, <1>3, <1>4, <2>3 DEF OpsAt, RestoreAt
  <2>5. AgentAt(r, s)' /\ OnlyAt(r, s)' /\ RowAt(r, s)'
    BY <1>4, <2>2, <2>3 DEF HostedAt, AgentAt, OnlyAt, RowAt, Opens, Stops, Open, Belongs, Usable, Fresh, Stopping
  <2> QED
    BY <2>1, <2>2, <2>4, <2>5, <1>4 DEF HostedAt
<1>9. Parked'
  BY <1>4, <1>5 DEF InOrder, Parked, ParkedAt, Belongs, Open
<1>10. FilesApart' /\ \A s \in Sessions : RunsAt(s)'
  BY <1>4, SessionsKept
<1> QED
  BY <1>6, <1>7, <1>8, <1>9, <1>10 DEF InOrder

\* A reload parks sessions that are usable, every one of them.
LEMMA TeardownKeepsOrder ==
    ASSUME InCustody, InCustody', InOrder, Orderly, NEW r \in Runtime, Teardown(r)
    PROVE  InOrder'
<1> DEFINE phase == IF rt[r].phase = "identity" THEN "identity" ELSE "dead"
           new == [rt[r] EXCEPT !.torn = TRUE, !.restore = {}, !.phase = phase]
           left(o) == [object[o] EXCEPT !.submits = FALSE]
<1>0. TypeOK
  BY DEF InCustody
<1>1. /\ rt[r].phase # "unstarted" /\ ~rt[r].torn /\ rt[r].phase # "identity"
      /\ \A i \in Op : op[i].kind = "free" \/ op[i].rt # r
      /\ live' = [live EXCEPT ![r] = Nobody]
      /\ stash' = IF live[r] = Nobody THEN stash ELSE [by |-> r, of |-> live[r]]
      /\ UNCHANGED <<scope, agent, nextAgent, rows, disk, dying, op, cut>>
  BY OrderlyEvents DEF Teardown, Current, Busy
<1>2. Hosts(r)
  BY <1>0, <1>1 DEF InOrder, OneHosts, Hosts, TypeOK, RuntimeRecord, Phases
<1>3. \A q \in Runtime : Hosts(q) => q = r
  BY <1>2, OneHostAtATime DEF InOrder
<1>4. \A i \in Op : op[i].kind = "free" /\ op[i] = NoOp
  <2> SUFFICES ASSUME NEW i \in Op, op[i].kind # "free" PROVE FALSE
    BY DEF InOrder, OneHosts
  <2>1. op[i].rt \in Runtime /\ Hosts(op[i].rt)
    BY OpAt
  <2> QED
    BY <1>1, <1>3, <2>1
<1>5. \A i \in Op, s \in Sessions : op[i].sid # s
  BY <1>4, NoOpIsFree, NoneIsNoSession
<1>6. rt' = [rt EXCEPT ![r] = new]
  BY <1>0 DEF Teardown, TypeOK
<1>7. new.torn /\ new.phase = "dead"
  BY <1>0, <1>1 DEF TypeOK, RuntimeRecord
<1> HIDE DEF new
<1>8. rt'[r] = new /\ \A q \in Runtime : q # r => rt'[q] = rt[q]
  BY <1>0, <1>6 DEF TypeOK
<1>9. \A q \in Runtime : ~Hosts(q)'
  BY <1>3, <1>7, <1>8 DEF Hosts
<1>10. \A q \in Runtime, s \in Sessions : live'[q][s] = IF q = r THEN None ELSE live[q][s]
  BY <1>0, <1>1 DEF TypeOK, Nobody
<1>11. OneHosts'
  <2>1. \A q \in Runtime : /\ rt'[q].phase # "stalled"
                           /\ rt'[q].torn <=> rt'[q].phase = "dead"
    BY <1>7, <1>8 DEF InOrder, OneHosts
  <2>2. \A q \in Runtime, s \in Sessions : live'[q][s] = None
    BY <1>3, <1>10 DEF InOrder, OneHosts
  <2> QED
    BY <1>1, <1>4, <1>9, <2>1, <2>2, NoOpIsFree DEF InOrder, OneHosts
<1>12. object' = [o \in Agent |-> IF \E s \in Sessions : live[r][s] = o THEN left(o) ELSE object[o]]
  BY DEF Teardown
<1>13. \A o \in Agent : left(o).agent = object[o].agent /\ left(o).unsub = object[o].unsub
  BY <1>0 DEF TypeOK, ObjectRecord
<1> HIDE DEF left
<1>14. \A o \in Agent : object'[o].agent = object[o].agent /\ object'[o].unsub = object[o].unsub
  BY <1>12, <1>13
<1>15. Unborn'
  BY <1>1, <1>14 DEF InOrder, Unborn
<1>16. \A s \in Sessions : stash'.of[s] = live[r][s] /\ (live[r][s] # None => stash'.by = r)
  <2>1. CASE live[r] = Nobody
    <3>1. \A s \in Sessions : stash.of[s] = None /\ live[r][s] = None
      BY <2>1, <1>2 DEF InOrder, OneHosts, Nobody
    <3> QED
      BY <2>1, <3>1, <1>1
  <2>2. CASE live[r] # Nobody
    BY <2>2, <1>1
  <2> QED
    BY <2>1, <2>2
<1>17. Parked'
  <2> SUFFICES ASSUME NEW s \in Sessions PROVE ParkedAt(s)'
    BY DEF Parked
  <2>1. HostedAt(r, s) /\ rows[r] = disk
    BY <1>2 DEF InOrder, Hosted
  <2>2. \A a \in Agent : agent[a].state = "alive" /\ agent[a].sid = s =>
            live[r][s] # None /\ object[live[r][s]].agent = a
    BY <2>1 DEF HostedAt, OnlyAt
  <2>3. live[r][s] # None => /\ live[r][s] \in Agent
                             /\ Belongs(live[r][s], s) /\ Usable(r, live[r][s]) /\ Open(disk[s])
    BY <2>1, <1>5, LiveAgent DEF HostedAt, AgentAt, RowAt
  <2> QED
    BY <2>1, <2>2, <2>3, <1>1, <1>14, <1>16 DEF ParkedAt, Belongs, Usable, Open
<1>18. Hosted'
  BY <1>9 DEF Hosted
<1>19. FilesApart' /\ \A s \in Sessions : RunsAt(s)'
  BY <1>1, SessionsKept
<1> QED
  BY <1>11, <1>15, <1>17, <1>18, <1>19 DEF InOrder

\* A runtime adopts what was parked, and its handler takes the place of the one
\* of the runtime before.
LEMMA AdoptKeepsOrder ==
    ASSUME InCustody, InCustody', InOrder, Orderly, NEW r \in Runtime, Adopt(r)
    PROVE  InOrder'
<1> DEFINE parked(s) == object[stash.of[s]].agent
           adoptedRow(s) == [status |-> IF agent[parked(s)].running THEN "running" ELSE "idle",
                             file |-> agent[parked(s)].file]
           loaded == [s \in Sessions |-> IF Adopted(s) THEN adoptedRow(s) ELSE disk[s]]
           new == [rt[r] EXCEPT !.phase = "restoring",
                                !.restore = {s \in Sessions : Restorable(loaded[s])}]
           taken(o) == [object[o] EXCEPT !.working = agent[object[o].agent].running,
                                         !.submits = TRUE, !.unsub = r]
<1>0. TypeOK /\ rt[r].phase = "identity"
  BY DEF InCustody, Adopt
<1>1. /\ live' = [live EXCEPT ![r] = stash.of]
      /\ rows' = [rows EXCEPT ![r] = loaded] /\ disk' = loaded /\ stash' = NoStash
      /\ UNCHANGED <<scope, nextAgent, dying, op, cut>>
  BY DEF Adopt, TakeStash
<1>2. \A q \in Runtime : ~Hosts(q)
  <2>1. ~rt[r].torn
    BY <1>0 DEF InOrder, OneHosts
  <2> QED
    BY <1>0, <2>1, OneAtATime DEF InOrder, Hosts
<1>3. \A s \in Sessions : ParkedAt(s)
  BY <1>2 DEF InOrder, Parked
<1>4. rt' = [rt EXCEPT ![r] = new]
  BY <1>0 DEF Adopt, TypeOK
<1>5. new.torn = rt[r].torn /\ new.phase = "restoring" /\ new.restore = {s \in Sessions : Restorable(loaded[s])}
  <2> HIDE DEF loaded
  <2> QED
    BY <1>0 DEF TypeOK, RuntimeRecord
<1> HIDE DEF new
<1>6. rt'[r] = new /\ \A q \in Runtime : q # r => rt'[q] = rt[q]
  BY <1>0, <1>4 DEF TypeOK
<1>7. agent' = [a \in Agent |-> IF Alive(a) /\ IsAdopted(agent[a].of) THEN Rewired(r, a) ELSE agent[a]]
  BY DEF Adopt
<1>8. object' = [o \in Agent |-> IF IsAdopted(o) THEN taken(o) ELSE object[o]]
  BY DEF Adopt
<1>9. \A o \in Agent : IsAdopted(o) => object[o].agent \in Agent
  BY HeldHasAgent DEF IsAdopted
<1>10. \A o \in Agent : IsAdopted(o) =>
          /\ taken(o).agent = object[o].agent /\ taken(o).submits /\ taken(o).unsub = r
          /\ taken(o).working <=> agent[object[o].agent].running
  <2> SUFFICES ASSUME NEW o \in Agent, IsAdopted(o)
               PROVE  /\ taken(o).agent = object[o].agent /\ taken(o).submits /\ taken(o).unsub = r
                      /\ taken(o).working <=> agent[object[o].agent].running
    OBVIOUS
  <2> DEFINE w == agent[object[o].agent].running
  <2>1. w \in BOOLEAN
    BY <1>0, <1>9 DEF TypeOK, AgentRecord
  <2>2. object[o] \in ObjectRecord /\ taken(o) = [object[o] EXCEPT !.working = w, !.submits = TRUE, !.unsub = r]
    BY <1>0 DEF TypeOK
  <2>3. w <=> agent[object[o].agent].running
    OBVIOUS
  <2> HIDE DEF w
  <2> QED
    BY <2>1, <2>2, <2>3 DEF ObjectRecord
<1> HIDE DEF taken
<1>11. \A a \in Agent : /\ Rewired(r, a).sid = agent[a].sid /\ Rewired(r, a).of = agent[a].of
                        /\ Rewired(r, a).state = agent[a].state /\ Rewired(r, a).file = agent[a].file
                        /\ Rewired(r, a).running <=> agent[a].running
                        /\ Rewired(r, a).prompt = agent[a].prompt
                        /\ Rewired(r, a).heardBy = (agent[a].heardBy \ {object[agent[a].of].unsub}) \cup {r}
  BY <1>0 DEF Rewired, TypeOK, AgentRecord
<1>12. \A a \in Agent : /\ agent'[a].sid = agent[a].sid /\ agent'[a].of = agent[a].of
                        /\ agent'[a].state = agent[a].state /\ agent'[a].file = agent[a].file
                        /\ agent'[a].running <=> agent[a].running
                        /\ agent'[a].prompt = agent[a].prompt
  BY <1>7, <1>11
<1>13. \A o \in Agent : object'[o].agent = object[o].agent
  BY <1>8, <1>10
<1>14. \A q \in Runtime, s \in Sessions : live'[q][s] = IF q = r THEN stash.of[s] ELSE None
  <2>1. \A q \in Runtime, s \in Sessions : live[q][s] = None
    BY <1>2 DEF InOrder, OneHosts
  <2> QED
    BY <1>0, <1>1, <2>1 DEF TypeOK, Stash
<1>15. rows'[r] = loaded /\ disk' = loaded
  BY <1>0, <1>1 DEF TypeOK
<1>16. \A s \in Sessions : stash.of[s] # None =>
          /\ stash.of[s] \in Agent /\ parked(s) \in Agent
          /\ disk'[s].file = agent[parked(s)].file
          /\ disk'[s].status = IF agent[parked(s)].running THEN "running" ELSE "idle"
  <2> SUFFICES ASSUME NEW s \in Sessions, stash.of[s] # None
               PROVE  /\ stash.of[s] \in Agent /\ parked(s) \in Agent
                      /\ disk'[s].file = agent[parked(s)].file
                      /\ disk'[s].status = IF agent[parked(s)].running THEN "running" ELSE "idle"
    OBVIOUS
  <2>1. stash.of[s] \in Agent
    BY <1>0 DEF TypeOK, Stash
  <2>2. parked(s) \in Agent
    BY <2>1, HeldHasAgent
  <2>3. disk'[s] = adoptedRow(s)
    BY <1>15 DEF Adopted
  <2> QED
    BY <2>1, <2>2, <2>3
<1>17. \A s \in Sessions : stash.of[s] = None => disk'[s] = disk[s]
  BY <1>15 DEF Adopted
<1>18. \A s \in Sessions : s \in rt'[r].restore => Open(disk'[s])
  <2> SUFFICES ASSUME NEW s \in Sessions, s \in rt'[r].restore PROVE Open(disk'[s])
    OBVIOUS
  <2>1. Restorable(disk'[s])
    BY <1>5, <1>6, <1>15
  <2>2. disk'[s] \in Row
    BY DEF InCustody, TypeOK
  <2> QED
    BY <2>1, <2>2 DEF Restorable, Open, Row
<1> HIDE DEF loaded, adoptedRow
<1>19. \A i \in Op : op[i].kind = "free" /\ op[i] = NoOp
  <2> SUFFICES ASSUME NEW i \in Op, op[i].kind # "free" PROVE FALSE
    BY DEF InOrder, OneHosts
  <2> QED
    BY <1>2, OpAt
<1>20. \A i \in Op, s \in Sessions : op'[i].sid # s
  BY <1>1, <1>19, NoOpIsFree, NoneIsNoSession
<1>21. Hosts(r)' /\ \A q \in Runtime : q # r => ~Hosts(q)'
  BY <1>2, <1>5, <1>6 DEF Hosts
<1>22. OneHosts'
  <2>1. \A q \in Runtime : /\ rt'[q].phase # "stalled"
                           /\ rt'[q].torn <=> rt'[q].phase = "dead"
    BY <1>0, <1>5, <1>6 DEF InOrder, OneHosts
  <2>2. \A s \in Sessions : stash'.of[s] = None
    BY <1>1 DEF NoStash, Nobody
  <2> QED
    BY <1>1, <1>14, <1>19, <1>21, <2>1, <2>2, NoOpIsFree DEF InOrder, OneHosts
<1>23. Unborn'
  BY <1>1, <1>12, <1>13 DEF InOrder, Unborn
<1>24. ASSUME NEW s \in Sessions, NEW o, o = stash.of[s], o # None
       PROVE  /\ live'[r][s] = o /\ Belongs(o, s)' /\ Usable(r, o)'
              /\ object'[o].agent = parked(s) /\ agent[parked(s)].sid = s /\ agent[parked(s)].state = "alive"
  <2> DEFINE a == object[o].agent
  <2>1. o \in Agent /\ a \in Agent /\ IsAdopted(o)
    BY <1>16, <1>24 DEF IsAdopted
  <2>2. /\ agent[a].of = o /\ agent[a].sid = s /\ agent[a].state = "alive"
        /\ agent[a].heardBy = {object[o].unsub}
    BY <1>3, <1>24 DEF ParkedAt, Belongs
  <2>3. Alive(a)
    BY <2>1, <2>2, NoneIsNoAgent DEF Alive
  <2>4. agent'[a].heardBy = {r}
    BY <2>1, <2>2, <2>3, <1>7, <1>11
  <2>5. object'[o].agent = a /\ object'[o].submits /\ object'[o].unsub = r
        /\ (object'[o].working <=> agent[a].running)
    BY <2>1, <1>8, <1>10
  <2>6. live'[r][s] = o
    BY <1>14, <1>24
  <2> QED
    BY <2>1, <2>2, <2>4, <2>5, <2>6, <1>12, <1>24 DEF Belongs, Usable
<1>25. Hosted'
  <2> SUFFICES ASSUME NEW s \in Sessions PROVE HostedAt(r, s)'
    BY <1>15, <1>21 DEF Hosted
  <2>1. OpsAt(r, s)' /\ RestoreAt(r, s)'
    BY <1>18, <1>20 DEF OpsAt, RestoreAt
  <2>2. PICK o : o = stash.of[s]
    OBVIOUS
  <2>3. live'[r][s] = o
    BY <1>14, <2>2
  <2>4. o # None => /\ Belongs(o, s)' /\ Usable(r, o)' /\ object'[o].agent = parked(s)
    BY <1>24, <2>2
  <2>5. AgentAt(r, s)'
    BY <1>20, <2>3, <2>4 DEF AgentAt, Belongs, Usable
  <2>6. OnlyAt(r, s)'
    <3>1. \A a \in Agent : agent[a].state = "alive" /\ agent[a].sid = s => o # None /\ parked(s) = a
      BY <1>3, <2>2 DEF ParkedAt
    <3> QED
      BY <3>1, <2>3, <2>4, <1>12 DEF OnlyAt
  <2>7. RowAt(r, s)'
    BY <2>2, <2>3, <2>4, <1>12, <1>16 DEF RowAt, Open
  <2> QED
    BY <2>1, <2>5, <2>6, <2>7 DEF HostedAt
<1>26. Parked'
  BY <1>21 DEF Parked
<1>27. \A s \in Sessions, f \in Transcript : Mentions(s, f)' => Mentions(s, f)
  <2> SUFFICES ASSUME NEW s \in Sessions, NEW f \in Transcript, Mentions(s, f)' PROVE Mentions(s, f)
    OBVIOUS
  <2>1. CASE disk'[s].file = f
    <3>1. CASE stash.of[s] = None
      BY <2>1, <3>1, <1>17 DEF Mentions
    <3>2. CASE stash.of[s] # None
      <4>1. parked(s) \in Agent /\ agent[parked(s)].sid = s /\ agent[parked(s)].state = "alive"
            /\ agent[parked(s)].file = f
        BY <2>1, <3>2, <1>16, <1>24
      <4> QED
        BY <4>1 DEF Mentions
    <3> QED
      BY <3>1, <3>2
  <2>2. CASE \E b \in Agent : agent'[b].state = "alive" /\ agent'[b].sid = s /\ agent'[b].file = f
    BY <2>2, <1>12 DEF Mentions
  <2> QED
    BY <2>1, <2>2, <1>20 DEF Mentions
<1>28. FilesApart'
  BY <1>1, <1>27 DEF InOrder, FilesApart
<1>29. \A s \in Sessions : RunsAt(s)'
  <2> SUFFICES ASSUME NEW s \in Sessions PROVE RunsAt(s)'
    OBVIOUS
  <2>1. CASE stash.of[s] = None
    BY <2>1, <1>1, <1>12, <1>17 DEF InOrder, RunsAt, Stops
  <2>2. CASE stash.of[s] # None
    <3>1. parked(s) \in Agent /\ agent[parked(s)].sid = s
      BY <2>2, <1>16, <1>24
    <3>2. disk'[s].status = "running" => agent[parked(s)].running
      BY <2>2, <1>16
    <3> QED
      BY <3>1, <3>2, <1>12 DEF RunsAt
  <2> QED
    BY <2>1, <2>2
<1> QED
  BY <1>22, <1>23, <1>25, <1>26, <1>28, <1>29 DEF InOrder

LEMMA CrashKeepsOrder ==
    ASSUME InCustody, InCustody', InOrder, Orderly, Crash
    PROVE  InOrder'
<1> DEFINE gone == [phase |-> "dead", torn |-> TRUE, restore |-> {}]
           lost == [NoAgent EXCEPT !.state = "disposed"]
<1>1. /\ agent' = [a \in Agent |-> IF agent[a].state = "unused" THEN NoAgent ELSE lost]
      /\ object' = [a \in Agent |-> NoObject]
      /\ rt' = [r \in Runtime |-> IF rt[r].phase = "unstarted" THEN rt[r] ELSE gone]
      /\ live' = [r \in Runtime |-> Nobody]
      /\ stash' = NoStash /\ dying' = NoStash /\ op' = [i \in Op |-> NoOp]
      /\ UNCHANGED <<scope, nextAgent, rows, disk>>
      /\ cut' = cut \cup {agent[a].sid : a \in {b \in Agent : Asked(b)}}
                    \cup {op[i].sid : i \in {j \in Op : op[j].kind \in {"despawn", "delete", "clear"}}}
  BY DEF Crash
<1>2. \A q \in Runtime : ~Hosts(q)'
  BY <1>1 DEF Hosts
<1>3. /\ \A q \in Runtime, s \in Sessions : live'[q][s] = None
      /\ \A s \in Sessions : stash'.of[s] = None
  BY <1>1 DEF NoStash, Nobody
<1>4. OneHosts'
  <2>1. \A q \in Runtime : /\ rt'[q].phase # "stalled"
                           /\ rt'[q].torn <=> rt'[q].phase = "dead"
    BY <1>1 DEF InOrder, OneHosts
  <2> QED
    BY <1>1, <1>2, <1>3, <2>1, NoOpIsFree DEF OneHosts
<1>5. \A a \in Agent : agent'[a].state \in {"unused", "disposed"} /\ agent'[a].sid = None
                       /\ (agent[a].state = "unused" => agent'[a].state = "unused")
  BY <1>1 DEF NoAgent
<1>6. \A o \in Agent : object'[o].agent = None
  BY <1>1 DEF NoObject
<1>7. Unborn'
  BY <1>1, <1>5, <1>6 DEF InOrder, Unborn
<1>8. Hosted'
  BY <1>2 DEF Hosted
<1>9. Parked'
  BY <1>3, <1>5 DEF Parked, ParkedAt
<1>10. \A s \in Sessions, f \in Transcript : Mentions(s, f)' => Mentions(s, f)
  BY <1>1, <1>5, NoOpIsFree, NoneIsNoSession DEF Mentions
<1>11. FilesApart'
  BY <1>1, <1>10 DEF InOrder, FilesApart
<1>12. \A s \in Sessions : RunsAt(s)'
  <2> SUFFICES ASSUME NEW s \in Sessions, disk[s].status = "running" PROVE s \in cut'
    BY <1>1 DEF RunsAt
  <2>1. RunsAt(s)
    BY DEF InOrder
  <2> QED
    BY <2>1, <1>1 DEF RunsAt, Stops, Asked
<1> QED
  BY <1>4, <1>7, <1>8, <1>9, <1>11, <1>12 DEF InOrder

LEMMA InitIsInOrder == Init => InOrder
<1> SUFFICES ASSUME Init PROVE InOrder
  OBVIOUS
<1>1. /\ \A a \in Agent : agent[a] = NoAgent /\ object[a] = NoObject
      /\ nextAgent = 1 /\ dying = NoStash /\ stash = NoStash
      /\ \A r \in Runtime : rt[r].phase = "unstarted" /\ ~rt[r].torn
      /\ \A r \in Runtime : live[r] = Nobody
      /\ \A i \in Op : op[i] = NoOp
  BY DEF Init
<1>2. PICK had \in {{}, scope.sessions} :
        disk = [s \in Sessions |-> IF s \in had THEN [status |-> "idle", file |-> s] ELSE NoRow]
  BY DEF Init
<1>3. \A s \in Sessions : disk[s].status # "running" /\ disk[s].file \in {s, None}
  BY <1>2 DEF NoRow
<1>4. \A r \in Runtime : ~Hosts(r)
  BY <1>1 DEF Hosts
<1>5. \A s \in Sessions : stash.of[s] = None
  BY <1>1 DEF NoStash, Nobody
<1>6. OneHosts
  BY <1>1, <1>4, <1>5, NoOpIsFree DEF OneHosts, Nobody
<1>7. Unborn
  BY <1>1 DEF Unborn, NoAgent, NoObject
<1>8. Hosted /\ Parked
  BY <1>1, <1>4, <1>5 DEF Hosted, Parked, ParkedAt, NoAgent
<1>9. \A s \in Sessions, f \in Transcript : Mentions(s, f) => f = s
  BY <1>1, <1>3, NoneIsNoTranscript, NoOpIsFree, NoneIsNoSession DEF Mentions, NoAgent
<1>10. FilesApart
  <2>1. \A s \in Sessions : s \notin Agent
    BY TranscriptsApart
  <2> QED
    BY <1>9, <2>1 DEF FilesApart
<1>11. \A s \in Sessions : RunsAt(s)
  BY <1>3 DEF RunsAt
<1> QED
  BY <1>6, <1>7, <1>8, <1>10, <1>11 DEF InOrder

LEMMA OpStepKeepsOrder ==
    ASSUME InCustody, InCustody', InOrder, Orderly, NEW i \in Op, OpStep(i)
    PROVE  InOrder'
<1>1. PICK r : r = op[i].rt
  OBVIOUS
<1>2. PICK s : s = op[i].sid
  OBVIOUS
<1>3. PICK o : o = op[i].obj
  OBVIOUS
<1>4. PICK a : a = object[o].agent
  OBVIOUS
<1>5. PICK b : b = nextAgent
  OBVIOUS
<1>6. CASE Created(i)
  BY <1>1, <1>2, <1>5, <1>6, CreatedKeepsOrder
<1>7. CASE Settled(i)
  BY <1>1, <1>2, <1>3, <1>4, <1>7, SettledKeepsOrder
<1>8. CASE Despawned(i)
  BY <1>1, <1>2, <1>3, <1>4, <1>8, DespawnedKeepsOrder
<1>9. CASE ClearStopped(i)
  BY <1>1, <1>2, <1>3, <1>4, <1>9, ClearStoppedKeepsOrder
<1>10. CASE Cleared(i)
  BY <1>1, <1>2, <1>3, <1>5, <1>10, ClearedKeepsOrder
<1>11. CASE ModelSet(i)
  BY <1>1, <1>2, <1>3, <1>4, <1>11, ModelSetKeepsOrder
<1> QED
  BY <1>6, <1>7, <1>8, <1>9, <1>10, <1>11 DEF OpStep

LEMMA StutterKeepsOrder ==
    ASSUME InOrder, UNCHANGED vars
    PROVE  InOrder'
<1>1. UNCHANGED <<agent, nextAgent, object, rt, live, rows, disk, stash, dying, op, cut>>
  BY DEF vars
<1>2. OneHosts' /\ Unborn'
  BY <1>1 DEF InOrder, OneHosts, Hosts, Unborn
<1>3. Hosted'
  BY <1>1 DEF InOrder, Hosted, Hosts, HostedAt, OpsAt, RestoreAt, AgentAt, OnlyAt, RowAt, Opens, Stops, Open,
              Belongs, Usable, Fresh, Stopping
<1>4. Parked'
  BY <1>1 DEF InOrder, Parked, Hosts, ParkedAt, Belongs, Open
<1>5. FilesApart' /\ \A s \in Sessions : RunsAt(s)'
  BY <1>1, SessionsKept
<1> QED
  BY <1>2, <1>3, <1>4, <1>5 DEF InOrder

LEMMA NextKeepsOrder ==
    ASSUME InCustody, InCustody', InOrder, Orderly, [Next]_vars
    PROVE  InOrder'
<1>1. ASSUME NEW r \in Runtime, Start(r) \/ BootstrapStep(r) \/ BootstrapStalls(r) \/ Teardown(r)
      PROVE  InOrder'
  <2>1. ~BootstrapStalls(r)
    BY OrderlyEvents DEF BootstrapStalls
  <2> QED
    BY <1>1, <2>1, StartKeepsOrder, AdoptKeepsOrder, RestoreNextKeepsOrder, RestoreEndsKeepsOrder,
       TeardownKeepsOrder DEF BootstrapStep
<1>2. ASSUME NEW r \in Runtime, NEW s \in Sessions,
             \/ Spawn(r, s) \/ Resume(r, s) \/ Despawn(r, s) \/ CloseRow(r, s)
             \/ Clear(r, s) \/ SetModel(r, s) \/ Message(r, s)
      PROVE  InOrder'
  BY <1>2, SpawnKeepsOrder, ResumeKeepsOrder, DespawnKeepsOrder, CloseRowKeepsOrder,
     ClearKeepsOrder, SetModelKeepsOrder, MessageKeepsOrder
<1>3. ASSUME NEW i \in Op, OpStep(i) \/ CreateFails(i)
      PROVE  InOrder'
  BY <1>3, OpStepKeepsOrder, OrderlyEvents DEF CreateFails
<1>4. ASSUME NEW a \in Agent, TurnBegins(a) \/ PromptRefused(a) \/ TurnEnds(a)
      PROVE  InOrder'
  BY <1>4, PreparedKeepsOrder, TurnEndsKeepsOrder
<1>5. ASSUME NEW s \in Sessions, AbandonOne(s)
      PROVE  FALSE
  BY <1>5 DEF AbandonOne, InOrder, OneHosts, NoStash, Nobody
<1>6. ~AbandonStash
  BY OrderlyEvents DEF AbandonStash
<1> QED
  BY <1>1, <1>2, <1>3, <1>4, <1>5, <1>6, StutterKeepsOrder, CrashKeepsOrder DEF Next

\* The scope of a behaviour is what it was.
LEMMA ScopeKept == [Next]_vars => scope' = scope
<1>1. \A r \in Runtime : Start(r) \/ BootstrapStep(r) \/ BootstrapStalls(r) \/ Teardown(r) => scope' = scope
  BY DEF Start, BootstrapStep, Adopt, RestoreNext, RestoreEnds, BootstrapStalls, Teardown
<1>2. \A r \in Runtime, s \in Sessions :
         Spawn(r, s) \/ Resume(r, s) \/ Despawn(r, s) \/ CloseRow(r, s) \/ Clear(r, s) \/ SetModel(r, s)
         \/ Message(r, s) => scope' = scope
  BY DEF Spawn, Resume, Despawn, CloseRow, Clear, SetModel, Message
<1>3. \A i \in Op : OpStep(i) \/ CreateFails(i) => scope' = scope
  BY DEF OpStep, Created, Settled, Despawned, ClearStopped, Cleared, ModelSet, CreateFails
<1>4. \A a \in Agent : TurnBegins(a) \/ PromptRefused(a) \/ TurnEnds(a) => scope' = scope
  BY DEF TurnBegins, PromptRefused, TurnEnds
<1>5. AbandonStash \/ (\E s \in Sessions : AbandonOne(s)) \/ Crash \/ UNCHANGED vars => scope' = scope
  BY DEF AbandonStash, AbandonOne, Crash, vars
<1> QED
  BY <1>1, <1>2, <1>3, <1>4, <1>5 DEF Next

-----------------------------------------------------------------------------
(* Order: every agent that lives has a transcript.                         *)

\* An agent that lives has a transcript, and so have the operations that open
\* one again and the rows that are to be restored.
NamesKnown ==
    /\ \A a \in Agent : agent[a].state = "alive" => agent[a].file # None
    /\ \A i \in Op : op[i].kind \in {"resume", "restore"} /\ op[i].at = "create" => op[i].file # None
    /\ \A r \in Runtime, s \in Sessions :
          rt[r].phase = "restoring" /\ s \in rt[r].restore => disk[s].file # None
NamesInv == Orderly => NamesKnown

-----------------------------------------------------------------------------
(* Order: what a step may write about a session in the registry file.      *)

\* Nothing; or that it is closed or gone, by a runtime that serves; or that it
\* is open, which it was, or is made by the end of a spawn or a resume.  What is
\* written by a runtime that hosts names a transcript.
Opened(s) == \E i \in Op : op[i].kind \in {"spawn", "resume"} /\ op[i].sid = s /\ op'[i].kind = "free"
Written(s) ==
    \/ disk'[s] = disk[s]
    \/ disk'[s].status \in {"none", "closed"} /\ \E r \in Runtime : rt[r].phase = "serving"
    \/ /\ Open(disk[s]) \/ Opened(s)
       /\ disk'[s].file # None \/ \A r \in Runtime : ~Hosts(r) /\ rt'[r] = rt[r]

LEMMA AdoptWrites ==
    ASSUME InCustody, InOrder, NamesKnown, NEW r \in Runtime, Adopt(r), NEW s \in Sessions
    PROVE  Written(s)
<1> DEFINE a == object[stash.of[s]].agent
<1>1. rt[r].phase = "identity" /\ ~rt[r].torn
  BY DEF Adopt, InOrder, OneHosts
<1>2. ParkedAt(s)
  <2>1. \A q \in Runtime : ~Hosts(q)
    BY <1>1, OneAtATime DEF InOrder, Hosts
  <2> QED
    BY <2>1 DEF InOrder, Parked
<1>3. CASE ~Adopted(s)
  BY <1>3 DEF Adopt, Written
<1>4. CASE Adopted(s)
  <2>1. stash.of[s] \in Agent
    BY <1>4 DEF Adopted, InCustody, TypeOK, Stash
  <2>2. a \in Agent
    BY <2>1, HeldHasAgent
  <2>3. agent[a].file # None /\ Open(disk[s])
    BY <1>2, <1>4, <2>2 DEF Adopted, ParkedAt, NamesKnown
  <2>4. disk'[s].file = agent[a].file
    BY <1>4 DEF Adopt
  <2> QED
    BY <2>3, <2>4 DEF Written
<1> QED
  BY <1>3, <1>4

LEMMA CommandWrites ==
    ASSUME InCustody, InOrder, NEW r \in Runtime, NEW t \in Sessions, Spawn(r, t) \/ CloseRow(r, t),
           NEW s \in Sessions
    PROVE  Written(s)
<1>1. rt[r].phase = "serving" /\ rows[r] = disk
  BY DEF Spawn, CloseRow, Free, InOrder, Hosted, Hosts
<1>2. CASE UNCHANGED <<rows, disk>>
  BY <1>2 DEF Written
<1>3. ASSUME NEW row, Save(r, t, row), row.status \in {"none", "closed"}
      PROVE  Written(s)
  <2>1. disk'[t] = row /\ (s # t => disk'[s] = disk[s])
    BY <1>1, <1>3, SavedHere
  <2> QED
    BY <1>1, <1>3, <2>1 DEF Written
<1>4. NoRow.status = "none"
  BY DEF NoRow
<1>5. [rows[r][t] EXCEPT !.status = "closed"].status = "closed"
  <2>1. rows[r][t] \in Row
    BY DEF InCustody, TypeOK
  <2> QED
    BY <2>1 DEF Row
<1>6. \/ UNCHANGED <<rows, disk>>
      \/ \E row \in {NoRow, [rows[r][t] EXCEPT !.status = "closed"]} : Save(r, t, row)
  BY DEF Spawn, CloseRow
<1> QED
  BY <1>2, <1>3, <1>4, <1>5, <1>6

\* The operations that write a row: each at the session it is about.
LEMMA OpStepWrites ==
    ASSUME InCustody, InOrder, NamesKnown, NEW i \in Op, OpStep(i), NEW s \in Sessions
    PROVE  Written(s)
<1> SUFFICES ASSUME disk' # disk PROVE Written(s)
  BY DEF Written
<1>0. Settled(i) \/ Despawned(i) \/ Cleared(i) \/ ModelSet(i)
  BY DEF OpStep, Created, ClearStopped
<1>1. op[i].kind # "free"
  BY <1>0 DEF Settled, Despawned, Cleared, ModelSet
<1>2. PICK r \in Runtime, t \in Sessions : r = op[i].rt /\ t = op[i].sid
  BY <1>1, OpAt
<1>3. /\ Hosts(r) /\ HostedAt(r, t) /\ rows[r] = disk /\ op[i].obj = live[r][t]
      /\ \A j \in Op : op[j].sid = t => j = i
  BY <1>1, <1>2, OpAt
<1>4. \A row : Save(r, t, row) => disk'[t] = row /\ (s # t => disk'[s] = disk[s])
  BY <1>3, SavedHere
<1>5. op[i].obj # None
  <2>1. op[i].obj = None <=> (Opens(i) /\ op[i].at = "create")
    BY <1>2, <1>3 DEF HostedAt, OpsAt
  <2> QED
    BY <1>0, <2>1 DEF Settled, Despawned, Cleared, ModelSet, Opens
<1>6. live[r][t] # None /\ live[r][t] \in Agent /\ object[live[r][t]].agent \in Agent
  BY <1>3, <1>5, LiveAgent
<1>7. CASE Settled(i)
  <2>1. Fresh(live[r][t])
    BY <1>2, <1>3, <1>6, <1>7 DEF Settled, Opens, HostedAt, AgentAt
  <2>2. agent[object[live[r][t]].agent].file # None
    BY <1>6, <2>1 DEF Fresh, NamesKnown
  <2>3. Save(r, t, RowOf(r, t, "idle")) /\ Ends(i)
    BY <1>2, <1>7 DEF Settled
  <2>4. disk'[t].file # None /\ (s # t => disk'[s] = disk[s])
    BY <1>4, <1>6, <2>2, <2>3, LiveRow
  <2>5. Open(disk[t]) \/ Opened(t)
    <3>1. CASE op[i].kind = "restore"
      <4>1. rt[r].phase = "restoring"
        BY <1>2, <1>3, <3>1 DEF HostedAt, OpsAt
      <4> QED
        BY <1>2, <1>3, <4>1 DEF HostedAt, RestoreAt
    <3>2. CASE op[i].kind \in {"spawn", "resume"}
      BY <1>2, <2>3, <3>2, EndedHere, NoOpIsFree DEF Opened
    <3> QED
      BY <1>7, <3>1, <3>2 DEF Settled
  <2> QED
    BY <2>4, <2>5 DEF Written
<1>8. CASE Despawned(i)
  <2> DEFINE row == IF op[i].kind = "delete" THEN NoRow ELSE [rows[r][t] EXCEPT !.status = "closed"]
  <2>1. Save(r, t, row)
    BY <1>2, <1>8 DEF Despawned, Written
  <2>2. row.status \in {"none", "closed"}
    <3>1. rows[r][t] \in Row
      BY DEF InCustody, TypeOK
    <3> QED
      BY <3>1 DEF NoRow, Row
  <2> HIDE DEF row
  <2>3. rt[r].phase = "serving"
    <3>1. ~(rt[r].phase = "restoring")
      BY <1>2, <1>3, <1>8 DEF HostedAt, OpsAt, Despawned
    <3> QED
      BY <1>3, <3>1 DEF Hosts
  <2> QED
    BY <1>4, <2>1, <2>2, <2>3 DEF Written
<1>9. CASE Cleared(i) \/ ModelSet(i)
  <2>1. ~Opens(i)
    BY <1>9 DEF Cleared, ModelSet, Opens
  <2>2. Open(disk[t])
    BY <1>3, <1>6, <2>1 DEF HostedAt, RowAt
  <2>3. \E row : Save(r, t, row) /\ row.file # None
    <3>1. CASE Cleared(i)
      <4>1. Save(r, t, [status |-> "idle", file |-> nextAgent])
        BY <1>2, <1>3, <3>1 DEF Cleared
      <4>2. nextAgent # None
        BY <3>1, ScopeBoundsAgents, NoneIsNoAgent DEF Cleared, InCustody
      <4> QED
        BY <4>1, <4>2
    <3>2. CASE ModelSet(i)
      <4>1. op[i].kind = "model" /\ Save(r, t, RowOf(r, t, StatusOf(r, t)))
        BY <1>2, <3>2 DEF ModelSet
      <4>2. Usable(r, live[r][t])
        BY <1>3, <1>6, <4>1 DEF HostedAt, AgentAt
      <4>3. agent[object[live[r][t]].agent].file # None
        BY <1>6, <4>2 DEF Usable, NamesKnown
      <4> QED
        BY <1>6, <4>1, <4>3, LiveRow
    <3> QED
      BY <1>9, <3>1, <3>2
  <2> QED
    BY <1>4, <2>2, <2>3 DEF Written
<1> QED
  BY <1>0, <1>7, <1>8, <1>9

LEMMA TurnEndsWrites ==
    ASSUME InCustody, InOrder, NamesKnown, NEW a \in Agent, TurnEnds(a), NEW s \in Sessions
    PROVE  Written(s)
<1>0. TypeOK /\ agent[a].running /\ agent[a].state = "alive" /\ agent[a].sid \in Sessions
  BY DEF InCustody, TurnEnds, AgentsAreNamed
<1>1. PICK t \in Sessions : t = agent[a].sid
  BY <1>0
<1>2. CASE agent[a].heardBy = {}
  BY <1>2 DEF TurnEnds, Written
<1>3. ASSUME NEW r \in Runtime, agent[a].heardBy = {r}, rows[r] = disk
      PROVE  disk'[t] = RowOf(r, t, "idle") /\ (s # t => disk'[s] = disk[s])
  <2>1. disk' = [rows[r] EXCEPT ![t] = RowOf(r, t, "idle")]
    BY <1>1, <1>3 DEF TurnEnds
  <2>2. disk \in [Sessions -> Row]
    BY <1>0 DEF TypeOK
  <2> QED
    BY <1>3, <2>1, <2>2
<1>4. CASE \A r \in Runtime : ~Hosts(r)
  <2>1. ParkedAt(t)
    BY <1>4 DEF InOrder, Parked
  <2>2. stash.of[t] # None /\ object[stash.of[t]].agent = a
    BY <1>0, <1>1, <2>1 DEF ParkedAt
  <2>3. Open(disk[t]) /\ agent[a].heardBy = {stash.by} /\ rows[stash.by] = disk
    BY <2>1, <2>2 DEF ParkedAt
  <2>4. stash.by \in Runtime
    BY <2>2, <1>0 DEF InCustody, HeldAreMade, TypeOK, Stash
  <2>5. s # t => disk'[s] = disk[s]
    BY <1>3, <2>3, <2>4
  <2>6. rt' = rt
    BY DEF TurnEnds
  <2> QED
    BY <1>4, <2>3, <2>5, <2>6 DEF Written
<1>5. CASE agent[a].heardBy # {} /\ \E r \in Runtime : Hosts(r)
  <2>1. PICK r \in Runtime : Hosts(r)
    BY <1>5
  <2>2. /\ live[r][t] # None /\ object[live[r][t]].agent = a
        /\ agent[a].heardBy = {r} /\ \A i \in Op : op[i].sid = t => op[i].kind = "model"
    BY <1>0, <1>1, <1>5, <2>1, RunnerIsLive
  <2>3. rows[r] = disk /\ HostedAt(r, t)
    BY <2>1 DEF InOrder, Hosted
  <2>4. Open(disk[t])
    BY <2>2, <2>3 DEF HostedAt, RowAt, Opens
  <2>5. disk'[t].file = agent[a].file /\ (s # t => disk'[s] = disk[s])
    BY <1>3, <2>2, <2>3, LiveRow
  <2>6. agent[a].file # None
    BY <1>0 DEF NamesKnown
  <2> QED
    BY <2>4, <2>5, <2>6 DEF Written
<1> QED
  BY <1>2, <1>4, <1>5

LEMMA StepWrites ==
    ASSUME InCustody, InOrder, NamesKnown, Orderly, [Next]_vars, NEW s \in Sessions
    PROVE  Written(s)
<1>0. CASE disk' = disk
  BY <1>0 DEF Written
<1>1. ASSUME NEW r \in Runtime, Start(r) \/ BootstrapStep(r) \/ BootstrapStalls(r) \/ Teardown(r)
      PROVE  Written(s)
  <2>1. disk' = disk \/ Adopt(r)
    BY <1>1 DEF Start, BootstrapStep, RestoreNext, RestoreEnds, BootstrapStalls, Teardown
  <2> QED
    BY <1>0, <2>1, AdoptWrites
<1>2. ASSUME NEW r \in Runtime, NEW t \in Sessions,
             \/ Spawn(r, t) \/ Resume(r, t) \/ Despawn(r, t) \/ CloseRow(r, t)
             \/ Clear(r, t) \/ SetModel(r, t) \/ Message(r, t)
      PROVE  Written(s)
  <2>1. disk' = disk \/ Spawn(r, t) \/ CloseRow(r, t)
    BY <1>2 DEF Resume, Despawn, Clear, SetModel, Message
  <2> QED
    BY <1>0, <2>1, CommandWrites
<1>3. ASSUME NEW i \in Op, OpStep(i) \/ CreateFails(i)
      PROVE  Written(s)
  BY <1>0, <1>3, OpStepWrites DEF CreateFails
<1>4. ASSUME NEW a \in Agent, TurnBegins(a) \/ PromptRefused(a) \/ TurnEnds(a)
      PROVE  Written(s)
  BY <1>0, <1>4, TurnEndsWrites DEF TurnBegins, PromptRefused
<1>5. ASSUME NEW t \in Sessions, AbandonOne(t)
      PROVE  FALSE
  BY <1>5 DEF AbandonOne, InOrder, OneHosts, NoStash, Nobody
<1>6. AbandonStash \/ Crash \/ UNCHANGED vars => disk' = disk
  BY DEF AbandonStash, Crash, vars
<1> QED
  BY <1>0, <1>1, <1>2, <1>3, <1>4, <1>5, <1>6 DEF Next

\* An agent that lives after a step lived before it under the same name, or was
\* made by it.
Kept(b) == agent'[b].state = "alive" => agent[b].state = "alive" /\ agent'[b].file = agent[b].file
LEMMA AgentsStayNamed ==
    ASSUME InCustody, InOrder, NamesKnown, [Next]_vars, NEW b \in Agent, agent'[b].state = "alive"
    PROVE  agent'[b].file # None
<1>0. TypeOK /\ agent \in [Agent -> AgentRecord]
  BY DEF InCustody, TypeOK
<1>1. CASE Kept(b)
  BY <1>1 DEF Kept, NamesKnown
<1>2. CASE UNCHANGED agent
  BY <1>1, <1>2 DEF Kept
<1>3. ASSUME NEW r \in Runtime, BootstrapStep(r)
      PROVE  Kept(b)
  <2>1. CASE Adopt(r)
    <3>1. agent'[b] = agent[b] \/ (Alive(b) /\ agent'[b] = Rewired(r, b))
      BY <2>1 DEF Adopt
    <3>2. Rewired(r, b).file = agent[b].file
      BY <1>0 DEF Rewired, AgentRecord
    <3> QED
      BY <3>1, <3>2 DEF Kept, Alive
  <2> QED
    BY <1>3, <2>1 DEF BootstrapStep, RestoreNext, RestoreEnds, Kept
<1>4. ASSUME NEW r \in Runtime, NEW s \in Sessions, Despawn(r, s) \/ Clear(r, s)
      PROVE  Kept(b)
  <2>1. agent' = Unheard(live[r][s], agent)
    BY <1>4 DEF Despawn, Clear
  <2>2. agent'[b].state = agent[b].state /\ agent'[b].file = agent[b].file
    BY <1>0, <2>1 DEF Unheard, AgentRecord
  <2> QED
    BY <2>2 DEF Kept
<1>5. ASSUME NEW r \in Runtime, NEW s \in Sessions, Message(r, s)
      PROVE  Kept(b)
  <2>1. agent'[b] = agent[b] \/ agent'[b] = Prompted(agent[b])
    BY <1>0, <1>5 DEF Message
  <2>2. agent'[b].state = agent[b].state /\ agent'[b].file = agent[b].file
    BY <1>0, <2>1, PromptedIsTyped
  <2> QED
    BY <2>2 DEF Kept
<1>6. ASSUME NEW i \in Op, Created(i)
      PROVE  agent'[b].file # None
  <2>1. PICK a : a = nextAgent
    OBVIOUS
  <2>2. a \in Agent /\ a # None
    BY <1>0, <1>6, <2>1, ScopeBoundsAgents, NoneIsNoAgent DEF Created
  <2>3. op[i].kind # "spawn" => op[i].file # None
    BY <1>6 DEF Created, NamesKnown
  <2>4. b = a => agent'[b].file # None
    BY <1>0, <1>6, <2>1, <2>2, <2>3 DEF Created, Born
  <2>5. b # a => agent'[b] = agent[b]
    BY <1>0, <1>6, <2>1 DEF Created
  <2> QED
    BY <1>1, <2>4, <2>5 DEF Kept
<1>7. ASSUME NEW i \in Op, Settled(i)
      PROVE  Kept(b)
  <2> DEFINE hears == [agent[b] EXCEPT !.heardBy = @ \cup {op[i].rt}]
  <2>1. op[i].rt \in Runtime
    BY <1>0 DEF TypeOK, OpRecord
  <2>2. hears \in AgentRecord /\ hears.state = agent[b].state /\ hears.file = agent[b].file
    BY <1>0, <2>1 DEF AgentRecord
  <2>3. agent'[b] \in {agent[b], hears, Prompted(hears)}
    BY <1>0, <1>7 DEF Settled, Heard
  <2> HIDE DEF hears
  <2>4. agent'[b].state = agent[b].state /\ agent'[b].file = agent[b].file
    BY <2>2, <2>3, PromptedIsTyped
  <2> QED
    BY <2>4 DEF Kept
<1>8. ASSUME NEW i \in Op, Despawned(i) \/ ClearStopped(i)
      PROVE  Kept(b)
  <2>1. agent' = Disposed(object[op[i].obj].agent, agent)
    BY <1>8 DEF Despawned, ClearStopped
  <2> QED
    BY <1>0, <2>1 DEF Disposed, Kept, AgentRecord
<1>9. ASSUME NEW i \in Op, Cleared(i)
      PROVE  agent'[b].file # None
  <2>1. PICK a : a = nextAgent
    OBVIOUS
  <2>2. a \in Agent /\ a # None
    BY <1>0, <1>9, <2>1, ScopeBoundsAgents, NoneIsNoAgent DEF Cleared
  <2>3. b = a => agent'[b].file = a
    BY <1>0, <1>9, <2>1, <2>2 DEF Cleared, Heard, Born
  <2>4. b # a => agent'[b] = agent[b]
    BY <1>0, <1>9, <2>1, <2>2 DEF Cleared, Heard
  <2> QED
    BY <1>1, <2>2, <2>3, <2>4 DEF Kept
<1>10. ASSUME NEW a \in Agent, TurnBegins(a) \/ PromptRefused(a) \/ TurnEnds(a)
       PROVE  Kept(b)
  <2>1. agent'[b].state = agent[b].state /\ agent'[b].file = agent[b].file
    BY <1>0, <1>10 DEF TurnBegins, PromptRefused, TurnEnds, AgentRecord
  <2> QED
    BY <2>1 DEF Kept
<1>11. ASSUME NEW s \in Sessions, AbandonOne(s)
       PROVE  FALSE
  BY <1>11 DEF AbandonOne, InOrder, OneHosts, NoStash, Nobody
<1>12. ~Crash
  BY DEF Crash, NoAgent
<1>13. \A r \in Runtime : Start(r) \/ BootstrapStalls(r) \/ Teardown(r) => UNCHANGED agent
  BY DEF Start, BootstrapStalls, Teardown
<1>14. \A r \in Runtime, s \in Sessions :
          Spawn(r, s) \/ Resume(r, s) \/ CloseRow(r, s) \/ SetModel(r, s) => UNCHANGED agent
  BY DEF Spawn, Resume, CloseRow, SetModel
<1>15. \A i \in Op : ModelSet(i) \/ CreateFails(i) => UNCHANGED agent
  BY DEF ModelSet, CreateFails
<1>16. AbandonStash \/ UNCHANGED vars => UNCHANGED agent
  BY DEF AbandonStash, vars
<1>17. \A r \in Runtime : Start(r) \/ BootstrapStep(r) \/ BootstrapStalls(r) \/ Teardown(r) => agent'[b].file # None
  BY <1>1, <1>2, <1>3, <1>13
<1>18. \A r \in Runtime, s \in Sessions :
          Spawn(r, s) \/ Resume(r, s) \/ Despawn(r, s) \/ CloseRow(r, s) \/ Clear(r, s) \/ SetModel(r, s)
          \/ Message(r, s) => agent'[b].file # None
  BY <1>1, <1>2, <1>4, <1>5, <1>14
<1>19. \A i \in Op : OpStep(i) \/ CreateFails(i) => agent'[b].file # None
  BY <1>1, <1>2, <1>6, <1>7, <1>8, <1>9, <1>15 DEF OpStep
<1> QED
  BY <1>1, <1>2, <1>10, <1>11, <1>12, <1>16, <1>17, <1>18, <1>19 DEF Next

\* An operation that opens a session again has been given its transcript.
Given(i) == op[i].kind \in {"resume", "restore"} /\ op[i].at = "create" => op[i].file # None
LEMMA OpsStayGiven ==
    ASSUME InCustody, InOrder, NamesKnown, [Next]_vars, NEW i \in Op
    PROVE  Given(i)'
<1>0. TypeOK /\ Given(i)
  BY DEF InCustody, NamesKnown, Given
<1>1. CASE op'[i] \in {op[i], NoOp}
  BY <1>0, <1>1, NoOpIsFree DEF Given
<1>2. ASSUME NEW rec, Begins(rec),
             rec.kind \in {"resume", "restore"} /\ rec.at = "create" => rec.file # None
      PROVE  Given(i)'
  <2>1. op'[i] = rec \/ op'[i] = op[i]
    BY <1>0, <1>2 DEF Begins, TypeOK
  <2> QED
    BY <1>1, <1>2, <2>1 DEF Given
<1>3. ASSUME NEW r \in Runtime, BootstrapStep(r)
      PROVE  Given(i)'
  <2>1. CASE RestoreNext(r)
    <3>1. PICK s \in rt[r].restore :
            IF live[r][s] = None
            THEN Begins([NoOp EXCEPT !.kind = "restore", !.rt = r, !.sid = s,
                                     !.file = rows[r][s].file, !.nudge = rows[r][s].status = "running"])
            ELSE UNCHANGED op
      BY <2>1 DEF RestoreNext
    <3>2. s \in Sessions
      BY <1>0 DEF TypeOK, RuntimeRecord
    <3>3. rt[r].phase = "restoring"
      BY <2>1 DEF RestoreNext, InOrder, OneHosts
    <3>4. rows[r][s].file # None
      BY <3>2, <3>3 DEF InOrder, Hosted, Hosts, NamesKnown
    <3>5. CASE UNCHANGED op
      BY <1>1, <3>5
    <3> DEFINE rec == [NoOp EXCEPT !.kind = "restore", !.rt = r, !.sid = s,
                                   !.file = rows[r][s].file, !.nudge = rows[r][s].status = "running"]
    <3>6. rec.file = rows[r][s].file
      BY DEF NoOp
    <3>7. CASE Begins(rec)
      <4> HIDE DEF rec
      <4> QED
        BY <1>2, <3>4, <3>6, <3>7
    <3> QED
      BY <3>1, <3>5, <3>7
  <2> QED
    BY <1>1, <1>3, <2>1 DEF BootstrapStep, Adopt, RestoreEnds
<1>4. ASSUME NEW r \in Runtime, NEW s \in Sessions, Spawn(r, s) \/ Resume(r, s) \/ SetModel(r, s)
                                                    \/ Clear(r, s) \/ Despawn(r, s)
      PROVE  Given(i)'
  <2>1. CASE Resume(r, s)
    <3> DEFINE rec == [Command("resume", "create", r, s) EXCEPT !.held = TRUE, !.file = rows[r][s].file]
    <3>1. Begins(rec) /\ rows[r][s].file # None
      BY <2>1 DEF Resume
    <3>2. rec.file = rows[r][s].file
      BY DEF Command, NoOp
    <3> HIDE DEF rec
    <3> QED
      BY <1>2, <3>1, <3>2
  <2>2. ASSUME NEW kind \in {"spawn", "model", "clear", "despawn", "delete"}, NEW at, NEW held,
               Begins([Command(kind, at, r, s) EXCEPT !.held = held])
        PROVE  Given(i)'
    <3> DEFINE rec == [Command(kind, at, r, s) EXCEPT !.held = held]
    <3>1. rec.kind = kind
      BY DEF Command, NoOp
    <3> HIDE DEF rec
    <3> QED
      BY <1>2, <2>2, <3>1 DEF rec
  <2>3. ASSUME NEW kind \in {"model", "clear"}, NEW at, Begins(Command(kind, at, r, s))
        PROVE  Given(i)'
    <3> DEFINE rec == Command(kind, at, r, s)
    <3>1. rec.kind = kind
      BY DEF Command, NoOp
    <3> HIDE DEF rec
    <3> QED
      BY <1>2, <2>3, <3>1 DEF rec
  <2> QED
    BY <1>4, <2>1, <2>2, <2>3 DEF Spawn, SetModel, Clear, Despawn
<1>5. ASSUME NEW j \in Op, OpStep(j) \/ CreateFails(j)
      PROVE  Given(i)'
  <2>1. CASE Created(j)
    <3>1. i # j => op'[i] = op[i]
      BY <1>0, <2>1 DEF Created, TypeOK
    <3>2. op'[j].at = "settle"
      BY <1>0, <2>1 DEF Created, TypeOK, OpRecord
    <3> QED
      BY <1>1, <3>1, <3>2 DEF Given
  <2>2. CASE ClearStopped(j)
    <3>1. i # j => op'[i] = op[i]
      BY <1>0, <2>2 DEF ClearStopped, TypeOK
    <3>2. op'[j].kind = "clear"
      BY <1>0, <2>2 DEF ClearStopped, TypeOK, OpRecord
    <3> QED
      BY <1>1, <3>1, <3>2 DEF Given
  <2>3. CASE Ends(j)
    BY <1>1, <2>3, EndedHere
  <2> QED
    BY <1>5, <2>1, <2>2, <2>3 DEF OpStep, Settled, Despawned, Cleared, ModelSet, CreateFails
<1>6. \A r \in Runtime : Start(r) \/ BootstrapStalls(r) \/ Teardown(r) => UNCHANGED op
  BY DEF Start, BootstrapStalls, Teardown
<1>7. \A r \in Runtime, s \in Sessions : CloseRow(r, s) \/ Message(r, s) => UNCHANGED op
  BY DEF CloseRow, Message
<1>8. \A a \in Agent : TurnBegins(a) \/ PromptRefused(a) \/ TurnEnds(a) => UNCHANGED op
  BY DEF TurnBegins, PromptRefused, TurnEnds
<1>9. AbandonStash \/ (\E s \in Sessions : AbandonOne(s)) \/ UNCHANGED vars => UNCHANGED op
  BY DEF AbandonStash, AbandonOne, vars
<1>10. Crash => op'[i] = NoOp
  BY DEF Crash
<1>11. \A r \in Runtime : Start(r) \/ BootstrapStep(r) \/ BootstrapStalls(r) \/ Teardown(r) => Given(i)'
  BY <1>1, <1>3, <1>6
<1>12. \A r \in Runtime, s \in Sessions :
          Spawn(r, s) \/ Resume(r, s) \/ Despawn(r, s) \/ CloseRow(r, s) \/ Clear(r, s) \/ SetModel(r, s)
          \/ Message(r, s) => Given(i)'
  BY <1>1, <1>4, <1>7
<1>13. UNCHANGED op \/ op'[i] = NoOp => Given(i)'
  BY <1>1
<1> QED
  BY <1>5, <1>8, <1>9, <1>10, <1>11, <1>12, <1>13 DEF Next

\* A bootstrap has no more to restore than it had, or has just loaded it.
LEMMA RestoreShrinks ==
    ASSUME InCustody, [Next]_vars, NEW r \in Runtime, rt'[r].phase = "restoring", ~Adopt(r)
    PROVE  rt[r].phase = "restoring" /\ rt'[r].restore \subseteq rt[r].restore
<1>0. TypeOK /\ rt \in [Runtime -> RuntimeRecord]
  BY DEF InCustody, TypeOK
<1>1. ASSUME NEW q \in Runtime, Start(q) \/ BootstrapStep(q) \/ BootstrapStalls(q) \/ Teardown(q)
      PROVE  rt[r].phase = "restoring" /\ rt'[r].restore \subseteq rt[r].restore
  <2>1. CASE q = r
    <3>1. CASE Start(r)
      BY <1>0, <3>1 DEF Start, RuntimeRecord
    <3>2. CASE RestoreEnds(r) \/ BootstrapStalls(r)
      BY <1>0, <3>2 DEF RestoreEnds, BootstrapStalls, RuntimeRecord
    <3>3. CASE Teardown(r)
      BY <1>0, <3>3 DEF Teardown, RuntimeRecord
    <3>4. CASE RestoreNext(r)
      <4>1. PICK s \in rt[r].restore : rt' = [rt EXCEPT ![r].restore = @ \ {s}]
        BY <3>4 DEF RestoreNext
      <4> QED
        BY <1>0, <4>1 DEF RuntimeRecord
    <3> QED
      BY <1>1, <2>1, <3>1, <3>2, <3>3, <3>4 DEF BootstrapStep
  <2>2. CASE q # r
    <3>1. rt'[r] = rt[r]
      BY <1>0, <1>1, <2>2 DEF Start, BootstrapStep, Adopt, RestoreNext, RestoreEnds, BootstrapStalls, Teardown
    <3> QED
      BY <3>1
  <2> QED
    BY <2>1, <2>2
<1>2. \A q \in Runtime, s \in Sessions :
          Spawn(q, s) \/ Resume(q, s) \/ Despawn(q, s) \/ CloseRow(q, s) \/ Clear(q, s) \/ SetModel(q, s)
          \/ Message(q, s) => UNCHANGED rt
  BY DEF Spawn, Resume, Despawn, CloseRow, Clear, SetModel, Message
<1>3. \A i \in Op : OpStep(i) \/ CreateFails(i) => UNCHANGED rt
  BY DEF OpStep, Created, Settled, Despawned, ClearStopped, Cleared, ModelSet, CreateFails
<1>4. \A a \in Agent : TurnBegins(a) \/ PromptRefused(a) \/ TurnEnds(a) => UNCHANGED rt
  BY DEF TurnBegins, PromptRefused, TurnEnds
<1>5. AbandonStash \/ (\E s \in Sessions : AbandonOne(s)) \/ UNCHANGED vars => UNCHANGED rt
  BY DEF AbandonStash, AbandonOne, vars
<1>6. ~Crash
  BY <1>0 DEF Crash
<1> QED
  BY <1>1, <1>2, <1>3, <1>4, <1>5, <1>6 DEF Next

LEMMA NextKeepsNames ==
    ASSUME InCustody, InCustody', InOrder, InOrder', NamesKnown, Orderly, [Next]_vars
    PROVE  NamesKnown'
<1>1. \A a \in Agent : agent'[a].state = "alive" => agent'[a].file # None
  BY AgentsStayNamed
<1>2. \A i \in Op : op'[i].kind \in {"resume", "restore"} /\ op'[i].at = "create" => op'[i].file # None
  BY OpsStayGiven DEF Given
<1>3. ASSUME NEW r \in Runtime, NEW s \in Sessions, rt'[r].phase = "restoring", s \in rt'[r].restore
      PROVE  disk'[s].file # None
  <2>1. CASE Adopt(r)
    <3>1. PICK loaded : /\ disk' = loaded
                        /\ rt' = [rt EXCEPT ![r].phase = "restoring",
                                            ![r].restore = {t \in Sessions : Restorable(loaded[t])}]
      BY <2>1 DEF Adopt
    <3>2. rt \in [Runtime -> RuntimeRecord]
      BY DEF InCustody, TypeOK
    <3>3. rt'[r].restore = {t \in Sessions : Restorable(loaded[t])}
      BY <3>1, <3>2 DEF RuntimeRecord
    <3> QED
      BY <1>3, <3>1, <3>3 DEF Restorable
  <2>2. CASE ~Adopt(r)
    <3>1. rt[r].phase = "restoring" /\ s \in rt[r].restore
      BY <1>3, <2>2, RestoreShrinks
    <3>2. disk[s].file # None
      BY <3>1 DEF NamesKnown
    <3>3. Hosts(r) /\ \A q \in Runtime : rt[q].phase # "serving"
      BY <3>1, OneHostAtATime DEF Hosts, InOrder
    <3> QED
      BY <3>2, <3>3, StepWrites DEF Written
  <2> QED
    BY <2>1, <2>2
<1> QED
  BY <1>1, <1>2, <1>3 DEF NamesKnown

LEMMA InitIsNamed == Init => NamesKnown
BY NoOpIsFree DEF Init, NamesKnown, NoAgent, NoOp

LEMMA NextIsOrderly ==
    ASSUME InCustody, OrderlyInv, NamesInv, [Next]_vars
    PROVE  OrderlyInv' /\ NamesInv'
<1>1. Orderly' => Orderly
  BY ScopeKept DEF Orderly
<1>2. InCustody'
  BY NextKeepsCustody
<1> SUFFICES ASSUME Orderly PROVE InOrder' /\ NamesKnown'
  BY <1>1 DEF OrderlyInv, NamesInv
<1>3. InOrder /\ NamesKnown
  BY DEF OrderlyInv, NamesInv
<1>4. InOrder'
  BY <1>2, <1>3, NextKeepsOrder
<1> QED
  BY <1>2, <1>3, <1>4, NextKeepsNames

\* What the app is shown can be used, and the registry file tells the truth of
\* it: a session that is shown has an agent that lives, that this runtime and no
\* other hears, that is shown working whenever it runs, and that was asked to work
\* whenever it is shown working; its row can bring it back; and a row says
\* "running" only of work that was asked for, that was cut off or that is being
\* stopped - after any number of reloads, crashes and restores.  What was asked
\* for may be a prompt that is still prepared, or one that was refused: nothing
\* takes "working" back after that (WorkingMeansWork, RunningRowMeansWork fail).
THEOREM RowsTellTheTruth == Spec => []RowsAreTrue
<1>1. ASSUME InCustody, OrderlyInv PROVE RowsAreTrue
  <2> SUFFICES ASSUME Orderly PROVE ShownIsUsable /\ LiveRowRestorable /\ RunningRowIsTrue
    BY DEF RowsAreTrue
  <2>1. InOrder
    BY <1>1 DEF OrderlyInv
  <2>2. ASSUME NEW r \in Runtime, NEW s \in Sessions, rt[r].phase = "serving", live[r][s] # None,
               \A i \in Op : op[i].obj # live[r][s]
        PROVE  /\ HostedAt(r, s) /\ \A i \in Op : op[i].sid # s
               /\ live[r][s] \in Agent /\ object[live[r][s]].agent \in Agent
    <3>1. HostedAt(r, s)
      BY <2>1, <2>2 DEF InOrder, Hosted, Hosts
    <3> QED
      BY <1>1, <2>2, <3>1, LiveAgent DEF HostedAt, OpsAt
  <2>3. ShownIsUsable
    <3> SUFFICES ASSUME NEW r \in Runtime, NEW s \in Sessions, rt[r].phase = "serving", live[r][s] # None,
                        \A i \in Op : op[i].obj # live[r][s]
                 PROVE  LET o == live[r][s]
                            a == object[o].agent
                        IN  /\ Alive(a) /\ agent[a].heardBy = {r} /\ object[o].submits
                            /\ agent[a].running => object[o].working
                            /\ object[o].working => Asked(a)
      BY DEF ShownIsUsable
    <3>1. Usable(r, live[r][s])
      BY <2>2 DEF HostedAt, AgentAt
    <3>2. object[live[r][s]].agent # None
      BY <2>2, NoneIsNoAgent
    <3> QED
      BY <3>1, <3>2 DEF Usable, Alive, Asked
  <2>4. LiveRowRestorable
    <3> SUFFICES ASSUME NEW r \in Runtime, NEW s \in Sessions, rt[r].phase = "serving", live[r][s] # None,
                        \A i \in Op : op[i].obj # live[r][s]
                 PROVE  /\ disk[s].status \in {"idle", "running"}
                        /\ disk[s].file = agent[object[live[r][s]].agent].file
      BY DEF LiveRowRestorable
    <3> QED
      BY <2>2 DEF HostedAt, RowAt, Open
  <2>5. RunningRowIsTrue
    BY <2>1 DEF InOrder, RunsAt, RunningRowIsTrue, Asked
  <2> QED
    BY <2>3, <2>4, <2>5
<1>2. Init => InCustody /\ OrderlyInv /\ NamesInv
  BY InitIsInCustody, InitIsInOrder, InitIsNamed DEF OrderlyInv, NamesInv
<1> QED
  BY <1>1, <1>2, NextKeepsCustody, NextIsOrderly, PTL DEF Spec

\* No transcript has two agents writing it, and no agent is lost sight of: one
\* that lives is in the map of a runtime that was not torn down, or is parked.
THEOREM OneAgentEach == Spec => []OneAgent
<1>1. ASSUME InCustody, OrderlyInv, NamesInv PROVE OneAgent
  <2> SUFFICES ASSUME Orderly PROVE OneAgentPerTranscript /\ NoStrayAgent
    BY DEF OneAgent
  <2>1. InOrder /\ NamesKnown
    BY <1>1 DEF OrderlyInv, NamesInv
  <2>2. ASSUME NEW a \in Agent, Alive(a)
        PROVE  agent[a].sid \in Sessions /\ agent[a].file \in Transcript
    BY <1>1, <2>1, <2>2 DEF Alive, NamesKnown, InCustody, AgentsAreNamed, TypeOK, AgentRecord
  <2>3. ASSUME NEW a \in Agent, Alive(a), NEW r \in Runtime, Hosts(r), NEW s \in Sessions, s = agent[a].sid
        PROVE  live[r][s] # None /\ a = object[live[r][s]].agent /\ agent[a].of = live[r][s] /\ ~rt[r].torn
    <3>1. HostedAt(r, s)
      BY <2>1, <2>3 DEF InOrder, Hosted
    <3>2. live[r][s] # None /\ a = object[live[r][s]].agent
      BY <2>3, <3>1 DEF HostedAt, OnlyAt, Alive
    <3> QED
      BY <2>1, <2>3, <3>1, <3>2, HostIsUp DEF HostedAt, AgentAt, Belongs, InOrder
  <2>4. ASSUME NEW a \in Agent, Alive(a), \A r \in Runtime : ~Hosts(r), NEW s \in Sessions, s = agent[a].sid
        PROVE  stash.of[s] # None /\ a = object[stash.of[s]].agent /\ agent[a].of = stash.of[s]
    <3>1. ParkedAt(s)
      BY <2>1, <2>4 DEF InOrder, Parked
    <3> QED
      BY <2>4, <3>1 DEF ParkedAt, Alive, Belongs
  <2>5. OneAgentPerTranscript
    <3> SUFFICES ASSUME NEW a \in Agent, NEW b \in Agent, Alive(a), Alive(b), agent[a].file = agent[b].file
                 PROVE  a = b
      BY DEF OneAgentPerTranscript
    <3>1. PICK s \in Sessions, t \in Sessions, f \in Transcript :
             s = agent[a].sid /\ t = agent[b].sid /\ f = agent[a].file
      BY <2>2
    <3>2. Mentions(s, f) /\ Mentions(t, f)
      BY <3>1 DEF Mentions, Alive
    <3>3. s = t
      BY <2>1, <3>2 DEF InOrder, FilesApart
    <3>4. CASE \E r \in Runtime : Hosts(r)
      <4>1. PICK r \in Runtime : Hosts(r)
        BY <3>4
      <4>2. a = object[live[r][s]].agent
        BY <2>3, <3>1, <4>1
      <4>3. b = object[live[r][t]].agent
        BY <2>3, <3>1, <4>1
      <4> QED
        BY <3>3, <4>2, <4>3
    <3>5. CASE \A r \in Runtime : ~Hosts(r)
      BY <2>4, <3>1, <3>3, <3>5
    <3> QED
      BY <3>4, <3>5
  <2>6. NoStrayAgent
    <3> SUFFICES ASSUME NEW a \in Agent, Alive(a)
                 PROVE  LET o == agent[a].of
                        IN  /\ object[o].agent = a
                            /\ \/ \E r \in Runtime, s \in Sessions : live[r][s] = o /\ ~rt[r].torn
                               \/ \E s \in Sessions : o \in {stash.of[s], dying.of[s]}
                               \/ \E i \in Op : op[i].kind # "free" /\ op[i].obj = o /\ ~rt[op[i].rt].torn
      BY DEF NoStrayAgent
    <3>1. PICK s \in Sessions : s = agent[a].sid
      BY <2>2
    <3>2. CASE \E r \in Runtime : Hosts(r)
      BY <2>3, <3>1, <3>2
    <3>3. CASE \A r \in Runtime : ~Hosts(r)
      BY <2>4, <3>1, <3>3
    <3> QED
      BY <3>2, <3>3
  <2> QED
    BY <2>5, <2>6
<1>2. Init => InCustody /\ OrderlyInv /\ NamesInv
  BY InitIsInCustody, InitIsInOrder, InitIsNamed DEF OrderlyInv, NamesInv
<1> QED
  BY <1>1, <1>2, NextKeepsCustody, NextIsOrderly, PTL DEF Spec

\* A session its user closed comes back only because a user asks for it: no
\* reload, crash, restore, late answer or turn that ends opens its row again,
\* only the end of a spawn or a resume of that session does.
THEOREM ClosedComesBackWhenAsked == Spec => ClosedStaysClosed
<1> DEFINE Stays == \A s \in Sessions :
                       (Orderly /\ disk[s].status = "closed" /\ disk'[s].status \in {"idle", "running"}) =>
                           \E i \in Op : op[i].kind \in {"spawn", "resume"} /\ op[i].sid = s
                                         /\ op'[i].kind = "free"
<1>1. ASSUME InCustody, OrderlyInv, NamesInv, [Next]_vars PROVE [Stays]_vars
  <2> SUFFICES ASSUME NEW s \in Sessions, Orderly, disk[s].status = "closed",
                      disk'[s].status \in {"idle", "running"}
               PROVE  Opened(s)
    BY DEF Opened
  <2>1. Written(s)
    BY <1>1, StepWrites DEF OrderlyInv, NamesInv
  <2> QED
    BY <2>1 DEF Written, Open
<1>2. Init => InCustody /\ OrderlyInv /\ NamesInv
  BY InitIsInCustody, InitIsInOrder, InitIsNamed DEF OrderlyInv, NamesInv
<1>3. ClosedStaysClosed <=> [][Stays]_vars
  BY DEF ClosedStaysClosed
<1> HIDE DEF Stays
<1> QED
  BY <1>1, <1>2, <1>3, NextKeepsCustody, NextIsOrderly, PTL DEF Spec

=============================================================================
