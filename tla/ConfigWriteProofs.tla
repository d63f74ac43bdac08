-------------------------- MODULE ConfigWriteProofs --------------------------
(***************************************************************************)
(* Theorems about ConfigWrite, for every value of its constants. The first *)
(* part has the type invariant and the invariants of the advisory lock and *)
(* of the persist step. The second part has the steps of a change: what a  *)
(* change that nothing disturbs writes, what its rollback undoes, and that *)
(* ConfigWrite implements ConfigChange. The third part has what is live of *)
(* a change, whoever disturbs it, and that a rejected one leaves nothing.  *)
(***************************************************************************)
EXTENDS ConfigWriteAtomic, TLAPS

------------------------------------------------------------------------------
(* The operators keep their types.                                         *)

\* The daemon keeps a well-typed configuration when it runs a command that it accepts.
LEMMA ResultTyped ==
    ASSUME NEW c \in Config, NEW cmd \in Commands, Accepts(c, cmd)
    PROVE  Result(c, cmd) \in Config
<1>1. CASE cmd \in [do : {"subnet-add"}, id : Ids, subnet : Subnet]
  BY <1>1 DEF Result, Config
<1>2. CASE cmd \in [do : {"subnet-update"}, id : Ids, subnet : Subnet]
  <2> DEFINE kept == [cmd.subnet EXCEPT !.member = c.subnets[cmd.id].member]
  <2>1. cmd.id \in Ids /\ cmd.subnet \in Subnet /\ cmd.do = "subnet-update"
    BY <1>2
  <2>2. c.subnets[cmd.id] \in Subnet
    BY <2>1 DEF Accepts, Present, Config
  <2>3. kept \in Subnet
    BY <2>1, <2>2 DEF Subnet
  <2>4. Result(c, cmd) = [c EXCEPT !.subnets[cmd.id] = kept]
    BY <2>1 DEF Result
  <2> HIDE DEF kept
  <2> QED
    BY <2>1, <2>3, <2>4 DEF Config
<1>3. CASE cmd \in [do : {"subnet-del"}, id : Ids]
  BY <1>3 DEF Result, Config
<1>4. CASE cmd \in [do : {"network-subnet-add", "network-subnet-del"}, name : Names, id : Ids]
  <2> DEFINE member == IF cmd.do = "network-subnet-add" THEN cmd.name ELSE None
  <2>1. c.subnets[cmd.id] \in Subnet
    BY <1>4 DEF Accepts, Present, Config
  <2>2. [c.subnets[cmd.id] EXCEPT !.member = member] \in Subnet
    BY <1>4, <2>1 DEF Subnet
  <2>3. Result(c, cmd) = [c EXCEPT !.subnets[cmd.id] = [c.subnets[cmd.id] EXCEPT !.member = member]]
    BY <1>4 DEF Result, Config
  <2> HIDE DEF member
  <2> QED
    BY <1>4, <2>2, <2>3 DEF Config
<1>5. CASE cmd \in [do : {"network-add", "network-del"}, name : Names]
  <2>1. ASSUME NEW id \in Ids, Present(c, id)
        PROVE  [c.subnets[id] EXCEPT !.member = None] \in Subnet
    BY <2>1 DEF Present, Config, Subnet
  <2> QED
    BY <1>5, <2>1, ConfigAssumption DEF Result, Config, Present
<1>6. CASE cmd \in [do : {"delta-add", "delta-del"}, id : Ids, network : Networks, pool : Pools]
  <2> DEFINE pools == IF cmd.do = "delta-add" THEN c.subnets[cmd.id].pools \cup {cmd.pool}
                      ELSE c.subnets[cmd.id].pools \ {cmd.pool}
  <2>1. c.subnets[cmd.id] \in Subnet
    BY <1>6 DEF Accepts, Present, Config
  <2>2. [c.subnets[cmd.id] EXCEPT !.pools = pools] \in Subnet
    BY <1>6, <2>1 DEF Subnet
  <2>3. Result(c, cmd) = [c EXCEPT !.subnets[cmd.id] = [c.subnets[cmd.id] EXCEPT !.pools = pools]]
    BY <1>6 DEF Result, Config
  <2> HIDE DEF pools
  <2> QED
    BY <1>6, <2>2, <2>3 DEF Config
<1>7. CASE cmd \in [do : {"config-set"}, config : Config]
  BY <1>7 DEF Result
<1> QED
  BY <1>1, <1>2, <1>3, <1>4, <1>5, <1>6, <1>7 DEF Commands

\* Each step of a plan is well typed.
LEMMA StepTyped ==
    /\ \A cmd \in Commands : Last(cmd) \in Steps
    /\ \A cmd, undoCmd \in Commands, member \in Names \cup {None} : Step(cmd, undoCmd, member) \in Steps
BY DEF Last, Step, Steps, Undos, NoUndo

\* The commands are well typed.
LEMMA CommandTyped ==
    /\ \A id \in Ids, subnet \in Subnet : SubnetAdd(id, subnet) \in Commands /\ SubnetUpdate(id, subnet) \in Commands
    /\ \A id \in Ids : SubnetDel(id) \in Commands
    /\ \A id \in Ids, name \in Names : Join(name, id) \in Commands /\ Leave(name, id) \in Commands
    /\ \A name \in Names : NetworkAdd(name) \in Commands /\ NetworkDel(name) \in Commands
    /\ \A id \in Ids, network \in Networks, pool \in Pools :
         PoolAdd(id, network, pool) \in Commands /\ PoolDel(id, network, pool) \in Commands
    /\ \A c \in Config : ConfigSet(c) \in Commands
<1>1. \A id \in Ids, subnet \in Subnet : SubnetAdd(id, subnet) \in Commands /\ SubnetUpdate(id, subnet) \in Commands
  BY DEF Commands, SubnetAdd, SubnetUpdate
<1>2. \A id \in Ids : SubnetDel(id) \in Commands
  BY DEF Commands, SubnetDel
<1>3. \A id \in Ids, name \in Names : Join(name, id) \in Commands /\ Leave(name, id) \in Commands
  BY DEF Commands, Join, Leave
<1>4. \A name \in Names : NetworkAdd(name) \in Commands /\ NetworkDel(name) \in Commands
  BY DEF Commands, NetworkAdd, NetworkDel
<1>5. \A id \in Ids, network \in Networks, pool \in Pools :
        PoolAdd(id, network, pool) \in Commands /\ PoolDel(id, network, pool) \in Commands
  BY DEF Commands, PoolAdd, PoolDel
<1>6. \A c \in Config : ConfigSet(c) \in Commands
  BY DEF Commands, ConfigSet
<1> QED
  BY <1>1, <1>2, <1>3, <1>4, <1>5, <1>6

\* A plan with at least one step.
Plan == Seq(Steps) \ {<<>>}

LEMMA OneStepTyped == \A cmd \in Commands : <<Last(cmd)>> \in Plan
BY StepTyped DEF Plan

\* The plan of add_subnet.
LEMMA AddPlanTyped ==
    ASSUME NEW r \in RequestForms, r.kind = "add-subnet", NEW id \in Ids
    PROVE  AddPlan(r, id) \in Plan
<1>1. NewSubnet(r) \in Subnet
  BY ConfigAssumption DEF RequestForms, NewSubnet, Subnet
<1>2. r.shared \in Names \cup {None}
  BY DEF RequestForms
<1>3. CASE r.shared = None
  BY <1>1, <1>3, CommandTyped, OneStepTyped DEF AddPlan
<1>4. CASE r.shared # None
  <2>1. Step(SubnetAdd(id, NewSubnet(r)), SubnetDel(id), None) \in Steps
    BY <1>1, CommandTyped, StepTyped
  <2>2. Last(Join(r.shared, id)) \in Steps
    BY <1>2, <1>4, CommandTyped, StepTyped
  <2> QED
    BY <1>4, <2>1, <2>2 DEF AddPlan, Plan
<1> QED
  BY <1>3, <1>4

\* The plan of edit_subnet.
LEMMA EditPlanTyped ==
    ASSUME NEW r \in RequestForms, r.kind = "edit-subnet", NEW subnet \in Subnet, NEW member \in Names \cup {None}
    PROVE  EditPlan(r, subnet, member) \in Plan
<1>1. r.id \in Ids /\ r.shared \in Names \cup {None} /\ Edited(r, subnet) \in Subnet
  BY DEF RequestForms, Edited, Subnet
<1> DEFINE leave == IF r.shared = member \/ member = None THEN <<>>
                    ELSE <<Step(Leave(member, r.id), Join(member, r.id), None)>>
           join  == IF r.shared = member \/ r.shared = None THEN <<>>
                    ELSE <<Step(Join(r.shared, r.id), Leave(r.shared, r.id), r.shared)>>
<1>2. leave \in Seq(Steps)
  <2>1. member # None => Step(Leave(member, r.id), Join(member, r.id), None) \in Steps
    BY <1>1, CommandTyped, StepTyped
  <2> QED
    BY <2>1
<1>3. join \in Seq(Steps)
  <2>1. r.shared # None => Step(Join(r.shared, r.id), Leave(r.shared, r.id), r.shared) \in Steps
    BY <1>1, CommandTyped, StepTyped
  <2> QED
    BY <2>1
<1>4. <<Last(SubnetUpdate(r.id, Edited(r, subnet)))>> \in Plan
  BY <1>1, CommandTyped, OneStepTyped
<1>5. EditPlan(r, subnet, member) = leave \o join \o <<Last(SubnetUpdate(r.id, Edited(r, subnet)))>>
  BY DEF EditPlan
<1> HIDE DEF leave, join
<1> QED
  BY <1>2, <1>3, <1>4, <1>5 DEF Plan

\* An edited candidate is a configuration.
LEMMA CandidateTyped ==
    ASSUME NEW r \in RequestForms, r.kind \in {"set-subnet-options"} \cup BySend,
           NEW c \in Config, r.kind = "set-subnet-options" => Present(c, r.id)
    PROVE  Candidate(r, c) \in Config
<1>1. CASE r.kind = "set-subnet-options"
  <2>1. r.id \in Ids /\ r.managed \in Values /\ r.unshown \in Values
    BY <1>1 DEF RequestForms
  <2>2. [c.subnets[r.id] EXCEPT !.managed = r.managed, !.unshown = r.unshown] \in Subnet
    <3>1. c.subnets[r.id] \in Subnet
      BY <1>1, <2>1 DEF Present, Config
    <3> QED
      BY <2>1, <3>1 DEF Subnet
  <2>3. Candidate(r, c) = [c EXCEPT !.subnets[r.id] = [c.subnets[r.id] EXCEPT !.managed = r.managed, !.unshown = r.unshown]]
    BY <1>1, <2>1, <2>2 DEF Candidate, Config
  <2> QED
    BY <2>1, <2>2, <2>3 DEF Config
<1>2. CASE r.kind = "set-server-options"
  BY <1>2 DEF Candidate, RequestForms, Config
<1>3. CASE r.kind \in {"add-definition", "delete-definition"}
  BY <1>3 DEF Candidate, RequestForms, Config
<1>4. CASE r.kind = "edit-network"
  BY <1>4 DEF Candidate, RequestForms, Config
<1> QED
  BY <1>1, <1>2, <1>3, <1>4 DEF BySend

------------------------------------------------------------------------------
(* The inductive invariant.                                                *)

ControlOK ==
    /\ lock \in Ops \cup {None}
    /\ pc \in [Ops -> Places]
    /\ local \in [Ops -> Locals]
    /\ outcome \in [Ops -> Outcomes]

KeaOK ==
    /\ running \in Config /\ disk \in Config
    /\ inFlight \subseteq Commands
    /\ marks \in [Parts -> Writers] /\ diskMarks \in [Parts -> Writers]

\* What a change at `place` has: its request, what its form showed, its target and the steps that the place needs.
Fits(place, l, r) ==
    /\ place # "idle" => r \in Requests
    /\ place \notin {"idle", "done"} => l.seen \in Config /\ Shown(r, l.seen)
    /\ place = "scope" => r.kind \in BySubnet \cup {"add-subnet"}
    /\ place = "network" => r.kind \in {"add-subnet", "edit-subnet"} /\ (r.kind = "add-subnet" => l.todo # <<>>)
    /\ place = "definition" => r.kind = "edit-subnet"
    /\ place = "exists" => r.kind \in ByExists
    /\ place = "candidate" => r.kind \in BySend \cup {"set-subnet-options"}
    /\ place = "retry" => r.kind = "add-subnet"
    /\ place \in {"network", "definition"} \cup (Stepping \ {"persist"}) => l.view \in Targets
    /\ place \in {"send", "check"} => l.todo # <<>>
    /\ place \in {"undo-check", "undo-send"} => l.done # <<>>

Shape == \A op \in Ops : Fits(pc[op], local[op], req[op])

InputOK ==
    /\ req \in [Ops -> Requests \cup {None}]
    /\ budget \in [Disturbances -> Nat]

IInv == ControlOK /\ KeaOK /\ InputOK /\ Shape

LEMMA IInvTypes == IInv => TypeOK
BY DEF IInv, TypeOK, ControlOK, KeaOK, InputOK

LEMMA BlankTyped == Blank \in Locals
BY DEF Blank, Locals

\* Every request is one of the forms.
LEMMA RequestTyped == Requests \subseteq RequestForms
BY ConfigWriteAssumption

------------------------------------------------------------------------------
(* What an action does with its change keeps the invariant.                *)

\* The change goes to a place that fits it.
LEMMA GoKeeps ==
    ASSUME ControlOK, Shape, NEW op \in Ops, NEW place \in Places, NEW new \in Locals,
           Fits(place, new, req[op]), Go(op, place, new), UNCHANGED req
    PROVE  ControlOK' /\ Shape'
<1>1. ControlOK'
  BY DEF ControlOK, Go
<1>2. ASSUME NEW other \in Ops PROVE Fits(pc'[other], local'[other], req'[other])
  <2>1. CASE other = op
    BY <2>1 DEF ControlOK, Go
  <2>2. CASE other # op
    BY <2>2 DEF ControlOK, Go, Shape
  <2> QED
    BY <2>1, <2>2
<1>3. Shape'
  BY <1>2 DEF Shape
<1> QED
  BY <1>1, <1>3

\* The change ends.
LEMMA LeavesKeeps ==
    ASSUME ControlOK, Shape, NEW op \in Ops, req[op] \in Requests, Leaves(op),
           outcome' \in [Ops -> Outcomes], UNCHANGED req
    PROVE  ControlOK' /\ Shape'
<1>1. ControlOK'
  BY BlankTyped DEF ControlOK, Leaves, Places
<1>2. ASSUME NEW other \in Ops PROVE Fits(pc'[other], local'[other], req'[other])
  <2>1. CASE other = op
    BY <2>1 DEF ControlOK, Leaves, Fits, Stepping
  <2>2. CASE other # op
    BY <2>2 DEF ControlOK, Leaves, Shape
  <2> QED
    BY <2>1, <2>2
<1>3. Shape'
  BY <1>2 DEF Shape
<1> QED
  BY <1>1, <1>3

\* The change is rejected.
LEMMA RejectKeeps ==
    ASSUME ControlOK, Shape, NEW op \in Ops, req[op] \in Requests, Reject(op), UNCHANGED req
    PROVE  ControlOK' /\ Shape'
<1>1. outcome' \in [Ops -> Outcomes]
  BY DEF ControlOK, Reject, Outcomes
<1> QED
  BY <1>1, LeavesKeeps DEF Reject

\* The change goes to its persist step.
LEMMA ConcludeKeeps ==
    ASSUME ControlOK, Shape, NEW op \in Ops, pc[op] \notin {"idle", "done"},
           NEW application \in {"applied", "unknown"}, Conclude(op, application), UNCHANGED req
    PROVE  ControlOK' /\ Shape'
<1>1. outcome' \in [Ops -> Outcomes]
  BY DEF ControlOK, Conclude, Outcomes
<1>2. ControlOK'
  BY <1>1 DEF ControlOK, Conclude, Places, Stepping
<1>3. ASSUME NEW other \in Ops PROVE Fits(pc'[other], local'[other], req'[other])
  <2>1. CASE other = op
    <3>1. Fits(pc[op], local[op], req[op])
      BY DEF Shape
    <3> QED
      BY <2>1, <3>1 DEF ControlOK, Conclude, Fits, Stepping
  <2>2. CASE other # op
    BY <2>2 DEF ControlOK, Conclude, Shape
  <2> QED
    BY <2>1, <2>2
<1>4. Shape'
  BY <1>3 DEF Shape
<1> QED
  BY <1>2, <1>4

\* The change rolls back or is rejected.
LEMMA AbandonKeeps ==
    ASSUME ControlOK, Shape, NEW op \in Ops, pc[op] \in {"send", "check"}, Abandon(op), UNCHANGED req
    PROVE  ControlOK' /\ Shape'
<1>1. Fits(pc[op], local[op], req[op]) /\ local[op] \in Locals
  BY DEF Shape, ControlOK
<1>2. CASE Reject(op)
  BY <1>1, <1>2, RejectKeeps DEF Fits
<1>3. CASE local[op].done # <<>> /\ Go(op, "undo-check", local[op])
  <2>1. Fits("undo-check", local[op], req[op])
    BY <1>1, <1>3 DEF Fits, Stepping
  <2> QED
    BY <1>1, <1>3, <2>1, GoKeeps DEF Places, Stepping
<1> QED
  BY <1>2, <1>3 DEF Abandon

\* A history mark always names a writer.
LEMMA ExecuteKeeps ==
    ASSUME KeaOK, NEW cmd \in Commands, NEW writer \in Writers, NEW origin,
           Execute(cmd, writer, origin)
    PROVE  running' \in Config /\ marks' \in [Parts -> Writers]
<1>1. running' \in Config
  BY ResultTyped DEF KeaOK, Execute
<1>2. marks' \in [Parts -> Writers]
  BY DEF KeaOK, Execute, Marked, Writers
<1> QED
  BY <1>1, <1>2

LEMMA SpendKeeps ==
    ASSUME budget \in [Disturbances -> Nat], NEW kind \in Disturbances, Spend(kind)
    PROVE  budget' \in [Disturbances -> Nat]
BY DEF Spend

\* An action that sends nothing leaves Kea as it is.
LEMMA QuietKeeps == ASSUME KeaOK, UNCHANGED <<running, disk, inFlight, marks, diskMarks>> PROVE KeaOK'
BY DEF KeaOK

\* What the invariant says of one change.
LEMMA OfOp ==
    ASSUME IInv, NEW op \in Ops
    PROVE  /\ ControlOK /\ KeaOK /\ Shape /\ InputOK
           /\ Fits(pc[op], local[op], req[op])
           /\ local[op] \in Locals
           /\ running \in Config
           /\ pc[op] # "idle" => req[op] \in Requests /\ req[op] \in RequestForms
BY RequestTyped DEF IInv, Shape, ControlOK, KeaOK, Fits

------------------------------------------------------------------------------
(* The actions before the first command.                                   *)

LEMMA OpenFormKeeps == ASSUME IInv, NEW op \in Ops, OpenForm(op) PROVE IInv'
<1>1. PICK r \in Requests : Shown(r, running) /\ req' = [req EXCEPT ![op] = r]
  BY DEF OpenForm
<1>2. KeaOK' /\ InputOK'
  BY <1>1, QuietKeeps DEF IInv, InputOK, OpenForm
<1> DEFINE new == [Blank EXCEPT !.seen = running]
<1>3. new \in Locals /\ new.seen = running
  BY BlankTyped DEF Locals, IInv, KeaOK
<1>4. ControlOK'
  BY <1>3 DEF IInv, ControlOK, OpenForm, Go, Places, Open
<1>5. ASSUME NEW other \in Ops PROVE Fits(pc'[other], local'[other], req'[other])
  <2>1. CASE other = op
    <3>1. pc'[op] = "form" /\ local'[op] = new /\ req'[op] = r
      BY <1>1 DEF IInv, ControlOK, InputOK, OpenForm, Go
    <3> QED
      BY <1>1, <1>3, <2>1, <3>1 DEF Fits, Stepping, IInv, KeaOK
  <2>2. CASE other # op
    <3>1. pc'[other] = pc[other] /\ local'[other] = local[other] /\ req'[other] = req[other]
      BY <1>1, <2>2 DEF IInv, ControlOK, InputOK, OpenForm, Go
    <3> QED
      BY <3>1 DEF IInv, Shape
  <2> QED
    BY <2>1, <2>2
<1>6. Shape'
  BY <1>5 DEF Shape
<1> QED
  BY <1>2, <1>4, <1>6 DEF IInv

LEMMA SubmitKeeps == ASSUME IInv, NEW op \in Ops, Submit(op) PROVE IInv'
<1>1. KeaOK' /\ InputOK'
  BY QuietKeeps, SpendKeeps DEF IInv, InputOK, Submit, Disturbances
<1>2. pc[op] = "form" /\ UNCHANGED req
  BY DEF Submit
<1>3. CASE Go(op, "waiting", local[op])
  <2>1. Fits("waiting", local[op], req[op])
    BY <1>2, OfOp DEF Fits, Stepping
  <2> QED
    BY <1>1, <1>2, <1>3, <2>1, OfOp, GoKeeps DEF IInv, Places
<1>4. CASE Reject(op)
  BY <1>1, <1>2, <1>4, OfOp, RejectKeeps DEF IInv
<1> QED
  BY <1>3, <1>4 DEF Submit

LEMMA AcquireKeeps == ASSUME IInv, NEW op \in Ops, Acquire(op) PROVE IInv'
<1>1. KeaOK' /\ InputOK'
  BY QuietKeeps DEF IInv, InputOK, Acquire
<1> DEFINE new == [local[op] EXCEPT !.base = running, !.disturbed = \E other \in Ops : pc[other] \in UnderLock]
<1>2. new \in Locals /\ new.seen = local[op].seen
  BY OfOp DEF Locals
<1>3. req[op] \in RequestForms /\ req[op] \in Requests /\ Fits(pc[op], local[op], req[op]) /\ pc[op] = "waiting"
  BY OfOp DEF Acquire
<1>4. FirstRead(req[op]) \in {"scope", "exists", "candidate"}
  BY DEF FirstRead
<1>5. Fits(FirstRead(req[op]), new, req[op])
  <2>1. req[op].kind \in BySubnet \cup {"add-subnet"} \cup ByExists \cup BySend
    BY <1>3 DEF RequestForms, BySubnet, ByExists, BySend
  <2>2. /\ FirstRead(req[op]) = "scope" => req[op].kind \in BySubnet \cup {"add-subnet"}
        /\ FirstRead(req[op]) = "exists" => req[op].kind \in ByExists
        /\ FirstRead(req[op]) = "candidate" => req[op].kind \in BySend
    BY <2>1 DEF FirstRead
  <2> QED
    BY <1>2, <1>3, <1>4, <2>2 DEF Fits, Stepping
<1>6. ControlOK'
  BY <1>2, <1>4 DEF IInv, ControlOK, Acquire, Places, Reading
<1>7. ASSUME NEW other \in Ops PROVE Fits(pc'[other], local'[other], req'[other])
  <2>1. CASE other = op
    <3>1. pc'[op] = FirstRead(req[op]) /\ local'[op] = new /\ req'[op] = req[op]
      BY DEF IInv, ControlOK, Acquire
    <3> QED
      BY <1>5, <2>1, <3>1
  <2>2. CASE other # op
    BY <2>2 DEF IInv, ControlOK, Shape, Acquire
  <2> QED
    BY <2>1, <2>2
<1>8. Shape'
  BY <1>7 DEF Shape
<1> QED
  BY <1>1, <1>6, <1>8 DEF IInv

LEMMA LockTimeoutKeeps == ASSUME IInv, NEW op \in Ops, LockTimeout(op) PROVE IInv'
<1>1. KeaOK' /\ InputOK'
  BY QuietKeeps DEF IInv, InputOK, LockTimeout
<1> QED
  BY <1>1, OfOp, RejectKeeps DEF IInv, LockTimeout

LEMMA ReadFailsKeeps == ASSUME IInv, NEW op \in Ops, ReadFails(op) PROVE IInv'
<1>1. KeaOK' /\ InputOK'
  BY QuietKeeps, SpendKeeps DEF IInv, InputOK, ReadFails, ReadOnly, Disturbances
<1>2. pc[op] # "idle"
  BY DEF ReadFails, Reading
<1> QED
  BY <1>1, <1>2, OfOp, RejectKeeps DEF IInv, ReadFails, ReadOnly

\* The operation goes on with well-typed steps and a well-typed target.
LEMMA NewLocal ==
    ASSUME NEW l \in Locals, NEW plan \in Seq(Steps), NEW target \in Targets
    PROVE  LET new == [l EXCEPT !.todo = plan, !.view = target]
           IN  new \in Locals /\ new.todo = plan /\ new.view = target /\ new.seen = l.seen /\ new.done = l.done
BY DEF Locals

LEMMA ProceedKeeps ==
    ASSUME ControlOK, Shape, NEW op \in Ops, local[op] \in Locals, NEW place \in Places,
           NEW plan \in Seq(Steps), NEW target \in Targets,
           Fits(place, [local[op] EXCEPT !.todo = plan, !.view = target], req[op]),
           Proceed(op, place, plan, target), UNCHANGED req
    PROVE  ControlOK' /\ Shape'
BY NewLocal, GoKeeps DEF Proceed

LEMMA ScopeForAddKeeps ==
    ASSUME IInv, NEW op \in Ops, NEW complete \in BOOLEAN, pc[op] = "scope", req[op].kind = "add-subnet",
           ScopeForAdd(op, complete), UNCHANGED req
    PROVE  ControlOK' /\ Shape'
<1> DEFINE r == req[op]
<1>1. r \in RequestForms /\ r \in Requests /\ Fits(pc[op], local[op], r) /\ local[op] \in Locals
  BY OfOp
<1>2. CASE Reject(op)
  BY <1>1, <1>2, OfOp, RejectKeeps
<1>3. ASSUME NEW id \in NewIds(r, running),
             Proceed(op, IF r.shared = None \/ complete THEN "send" ELSE "network", AddPlan(r, id),
                     Target(id, r.network, None, None))
      PROVE  ControlOK' /\ Shape'
  <2> DEFINE place  == IF r.shared = None \/ complete THEN "send" ELSE "network"
             target == Target(id, r.network, None, None)
             new    == [local[op] EXCEPT !.todo = AddPlan(r, id), !.view = target]
  <2>1. id \in Ids
    BY <1>1, <1>3 DEF NewIds, AllocatedIds, RequestForms, FreeIds
  <2>2. target \in Targets
    BY <1>1, <2>1 DEF Target, Targets, RequestForms
  <2>3. AddPlan(r, id) \in Seq(Steps) /\ AddPlan(r, id) # <<>>
    BY <1>1, <2>1, AddPlanTyped DEF Plan
  <2>4. Fits(place, new, r)
    <3>1. new.todo = AddPlan(r, id) /\ new.view = target /\ new.seen = local[op].seen
      BY <1>1 DEF Locals
    <3> HIDE DEF new, target
    <3> QED
      BY <1>1, <2>2, <2>3, <3>1 DEF Fits, Stepping
  <2>5. place \in Places
    BY DEF Places, Reading, Stepping
  <2>6. Proceed(op, place, AddPlan(r, id), target)
    BY <1>3
  <2> HIDE DEF place, target
  <2> QED
    BY <1>1, <2>2, <2>3, <2>4, <2>5, <2>6, OfOp, ProceedKeeps
<1> QED
  BY <1>2, <1>3 DEF ScopeForAdd

LEMMA ScopeForEditKeeps ==
    ASSUME IInv, NEW op \in Ops, NEW complete \in BOOLEAN, pc[op] = "scope", req[op].kind = "edit-subnet",
           ScopeForEdit(op, complete), UNCHANGED req
    PROVE  ControlOK' /\ Shape'
<1> DEFINE r == req[op]
           old == local[op].seen.subnets[r.id]
           moves == r.shared \notin {None, old.member}
           place == IF moves /\ ~complete THEN "network" ELSE "definition"
           target == Target(r.id, old.network, old.member, None)
           new == [local[op] EXCEPT !.todo = <<>>, !.view = target]
<1>1. r \in RequestForms /\ r \in Requests /\ Fits(pc[op], local[op], r) /\ local[op] \in Locals
  BY OfOp
<1>2. CASE Reject(op)
  BY <1>1, <1>2, OfOp, RejectKeeps
<1>3. CASE Proceed(op, place, <<>>, target)
  <2>1. local[op].seen \in Config /\ Shown(r, local[op].seen) /\ r.id \in Ids
    BY <1>1 DEF Fits, RequestForms
  <2>2. old \in Subnet
    BY <2>1 DEF Shown, BySubnet, Present, Config
  <2>3. target \in Targets
    BY <2>1, <2>2 DEF Target, Targets, Subnet
  <2>4. <<>> \in Seq(Steps)
    OBVIOUS
  <2>5. new.view = target /\ new.seen = local[op].seen
    BY <1>1 DEF Locals
  <2>6. Fits(place, new, r)
    BY <1>1, <2>3, <2>5 DEF Fits, Stepping
  <2>7. place \in Places
    BY DEF Places, Reading
  <2> HIDE DEF place, target
  <2> QED
    BY <1>1, <1>3, <2>3, <2>4, <2>6, <2>7, OfOp, ProceedKeeps
<1> QED
  BY <1>2, <1>3 DEF ScopeForEdit

LEMMA ScopeForTargetKeeps ==
    ASSUME IInv, NEW op \in Ops, NEW complete \in BOOLEAN, pc[op] = "scope",
           req[op].kind \notin {"add-subnet", "edit-subnet"}, ScopeForTarget(op, complete), UNCHANGED req
    PROVE  ControlOK' /\ Shape'
<1> DEFINE r == req[op]
           network == local[op].seen.subnets[r.id].network
           steps == CASE r.kind = "delete-subnet" -> <<Last(SubnetDel(r.id))>>
                      [] r.kind = "add-pool"      -> <<Last(PoolAdd(r.id, network, r.pool))>>
                      [] r.kind = "delete-pool"   -> <<Last(PoolDel(r.id, network, r.pool))>>
                      [] OTHER                    -> <<>>
           place == IF r.kind = "set-subnet-options" THEN "candidate" ELSE "send"
           target == Target(r.id, network, None, None)
           new == [local[op] EXCEPT !.todo = steps, !.view = target]
<1>1. r \in RequestForms /\ r \in Requests /\ Fits(pc[op], local[op], r) /\ local[op] \in Locals
  BY OfOp
<1>2. CASE Reject(op)
  BY <1>1, <1>2, OfOp, RejectKeeps
<1>3. CASE Proceed(op, place, steps, target)
  <2>1. local[op].seen \in Config /\ Shown(r, local[op].seen) /\ r.kind \in BySubnet \ {"edit-subnet"}
    BY <1>1 DEF Fits, BySubnet
  <2>2. r.id \in Ids
    BY <1>1, <2>1 DEF RequestForms, BySubnet
  <2>3. network \in Networks
    BY <2>1, <2>2 DEF Shown, BySubnet, Present, Config, Subnet
  <2>4. target \in Targets
    BY <2>2, <2>3 DEF Target, Targets
  <2>5. steps \in Seq(Steps) /\ (place = "send" => steps # <<>>)
    <3>1. CASE r.kind = "set-subnet-options"
      BY <3>1
    <3>2. CASE r.kind = "delete-subnet"
      BY <3>2, <2>2, CommandTyped, OneStepTyped DEF Plan
    <3>3. CASE r.kind \in {"add-pool", "delete-pool"}
      <4>1. r.pool \in Pools
        BY <1>1, <3>3 DEF RequestForms
      <4>2. PoolAdd(r.id, network, r.pool) \in Commands /\ PoolDel(r.id, network, r.pool) \in Commands
        BY <2>2, <2>3, <4>1, CommandTyped
      <4> QED
        BY <3>3, <4>2, OneStepTyped DEF Plan
    <3> QED
      BY <2>1, <3>1, <3>2, <3>3 DEF BySubnet
  <2>6. new.todo = steps /\ new.view = target /\ new.seen = local[op].seen
    BY <1>1 DEF Locals
  <2>7. place \in {"send", "candidate"} /\ (place = "candidate" => r.kind = "set-subnet-options")
    OBVIOUS
  <2> HIDE DEF place, target, steps, new
  <2>8. Fits(place, new, r)
    BY <1>1, <2>4, <2>5, <2>6, <2>7 DEF Fits, Stepping
  <2>9. place \in Places
    BY <2>7 DEF Places, Reading, Stepping
  <2> USE DEF new
  <2> QED
    BY <1>1, <1>3, <2>4, <2>5, <2>8, <2>9, OfOp, ProceedKeeps
<1> QED
  BY <1>2, <1>3 DEF ScopeForTarget

LEMMA ReadScopeKeeps == ASSUME IInv, NEW op \in Ops, ReadScope(op) PROVE IInv'
<1>1. PICK complete \in BOOLEAN :
        /\ IF complete THEN UNCHANGED budget ELSE Spend("fault")
        /\ CASE req[op].kind = "add-subnet"  -> ScopeForAdd(op, complete)
             [] req[op].kind = "edit-subnet" -> ScopeForEdit(op, complete)
             [] OTHER                        -> ScopeForTarget(op, complete)
  BY DEF ReadScope
<1>2. pc[op] = "scope" /\ UNCHANGED <<running, disk, inFlight, req, marks, diskMarks>>
  BY DEF ReadScope, ReadOnly
<1>3. KeaOK' /\ InputOK'
  BY <1>1, <1>2, QuietKeeps, SpendKeeps DEF IInv, InputOK, Disturbances
<1>4. ControlOK' /\ Shape'
  BY <1>1, <1>2, ScopeForAddKeeps, ScopeForEditKeeps, ScopeForTargetKeeps
<1> QED
  BY <1>3, <1>4 DEF IInv

LEMMA RequireNetworkKeeps == ASSUME IInv, NEW op \in Ops, RequireNetwork(op) PROVE IInv'
<1>1. pc[op] = "network" /\ UNCHANGED <<running, disk, inFlight, req, marks, diskMarks, budget>>
  BY DEF RequireNetwork, ReadOnly
<1>2. KeaOK' /\ InputOK'
  BY <1>1, QuietKeeps DEF IInv, InputOK
<1> DEFINE place == IF req[op].kind = "add-subnet" THEN "send" ELSE "definition"
<1>3. CASE Reject(op)
  BY <1>1, <1>2, <1>3, OfOp, RejectKeeps DEF IInv
<1>4. CASE Go(op, place, local[op])
  <2>1. Fits(place, local[op], req[op])
    BY <1>1, OfOp DEF Fits, Stepping
  <2>2. place \in Places
    BY DEF Places, Reading, Stepping
  <2> HIDE DEF place
  <2> QED
    BY <1>1, <1>2, <1>4, <2>1, <2>2, OfOp, GoKeeps DEF IInv
<1> QED
  BY <1>3, <1>4 DEF RequireNetwork

\* The definition of a Subnet is well typed.
LEMMA DefinitionTyped == \A subnet \in Subnet : Definition(subnet) \in Subnet
BY ConfigAssumption DEF Definition, Subnet

LEMMA ReadDefinitionKeeps == ASSUME IInv, NEW op \in Ops, ReadDefinition(op) PROVE IInv'
<1> DEFINE r   == req[op]
           old == local[op].seen.subnets[r.id]
           now == running.subnets[r.id]
           plan == EditPlan(r, Definition(now), old.member)
<1>1. pc[op] = "definition" /\ UNCHANGED <<running, disk, inFlight, req, marks, diskMarks, budget>>
  BY DEF ReadDefinition, ReadOnly
<1>2. KeaOK' /\ InputOK'
  BY <1>1, QuietKeeps DEF IInv, InputOK
<1>3. r \in RequestForms /\ r \in Requests /\ Fits(pc[op], local[op], r) /\ local[op] \in Locals /\ running \in Config
  BY <1>1, OfOp
<1>4. CASE Reject(op)
  BY <1>1, <1>2, <1>3, <1>4, RejectKeeps DEF IInv
<1>5. CASE Present(running, r.id) /\ StartFrom(op, plan, Definition(now))
  <2>1. r.kind = "edit-subnet" /\ r.id \in Ids /\ local[op].seen \in Config /\ Shown(r, local[op].seen)
    BY <1>1, <1>3 DEF Fits, RequestForms
  <2>2. old \in Subnet /\ now \in Subnet
    BY <1>3, <1>5, <2>1 DEF Shown, BySubnet, Present, Config
  <2>3. plan \in Seq(Steps) /\ plan # <<>>
    <3>1. old.member \in Names \cup {None} /\ Definition(now) \in Subnet
      BY <2>2, DefinitionTyped DEF Subnet
    <3> QED
      BY <1>3, <2>1, <3>1, EditPlanTyped DEF Plan
  <2> DEFINE view == [local[op].view EXCEPT !.definition = Definition(now)]
             new  == [local[op] EXCEPT !.todo = plan, !.view = view, !.base = running]
  <2>4. view \in Targets
    <3>1. local[op].view \in Targets /\ Definition(now) \in Subnet
      BY <1>1, <1>3, <2>2, DefinitionTyped DEF Fits
    <3> QED
      BY <3>1 DEF Targets
  <2>5. Go(op, "send", new)
    BY <1>3, <1>5 DEF StartFrom, Locals
  <2> HIDE DEF view, plan
  <2>6. new \in Locals /\ new.todo = plan /\ new.view = view /\ new.seen = local[op].seen
    BY <1>3, <2>3, <2>4 DEF Locals
  <2> HIDE DEF new
  <2>7. Fits("send", new, r)
    BY <1>1, <1>3, <2>1, <2>3, <2>4, <2>6 DEF Fits, Stepping
  <2> QED
    BY <1>1, <1>2, <2>5, <2>6, <2>7, GoKeeps DEF IInv, Places, Stepping
<1> QED
  BY <1>4, <1>5 DEF ReadDefinition

LEMMA ReadExistsKeeps == ASSUME IInv, NEW op \in Ops, ReadExists(op) PROVE IInv'
<1> DEFINE cmd == IF req[op].kind = "add-network" THEN NetworkAdd(req[op].name) ELSE NetworkDel(req[op].name)
           new == [local[op] EXCEPT !.todo = <<Last(cmd)>>, !.view = NoTarget]
<1>1. pc[op] = "exists" /\ UNCHANGED <<running, disk, inFlight, req, marks, diskMarks, budget>>
  BY DEF ReadExists, ReadOnly
<1>2. KeaOK' /\ InputOK'
  BY <1>1, QuietKeeps DEF IInv, InputOK
<1>3. req[op] \in RequestForms /\ req[op] \in Requests /\ Fits(pc[op], local[op], req[op]) /\ local[op] \in Locals
  BY <1>1, OfOp
<1>4. CASE Reject(op)
  BY <1>1, <1>2, <1>3, <1>4, RejectKeeps DEF IInv
<1>5. CASE Proceed(op, "send", <<Last(cmd)>>, NoTarget)
  <2>1. req[op].name \in Names
    BY <1>1, <1>3 DEF Fits, ByExists, RequestForms
  <2>2. <<Last(cmd)>> \in Seq(Steps) /\ <<Last(cmd)>> # <<>>
    BY <2>1, CommandTyped, OneStepTyped DEF Plan
  <2>3. NoTarget \in Targets
    BY DEF NoTarget, Targets
  <2>4. Fits("send", new, req[op])
    <3>1. new.todo = <<Last(cmd)>> /\ new.view = NoTarget /\ new.seen = local[op].seen
      BY <1>3 DEF Locals
    <3> HIDE DEF new, cmd
    <3> QED
      BY <1>1, <1>3, <2>2, <2>3, <3>1 DEF Fits, Stepping
  <2> HIDE DEF cmd
  <2> QED
    BY <1>1, <1>2, <1>3, <1>5, <2>2, <2>3, <2>4, ProceedKeeps DEF IInv, Places, Stepping
<1> QED
  BY <1>4, <1>5 DEF ReadExists

LEMMA ReadCandidateKeeps == ASSUME IInv, NEW op \in Ops, ReadCandidate(op) PROVE IInv'
<1> DEFINE r == req[op]
           plan == <<Last(ConfigSet(Candidate(r, running)))>>
           new == [local[op] EXCEPT !.todo = plan, !.view = NoTarget, !.base = running]
<1>1. pc[op] = "candidate" /\ UNCHANGED <<running, disk, inFlight, req, marks, diskMarks, budget>>
  BY DEF ReadCandidate, ReadOnly
<1>2. KeaOK' /\ InputOK'
  BY <1>1, QuietKeeps DEF IInv, InputOK
<1>3. r \in RequestForms /\ r \in Requests /\ Fits(pc[op], local[op], r) /\ local[op] \in Locals /\ running \in Config
  BY <1>1, OfOp
<1>4. CASE Reject(op)
  BY <1>1, <1>2, <1>3, <1>4, RejectKeeps DEF IInv
<1>5. CASE CanEdit(r, running, local[op].seen) /\ Go(op, "send", new)
  <2>1. r.kind \in BySend \cup {"set-subnet-options"}
    BY <1>1, <1>3 DEF Fits
  <2>2. Candidate(r, running) \in Config
    BY <1>3, <1>5, <2>1, CandidateTyped DEF CanEdit
  <2>3. plan \in Seq(Steps) /\ plan # <<>>
    BY <2>2, CommandTyped, OneStepTyped DEF Plan
  <2>4. NoTarget \in Targets
    BY DEF NoTarget, Targets
  <2> HIDE DEF plan
  <2>5. new \in Locals /\ new.todo = plan /\ new.view = NoTarget /\ new.seen = local[op].seen
    BY <1>3, <2>3, <2>4 DEF Locals
  <2> HIDE DEF new
  <2>6. Fits("send", new, r)
    BY <1>1, <1>3, <2>3, <2>4, <2>5 DEF Fits, Stepping
  <2> QED
    BY <1>1, <1>2, <1>5, <2>5, <2>6, GoKeeps DEF IInv, Places, Stepping
<1> QED
  BY <1>4, <1>5 DEF ReadCandidate

------------------------------------------------------------------------------
(* The actions from the first command on.                                  *)

\* The first step of a change that has one, and the steps after it.
LEMMA HeadTyped ==
    ASSUME NEW S, NEW seq \in Seq(S), seq # <<>>
    PROVE  Head(seq) \in S /\ Tail(seq) \in Seq(S)
OBVIOUS

LEMMA StepFields ==
    /\ \A step \in Steps : step.cmd \in Commands /\ (step.undo # NoUndo => step.undo \in Undos)
    /\ \A undo \in Undos : undo.cmd \in Commands
BY DEF Steps, Undos

\* The effect on Kea of a request that Kea ran or not.
LEMMA PerhapsKeeps ==
    ASSUME KeaOK, NEW cmd \in Commands, NEW writer \in Writers, NEW origin,
           Perhaps(cmd, writer, origin), UNCHANGED <<disk, diskMarks, inFlight>>
    PROVE  KeaOK'
BY ExecuteKeeps DEF Perhaps, KeaOK

LEMMA LingerKeeps ==
    ASSUME KeaOK, InputOK, NEW cmd \in Commands, Linger(cmd), UNCHANGED <<disk, diskMarks, req>>
    PROVE  KeaOK' /\ InputOK'
BY SpendKeeps DEF Linger, KeaOK, InputOK, Disturbances

LEMMA NextStepKeeps ==
    ASSUME ControlOK, Shape, NEW op \in Ops, pc[op] = "send", NextStep(op), UNCHANGED req
    PROVE  ControlOK' /\ Shape'
<1> DEFINE l    == local[op]
           step == Head(l.todo)
           rest == Tail(l.todo)
           done == IF step.undo = NoUndo THEN l.done ELSE <<step.undo>> \o l.done
           new  == [l EXCEPT !.todo = rest, !.done = done]
<1>1. l \in Locals /\ Fits("send", l, req[op]) /\ l.todo # <<>> /\ l.todo \in Seq(Steps) /\ l.done \in Seq(Undos)
  BY DEF ControlOK, Shape, Fits, Locals
<1>2. step \in Steps /\ rest \in Seq(Steps)
  BY <1>1, HeadTyped
<1>3. done \in Seq(Undos)
  <2>1. step.undo # NoUndo => step.undo \in Undos
    BY <1>2, StepFields
  <2> QED
    BY <1>1, <2>1
<1>4. CASE Conclude(op, "applied")
  BY <1>4, ConcludeKeeps
<1>5. CASE rest # <<>> /\ Go(op, "send", new)
  <2> HIDE DEF rest, done, l
  <2>1. new \in Locals /\ new.todo = rest /\ new.view = l.view /\ new.seen = l.seen
    BY <1>1, <1>2, <1>3 DEF Locals
  <2> HIDE DEF new
  <2>2. Fits("send", new, req[op])
    BY <1>1, <1>5, <2>1 DEF Fits, Stepping
  <2> QED
    BY <1>5, <2>1, <2>2, GoKeeps DEF Places, Stepping
<1>6. NextStep(op) <=> IF rest = <<>> THEN Conclude(op, "applied") ELSE Go(op, "send", new)
  BY <1>1 DEF NextStep, Locals
<1> QED
  BY <1>4, <1>5, <1>6

LEMMA SendKeeps == ASSUME IInv, NEW op \in Ops, Send(op) PROVE IInv'
<1> DEFINE cmd  == Head(local[op].todo).cmd
           base == local[op].base
<1>1. pc[op] = "send" /\ UNCHANGED <<disk, req, diskMarks>>
  BY DEF Send
<1>2. ControlOK /\ KeaOK /\ InputOK /\ Shape /\ Fits(pc[op], local[op], req[op]) /\ local[op] \in Locals
  BY OfOp
<1>3. cmd \in Commands /\ op \in Writers
  BY <1>1, <1>2, HeadTyped, StepFields DEF Fits, Locals, Writers
<1>4. Fits("check", local[op], req[op]) /\ "check" \in Places /\ pc[op] \notin {"idle", "done"}
  BY <1>1, <1>2 DEF Fits, Stepping, Places
<1>5. CASE Execute(cmd, op, base) /\ NextStep(op) /\ UNCHANGED <<budget, inFlight>>
  <2>1. KeaOK' /\ InputOK'
    BY <1>1, <1>2, <1>3, <1>5, ExecuteKeeps DEF KeaOK, InputOK
  <2> QED
    BY <1>1, <1>2, <1>5, <2>1, NextStepKeeps DEF IInv
<1>6. CASE Go(op, "check", local[op]) /\ UNCHANGED <<running, marks, budget, inFlight>>
  <2>1. KeaOK' /\ InputOK'
    BY <1>1, <1>2, <1>6 DEF KeaOK, InputOK
  <2> QED
    BY <1>1, <1>2, <1>4, <1>6, <2>1, GoKeeps DEF IInv
<1>7. CASE Spend("fault") /\ Perhaps(cmd, op, base) /\ Go(op, "check", local[op]) /\ UNCHANGED inFlight
  <2>1. KeaOK' /\ InputOK'
    BY <1>1, <1>2, <1>3, <1>7, PerhapsKeeps, SpendKeeps DEF InputOK, Disturbances
  <2> QED
    BY <1>1, <1>2, <1>4, <1>7, <2>1, GoKeeps DEF IInv
<1>8. CASE Spend("fault") /\ Abandon(op) /\ UNCHANGED <<running, marks, inFlight>>
  <2>1. KeaOK' /\ InputOK'
    BY <1>1, <1>2, <1>8, SpendKeeps DEF KeaOK, InputOK, Disturbances
  <2> QED
    BY <1>1, <1>2, <1>8, <2>1, AbandonKeeps DEF IInv
<1>9. CASE Spend("fault") /\ Perhaps(cmd, op, base) /\ Conclude(op, "unknown") /\ UNCHANGED inFlight
  <2>1. KeaOK' /\ InputOK'
    BY <1>1, <1>2, <1>3, <1>9, PerhapsKeeps, SpendKeeps DEF InputOK, Disturbances
  <2> QED
    BY <1>1, <1>2, <1>4, <1>9, <2>1, ConcludeKeeps DEF IInv
<1>10. CASE Linger(cmd) /\ Conclude(op, "unknown")
  <2>1. KeaOK' /\ InputOK'
    BY <1>1, <1>2, <1>3, <1>10, LingerKeeps
  <2> QED
    BY <1>1, <1>2, <1>4, <1>10, <2>1, ConcludeKeeps DEF IInv
<1> QED
  BY <1>5, <1>6, <1>7, <1>8, <1>9, <1>10 DEF Send

LEMMA CheckKeeps == ASSUME IInv, NEW op \in Ops, Check(op) PROVE IInv'
<1>1. pc[op] = "check" /\ UNCHANGED <<running, disk, inFlight, req, marks, diskMarks>>
  BY DEF Check, ReadOnly
<1>2. ControlOK /\ Shape /\ Fits(pc[op], local[op], req[op]) /\ local[op] \in Locals
  BY OfOp
<1>3. KeaOK' /\ InputOK'
  BY <1>1, QuietKeeps, SpendKeeps DEF IInv, InputOK, Check, Disturbances
<1>4. CASE Conclude(op, "unknown")
  BY <1>1, <1>2, <1>3, <1>4, ConcludeKeeps DEF IInv
<1>5. CASE Taken(op) /\ Go(op, "retry", local[op])
  <2>1. Fits("retry", local[op], req[op])
    BY <1>1, <1>2, <1>5 DEF Fits, Taken, Stepping
  <2> QED
    BY <1>1, <1>2, <1>3, <1>5, <2>1, GoKeeps DEF IInv, Places, Stepping
<1>6. CASE Abandon(op)
  BY <1>1, <1>2, <1>3, <1>6, AbandonKeeps DEF IInv
<1> QED
  BY <1>4, <1>5, <1>6 DEF Check

LEMMA ReallocateKeeps == ASSUME IInv, NEW op \in Ops, Reallocate(op) PROVE IInv'
<1> DEFINE r == req[op]
<1>1. pc[op] = "retry" /\ UNCHANGED <<running, disk, inFlight, req, marks, diskMarks>>
  BY DEF Reallocate, ReadOnly
<1>2. /\ ControlOK /\ Shape /\ Fits(pc[op], local[op], r) /\ local[op] \in Locals
      /\ r \in RequestForms /\ r \in Requests
  BY <1>1, OfOp
<1>3. KeaOK' /\ InputOK'
  BY <1>1, QuietKeeps, SpendKeeps DEF IInv, InputOK, Reallocate, Disturbances
<1>4. CASE Reject(op)
  BY <1>1, <1>2, <1>3, <1>4, RejectKeeps DEF IInv
<1>5. ASSUME NEW id \in NewIds(r, running),
             Go(op, "send", [local[op] EXCEPT !.todo = AddPlan(r, id), !.view.id = id, !.retried = TRUE])
      PROVE  IInv'
  <2>1. r.kind = "add-subnet" /\ local[op].view \in Targets
    BY <1>1, <1>2 DEF Fits, Stepping
  <2>2. id \in Ids
    BY <1>2, <1>5, <2>1 DEF NewIds, AllocatedIds, RequestForms, FreeIds
  <2> DEFINE plan == AddPlan(r, id)
             view == [local[op].view EXCEPT !.id = id]
             new  == [local[op] EXCEPT !.todo = plan, !.view = view, !.retried = TRUE]
  <2>3. plan \in Seq(Steps) /\ plan # <<>>
    BY <1>2, <2>1, <2>2, AddPlanTyped DEF Plan
  <2>4. view \in Targets
    BY <2>1, <2>2 DEF Targets
  <2>5. Go(op, "send", new)
    BY <1>2, <1>5 DEF Locals
  <2> HIDE DEF plan, view
  <2>6. new \in Locals /\ new.todo = plan /\ new.view = view /\ new.seen = local[op].seen
    BY <1>2, <2>3, <2>4 DEF Locals
  <2> HIDE DEF new
  <2>7. Fits("send", new, r)
    BY <1>1, <1>2, <2>3, <2>4, <2>6 DEF Fits, Stepping
  <2> QED
    BY <1>1, <1>2, <1>3, <2>5, <2>6, <2>7, GoKeeps DEF IInv, Places, Stepping
<1> QED
  BY <1>4, <1>5 DEF Reallocate

LEMMA CheckUndoKeeps == ASSUME IInv, NEW op \in Ops, CheckUndo(op) PROVE IInv'
<1>1. pc[op] = "undo-check" /\ UNCHANGED <<running, disk, inFlight, req, marks, diskMarks>>
  BY DEF CheckUndo, ReadOnly
<1>2. ControlOK /\ Shape /\ Fits(pc[op], local[op], req[op]) /\ local[op] \in Locals
  BY OfOp
<1>3. KeaOK' /\ InputOK'
  BY <1>1, QuietKeeps, SpendKeeps DEF IInv, InputOK, CheckUndo, Disturbances
<1>4. CASE Conclude(op, "unknown")
  BY <1>1, <1>2, <1>3, <1>4, ConcludeKeeps DEF IInv
<1> DEFINE new == [local[op] EXCEPT !.stale = \E other \in Ops \ {op} : pc[other] \in UnderLock]
<1>5. CASE Go(op, "undo-send", new)
  <2>1. new \in Locals /\ new.done = local[op].done /\ new.view = local[op].view /\ new.seen = local[op].seen
    BY <1>2 DEF Locals
  <2> HIDE DEF new
  <2>2. Fits("undo-send", new, req[op])
    BY <1>1, <1>2, <2>1 DEF Fits, Stepping
  <2> QED
    BY <1>1, <1>2, <1>3, <1>5, <2>1, <2>2, GoKeeps DEF IInv, Places, Stepping
<1> QED
  BY <1>4, <1>5 DEF CheckUndo

LEMMA SendUndoKeeps == ASSUME IInv, NEW op \in Ops, SendUndo(op) PROVE IInv'
<1> DEFINE cmd  == Head(local[op].done).cmd
           rest == Tail(local[op].done)
           new  == [local[op] EXCEPT !.done = rest]
<1>1. pc[op] = "undo-send" /\ UNCHANGED <<disk, req, diskMarks>>
  BY DEF SendUndo
<1>2. /\ ControlOK /\ KeaOK /\ InputOK /\ Shape /\ Fits(pc[op], local[op], req[op]) /\ local[op] \in Locals
      /\ req[op] \in Requests
  BY <1>1, OfOp
<1>3. cmd \in Commands /\ rest \in Seq(Undos) /\ None \in Writers
  BY <1>1, <1>2, HeadTyped, StepFields DEF Fits, Locals, Writers
<1>4. CASE /\ Execute(cmd, None, None)
           /\ IF rest = <<>> THEN Reject(op) ELSE Go(op, "undo-check", new)
           /\ UNCHANGED <<budget, inFlight>>
  <2>1. KeaOK' /\ InputOK'
    BY <1>1, <1>2, <1>3, <1>4, ExecuteKeeps DEF KeaOK, InputOK
  <2>2. CASE Reject(op)
    BY <1>1, <1>2, <2>1, <2>2, RejectKeeps DEF IInv
  <2>3. CASE rest # <<>> /\ Go(op, "undo-check", new)
    <3> HIDE DEF rest
    <3>1. new \in Locals /\ new.done = rest /\ new.view = local[op].view /\ new.seen = local[op].seen
      BY <1>2, <1>3 DEF Locals
    <3> HIDE DEF new
    <3>2. Fits("undo-check", new, req[op])
      BY <1>1, <1>2, <2>3, <3>1 DEF Fits, Stepping
    <3> QED
      BY <1>1, <1>2, <2>1, <2>3, <3>1, <3>2, GoKeeps DEF IInv, Places, Stepping
  <2> QED
    BY <1>4, <2>2, <2>3
<1>5. CASE Conclude(op, "unknown") /\ UNCHANGED <<running, marks, budget, inFlight>>
  <2>1. KeaOK' /\ InputOK'
    BY <1>1, <1>2, <1>5 DEF KeaOK, InputOK
  <2> QED
    BY <1>1, <1>2, <1>5, <2>1, ConcludeKeeps DEF IInv
<1>6. CASE Spend("fault") /\ Perhaps(cmd, None, None) /\ Conclude(op, "unknown") /\ UNCHANGED inFlight
  <2>1. KeaOK' /\ InputOK'
    BY <1>1, <1>2, <1>3, <1>6, PerhapsKeeps, SpendKeeps DEF InputOK, Disturbances
  <2> QED
    BY <1>1, <1>2, <1>6, <2>1, ConcludeKeeps DEF IInv
<1>7. CASE Linger(cmd) /\ Conclude(op, "unknown")
  <2>1. KeaOK' /\ InputOK'
    BY <1>1, <1>2, <1>3, <1>7, LingerKeeps
  <2> QED
    BY <1>1, <1>2, <1>7, <2>1, ConcludeKeeps DEF IInv
<1> QED
  BY <1>4, <1>5, <1>6, <1>7 DEF SendUndo

LEMMA PersistKeeps == ASSUME IInv, NEW op \in Ops, Persist(op) PROVE IInv'
<1>1. pc[op] = "persist" /\ Leaves(op) /\ UNCHANGED <<running, inFlight, req, marks>>
  BY DEF Persist
<1>2. ControlOK /\ KeaOK /\ InputOK /\ Shape /\ req[op] \in Requests
  BY <1>1, OfOp
<1>3. outcome' \in [Ops -> Outcomes]
  BY <1>2 DEF Persist, ControlOK, Outcomes
<1>4. KeaOK'
  BY <1>1, <1>2 DEF Persist, WriteDisk, KeaOK
<1>5. InputOK'
  BY <1>1, <1>2, SpendKeeps DEF Persist, InputOK, Disturbances
<1> QED
  BY <1>1, <1>2, <1>3, <1>4, <1>5, LeavesKeeps DEF IInv

------------------------------------------------------------------------------
(* What no change controls.                                                *)

\* A writer outside the lock leaves its mark on the changes under the lock.
LEMMA DisturbKeeps ==
    ASSUME ControlOK, Shape, NEW ops, Disturb(ops), lock' \in Ops \cup {None}, UNCHANGED req
    PROVE  ControlOK' /\ Shape'
<1>1. \A op \in Ops : local'[op] \in Locals /\ Fits(pc[op], local'[op], req[op])
  <2> SUFFICES ASSUME NEW op \in Ops PROVE local'[op] \in Locals /\ Fits(pc[op], local'[op], req[op])
    OBVIOUS
  <2> DEFINE new == [local[op] EXCEPT !.disturbed = TRUE, !.stale = TRUE]
  <2>1. local[op] \in Locals /\ Fits(pc[op], local[op], req[op])
    BY DEF ControlOK, Shape
  <2>2. new \in Locals /\ new.seen = local[op].seen /\ new.view = local[op].view
        /\ new.todo = local[op].todo /\ new.done = local[op].done
    BY <2>1 DEF Locals
  <2>3. local'[op] \in {local[op], new}
    BY DEF Disturb
  <2> HIDE DEF new
  <2>4. Fits(pc[op], new, req[op])
    BY <2>1, <2>2 DEF Fits
  <2> QED
    BY <2>1, <2>2, <2>3, <2>4
<1>2. ControlOK'
  BY <1>1 DEF ControlOK, Disturb
<1>3. Shape'
  BY <1>1 DEF Shape, Disturb
<1> QED
  BY <1>2, <1>3

LEMMA EnvironmentKeeps == ASSUME IInv, Environment PROVE IInv'
<1>1. ControlOK /\ KeaOK /\ InputOK /\ Shape /\ lock \in Ops \cup {None} /\ Outside \in Writers
  BY DEF IInv, ControlOK, Writers
<1>2. CASE AdminWrites
  <2>1. PICK cmd \in AdminCommands : Execute(cmd, Outside, None)
    BY <1>2 DEF AdminWrites
  <2>2. cmd \in Commands
    BY ConfigWriteAssumption
  <2>3. KeaOK' /\ InputOK'
    BY <1>1, <1>2, <2>1, <2>2, ExecuteKeeps, SpendKeeps DEF AdminWrites, KeaOK, InputOK, Disturbances
  <2> QED
    BY <1>1, <1>2, <2>3, DisturbKeeps DEF IInv, AdminWrites
<1>3. CASE LateRequest
  <2>1. PICK cmd \in inFlight :
          /\ inFlight' = inFlight \ {cmd}
          /\ IF Accepts(running, cmd) THEN Execute(cmd, Outside, None) ELSE UNCHANGED <<running, marks>>
    BY <1>3 DEF LateRequest
  <2>2. cmd \in Commands
    BY <1>1 DEF KeaOK
  <2>3. KeaOK' /\ InputOK'
    BY <1>1, <1>3, <2>1, <2>2, ExecuteKeeps DEF LateRequest, KeaOK, InputOK
  <2> QED
    BY <1>1, <1>3, <2>3, DisturbKeeps DEF IInv, LateRequest
<1>4. CASE Restart
  <2>1. KeaOK' /\ InputOK'
    BY <1>1, <1>4, SpendKeeps DEF Restart, KeaOK, InputOK, Disturbances
  <2> QED
    BY <1>1, <1>4, <2>1, DisturbKeeps DEF IInv, Restart
<1>5. CASE LoseLock
  <2>1. KeaOK' /\ InputOK'
    BY <1>1, <1>5, SpendKeeps DEF LoseLock, KeaOK, InputOK, Disturbances
  <2> QED
    BY <1>1, <1>5, <2>1, DisturbKeeps DEF IInv, LoseLock
<1>6. CASE OtherPersist
  <2>1. KeaOK' /\ InputOK'
    BY <1>1, <1>6, SpendKeeps DEF OtherPersist, WriteDisk, KeaOK, InputOK, Disturbances
  <2>2. ControlOK' /\ Shape'
    BY <1>1, <1>6 DEF OtherPersist, control, ControlOK, Shape
  <2> QED
    BY <2>1, <2>2 DEF IInv
<1> QED
  BY <1>2, <1>3, <1>4, <1>5, <1>6 DEF Environment

------------------------------------------------------------------------------
(* Type correctness.                                                       *)

LEMMA IInvInit == Init => IInv
<1> SUFFICES ASSUME Init PROVE IInv
  OBVIOUS
<1>1. KeaOK
  BY ConfigWriteAssumption DEF Init, KeaOK, Writers
<1>2. ControlOK
  BY BlankTyped DEF Init, ControlOK, Places, Open, Unfinished, Outcomes
<1>3. InputOK
  BY ConfigWriteAssumption DEF Init, InputOK
<1>4. Shape
  BY DEF Init, Shape, Fits, Stepping
<1> QED
  BY <1>1, <1>2, <1>3, <1>4 DEF IInv

LEMMA IInvNext == IInv /\ [Next]_vars => IInv'
<1> SUFFICES ASSUME IInv, [Next]_vars PROVE IInv'
  OBVIOUS
<1>1. ASSUME NEW op \in Ops, OpenForm(op) \/ Submit(op) \/ Prepare(op) \/ Act(op) PROVE IInv'
  <2>1. CASE OpenForm(op) \/ Submit(op)
    BY <2>1, OpenFormKeeps, SubmitKeeps
  <2>2. CASE Prepare(op)
    BY <2>2, AcquireKeeps, LockTimeoutKeeps, ReadFailsKeeps, ReadScopeKeeps, RequireNetworkKeeps,
       ReadDefinitionKeeps, ReadExistsKeeps, ReadCandidateKeeps DEF Prepare
  <2>3. CASE Act(op)
    BY <2>3, SendKeeps, CheckKeeps, ReallocateKeeps, CheckUndoKeeps, SendUndoKeeps, PersistKeeps DEF Act
  <2> QED
    BY <1>1, <2>1, <2>2, <2>3
<1>2. CASE Environment
  BY <1>2, EnvironmentKeeps
<1>3. CASE UNCHANGED vars
  BY <1>3 DEF vars, control, IInv, ControlOK, KeaOK, InputOK, Shape
<1> QED
  BY <1>1, <1>2, <1>3 DEF Next, Terminating

\* Every change keeps the types of its state: its requests, plans and undo commands are always well formed,
\* and a place of the operation has the target and the steps that it needs.
THEOREM TypeCorrect == Spec => []TypeOK
BY IInvInit, IInvNext, IInvTypes, PTL DEF Spec

------------------------------------------------------------------------------
(* What one action of op can do. Acquire is the only other way to the lock. *)

\* The other changes stay as they are.
Own(op) ==
    \A other \in Ops \ {op} :
        pc'[other] = pc[other] /\ local'[other] = local[other] /\ outcome'[other] = outcome[other]

\* op leaves and frees its lock, or the lock stays.
LockKept(op) ==
    \/ pc'[op] = "done" /\ lock' = IF lock = op THEN None ELSE lock
    \/ /\ lock' = lock
       /\ pc'[op] \in UnderLock => pc[op] \in UnderLock /\ local'[op].disturbed = local[op].disturbed

\* While op reads, it sends nothing.
ReadKept(op) ==
    /\ pc'[op] \in Reading => pc[op] \in Reading /\ local'[op].base = local[op].base
    /\ running' # running => pc[op] \in UnderLock \ Reading

Advance(op) == Own(op) /\ LockKept(op) /\ ReadKept(op)

LEMMA GoAdvances ==
    ASSUME ControlOK, NEW op \in Ops, NEW place, NEW new, Go(op, place, new),
           place \in UnderLock => pc[op] \in UnderLock /\ new.disturbed = local[op].disturbed,
           place \in Reading => pc[op] \in Reading /\ new.base = local[op].base,
           running' # running => pc[op] \in UnderLock \ Reading
    PROVE  Advance(op)
BY DEF ControlOK, Go, Advance, Own, LockKept, ReadKept

LEMMA RejectAdvances ==
    ASSUME ControlOK, NEW op \in Ops, Reject(op), running' # running => pc[op] \in UnderLock \ Reading
    PROVE  Advance(op)
BY DEF ControlOK, Reject, Leaves, Advance, Own, LockKept, ReadKept, Reading

LEMMA ConcludeAdvances ==
    ASSUME ControlOK, NEW op \in Ops, NEW application, Conclude(op, application), pc[op] \in UnderLock \ Reading
    PROVE  Advance(op)
BY DEF ControlOK, Conclude, Advance, Own, LockKept, ReadKept, Reading

\* The places of the two halves of an operation.
LEMMA PlaceKinds ==
    /\ UnderLock \ Reading = Stepping
    /\ Reading = {"scope", "network", "definition", "exists", "candidate"}
    /\ Stepping = {"send", "check", "retry", "undo-check", "undo-send", "persist"}
BY DEF UnderLock, Reading, Stepping

LEMMA OpenAdvances == ASSUME IInv, NEW op \in Ops, OpenForm(op) \/ Submit(op) \/ LockTimeout(op) PROVE Advance(op)
<1>1. ControlOK /\ running' = running
  BY DEF IInv, OpenForm, Submit, LockTimeout
<1>2. {"form", "waiting"} \cap UnderLock = {}
  BY DEF UnderLock, Reading, Stepping
<1>3. {"form", "waiting"} \cap Reading = {}
  BY DEF Reading
<1> QED
  BY <1>1, <1>2, <1>3, GoAdvances, RejectAdvances DEF OpenForm, Submit, LockTimeout

LEMMA ReadAdvances ==
    ASSUME IInv, NEW op \in Ops,
           ReadFails(op) \/ ReadScope(op) \/ RequireNetwork(op) \/ ReadDefinition(op) \/ ReadExists(op) \/ ReadCandidate(op)
    PROVE  Advance(op)
<1>1. ControlOK /\ local[op] \in Locals /\ running' = running /\ pc[op] \in Reading /\ pc[op] \in UnderLock
  BY OfOp DEF ReadFails, ReadScope, RequireNetwork, ReadDefinition, ReadExists, ReadCandidate, ReadOnly, UnderLock, Reading
<1>2. ASSUME NEW place \in Reading \cup {"send"}, NEW plan, NEW target, Proceed(op, place, plan, target)
      PROVE  Advance(op)
  <2> DEFINE new == [local[op] EXCEPT !.todo = plan, !.view = target]
  <2>1. new.disturbed = local[op].disturbed /\ new.base = local[op].base
    BY <1>1 DEF Locals
  <2>2. Go(op, place, new)
    BY <1>2 DEF Proceed
  <2> HIDE DEF new
  <2> QED
    BY <1>1, <2>1, <2>2, GoAdvances
<1>3. CASE Reject(op)
  BY <1>1, <1>3, RejectAdvances
<1>4. CASE ReadScope(op)
  <2>1. PICK complete \in BOOLEAN :
          CASE req[op].kind = "add-subnet"  -> ScopeForAdd(op, complete)
            [] req[op].kind = "edit-subnet" -> ScopeForEdit(op, complete)
            [] OTHER                        -> ScopeForTarget(op, complete)
    BY <1>4 DEF ReadScope
  <2>2. CASE ScopeForAdd(op, complete)
    BY <1>2, <1>3, <2>2 DEF ScopeForAdd, Reading
  <2>3. CASE ScopeForEdit(op, complete)
    BY <1>2, <1>3, <2>3 DEF ScopeForEdit, Reading
  <2>4. CASE ScopeForTarget(op, complete)
    BY <1>2, <1>3, <2>4 DEF ScopeForTarget, Reading
  <2> QED
    BY <2>1, <2>2, <2>3, <2>4
<1>5. CASE RequireNetwork(op)
  <2>1. ASSUME NEW place, Go(op, place, local[op]) PROVE Advance(op)
    BY <1>1, <2>1, GoAdvances
  <2> QED
    BY <1>3, <1>5, <2>1 DEF RequireNetwork
<1>6. ASSUME NEW new, Go(op, "send", new), new.disturbed = local[op].disturbed PROVE Advance(op)
  BY <1>1, <1>6, GoAdvances DEF Reading
<1>7. CASE ReadDefinition(op)
  <2>1. ASSUME NEW plan, NEW definition, StartFrom(op, plan, definition) PROVE Advance(op)
    <3> DEFINE new == [local[op] EXCEPT !.todo = plan, !.view.definition = definition, !.base = running]
    <3>1. new.disturbed = local[op].disturbed
      BY <1>1 DEF Locals
    <3>2. Go(op, "send", new)
      BY <2>1 DEF StartFrom
    <3> HIDE DEF new
    <3> QED
      BY <1>6, <3>1, <3>2
  <2> QED
    BY <1>3, <1>7, <2>1 DEF ReadDefinition
<1>8. CASE ReadExists(op)
  BY <1>2, <1>3, <1>8 DEF ReadExists
<1>9. CASE ReadCandidate(op)
  <2> DEFINE new == [local[op] EXCEPT !.todo = <<Last(ConfigSet(Candidate(req[op], running)))>>,
                                      !.view = NoTarget, !.base = running]
  <2>1. new.disturbed = local[op].disturbed
    BY <1>1 DEF Locals
  <2>2. Reject(op) \/ Go(op, "send", new)
    BY <1>9 DEF ReadCandidate
  <2> HIDE DEF new
  <2> QED
    BY <1>3, <1>6, <2>1, <2>2
<1>10. CASE ReadFails(op)
  BY <1>3, <1>10 DEF ReadFails
<1> QED
  BY <1>4, <1>5, <1>7, <1>8, <1>9, <1>10

LEMMA ActAdvances == ASSUME IInv, NEW op \in Ops, Act(op) PROVE Advance(op)
<1>1. ControlOK /\ local[op] \in Locals /\ pc[op] \in UnderLock \ Reading
  BY OfOp, PlaceKinds DEF Act, Send, Check, Reallocate, CheckUndo, SendUndo, Persist
<1>2. ASSUME NEW place \in UnderLock \ Reading, NEW new, Go(op, place, new), new.disturbed = local[op].disturbed
      PROVE  Advance(op)
  BY <1>1, <1>2, GoAdvances
<1>3. CASE Reject(op)
  BY <1>1, <1>3, RejectAdvances
<1>4. ASSUME NEW application, Conclude(op, application) PROVE Advance(op)
  BY <1>1, <1>4, ConcludeAdvances
<1>5. CASE Abandon(op)
  BY <1>2, <1>3, <1>5, PlaceKinds DEF Abandon
<1>6. CASE Send(op)
  <2>1. CASE NextStep(op)
    <3> DEFINE new == [local[op] EXCEPT !.todo = Tail(local[op].todo),
                           !.done = IF Head(local[op].todo).undo = NoUndo THEN @ ELSE <<Head(local[op].todo).undo>> \o @]
    <3>1. new.disturbed = local[op].disturbed
      BY <1>1 DEF Locals
    <3>2. Conclude(op, "applied") \/ Go(op, "send", new)
      BY <2>1 DEF NextStep
    <3> HIDE DEF new
    <3> QED
      BY <1>2, <1>4, <3>1, <3>2, PlaceKinds
  <2>2. CASE Go(op, "check", local[op])
    BY <1>2, <2>2, PlaceKinds
  <2> QED
    BY <1>4, <1>5, <1>6, <2>1, <2>2 DEF Send
<1>7. CASE Check(op)
  BY <1>2, <1>4, <1>5, <1>7, PlaceKinds DEF Check
<1>8. CASE Reallocate(op)
  <2>1. ASSUME NEW id, Go(op, "send", [local[op] EXCEPT !.todo = AddPlan(req[op], id), !.view.id = id, !.retried = TRUE])
        PROVE  Advance(op)
    <3> DEFINE new == [local[op] EXCEPT !.todo = AddPlan(req[op], id), !.view.id = id, !.retried = TRUE]
    <3>1. new.disturbed = local[op].disturbed /\ Go(op, "send", new)
      BY <1>1, <2>1 DEF Locals
    <3> HIDE DEF new
    <3> QED
      BY <1>2, <3>1, PlaceKinds
  <2> QED
    BY <1>3, <1>8, <2>1 DEF Reallocate
<1>9. CASE CheckUndo(op)
  <2> DEFINE new == [local[op] EXCEPT !.stale = \E other \in Ops \ {op} : pc[other] \in UnderLock]
  <2>1. new.disturbed = local[op].disturbed
    BY <1>1 DEF Locals
  <2>2. Conclude(op, "unknown") \/ Go(op, "undo-send", new)
    BY <1>9 DEF CheckUndo
  <2> HIDE DEF new
  <2> QED
    BY <1>2, <1>4, <2>1, <2>2, PlaceKinds
<1>10. CASE SendUndo(op)
  <2> DEFINE new == [local[op] EXCEPT !.done = Tail(local[op].done)]
  <2>1. new.disturbed = local[op].disturbed
    BY <1>1 DEF Locals
  <2>2. Reject(op) \/ Conclude(op, "unknown") \/ Go(op, "undo-check", new)
    BY <1>10 DEF SendUndo
  <2> HIDE DEF new
  <2> QED
    BY <1>2, <1>3, <1>4, <2>1, <2>2, PlaceKinds
<1>11. CASE Persist(op)
  <2>1. Leaves(op) /\ UNCHANGED running
    BY <1>11 DEF Persist
  <2>2. \A other \in Ops \ {op} : outcome'[other] = outcome[other]
    BY <1>1, <1>11 DEF Persist, ControlOK
  <2> QED
    BY <1>1, <2>1, <2>2, PlaceKinds DEF ControlOK, Leaves, Advance, Own, LockKept, ReadKept
<1> QED
  BY <1>6, <1>7, <1>8, <1>9, <1>10, <1>11 DEF Act

\* Every action of op is Acquire or advances op.
LEMMA OpSteps ==
    ASSUME IInv, NEW op \in Ops, OpenForm(op) \/ Submit(op) \/ Prepare(op) \/ Act(op), ~Acquire(op)
    PROVE  Advance(op)
BY OpenAdvances, ReadAdvances, ActAdvances DEF Prepare

\* A writer outside the lock changes what Kea runs, and every change under the lock knows of it afterwards.
Outsider ==
    /\ pc' = pc /\ outcome' = outcome
    /\ \A op \in Ops :
        local'[op].disturbed = FALSE /\ pc[op] \in UnderLock =>
            local'[op] = local[op] /\ running' = running /\ (lock = op => lock' = lock)

LEMMA EnvironmentIsOutside == ASSUME IInv, Environment PROVE Outsider
<1>1. ControlOK
  BY DEF IInv
<1>2. ASSUME NEW ops, Disturb(ops), NEW op \in Ops
      PROVE  /\ op \in ops => local'[op].disturbed = TRUE
             /\ op \notin ops => local'[op] = local[op]
  BY <1>1, <1>2 DEF Disturb, ControlOK, Locals
<1>3. \A op \in Ops : pc[op] \in UnderLock => op \in Active
  BY DEF Active
<1>4. CASE AdminWrites \/ LateRequest \/ Restart
  <2>1. Disturb(Active)
    BY <1>4 DEF AdminWrites, LateRequest, Restart
  <2> QED
    BY <1>2, <1>3, <2>1 DEF Outsider, Disturb
<1>5. CASE LoseLock
  <2>1. Disturb({lock}) /\ running' = running
    BY <1>5 DEF LoseLock
  <2> QED
    BY <1>2, <2>1 DEF Outsider, Disturb
<1>6. CASE OtherPersist
  BY <1>6 DEF OtherPersist, control, Outsider
<1> QED
  BY <1>4, <1>5, <1>6 DEF Environment

------------------------------------------------------------------------------
(* The advisory lock.                                                      *)

LockInv == Exclusive /\ ReadsAreCurrent

LEMMA LockInvInit == Init => LockInv
BY DEF Init, LockInv, Exclusive, ReadsAreCurrent, UnderLock, Reading, Stepping

\* A change that takes the lock finds nobody under it, or knows of the one that lost it.
LEMMA AcquireLock ==
    ASSUME IInv, LockInv, NEW op \in Ops, Acquire(op)
    PROVE  LockInv'
<1>1. /\ lock = None /\ lock' = op /\ running' = running
      /\ pc' = [pc EXCEPT ![op] = FirstRead(req[op])]
      /\ local' = [local EXCEPT ![op].base = running,
                                ![op].disturbed = \E other \in Ops : pc[other] \in UnderLock]
  BY DEF Acquire, LockFree
<1>2. ControlOK /\ local[op] \in Locals /\ None \notin Ops
  BY OfOp, ConfigWriteAssumption
<1>3. \A other \in Ops : pc[other] \in UnderLock => local[other].disturbed
  BY <1>1, <1>2 DEF LockInv, Exclusive
<1>4. /\ local'[op].base = running
      /\ local'[op].disturbed = \E other \in Ops : pc[other] \in UnderLock
  BY <1>1, <1>2 DEF ControlOK, Locals
<1>5. \A other \in Ops \ {op} : pc'[other] = pc[other] /\ local'[other] = local[other]
  BY <1>1, <1>2 DEF ControlOK
<1>6. Exclusive'
  BY <1>1, <1>3, <1>4, <1>5 DEF Exclusive
<1>7. ReadsAreCurrent'
  BY <1>1, <1>3, <1>4, <1>5 DEF ReadsAreCurrent, UnderLock
<1> QED
  BY <1>6, <1>7 DEF LockInv

\* A change that goes on disturbs nobody: only one that nothing disturbed is under the lock.
LEMMA AdvanceLock ==
    ASSUME IInv, LockInv, NEW op \in Ops, Advance(op)
    PROVE  LockInv'
<1>1. Own(op) /\ LockKept(op) /\ ReadKept(op)
  BY DEF Advance
<1>2. "done" \notin UnderLock
  BY DEF UnderLock, Reading, Stepping
<1>3. Exclusive'
  <2> SUFFICES ASSUME NEW one \in Ops, pc'[one] \in UnderLock, ~local'[one].disturbed
               PROVE  lock' = one /\ \A other \in Ops \ {one} : pc'[other] \notin UnderLock
    BY DEF Exclusive
  <2>1. pc[one] \in UnderLock /\ ~local[one].disturbed
    BY <1>1, <1>2 DEF Own, LockKept
  <2>2. lock = one /\ \A other \in Ops \ {one} : pc[other] \notin UnderLock
    BY <2>1 DEF LockInv, Exclusive
  <2>3. lock' = one
    BY <1>1, <1>2, <2>2 DEF LockKept
  <2>4. \A other \in Ops \ {one} : pc'[other] \notin UnderLock
    BY <1>1, <1>2, <2>2 DEF Own, LockKept
  <2> QED
    BY <2>3, <2>4
<1>4. ReadsAreCurrent'
  <2> SUFFICES ASSUME NEW one \in Ops, pc'[one] \in Reading, ~local'[one].disturbed
               PROVE  running' = local'[one].base
    BY DEF ReadsAreCurrent
  <2>1. pc[one] \in Reading /\ pc[one] \in UnderLock /\ local'[one].base = local[one].base
    BY <1>1 DEF Own, ReadKept, UnderLock
  <2>2. ~local[one].disturbed
    BY <1>1, <1>2, <2>1 DEF Own, LockKept, UnderLock
  <2>3. running = local[one].base
    BY <2>1, <2>2 DEF LockInv, ReadsAreCurrent
  <2>4. running' = running
    BY <1>1, <2>1, <2>2 DEF ReadKept, LockInv, Exclusive
  <2> QED
    BY <2>1, <2>3, <2>4
<1> QED
  BY <1>3, <1>4 DEF LockInv

LEMMA OutsiderLock ==
    ASSUME LockInv, Outsider, IInv'
    PROVE  LockInv'
<1>1. ASSUME NEW op \in Ops, pc'[op] \in UnderLock, ~local'[op].disturbed, local'[op].disturbed \in BOOLEAN
      PROVE  /\ lock' = op
             /\ \A other \in Ops \ {op} : pc'[other] \notin UnderLock
             /\ pc'[op] \in Reading => running' = local'[op].base
  BY <1>1 DEF Outsider, LockInv, Exclusive, ReadsAreCurrent
<1>2. \A op \in Ops : local'[op].disturbed \in BOOLEAN
  BY DEF IInv, ControlOK, Locals
<1> QED
  BY <1>1, <1>2 DEF LockInv, Exclusive, ReadsAreCurrent, UnderLock

LEMMA LockInvNext == IInv /\ LockInv /\ [Next]_vars => LockInv'
<1> SUFFICES ASSUME IInv, LockInv, [Next]_vars PROVE LockInv'
  OBVIOUS
<1>1. IInv'
  BY IInvNext
<1>2. ASSUME NEW op \in Ops, OpenForm(op) \/ Submit(op) \/ Prepare(op) \/ Act(op) PROVE LockInv'
  BY <1>2, OpSteps, AcquireLock, AdvanceLock
<1>3. CASE Environment
  BY <1>1, <1>3, EnvironmentIsOutside, OutsiderLock
<1>4. CASE UNCHANGED vars
  BY <1>4 DEF vars, control, LockInv, Exclusive, ReadsAreCurrent
<1> QED
  BY <1>2, <1>3, <1>4 DEF Next, Terminating

\* The changes of one daemon run one at a time: a change that nothing disturbed is alone under the lock of _serialized.
THEOREM LockExcludes == Spec => []Exclusive
<1>1. LockInv => Exclusive
  BY DEF LockInv
<1> QED
  BY <1>1, IInvInit, IInvNext, LockInvInit, LockInvNext, PTL DEF Spec

\* A change decides on current facts: until it sends its first command, Kea runs what it ran when the change took the
\* lock.
THEOREM ReadsStayCurrent == Spec => []ReadsAreCurrent
<1>1. LockInv => ReadsAreCurrent
  BY DEF LockInv
<1> QED
  BY <1>1, IInvInit, IInvNext, LockInvInit, LockInvNext, PTL DEF Spec

------------------------------------------------------------------------------
(* The persist step.                                                       *)

\* The persistence of an outcome is known when the operation ends.
NotYetPersisted == \A op \in Ops : pc[op] # "done" => outcome[op].persistence # "persisted"

DiskInv == NotYetPersisted /\ PersistedSurvivesRestart

\* What a step can do to the history marks: a change marks a part only when it sends, and the disk copy gets all the
\* marks of what Kea runs.
MarksKept(op) ==
    /\ \A p \in Parts : marks'[p] \in {marks[p], None} \/ (marks'[p] = op /\ pc[op] = "send")
    /\ diskMarks' = diskMarks \/ diskMarks' = marks'
    /\ \/ outcome'[op].persistence = outcome[op].persistence
       \/ outcome'[op].persistence # "persisted"
       \/ pc'[op] = "done" /\ diskMarks' = marks'
    /\ pc[op] # "done"

LEMMA MarkedBy ==
    ASSUME NEW cmd, NEW writer, NEW origin, Execute(cmd, writer, origin), NEW p \in Parts
    PROVE  marks'[p] \in {marks[p], None, writer}
BY DEF Execute, Marked

\* The continuations leave the persistence of the outcome as it is.
LEMMA SamePersistence ==
    ASSUME ControlOK, NEW op \in Ops,
           \/ \E place, new : Go(op, place, new)
           \/ Reject(op)
           \/ \E application : Conclude(op, application)
           \/ Abandon(op)
           \/ NextStep(op)
    PROVE  outcome'[op].persistence = outcome[op].persistence
<1>1. outcome[op] \in Outcomes
  BY DEF ControlOK
<1>2. \A application : [outcome[op] EXCEPT !.application = application].persistence = outcome[op].persistence
  BY <1>1 DEF Outcomes
<1>3. ASSUME NEW application, outcome' = [outcome EXCEPT ![op].application = application]
      PROVE  outcome'[op].persistence = outcome[op].persistence
  BY <1>2, <1>3 DEF ControlOK
<1> QED
  BY <1>3 DEF Go, Reject, Conclude, Abandon, NextStep

LEMMA OpenMarks ==
    ASSUME IInv, NEW op \in Ops, OpenForm(op) \/ Submit(op) \/ LockTimeout(op) \/ Acquire(op)
    PROVE  MarksKept(op)
<1>1. UNCHANGED <<marks, diskMarks>> /\ pc[op] # "done"
  BY DEF OpenForm, Submit, LockTimeout, Acquire
<1>2. outcome'[op].persistence = outcome[op].persistence
  BY SamePersistence DEF IInv, OpenForm, Submit, LockTimeout, Acquire
<1> QED
  BY <1>1, <1>2 DEF MarksKept

LEMMA ReadMarks ==
    ASSUME IInv, NEW op \in Ops,
           ReadFails(op) \/ ReadScope(op) \/ RequireNetwork(op) \/ ReadDefinition(op) \/ ReadExists(op) \/ ReadCandidate(op)
    PROVE  MarksKept(op)
<1>1. UNCHANGED <<marks, diskMarks>> /\ pc[op] # "done"
  BY DEF ReadFails, ReadScope, RequireNetwork, ReadDefinition, ReadExists, ReadCandidate, ReadOnly, Reading
<1>2. Reject(op) \/ \E place, new : Go(op, place, new)
  <2>1. CASE ReadScope(op)
    BY <2>1 DEF ReadScope, ScopeForAdd, ScopeForEdit, ScopeForTarget, Proceed
  <2>2. CASE ReadFails(op) \/ RequireNetwork(op) \/ ReadDefinition(op) \/ ReadExists(op) \/ ReadCandidate(op)
    BY <2>2 DEF ReadFails, RequireNetwork, ReadDefinition, StartFrom, ReadExists, Proceed, ReadCandidate
  <2> QED
    BY <2>1, <2>2
<1> QED
  BY <1>1, <1>2, SamePersistence DEF MarksKept, IInv

LEMMA ActMarks == ASSUME IInv, NEW op \in Ops, Act(op) PROVE MarksKept(op)
<1>1. ControlOK /\ pc[op] # "done"
  BY DEF IInv, Act, Send, Check, Reallocate, CheckUndo, SendUndo, Persist
<1>2. CASE Send(op)
  <2>1. diskMarks' = diskMarks /\ pc[op] = "send"
    BY <1>2 DEF Send
  <2>2. \A p \in Parts : marks'[p] \in {marks[p], None, op}
    BY <1>2, MarkedBy DEF Send, Perhaps, Linger
  <2>3. outcome'[op].persistence = outcome[op].persistence
    BY <1>1, <1>2, SamePersistence DEF Send
  <2> QED
    BY <1>1, <2>1, <2>2, <2>3 DEF MarksKept
<1>3. CASE SendUndo(op)
  <2>1. diskMarks' = diskMarks
    BY <1>3 DEF SendUndo
  <2>2. \A p \in Parts : marks'[p] \in {marks[p], None}
    BY <1>3, MarkedBy DEF SendUndo, Perhaps, Linger
  <2>3. outcome'[op].persistence = outcome[op].persistence
    BY <1>1, <1>3, SamePersistence DEF SendUndo
  <2> QED
    BY <1>1, <2>1, <2>2, <2>3 DEF MarksKept
<1>4. CASE Check(op) \/ Reallocate(op) \/ CheckUndo(op)
  <2>1. UNCHANGED <<marks, diskMarks>>
    BY <1>4 DEF Check, Reallocate, CheckUndo, ReadOnly
  <2>2. outcome'[op].persistence = outcome[op].persistence
    BY <1>1, <1>4, SamePersistence DEF Check, Reallocate, CheckUndo
  <2> QED
    BY <1>1, <2>1, <2>2 DEF MarksKept
<1>5. CASE Persist(op)
  <2>1. marks' = marks /\ pc'[op] = "done"
    BY <1>1, <1>5 DEF Persist, Leaves, ControlOK
  <2>2. PICK persistence \in {"persisted", "failed", "not-requested"} :
          /\ outcome' = [outcome EXCEPT ![op].persistence = persistence]
          /\ persistence = "persisted" => WriteDisk
          /\ WriteDisk \/ diskMarks' = diskMarks
    BY <1>5 DEF Persist
  <2>3. outcome'[op].persistence = persistence
    BY <1>1, <2>2 DEF ControlOK, Outcomes
  <2> QED
    BY <1>1, <2>1, <2>2, <2>3 DEF MarksKept, WriteDisk
<1> QED
  BY <1>2, <1>3, <1>4, <1>5 DEF Act

LEMMA OpDisk ==
    ASSUME IInv, DiskInv, NEW op \in Ops, MarksKept(op), Own(op)
    PROVE  DiskInv'
<1>1. None \notin Ops
  BY ConfigWriteAssumption
<1>2. NotYetPersisted'
  BY DEF DiskInv, NotYetPersisted, MarksKept, Own
<1>3. PersistedSurvivesRestart'
  <2> SUFFICES ASSUME NEW one \in Ops, NEW p \in Parts, pc'[one] = "done",
                      outcome'[one].persistence = "persisted", marks'[p] = one
               PROVE  diskMarks'[p] = one
    BY DEF PersistedSurvivesRestart
  <2>1. CASE diskMarks' = marks'
    BY <2>1
  <2>2. CASE one = op /\ diskMarks' # marks'
    BY <2>2 DEF MarksKept, DiskInv, NotYetPersisted
  <2>3. CASE one # op /\ diskMarks' # marks'
    BY <1>1, <2>3 DEF MarksKept, Own, DiskInv, PersistedSurvivesRestart
  <2> QED
    BY <2>1, <2>2, <2>3
<1> QED
  BY <1>2, <1>3 DEF DiskInv

LEMMA EnvironmentDisk == ASSUME IInv, DiskInv, Environment PROVE DiskInv'
<1>1. pc' = pc /\ outcome' = outcome
  BY EnvironmentIsOutside DEF Outsider
<1>2. Outside \notin Ops /\ None \notin Ops
  BY ConfigWriteAssumption
<1>3. CASE AdminWrites \/ LateRequest
  <2>1. diskMarks' = diskMarks /\ \A p \in Parts : marks'[p] \in {marks[p], None, Outside}
    BY <1>3, MarkedBy DEF AdminWrites, LateRequest
  <2> QED
    BY <1>1, <1>2, <2>1 DEF DiskInv, NotYetPersisted, PersistedSurvivesRestart
<1>4. CASE Restart \/ OtherPersist
  <2>1. diskMarks' = marks'
    BY <1>4 DEF Restart, OtherPersist, WriteDisk
  <2> QED
    BY <1>1, <2>1 DEF DiskInv, NotYetPersisted, PersistedSurvivesRestart
<1>5. CASE LoseLock
  BY <1>1, <1>5 DEF LoseLock, DiskInv, NotYetPersisted, PersistedSurvivesRestart
<1> QED
  BY <1>3, <1>4, <1>5 DEF Environment

LEMMA DiskInvNext == IInv /\ DiskInv /\ [Next]_vars => DiskInv'
<1> SUFFICES ASSUME IInv, DiskInv, [Next]_vars PROVE DiskInv'
  OBVIOUS
<1>1. ASSUME NEW op \in Ops, OpenForm(op) \/ Submit(op) \/ Prepare(op) \/ Act(op) PROVE DiskInv'
  <2>1. MarksKept(op)
    BY <1>1, OpenMarks, ReadMarks, ActMarks DEF Prepare
  <2>2. Own(op)
    <3>1. CASE Acquire(op)
      BY <3>1 DEF Acquire, Own, IInv, ControlOK
    <3>2. CASE ~Acquire(op)
      BY <1>1, <3>2, OpSteps DEF Advance
    <3> QED
      BY <3>1, <3>2
  <2> QED
    BY <2>1, <2>2, OpDisk
<1>2. CASE Environment
  BY <1>2, EnvironmentDisk
<1>3. CASE UNCHANGED vars
  BY <1>3 DEF vars, control, DiskInv, NotYetPersisted, PersistedSurvivesRestart
<1> QED
  BY <1>1, <1>2, <1>3 DEF Next, Terminating

\* A change that reports "persisted" is in the configuration that Kea loads at its next start, as long as nobody
\* replaced what it wrote.
THEOREM PersistIsDurable == Spec => []PersistedSurvivesRestart
<1>1. Init => DiskInv
  BY DEF Init, DiskInv, NotYetPersisted, PersistedSurvivesRestart, Unfinished
<1>2. DiskInv => PersistedSurvivesRestart
  BY DEF DiskInv
<1> QED
  BY <1>1, <1>2, IInvInit, IInvNext, DiskInvNext, PTL DEF Spec


------------------------------------------------------------------------------
(* Short sequences.                                                        *)

LEMMA EqualSequences ==
    ASSUME NEW S, NEW s \in Seq(S), NEW t \in Seq(S), Len(s) = Len(t), \A i \in 1..Len(s) : s[i] = t[i]
    PROVE  s = t
OBVIOUS

LEMMA JoinTwo == ASSUME NEW x, NEW y PROVE <<x>> \o <<y>> = <<x, y>>
<1> DEFINE S == {x, y}  s == <<x>> \o <<y>>  t == <<x, y>>
<1>1. <<x>> \in Seq(S) /\ <<y>> \in Seq(S)
  OBVIOUS
<1>2. s \in Seq(S) /\ Len(s) = 2 /\ s[1] = x /\ s[2] = y
  BY <1>1
<1>3. t \in Seq(S) /\ Len(t) = 2 /\ t[1] = x /\ t[2] = y
  OBVIOUS
<1>4. \A i \in 1..2 : i = 1 \/ i = 2
  OBVIOUS
<1> HIDE DEF S, s, t
<1>5. s = t
  BY <1>2, <1>3, <1>4, EqualSequences
<1> QED
  BY <1>5 DEF s, t

LEMMA JoinThree == ASSUME NEW x, NEW y, NEW z PROVE <<x, y>> \o <<z>> = <<x, y, z>>
<1> DEFINE S == {x, y, z}  s == <<x, y>> \o <<z>>  t == <<x, y, z>>
<1>1. <<x, y>> \in Seq(S) /\ <<z>> \in Seq(S)
  OBVIOUS
<1>2. s \in Seq(S) /\ Len(s) = 3 /\ s[1] = x /\ s[2] = y /\ s[3] = z
  BY <1>1
<1>3. t \in Seq(S) /\ Len(t) = 3 /\ t[1] = x /\ t[2] = y /\ t[3] = z
  OBVIOUS
<1>4. \A i \in 1..3 : i = 1 \/ i = 2 \/ i = 3
  OBVIOUS
<1> HIDE DEF S, s, t
<1>5. s = t
  BY <1>2, <1>3, <1>4, EqualSequences
<1> QED
  BY <1>5 DEF s, t

LEMMA HeadsAndTails ==
    /\ \A x : Head(<<x>>) = x /\ Tail(<<x>>) = <<>> /\ <<x>> # <<>>
    /\ \A x, y : Head(<<x, y>>) = x /\ Tail(<<x, y>>) = <<y>> /\ <<x, y>> # <<>>
    /\ \A x, y, z : Head(<<x, y, z>>) = x /\ Tail(<<x, y, z>>) = <<y, z>>
OBVIOUS

LEMMA JoinNone == ASSUME NEW x PROVE <<>> \o <<x>> = <<x>> /\ <<x>> \o <<>> = <<x>> /\ <<>> \o <<>> = <<>>
OBVIOUS

------------------------------------------------------------------------------
(* The parts of a configuration, and what each command does to them.       *)

\* The abstract specification has the same operators.
LEMMA SameOperators ==
    /\ Change!Ids = Ids /\ Change!Parts = Parts
    /\ \A c, id : Change!Present(c, id) = Present(c, id)
    /\ \A c, p : Change!Part(c, p) = Part(c, p)
BY DEF Ids, Parts, Fields, Present, Part, Change!Ids, Change!Parts, Change!Fields, Change!Present, Change!Part

LEMMA PartCases ==
    \A p \in Parts : \/ \E field \in Fields, id \in Ids : p = <<field, id>>
                     \/ \E name \in Names : p = <<"net", name>>
                     \/ p = <<"server", "options">>
                     \/ p = <<"server", "defs">>
BY DEF Parts

LEMMA PartOf ==
    ASSUME NEW c
    PROVE  /\ \A field \in Fields, id \in Ids :
                <<field, id>> \in Parts /\ Part(c, <<field, id>>) = IF Present(c, id) THEN c.subnets[id][field] ELSE None
           /\ \A name \in Names : <<"net", name>> \in Parts /\ Part(c, <<"net", name>>) = c.nets[name]
           /\ Part(c, <<"server", "options">>) = c["options"] /\ Part(c, <<"server", "defs">>) = c["defs"]
BY DEF Part, Parts, Fields

\* A configuration is its fields.
LEMMA SameConfig ==
    ASSUME NEW c \in Config, NEW d \in Config, c.subnets = d.subnets, c.nets = d.nets, c.options = d.options, c.defs = d.defs
    PROVE  c = d
BY DEF Config

\* A change of one Subnet leaves every part of the others alone, and what the daemon has beside the Subnets.
LEMMA SubnetParts ==
    ASSUME NEW c \in Config, NEW id \in Ids, NEW subnet \in Subnet \cup {None}, NEW d, d = Change!WithSubnet(c, id, subnet)
    PROVE  /\ d \in Config /\ d.subnets[id] = subnet
           /\ \A p \in Parts : Part(d, p) = Part(c, p) \/ \E field \in Fields : p = <<field, id>>
           /\ \A field \in Fields : Part(d, <<field, id>>) = IF subnet = None THEN None ELSE subnet[field]
<1>1. d \in Config /\ d.subnets = [c.subnets EXCEPT ![id] = subnet] /\ d.nets = c.nets /\ d.options = c.options
      /\ d.defs = c.defs
  BY DEF Config, Change!WithSubnet
<1>2. d.subnets[id] = subnet /\ \A other \in Ids \ {id} : d.subnets[other] = c.subnets[other]
  BY <1>1 DEF Config
<1>3. \A field \in Fields : Part(d, <<field, id>>) = IF subnet = None THEN None ELSE subnet[field]
  BY <1>2, PartOf DEF Present
<1>4. ASSUME NEW field \in Fields, NEW other \in Ids \ {id} PROVE Part(d, <<field, other>>) = Part(c, <<field, other>>)
  <2>1. d.subnets[other] = c.subnets[other]
    BY <1>2
  <2> QED
    BY <2>1, PartOf DEF Present
<1>5. ASSUME NEW name \in Names PROVE Part(d, <<"net", name>>) = Part(c, <<"net", name>>)
  <2>1. Part(d, <<"net", name>>) = d.nets[name] /\ Part(c, <<"net", name>>) = c.nets[name]
    BY PartOf
  <2> QED
    BY <1>1, <2>1
<1>6. Part(d, <<"server", "options">>) = Part(c, <<"server", "options">>)
      /\ Part(d, <<"server", "defs">>) = Part(c, <<"server", "defs">>)
  BY <1>1, PartOf
<1>7. ASSUME NEW p \in Parts PROVE Part(d, p) = Part(c, p) \/ \E field \in Fields : p = <<field, id>>
  BY <1>4, <1>5, <1>6, PartCases
<1> QED
  BY <1>1, <1>2, <1>3, <1>7

\* What the commands that name a Subnet make of it.
LEMMA SubnetResults ==
    ASSUME NEW c \in Config, NEW id \in Ids
    PROVE  /\ \A subnet \in Subnet : Result(c, SubnetAdd(id, subnet)) = Change!WithSubnet(c, id, subnet)
           /\ Result(c, SubnetDel(id)) = Change!WithSubnet(c, id, None)
           /\ Present(c, id) => c.subnets[id] \in Subnet
           /\ \A subnet : Result(c, SubnetUpdate(id, subnet))
                = Change!WithSubnet(c, id, [subnet EXCEPT !.member = c.subnets[id].member])
           /\ Present(c, id) => \A name \in Names :
                /\ Result(c, Join(name, id)) = Change!WithSubnet(c, id, [c.subnets[id] EXCEPT !.member = name])
                /\ Result(c, Leave(name, id)) = Change!WithSubnet(c, id, [c.subnets[id] EXCEPT !.member = None])
           /\ Present(c, id) => \A network, pool :
                /\ Result(c, PoolAdd(id, network, pool))
                     = Change!WithSubnet(c, id, [c.subnets[id] EXCEPT !.pools = @ \cup {pool}])
                /\ Result(c, PoolDel(id, network, pool))
                     = Change!WithSubnet(c, id, [c.subnets[id] EXCEPT !.pools = @ \ {pool}])
<1>1. Present(c, id) => c.subnets[id] \in Subnet
  BY DEF Present, Config
<1>2. \A subnet \in Subnet : Result(c, SubnetAdd(id, subnet)) = Change!WithSubnet(c, id, subnet)
  BY DEF Result, SubnetAdd, Change!WithSubnet
<1>3. Result(c, SubnetDel(id)) = Change!WithSubnet(c, id, None)
  BY DEF Result, SubnetDel, Change!WithSubnet
<1>4. \A subnet : Result(c, SubnetUpdate(id, subnet))
        = Change!WithSubnet(c, id, [subnet EXCEPT !.member = c.subnets[id].member])
  BY DEF Result, SubnetUpdate, Change!WithSubnet
<1>5. Present(c, id) => \A name \in Names :
        /\ Result(c, Join(name, id)) = Change!WithSubnet(c, id, [c.subnets[id] EXCEPT !.member = name])
        /\ Result(c, Leave(name, id)) = Change!WithSubnet(c, id, [c.subnets[id] EXCEPT !.member = None])
  BY <1>1 DEF Result, Join, Leave, Change!WithSubnet, Config
<1>6. Present(c, id) => \A network, pool :
        /\ Result(c, PoolAdd(id, network, pool)) = Change!WithSubnet(c, id, [c.subnets[id] EXCEPT !.pools = @ \cup {pool}])
        /\ Result(c, PoolDel(id, network, pool)) = Change!WithSubnet(c, id, [c.subnets[id] EXCEPT !.pools = @ \ {pool}])
  BY <1>1 DEF Result, PoolAdd, PoolDel, Change!WithSubnet, Config
<1> QED
  BY <1>1, <1>2, <1>3, <1>4, <1>5, <1>6

\* What the other commands change.
LEMMA ServerParts ==
    ASSUME NEW c \in Config, NEW d \in Config
    PROVE  /\ d.subnets = c.subnets /\ d.options = c.options /\ d.defs = c.defs =>
                \A p \in Parts : Part(d, p) = Part(c, p) \/ \E name \in Names : p = <<"net", name>>
                /\ d.nets[name] # c.nets[name]
           /\ d.subnets = c.subnets /\ d.nets = c.nets /\ d.defs = c.defs =>
                \A p \in Parts : Part(d, p) = Part(c, p) \/ p = <<"server", "options">>
           /\ d.subnets = c.subnets /\ d.nets = c.nets /\ d.options = c.options =>
                \A p \in Parts : Part(d, p) = Part(c, p) \/ p = <<"server", "defs">>
<1>1. ASSUME d.subnets = c.subnets, NEW field \in Fields, NEW id \in Ids
      PROVE  Part(d, <<field, id>>) = Part(c, <<field, id>>)
  <2>1. /\ Part(d, <<field, id>>) = IF Present(d, id) THEN d.subnets[id][field] ELSE None
        /\ Part(c, <<field, id>>) = IF Present(c, id) THEN c.subnets[id][field] ELSE None
    BY PartOf
  <2> QED
    BY <1>1, <2>1 DEF Present
<1>2. \A name \in Names : d.nets[name] = c.nets[name] => Part(d, <<"net", name>>) = Part(c, <<"net", name>>)
  BY PartOf
<1>3. d.options = c.options => Part(d, <<"server", "options">>) = Part(c, <<"server", "options">>)
  BY PartOf
<1>4. d.defs = c.defs => Part(d, <<"server", "defs">>) = Part(c, <<"server", "defs">>)
  BY PartOf
<1> QED
  BY <1>1, <1>2, <1>3, <1>4, PartCases

------------------------------------------------------------------------------
(* What a change that nothing disturbs has read and done. Its base is what *)
(* Kea ran at the read that its write starts from.                         *)

Old(r, l) == l.seen.subnets[r.id]

\* What the first read found.
Found(r, l) ==
    /\ l.base \in Config
    /\ r.kind = "add-subnet" =>
         l.view.id \in Ids /\ ~Present(l.base, l.view.id) /\ r.id \in {l.view.id, None} /\ l.view.network = r.network
    /\ r.kind \in BySubnet =>
         /\ Present(l.base, r.id) /\ l.base.subnets[r.id].network = Old(r, l).network
         /\ r.kind # "set-subnet-options" => l.view.network = Old(r, l).network
    /\ r.kind = "edit-subnet" => l.base.subnets[r.id].member = Old(r, l).member

\* What the last read before the first command compared with the form.
Compared(r, l) ==
    /\ r.kind = "edit-subnet" =>
         /\ l.view.definition = Definition(l.base.subnets[r.id])
         /\ l.base.subnets[r.id].pools = Old(r, l).pools /\ l.base.subnets[r.id].managed = Old(r, l).managed
    /\ r.kind \in BySend \cup {"set-subnet-options"} => CanEdit(r, l.base, l.seen)
    /\ r.kind \in ByExists => HasNetwork(l.base, r.name) = (r.kind = "delete-network")

\* The command of a change that has only one.
TheCommand(r, l) ==
    CASE r.kind = "delete-subnet"  -> SubnetDel(r.id)
      [] r.kind = "add-pool"       -> PoolAdd(r.id, l.view.network, r.pool)
      [] r.kind = "delete-pool"    -> PoolDel(r.id, l.view.network, r.pool)
      [] r.kind = "add-network"    -> NetworkAdd(r.name)
      [] r.kind = "delete-network" -> NetworkDel(r.name)
      [] OTHER                     -> ConfigSet(Candidate(r, l.base))

\* The undo of each step of an add or a move, newest first.
UndoAdd(id) == [cmd |-> SubnetDel(id), member |-> None]
UndoLeave(r, member) == [cmd |-> Join(member, r.id), member |-> None]
UndoJoin(r) == [cmd |-> Leave(r.shared, r.id), member |-> r.shared]
MoveUndos(r, member) ==
    {done \in {<<UndoLeave(r, member)>>} : member \notin {None, r.shared}}
    \cup {done \in {<<UndoJoin(r), UndoLeave(r, member)>>} : member \notin {None, r.shared} /\ r.shared # None}
    \cup {done \in {<<UndoJoin(r)>>} : member = None /\ r.shared # None}

\* The Shared Network that an edit has its Subnet in by now.
MemberNow(r, l) == IF l.done = <<>> THEN Old(r, l).member ELSE Head(l.done).member
WithMember(c, id, member) == Change!WithSubnet(c, id, [c.subnets[id] EXCEPT !.member = member])

\* The change has done the steps that `done` undoes, and nothing else: Kea runs c.
Trail(r, l, c) ==
    \/ l.done = <<>> /\ c = l.base
    \/ /\ r.kind = "add-subnet" /\ r.shared # None /\ l.done = <<UndoAdd(l.view.id)>>
       /\ c = Change!WithSubnet(l.base, l.view.id, NewSubnet(r))
    \/ /\ r.kind = "edit-subnet" /\ l.done \in MoveUndos(r, Old(r, l).member)
       /\ c = WithMember(l.base, r.id, MemberNow(r, l))

\* The steps that it has still to do.
Ready(r, l) ==
    l.todo = CASE r.kind = "add-subnet" /\ l.done = <<>> -> AddPlan(r, l.view.id)
               [] r.kind = "add-subnet" /\ l.done # <<>> -> <<Last(Join(r.shared, l.view.id))>>
               [] r.kind = "edit-subnet" -> EditPlan(r, l.view.definition, MemberNow(r, l))
               [] OTHER -> <<Last(TheCommand(r, l))>>

\* The request and the form of a change, as Shape has them.
Formed(r, l) == r \in RequestForms /\ l \in Locals /\ l.seen \in Config /\ Shown(r, l.seen)

------------------------------------------------------------------------------
(* The plans, step by step.                                                *)

LeaveStep(r, member) == Step(Leave(member, r.id), Join(member, r.id), None)
JoinStep(r) == Step(Join(r.shared, r.id), Leave(r.shared, r.id), r.shared)
UpdateStep(r, definition) == Last(SubnetUpdate(r.id, Edited(r, definition)))

LEMMA EditPlanForms ==
    ASSUME NEW r, NEW definition, NEW member
    PROVE  /\ r.shared = member => EditPlan(r, definition, member) = <<UpdateStep(r, definition)>>
           /\ r.shared # member /\ member = None =>
                EditPlan(r, definition, member) = <<JoinStep(r), UpdateStep(r, definition)>>
           /\ r.shared # member /\ r.shared = None =>
                EditPlan(r, definition, member) = <<LeaveStep(r, member), UpdateStep(r, definition)>>
           /\ r.shared # member /\ r.shared # None /\ member # None =>
                EditPlan(r, definition, member) = <<LeaveStep(r, member), JoinStep(r), UpdateStep(r, definition)>>
<1> DEFINE leave == <<LeaveStep(r, member)>>  join == <<JoinStep(r)>>  update == <<UpdateStep(r, definition)>>
<1>1. EditPlan(r, definition, member)
        = (IF r.shared = member \/ member = None THEN <<>> ELSE leave)
          \o (IF r.shared = member \/ r.shared = None THEN <<>> ELSE join) \o update
  BY DEF EditPlan, LeaveStep, JoinStep, UpdateStep
<1> HIDE DEF leave, join, update
<1>2. <<>> \o <<>> \o update = update /\ <<>> \o join \o update = join \o update /\ leave \o <<>> \o update = leave \o update
  BY JoinNone DEF leave, join, update
<1>3. join \o update = <<JoinStep(r), UpdateStep(r, definition)>>
  BY JoinTwo DEF join, update
<1>4. leave \o update = <<LeaveStep(r, member), UpdateStep(r, definition)>>
  BY JoinTwo DEF leave, update
<1>5. leave \o join \o update = <<LeaveStep(r, member), JoinStep(r), UpdateStep(r, definition)>>
  <2>1. leave \o join = <<LeaveStep(r, member), JoinStep(r)>>
    BY JoinTwo DEF leave, join
  <2>2. <<LeaveStep(r, member), JoinStep(r)>> \o update = <<LeaveStep(r, member), JoinStep(r), UpdateStep(r, definition)>>
    BY JoinThree DEF update
  <2> QED
    BY <2>1, <2>2
<1>6. update = <<UpdateStep(r, definition)>>
  BY DEF update
<1> QED
  BY <1>1, <1>2, <1>3, <1>4, <1>5, <1>6

------------------------------------------------------------------------------
(* The steps of a plan follow the trail: each command that Kea runs leads  *)
(* to the next place of it, and the last one to what the request asks for. *)

\* What comes of the next command of a plan.
StepLeads(r, l, c) ==
    LET step == Head(l.todo)
        rest == Tail(l.todo)
        next == [l EXCEPT !.todo = rest, !.done = <<step.undo>> \o @]
        new  == Result(c, step.cmd)
    IN  Accepts(c, step.cmd) =>
            /\ rest = <<>> => new \in Change!Intended(r, l.base)
            /\ rest # <<>> => step.undo # NoUndo /\ Ready(r, next) /\ Trail(r, next, new)

LEMMA NoTrailYet ==
    ASSUME NEW r, NEW l, NEW c, Trail(r, l, c), l.done = <<>> \/ r.kind \notin {"add-subnet", "edit-subnet"}
    PROVE  l.done = <<>> /\ c = l.base
BY HeadsAndTails DEF Trail, MoveUndos

LEMMA SingleLeads ==
    ASSUME NEW r, NEW l, NEW c, Formed(r, l), Found(r, l), Compared(r, l), Ready(r, l), Trail(r, l, c),
           r.kind \notin {"add-subnet", "edit-subnet"}
    PROVE  StepLeads(r, l, c)
<1>1. c = l.base
  BY NoTrailYet
<1>2. Head(l.todo).cmd = TheCommand(r, l) /\ Tail(l.todo) = <<>>
  BY HeadsAndTails DEF Ready, Last
<1>3. c \in Config
  BY <1>1 DEF Found
<1> SUFFICES ASSUME Accepts(c, TheCommand(r, l)) PROVE Result(c, TheCommand(r, l)) \in Change!Intended(r, c)
  BY <1>1, <1>2 DEF StepLeads
<1>4. CASE r.kind = "delete-subnet"
  <2>1. TheCommand(r, l) = SubnetDel(r.id)
    BY <1>4 DEF TheCommand
  <2>2. Change!Intended(r, c) = {Change!WithSubnet(c, r.id, None)}
    BY <1>4 DEF Change!Intended
  <2>3. r.id \in Ids
    BY <1>4 DEF Formed, RequestForms
  <2> QED
    BY <1>3, <2>1, <2>2, <2>3, SubnetResults
<1>5. CASE r.kind \in {"add-pool", "delete-pool"}
  <2>1. CASE r.kind = "add-pool"
    <3>1. TheCommand(r, l) = PoolAdd(r.id, l.view.network, r.pool)
      BY <2>1 DEF TheCommand
    <3>2. Change!Intended(r, c) = {[c EXCEPT !.subnets[r.id].pools = @ \cup {r.pool}]}
      BY <2>1 DEF Change!Intended
    <3>3. Result(c, PoolAdd(r.id, l.view.network, r.pool)) = [c EXCEPT !.subnets[r.id].pools = @ \cup {r.pool}]
      BY DEF Result, PoolAdd
    <3> QED
      BY <3>1, <3>2, <3>3
  <2>2. CASE r.kind = "delete-pool"
    <3>1. TheCommand(r, l) = PoolDel(r.id, l.view.network, r.pool)
      BY <2>2 DEF TheCommand
    <3>2. Change!Intended(r, c) = {[c EXCEPT !.subnets[r.id].pools = @ \ {r.pool}]}
      BY <2>2 DEF Change!Intended
    <3>3. Result(c, PoolDel(r.id, l.view.network, r.pool)) = [c EXCEPT !.subnets[r.id].pools = @ \ {r.pool}]
      BY DEF Result, PoolDel
    <3> QED
      BY <3>1, <3>2, <3>3
  <2> QED
    BY <1>5, <2>1, <2>2
<1>6. CASE r.kind = "add-network"
  BY <1>6 DEF TheCommand, Result, NetworkAdd, Change!Intended
<1>7. CASE r.kind = "delete-network"
  <2>1. r.name \in Names
    BY <1>7 DEF Formed, RequestForms
  <2>2. ASSUME NEW id \in Ids
        PROVE  (Present(c, id) /\ c.subnets[id].member = r.name) <=> MemberOf(c, id, Part(c, <<"network", id>>), r.name)
    BY PartOf DEF MemberOf, Fields
  <2> DEFINE subnets == [id \in Ids |-> IF Present(c, id) /\ c.subnets[id].member = r.name
                                        THEN [c.subnets[id] EXCEPT !.member = None] ELSE c.subnets[id]]
  <2>3. TheCommand(r, l) = NetworkDel(r.name)
    BY <1>7 DEF TheCommand
  <2>4. Result(c, NetworkDel(r.name)) = [c EXCEPT !.nets[r.name] = None, !.subnets = subnets]
    BY DEF Result, NetworkDel
  <2> DEFINE goals == [id \in Change!Ids |-> IF Change!MemberOf(c, id, Change!Part(c, <<"network", id>>), r.name)
                                      THEN [c.subnets[id] EXCEPT !.member = None] ELSE c.subnets[id]]
  <2>5. Change!Intended(r, c) = {[c EXCEPT !.nets[r.name] = None, !.subnets = goals]}
    BY <1>7 DEF Change!Intended
  <2>6. subnets = goals
    <3>1. ASSUME NEW id \in Ids
          PROVE  Change!MemberOf(c, id, Change!Part(c, <<"network", id>>), r.name)
                   <=> MemberOf(c, id, Part(c, <<"network", id>>), r.name)
      BY SameOperators DEF MemberOf, Change!MemberOf
    <3> QED
      BY <2>2, <3>1, SameOperators
  <2> HIDE DEF subnets, goals
  <2> QED
    BY <2>3, <2>4, <2>5, <2>6
<1>8. CASE r.kind \in BySend \cup {"set-subnet-options"}
  <2>1. TheCommand(r, l) = ConfigSet(Candidate(r, c))
    BY <1>1, <1>8 DEF TheCommand, BySend
  <2>2. Result(c, ConfigSet(Candidate(r, c))) = Candidate(r, c)
    BY DEF Result, ConfigSet
  <2>3. Change!Intended(r, c) = {Candidate(r, c)}
    <3>1. CASE r.kind = "set-subnet-options"
      BY <3>1 DEF Candidate, Change!Intended
    <3>2. CASE r.kind = "set-server-options"
      BY <3>2 DEF Candidate, Change!Intended
    <3>3. CASE r.kind \in {"add-definition", "delete-definition"}
      BY <3>3 DEF Candidate, Change!Intended
    <3>4. CASE r.kind = "edit-network"
      BY <3>4 DEF Candidate, Change!Intended
    <3> QED
      BY <1>8, <3>1, <3>2, <3>3, <3>4 DEF BySend
  <2> QED
    BY <2>1, <2>2, <2>3
<1> QED
  BY <1>4, <1>5, <1>6, <1>7, <1>8 DEF Formed, RequestForms, BySend

\* The new Subnet is well typed, and the request has one in its Shared Network.
LEMMA NewSubnetGoal ==
    ASSUME NEW r, NEW l, Formed(r, l), r.kind = "add-subnet", Found(r, l)
    PROVE  /\ l.view.id \in Ids /\ r.shared \in Names \cup {None} /\ NewSubnet(r) \in Subnet
           /\ NewSubnet(r).network = r.network /\ NewSubnet(r).member = None
           /\ Change!WithSubnet(l.base, l.view.id, [NewSubnet(r) EXCEPT !.member = r.shared]) \in Change!Intended(r, l.base)
<1>1. l.view.id \in Ids /\ r.shared \in Names \cup {None} /\ NewSubnet(r) \in Subnet
  BY ConfigAssumption DEF Formed, Found, RequestForms, NewSubnet, Subnet
<1> DEFINE goal == [network |-> r.network, member |-> r.shared, pools |-> r.pools, managed |-> r.managed, unshown |-> Empty]
<1>2. [NewSubnet(r) EXCEPT !.member = r.shared] = goal /\ NewSubnet(r).member = None /\ NewSubnet(r).network = r.network
  BY DEF NewSubnet
<1>3. Change!Intended(r, l.base)
        = {Change!WithSubnet(l.base, id, goal) : id \in {i \in Change!Ids : ~Change!Present(l.base, i)
        /\ r.id \in {i, None}}}
  BY DEF Change!Intended
<1>4. l.view.id \in {i \in Change!Ids : ~Change!Present(l.base, i) /\ r.id \in {i, None}}
  BY <1>1, SameOperators DEF Found
<1> HIDE DEF goal
<1>5. Change!WithSubnet(l.base, l.view.id, goal) \in Change!Intended(r, l.base)
  BY <1>3, <1>4
<1> QED
  BY <1>1, <1>2, <1>5

\* The state after the next step, field by field.
LEMMA NextLocal ==
    ASSUME NEW l \in Locals, NEW rest, NEW undo
    PROVE  LET next == [l EXCEPT !.todo = rest, !.done = <<undo>> \o @]
           IN  /\ next.todo = rest /\ next.done = <<undo>> \o l.done
               /\ next.base = l.base /\ next.view = l.view /\ next.seen = l.seen
BY DEF Locals

\* A second change of the same Subnet replaces the first.
LEMMA WithSubnetTwice ==
    ASSUME NEW c \in Config, NEW id \in Ids, NEW one, NEW two
    PROVE  Change!WithSubnet(Change!WithSubnet(c, id, one), id, two) = Change!WithSubnet(c, id, two)
BY DEF Config, Change!WithSubnet

\* The commands of a membership.
LEMMA MemberResults ==
    ASSUME NEW c \in Config, NEW id \in Ids, Present(c, id), NEW name \in Names
    PROVE  /\ Result(c, Join(name, id)) = WithMember(c, id, name)
           /\ Result(c, Leave(name, id)) = WithMember(c, id, None)
<1>1. /\ Result(c, Join(name, id)) = Change!WithSubnet(c, id, [c.subnets[id] EXCEPT !.member = name])
      /\ Result(c, Leave(name, id)) = Change!WithSubnet(c, id, [c.subnets[id] EXCEPT !.member = None])
  BY SubnetResults
<1> QED
  BY <1>1 DEF WithMember

LEMMA AddLeads ==
    ASSUME NEW r, NEW l, NEW c, Formed(r, l), Found(r, l), Ready(r, l), Trail(r, l, c), r.kind = "add-subnet"
    PROVE  StepLeads(r, l, c)
<1> DEFINE id == l.view.id
           first == Change!WithSubnet(l.base, id, NewSubnet(r))
<1>1. /\ id \in Ids /\ r.shared \in Names \cup {None} /\ NewSubnet(r) \in Subnet /\ l.base \in Config
      /\ Change!WithSubnet(l.base, id, [NewSubnet(r) EXCEPT !.member = r.shared]) \in Change!Intended(r, l.base)
      /\ NewSubnet(r).member = None /\ l \in Locals
  BY NewSubnetGoal DEF Found, Formed
<1>2. Result(l.base, SubnetAdd(id, NewSubnet(r))) = first
  BY <1>1, SubnetResults
<1>3. CASE l.done = <<>> /\ r.shared = None
  <2>1. c = l.base
    BY <1>3, NoTrailYet
  <2>2. l.todo = <<Last(SubnetAdd(id, NewSubnet(r)))>>
    BY <1>3 DEF Ready, AddPlan
  <2>3. Head(l.todo).cmd = SubnetAdd(id, NewSubnet(r)) /\ Tail(l.todo) = <<>>
    BY <2>2, HeadsAndTails DEF Last
  <2>4. [NewSubnet(r) EXCEPT !.member = r.shared] = NewSubnet(r)
    BY <1>1, <1>3 DEF Subnet
  <2> HIDE DEF id, first
  <2> QED
    BY <1>1, <1>2, <2>1, <2>3, <2>4 DEF StepLeads, first, id
<1>4. CASE l.done = <<>> /\ r.shared # None
  <2> DEFINE undo == [cmd |-> SubnetDel(id), member |-> None]
             next == [l EXCEPT !.todo = <<Last(Join(r.shared, id))>>, !.done = <<undo>> \o @]
  <2>1. c = l.base
    BY <1>4, NoTrailYet
  <2>2. l.todo = <<Step(SubnetAdd(id, NewSubnet(r)), SubnetDel(id), None), Last(Join(r.shared, id))>>
    BY <1>4 DEF Ready, AddPlan
  <2>3. Head(l.todo) = Step(SubnetAdd(id, NewSubnet(r)), SubnetDel(id), None)
        /\ Tail(l.todo) = <<Last(Join(r.shared, id))>>
    BY <2>2, HeadsAndTails
  <2>4. Head(l.todo).cmd = SubnetAdd(id, NewSubnet(r)) /\ Head(l.todo).undo = undo
    BY <2>3 DEF Step
  <2>5. undo = UndoAdd(id) /\ undo # NoUndo
    <3>1. SubnetDel(id) # None
      BY <1>1, CommandTyped, ConfigWriteAssumption
    <3> QED
      BY <3>1 DEF UndoAdd, NoUndo
  <2>6. next.todo = <<Last(Join(r.shared, id))>> /\ next.done = <<UndoAdd(id)>> /\ next.base = l.base /\ next.view = l.view
    <3> HIDE DEF undo
    <3>1. <<undo>> \o l.done = <<undo>>
      BY <1>4, JoinNone
    <3> QED
      BY <1>1, <2>5, <3>1, NextLocal
  <2>7. <<UndoAdd(id)>> # <<>> /\ <<Last(Join(r.shared, id))>> # <<>>
    BY HeadsAndTails
  <2> HIDE DEF next
  <2>8. Ready(r, next) /\ Trail(r, next, first)
    BY <1>4, <2>6, <2>7 DEF Ready, Trail
  <2> USE DEF next
  <2> HIDE DEF undo, first, id
  <2> QED
    BY <1>2, <2>1, <2>3, <2>4, <2>5, <2>7, <2>8 DEF StepLeads
<1>5. CASE l.done # <<>>
  <2>1. r.shared # None /\ c = first
    BY <1>5 DEF Trail
  <2>2. l.todo = <<Last(Join(r.shared, id))>>
    BY <1>5 DEF Ready
  <2>3. Head(l.todo).cmd = Join(r.shared, id) /\ Tail(l.todo) = <<>>
    BY <2>2, HeadsAndTails DEF Last
  <2>4. first \in Config /\ first.subnets[id] = NewSubnet(r)
    BY <1>1, SubnetParts
  <2>5. Present(first, id)
    BY <1>1, <2>4, ConfigAssumption DEF Present
  <2> HIDE DEF id, first
  <2>6. Result(first, Join(r.shared, id)) = Change!WithSubnet(first, id, [first.subnets[id] EXCEPT !.member = r.shared])
    BY <1>1, <2>1, <2>4, <2>5, SubnetResults
  <2>7. Result(first, Join(r.shared, id)) = Change!WithSubnet(l.base, id, [NewSubnet(r) EXCEPT !.member = r.shared])
    BY <1>1, <2>4, <2>6, WithSubnetTwice DEF first
  <2> QED
    BY <1>1, <2>1, <2>3, <2>7 DEF StepLeads
<1> QED
  BY <1>3, <1>4, <1>5

\* The plan of an edit from one membership to the next.
LEMMA EditPlanStep ==
    ASSUME NEW r, NEW definition, NEW member
    PROVE  LET plan == EditPlan(r, definition, member)
           IN  /\ plan # <<>>
               /\ r.shared = member => Head(plan) = UpdateStep(r, definition) /\ Tail(plan) = <<>>
               /\ r.shared # member /\ member = None =>
                    Head(plan) = JoinStep(r) /\ Tail(plan) = EditPlan(r, definition, r.shared)
               /\ r.shared # member /\ member # None =>
                    Head(plan) = LeaveStep(r, member) /\ Tail(plan) = EditPlan(r, definition, None)
<1>1. r.shared # None => EditPlan(r, definition, None) = <<JoinStep(r), UpdateStep(r, definition)>>
  BY EditPlanForms
<1>2. r.shared = None => EditPlan(r, definition, None) = <<UpdateStep(r, definition)>>
  BY EditPlanForms
<1>3. EditPlan(r, definition, r.shared) = <<UpdateStep(r, definition)>>
  BY EditPlanForms
<1>4. CASE r.shared = member
  BY <1>3, <1>4, HeadsAndTails
<1>5. CASE r.shared # member /\ member = None
  <2>1. EditPlan(r, definition, member) = <<JoinStep(r), UpdateStep(r, definition)>>
    BY <1>5, EditPlanForms
  <2> QED
    BY <1>3, <1>5, <2>1, HeadsAndTails
<1>6. CASE r.shared # member /\ member # None /\ r.shared = None
  <2>1. EditPlan(r, definition, member) = <<LeaveStep(r, member), UpdateStep(r, definition)>>
    BY <1>6, EditPlanForms
  <2> QED
    BY <1>2, <1>6, <2>1, HeadsAndTails
<1>7. CASE r.shared # member /\ member # None /\ r.shared # None
  <2>1. EditPlan(r, definition, member) = <<LeaveStep(r, member), JoinStep(r), UpdateStep(r, definition)>>
    BY <1>7, EditPlanForms
  <2>2. <<LeaveStep(r, member), JoinStep(r), UpdateStep(r, definition)>> # <<>>
    OBVIOUS
  <2> QED
    BY <1>1, <1>7, <2>1, <2>2, HeadsAndTails
<1> QED
  BY <1>4, <1>5, <1>6, <1>7

\* What a move has done shows where its Subnet is by now.
LEMMA MoveCases ==
    ASSUME NEW r, NEW l, NEW c, r.kind = "edit-subnet", Trail(r, l, c)
    PROVE  \/ l.done = <<>> /\ MemberNow(r, l) = Old(r, l).member
           \/ /\ l.done = <<UndoLeave(r, Old(r, l).member)>> /\ Old(r, l).member \notin {None, r.shared}
              /\ MemberNow(r, l) = None
           \/ /\ r.shared # None /\ MemberNow(r, l) = r.shared
              /\ \/ l.done = <<UndoJoin(r)>> /\ Old(r, l).member = None
                 \/ l.done = <<UndoJoin(r), UndoLeave(r, Old(r, l).member)>> /\ Old(r, l).member \notin {None, r.shared}
<1> DEFINE old == Old(r, l).member
<1>1. CASE l.done = <<>>
  BY <1>1 DEF MemberNow
<1>2. CASE l.done = <<UndoLeave(r, old)>> /\ old \notin {None, r.shared}
  <2>1. l.done # <<>> /\ Head(l.done) = UndoLeave(r, old)
    BY <1>2, HeadsAndTails
  <2>2. UndoLeave(r, old).member = None
    BY DEF UndoLeave
  <2> QED
    BY <1>2, <2>1, <2>2 DEF MemberNow
<1>3. CASE r.shared # None /\ \/ l.done = <<UndoJoin(r)>> /\ old = None
                              \/ l.done = <<UndoJoin(r), UndoLeave(r, old)>> /\ old \notin {None, r.shared}
  <2>1. l.done # <<>> /\ Head(l.done) = UndoJoin(r)
    BY <1>3, HeadsAndTails
  <2>2. UndoJoin(r).member = r.shared
    BY DEF UndoJoin
  <2>3. MemberNow(r, l) = r.shared
    BY <2>1, <2>2 DEF MemberNow
  <2> QED
    BY <1>3, <2>3
<1>4. l.done = <<>> \/ l.done \in MoveUndos(r, old)
  BY DEF Trail
<1> HIDE DEF old
<1>5. l.done \in MoveUndos(r, old) =>
        \/ l.done = <<UndoLeave(r, old)>> /\ old \notin {None, r.shared}
        \/ l.done = <<UndoJoin(r)>> /\ old = None /\ r.shared # None
        \/ l.done = <<UndoJoin(r), UndoLeave(r, old)>> /\ old \notin {None, r.shared} /\ r.shared # None
  BY DEF MoveUndos
<1> USE DEF old
<1> QED
  BY <1>1, <1>2, <1>3, <1>4, <1>5

\* Kea has the Subnet of an edit in the Shared Network of the trail, and is otherwise as it was.
LEMMA EditTrail ==
    ASSUME NEW r, NEW l, NEW c, Formed(r, l), r.kind = "edit-subnet", Found(r, l), Trail(r, l, c)
    PROVE  /\ r.id \in Ids /\ r.shared \in Names \cup {None} /\ l.base \in Config /\ l.base.subnets[r.id] \in Subnet
           /\ Old(r, l).member = l.base.subnets[r.id].member
           /\ MemberNow(r, l) \in Names \cup {None}
           /\ c = WithMember(l.base, r.id, MemberNow(r, l))
           /\ c \in Config /\ c.subnets[r.id] = [l.base.subnets[r.id] EXCEPT !.member = MemberNow(r, l)]
           /\ c.subnets[r.id] \in Subnet /\ Present(c, r.id)
<1> DEFINE b == l.base.subnets[r.id]
<1>1. r.id \in Ids /\ r.shared \in Names \cup {None} /\ l.base \in Config /\ b.member = Old(r, l).member
  BY DEF Formed, RequestForms, Found
<1>2. b \in Subnet
  <2>1. Present(l.base, r.id)
    BY DEF Found, BySubnet
  <2> QED
    BY <1>1, <2>1 DEF Present, Config
<1>3. MemberNow(r, l) \in Names \cup {None}
  <2>1. b.member \in Names \cup {None}
    BY <1>2 DEF Subnet
  <2> QED
    BY <1>1, <2>1, MoveCases
<1>4. c = WithMember(l.base, r.id, MemberNow(r, l))
  <2>1. CASE l.done = <<>>
    <3>1. c = l.base /\ MemberNow(r, l) = b.member
      BY <1>1, <2>1, NoTrailYet DEF MemberNow
    <3>2. [b EXCEPT !.member = b.member] = b
      BY <1>2 DEF Subnet
    <3>3. [l.base EXCEPT !.subnets[r.id] = b] = l.base
      BY <1>1 DEF Config
    <3> HIDE DEF b
    <3>4. WithMember(l.base, r.id, b.member) = [l.base EXCEPT !.subnets[r.id] = b]
      BY <3>2 DEF WithMember, Change!WithSubnet, b
    <3> QED
      BY <3>1, <3>3, <3>4
  <2>2. CASE l.done # <<>>
    BY <2>2 DEF Trail
  <2> QED
    BY <2>1, <2>2
<1>5. [b EXCEPT !.member = MemberNow(r, l)] \in Subnet
  BY <1>2, <1>3 DEF Subnet
<1> DEFINE new == [b EXCEPT !.member = MemberNow(r, l)]
<1>6. c = Change!WithSubnet(l.base, r.id, new)
  BY <1>4 DEF WithMember
<1> HIDE DEF new
<1>7. c \in Config /\ c.subnets[r.id] = new
  BY <1>1, <1>5, <1>6, SubnetParts DEF new
<1>8. Present(c, r.id)
  BY <1>5, <1>7, ConfigAssumption DEF Present, new
<1> QED
  BY <1>1, <1>2, <1>3, <1>4, <1>5, <1>7, <1>8 DEF new

LEMMA EditLeads ==
    ASSUME NEW r, NEW l, NEW c, Formed(r, l), Found(r, l), Compared(r, l), Ready(r, l), Trail(r, l, c),
           r.kind = "edit-subnet"
    PROVE  StepLeads(r, l, c)
<1> DEFINE b   == l.base.subnets[r.id]
           now == MemberNow(r, l)
           old == Old(r, l).member
<1>1. /\ r.id \in Ids /\ r.shared \in Names \cup {None} /\ l.base \in Config /\ b \in Subnet
      /\ old = b.member /\ now \in Names \cup {None} /\ c = WithMember(l.base, r.id, now) /\ c \in Config
      /\ c.subnets[r.id] = [b EXCEPT !.member = now] /\ Present(c, r.id) /\ l \in Locals
  BY EditTrail DEF Formed
<1>2. l.todo = EditPlan(r, l.view.definition, now) /\ l.view.definition = Definition(b)
  BY DEF Ready, Compared
<1>3. c.subnets[r.id].member = now
  BY <1>1 DEF Subnet
<1> HIDE DEF now, b, old
\* What the next step makes of the membership.
<1>4. ASSUME NEW member, Result(c, Head(l.todo).cmd) = WithMember(c, r.id, member)
      PROVE  Result(c, Head(l.todo).cmd) = WithMember(l.base, r.id, member)
  <2> DEFINE one == [b EXCEPT !.member = now]
  <2>1. [one EXCEPT !.member = member] = [b EXCEPT !.member = member]
    BY <1>1 DEF Subnet
  <2>2. c = Change!WithSubnet(l.base, r.id, one)
    BY <1>1 DEF WithMember, b
  <2> HIDE DEF one
  <2>3. WithMember(c, r.id, member) = Change!WithSubnet(c, r.id, [b EXCEPT !.member = member])
    BY <1>1, <2>1 DEF WithMember, one
  <2>4. Change!WithSubnet(c, r.id, [b EXCEPT !.member = member])
          = Change!WithSubnet(l.base, r.id, [b EXCEPT !.member = member])
    BY <1>1, <2>2, WithSubnetTwice
  <2> QED
    BY <1>4, <2>3, <2>4 DEF WithMember, b
<1>5. ASSUME NEW undo, NEW member, undo # NoUndo, undo.member = member, Head(l.todo).undo = undo,
             Result(c, Head(l.todo).cmd) = WithMember(c, r.id, member),
             Tail(l.todo) = EditPlan(r, l.view.definition, member), <<undo>> \o l.done \in MoveUndos(r, old)
      PROVE  StepLeads(r, l, c)
  <2> DEFINE done == <<undo>> \o l.done
             next == [l EXCEPT !.todo = Tail(l.todo), !.done = <<undo>> \o @]
  <2>1. next.todo = Tail(l.todo) /\ next.done = done /\ next.base = l.base /\ next.view = l.view /\ next.seen = l.seen
    BY <1>1, NextLocal
  <2>2. done # <<>> /\ Head(done) = undo
    <3>1. l.done \in Seq(Undos)
      BY <1>1 DEF Locals
    <3> QED
      BY <3>1, <1>5 DEF MoveUndos, HeadsAndTails
  <2> HIDE DEF next, done
  <2>3. MemberNow(r, next) = member /\ Old(r, next) = Old(r, l)
    BY <1>5, <2>1, <2>2 DEF MemberNow, Old
  <2>4. Ready(r, next)
    BY <1>5, <2>1, <2>3 DEF Ready
  <2>5. Trail(r, next, Result(c, Head(l.todo).cmd))
    BY <1>4, <1>5, <2>1, <2>3 DEF Trail, done, old
  <2>6. Tail(l.todo) # <<>>
    BY <1>5, EditPlanStep
  <2> QED
    BY <1>5, <2>4, <2>5, <2>6 DEF StepLeads, next
<1>6. CASE r.shared = now
  <2>1. Head(l.todo) = UpdateStep(r, Definition(b)) /\ Tail(l.todo) = <<>>
    BY <1>2, <1>6, EditPlanStep
  <2>2. Head(l.todo).cmd = SubnetUpdate(r.id, Edited(r, Definition(b)))
    BY <2>1 DEF UpdateStep, Last
  <2> DEFINE goal == [b EXCEPT !.member = r.shared, !.pools = r.pools, !.managed = r.managed]
  <2>3. [Edited(r, Definition(b)) EXCEPT !.member = now] = goal
    BY <1>1, <1>6 DEF Edited, Definition, Subnet
  <2>4. Change!Intended(r, l.base) = {Change!WithSubnet(l.base, r.id, goal)}
    BY DEF Change!Intended, b
  <2> HIDE DEF goal
  <2>5. Result(c, Head(l.todo).cmd) = Change!WithSubnet(c, r.id, goal)
    <3>1. \A subnet : Result(c, SubnetUpdate(r.id, subnet))
                       = Change!WithSubnet(c, r.id, [subnet EXCEPT !.member = c.subnets[r.id].member])
      BY <1>1, SubnetResults
    <3> QED
      BY <1>3, <2>2, <2>3, <3>1
  <2>6. c = Change!WithSubnet(l.base, r.id, [b EXCEPT !.member = now])
    BY <1>1 DEF WithMember, b
  <2>7. Result(c, Head(l.todo).cmd) = Change!WithSubnet(l.base, r.id, goal)
    BY <1>1, <2>5, <2>6, WithSubnetTwice
  <2> QED
    BY <2>1, <2>4, <2>7 DEF StepLeads
<1>7. CASE r.shared # now /\ now = None
  <2>1. Head(l.todo) = JoinStep(r) /\ Tail(l.todo) = EditPlan(r, l.view.definition, r.shared)
    BY <1>2, <1>7, EditPlanStep
  <2>2. Head(l.todo).cmd = Join(r.shared, r.id) /\ Head(l.todo).undo = UndoJoin(r)
    BY <2>1 DEF JoinStep, Step, UndoJoin
  <2>3. UndoJoin(r) # NoUndo /\ UndoJoin(r).member = r.shared
    BY <1>7 DEF UndoJoin, NoUndo
  <2>4. Result(c, Head(l.todo).cmd) = WithMember(c, r.id, r.shared)
    <3>1. r.shared \in Names
      BY <1>1, <1>7
    <3>2. Result(c, Join(r.shared, r.id)) = WithMember(c, r.id, r.shared)
      BY <1>1, <3>1, MemberResults
    <3> QED
      BY <2>2, <3>2
  <2>5. <<UndoJoin(r)>> \o l.done \in MoveUndos(r, old)
    <3>1. CASE l.done = <<>> /\ old = None
      BY <1>7, <3>1, JoinNone DEF MoveUndos
    <3>2. CASE l.done = <<UndoLeave(r, old)>> /\ old \notin {None, r.shared}
      BY <1>7, <3>2, JoinTwo DEF MoveUndos
    <3> QED
      BY <1>7, <3>1, <3>2, MoveCases DEF now, old
  <2> QED
    BY <1>5, <2>1, <2>2, <2>3, <2>4, <2>5
<1>8. CASE r.shared # now /\ now # None
  <2>1. Head(l.todo) = LeaveStep(r, now) /\ Tail(l.todo) = EditPlan(r, l.view.definition, None)
    BY <1>2, <1>8, EditPlanStep
  <2>2. l.done = <<>> /\ now = old
    BY <1>8, MoveCases DEF now, old
  <2>3. Head(l.todo).cmd = Leave(now, r.id) /\ Head(l.todo).undo = UndoLeave(r, old)
    BY <2>1, <2>2 DEF LeaveStep, Step, UndoLeave
  <2>4. UndoLeave(r, old) # NoUndo /\ UndoLeave(r, old).member = None
    <3>1. Join(old, r.id) # None
      BY <1>1, <1>8, <2>2, CommandTyped, ConfigWriteAssumption
    <3> QED
      BY <3>1 DEF UndoLeave, NoUndo
  <2>5. Result(c, Head(l.todo).cmd) = WithMember(c, r.id, None)
    <3>1. now \in Names
      BY <1>1, <1>8
    <3>2. Result(c, Leave(now, r.id)) = WithMember(c, r.id, None)
      BY <1>1, <3>1, MemberResults
    <3> QED
      BY <2>3, <3>2
  <2>6. <<UndoLeave(r, old)>> \o l.done \in MoveUndos(r, old)
    BY <1>8, <2>2, JoinNone DEF MoveUndos
  <2> QED
    BY <1>5, <2>1, <2>3, <2>4, <2>5, <2>6
<1> QED
  BY <1>6, <1>7, <1>8

\* Each command of an undisturbed change that Kea runs is the next step of its plan.
LEMMA EachLeads ==
    ASSUME NEW r, NEW l, NEW c, Formed(r, l), Found(r, l), Compared(r, l), Ready(r, l), Trail(r, l, c)
    PROVE  StepLeads(r, l, c)
BY SingleLeads, AddLeads, EditLeads

------------------------------------------------------------------------------
(* A change that stops on its trail applied in part.                       *)

LEMMA PartlyMeans ==
    ASSUME NEW r, NEW old, NEW new,
           \E goal \in Change!Intended(r, old) \cup {old} : \A p \in Parts :
               Part(new, p) \in {Part(old, p), Part(goal, p)} \/ (p[1] = "member" /\ Part(new, p) = None)
    PROVE  Change!Partly(r, old, new)
<1>1. PICK goal \in Change!Intended(r, old) \cup {old} : \A p \in Parts :
               Part(new, p) \in {Part(old, p), Part(goal, p)} \/ (p[1] = "member" /\ Part(new, p) = None)
  OBVIOUS
<1>2. ASSUME NEW p \in Parts
      PROVE  Change!Part(new, p) \in {Change!Part(old, p),
             Change!Part(goal, p)} \cup (IF p[1] = "member" THEN {None} ELSE {})
  BY <1>1, <1>2, SameOperators
<1> QED
  BY <1>1, <1>2, SameOperators DEF Change!Partly

LEMMA WholePartly ==
    ASSUME NEW r, NEW old, NEW new \in Change!Intended(r, old) \cup {old}
    PROVE  Change!Partly(r, old, new)
BY PartlyMeans

LEMMA TrailPartly ==
    ASSUME NEW r, NEW l, NEW c, Formed(r, l), Found(r, l), Trail(r, l, c)
    PROVE  Change!Partly(r, l.base, c)
<1>1. CASE l.done = <<>>
  BY <1>1, NoTrailYet, WholePartly
<1>2. CASE l.done # <<>> /\ r.kind = "add-subnet"
  <2> DEFINE id == l.view.id  new == NewSubnet(r)  whole == [NewSubnet(r) EXCEPT !.member = r.shared]
             goal == Change!WithSubnet(l.base, l.view.id, whole)
  <2>1. /\ id \in Ids /\ r.shared \in Names \cup {None} /\ new \in Subnet /\ l.base \in Config
        /\ goal \in Change!Intended(r, l.base) /\ new.member = None /\ whole \in Subnet
        /\ c = Change!WithSubnet(l.base, id, new)
    BY <1>2, NewSubnetGoal DEF Found, Trail, Subnet
  <2>2. \A field \in Fields \ {"member"} : whole[field] = new[field]
    BY <2>1 DEF Subnet, Fields
  <2>3. new # None /\ whole # None
    BY <2>1, ConfigAssumption
  <2> HIDE DEF new, whole, goal, id
  <2>4. /\ \A p \in Parts : Part(c, p) = Part(l.base, p) \/ \E field \in Fields : p = <<field, id>>
        /\ \A field \in Fields : Part(c, <<field, id>>) = new[field]
    BY <2>1, <2>3, SubnetParts
  <2>5. \A field \in Fields : Part(goal, <<field, id>>) = whole[field]
    BY <2>1, <2>3, SubnetParts DEF goal, id
  <2>6. ASSUME NEW p \in Parts
        PROVE  Part(c, p) \in {Part(l.base, p), Part(goal, p)} \/ (p[1] = "member" /\ Part(c, p) = None)
    <3>1. CASE Part(c, p) = Part(l.base, p)
      BY <3>1
    <3>2. ASSUME NEW field \in Fields, p = <<field, id>>, field # "member" PROVE Part(c, p) = Part(goal, p)
      BY <2>2, <2>4, <2>5, <3>2
    <3>3. ASSUME NEW field \in Fields, p = <<field, id>>, field = "member" PROVE p[1] = "member" /\ Part(c, p) = None
      BY <2>1, <2>4, <3>3
    <3> QED
      BY <2>4, <3>1, <3>2, <3>3
  <2> QED
    BY <2>1, <2>6, PartlyMeans
<1>3. CASE l.done # <<>> /\ r.kind = "edit-subnet"
  <2> DEFINE b == l.base.subnets[r.id]
             whole == [b EXCEPT !.member = r.shared, !.pools = r.pools, !.managed = r.managed]
             goal == Change!WithSubnet(l.base, r.id, whole)
             new == [b EXCEPT !.member = MemberNow(r, l)]
  <2>1. /\ r.id \in Ids /\ r.shared \in Names \cup {None} /\ l.base \in Config /\ b \in Subnet
        /\ MemberNow(r, l) \in Names \cup {None} /\ c = Change!WithSubnet(l.base, r.id, new)
        /\ MemberNow(r, l) \in {None, r.shared}
    BY <1>3, EditTrail, MoveCases DEF WithMember
  <2>2. r.pools \in SUBSET Pools /\ r.managed \in Values
    BY <1>3 DEF Formed, RequestForms
  <2>3. new \in Subnet /\ whole \in Subnet /\ new.member = MemberNow(r, l) /\ whole.member = r.shared
    BY <2>1, <2>2 DEF Subnet
  <2>4. goal \in Change!Intended(r, l.base)
    BY <1>3 DEF Change!Intended
  <2>5. \A field \in Fields \ {"member"} : new[field] = b[field]
    BY <2>1 DEF Subnet, Fields
  <2>6. new # None /\ whole # None /\ b # None
    BY <2>1, <2>3, ConfigAssumption
  <2> HIDE DEF new, whole, goal
  <2>7. /\ \A p \in Parts : Part(c, p) = Part(l.base, p) \/ \E field \in Fields : p = <<field, r.id>>
        /\ \A field \in Fields : Part(c, <<field, r.id>>) = new[field]
    BY <2>1, <2>3, <2>6, SubnetParts
  <2>8. \A field \in Fields : Part(goal, <<field, r.id>>) = whole[field]
    BY <2>1, <2>3, <2>6, SubnetParts DEF goal
  <2>9. \A field \in Fields : Part(l.base, <<field, r.id>>) = b[field]
    BY <2>1, <2>6, PartOf DEF Present
  <2>10. ASSUME NEW p \in Parts
         PROVE  Part(c, p) \in {Part(l.base, p), Part(goal, p)} \/ (p[1] = "member" /\ Part(c, p) = None)
    <3>1. CASE Part(c, p) = Part(l.base, p)
      BY <3>1
    <3>2. ASSUME NEW field \in Fields, p = <<field, r.id>>, field # "member" PROVE Part(c, p) = Part(l.base, p)
      <4> HIDE DEF b
      <4> QED
        BY <2>5, <2>7, <2>9, <3>2
    <3>3. ASSUME NEW field \in Fields, p = <<field, r.id>>, field = "member"
          PROVE  p[1] = "member" /\ Part(c, p) \in {None, Part(goal, p)}
      <4> HIDE DEF b
      <4> QED
        BY <2>1, <2>3, <2>7, <2>8, <3>3
    <3> QED
      BY <2>7, <3>1, <3>2, <3>3
  <2> QED
    BY <2>4, <2>10, PartlyMeans
<1> QED
  BY <1>1, <1>2, <1>3, NoTrailYet

\* A command of the change, too, leaves it applied at least in part.
LEMMA StepPartly ==
    ASSUME NEW r, NEW l, NEW c, Formed(r, l), Found(r, l), Trail(r, l, c), StepLeads(r, l, c), l.todo # <<>>,
           Accepts(c, Head(l.todo).cmd)
    PROVE  Change!Partly(r, l.base, Result(c, Head(l.todo).cmd))
<1> DEFINE undo == Head(l.todo).undo
           next == [l EXCEPT !.todo = Tail(l.todo), !.done = <<undo>> \o @]
           new  == Result(c, Head(l.todo).cmd)
<1>1. CASE Tail(l.todo) = <<>>
  BY <1>1, WholePartly DEF StepLeads
<1>2. CASE Tail(l.todo) # <<>>
  <2>1. Trail(r, next, new) /\ undo # NoUndo
    BY <1>2 DEF StepLeads
  <2>2. l \in Locals /\ next.base = l.base /\ next.view = l.view /\ next.seen = l.seen
    BY NextLocal DEF Formed
  <2>3. next \in Locals
    <3>1. Head(l.todo) \in Steps /\ Tail(l.todo) \in Seq(Steps)
      BY <2>2, HeadTyped DEF Locals
    <3>2. undo \in Undos
      BY <2>1, <3>1 DEF Steps
    <3>3. <<undo>> \o l.done \in Seq(Undos)
      <4> HIDE DEF undo
      <4> QED
        BY <2>2, <3>2 DEF Locals
    <3> HIDE DEF undo
    <3> QED
      BY <2>2, <3>1, <3>3 DEF Locals
  <2> HIDE DEF next, new
  <2>4. Formed(r, next) /\ Found(r, next)
    BY <2>2, <2>3 DEF Formed, Found, Old
  <2> QED
    BY <2>1, <2>2, <2>4, TrailPartly DEF new
<1> QED
  BY <1>1, <1>2

------------------------------------------------------------------------------
(* The read after a failure result. It shows nothing of a command only     *)
(* when the command changed nothing.                                       *)

LEMMA NotLiveMeans ==
    ASSUME NEW d \in Config, NEW cmd \in Commands, Accepts(d, cmd), NEW network, NEW definition,
           CanCheck(cmd, network, Result(d, cmd)), NotLive(cmd, network, definition, Result(d, cmd)),
           cmd.do = "subnet-add" => cmd.subnet.network = network,
           cmd.do = "subnet-update" => definition = Definition(d.subnets[cmd.id])
    PROVE  Result(d, cmd) = d
<1> DEFINE c == Result(d, cmd)
<1>1. CASE cmd \in [do : {"subnet-add"}, id : Ids, subnet : Subnet]
  <2>1. c.subnets[cmd.id] = cmd.subnet
    BY <1>1 DEF Result, Config
  <2>2. Present(c, cmd.id)
    BY <1>1, <2>1, ConfigAssumption DEF Present
  <2> HIDE DEF c
  <2> QED
    BY <1>1, <2>1, <2>2 DEF NotLive, c
<1>2. CASE cmd \in [do : {"subnet-del"}, id : Ids]
  <2>1. c.subnets[cmd.id] = None
    BY <1>2 DEF Result, Config
  <2> HIDE DEF c
  <2> QED
    BY <1>2, <2>1 DEF NotLive, Present, c
<1>3. CASE cmd \in [do : {"subnet-update"}, id : Ids, subnet : Subnet]
  <2> DEFINE old == d.subnets[cmd.id]  new == [cmd.subnet EXCEPT !.member = old.member]
  <2>1. old \in Subnet /\ cmd.id \in Ids
    BY <1>3 DEF Accepts, Present, Config
  <2>2. c = [d EXCEPT !.subnets[cmd.id] = new] /\ c.subnets[cmd.id] = new
    BY <1>3 DEF Result, Config
  <2>3. Definition(new) = Definition(old)
    <3> HIDE DEF c
    <3> QED
      BY <1>3, <2>2 DEF NotLive, c
  <2>4. new \in Subnet /\ new.member = old.member
    BY <1>3, <2>1 DEF Subnet
  <2>5. new = old
    <3> HIDE DEF new, old
    <3>1. /\ Definition(new).network = new.network /\ Definition(new).pools = new.pools
          /\ Definition(new).managed = new.managed /\ Definition(new).unshown = new.unshown
      BY <2>4 DEF Definition, Subnet
    <3>2. /\ Definition(old).network = old.network /\ Definition(old).pools = old.pools
          /\ Definition(old).managed = old.managed /\ Definition(old).unshown = old.unshown
      BY <2>1 DEF Definition, Subnet
    <3> QED
      BY <2>1, <2>3, <2>4, <3>1, <3>2 DEF Subnet
  <2> HIDE DEF new
  <2> QED
    BY <2>1, <2>2, <2>5 DEF Config
<1>4. CASE cmd \in [do : {"network-subnet-add", "network-subnet-del"}, name : Names, id : Ids]
  <2>1. Present(d, cmd.id) /\ d.subnets[cmd.id] \in Subnet
    BY <1>4 DEF Accepts, Present, Config
  <2> DEFINE member == IF cmd.do = "network-subnet-add" THEN cmd.name ELSE None
  <2>2. c.subnets[cmd.id] = [d.subnets[cmd.id] EXCEPT !.member = member]
    BY <1>4, <2>1 DEF Result, Config
  <2>3. c.subnets[cmd.id].member = member /\ c.subnets[cmd.id] \in Subnet
    <3> HIDE DEF c
    <3> QED
      BY <1>4, <2>1, <2>2 DEF Subnet
  <2>4. Present(c, cmd.id)
    BY <2>3, ConfigAssumption DEF Present
  <2>5. cmd.name \in Names /\ cmd.name # None
    BY <1>4, ConfigAssumption
  <2> HIDE DEF c
  <2>6. CASE cmd.do = "network-subnet-add"
    BY <2>3, <2>4, <2>6 DEF NotLive, c
  <2>7. CASE cmd.do = "network-subnet-del"
    BY <2>3, <2>5, <2>7 DEF NotLive, MemberOf, c
  <2> QED
    BY <1>4, <2>6, <2>7
<1>5. CASE cmd \in [do : {"network-add", "network-del"}, name : Names]
  <2>1. c.nets[cmd.name] = IF cmd.do = "network-add" THEN Empty ELSE None
    BY <1>5 DEF Result, Config
  <2>2. Empty # None
    BY ConfigAssumption
  <2> HIDE DEF c
  <2> QED
    BY <1>5, <2>1, <2>2 DEF NotLive, HasNetwork, c
<1>6. CASE cmd \in [do : {"delta-add", "delta-del"}, id : Ids, network : Networks, pool : Pools]
  <2>1. Present(d, cmd.id) /\ d.subnets[cmd.id] \in Subnet
    BY <1>6 DEF Accepts, Present, Config
  <2> DEFINE pools == IF cmd.do = "delta-add" THEN d.subnets[cmd.id].pools \cup {cmd.pool}
                      ELSE d.subnets[cmd.id].pools \ {cmd.pool}
  <2>2. c.subnets[cmd.id] = [d.subnets[cmd.id] EXCEPT !.pools = pools]
    BY <1>6, <2>1 DEF Result, Config
  <2>3. c.subnets[cmd.id].pools = pools /\ c.subnets[cmd.id] \in Subnet
    <3> HIDE DEF c
    <3> QED
      BY <1>6, <2>1, <2>2 DEF Subnet
  <2>4. Present(c, cmd.id)
    BY <2>3, ConfigAssumption DEF Present
  <2> HIDE DEF c
  <2> QED
    BY <1>6, <2>3, <2>4 DEF NotLive, c
<1>7. CASE cmd \in [do : {"config-set"}, config : Config]
  BY <1>7 DEF CanCheck
<1> QED
  BY <1>1, <1>2, <1>3, <1>4, <1>5, <1>6, <1>7 DEF Commands

------------------------------------------------------------------------------
(* An undo goes one step back on the trail.                                *)

LEMMA UndoLeads ==
    ASSUME NEW r, NEW l, NEW c, Formed(r, l), Found(r, l), Trail(r, l, c), l.done # <<>>,
           Accepts(c, Head(l.done).cmd)
    PROVE  Trail(r, [l EXCEPT !.done = Tail(l.done)], Result(c, Head(l.done).cmd))
<1> DEFINE back == [l EXCEPT !.done = Tail(l.done)]
           new  == Result(c, Head(l.done).cmd)
<1>1. back.done = Tail(l.done) /\ back.base = l.base /\ back.view = l.view /\ back.seen = l.seen
  BY DEF Formed, Locals
<1>2. l.base \in Config
  BY DEF Found
<1>3. CASE r.kind = "add-subnet"
  <2> DEFINE id == l.view.id
  <2>1. l.done = <<UndoAdd(id)>> /\ c = Change!WithSubnet(l.base, id, NewSubnet(r))
    BY <1>3 DEF Trail
  <2>2. Head(l.done).cmd = SubnetDel(id) /\ Tail(l.done) = <<>>
    BY <2>1, HeadsAndTails DEF UndoAdd
  <2>3. id \in Ids /\ NewSubnet(r) \in Subnet /\ ~Present(l.base, id)
    BY <1>3, NewSubnetGoal DEF Found
  <2>4. c \in Config
    BY <1>2, <2>1, <2>3, SubnetParts
  <2>5. new = Change!WithSubnet(c, id, None)
    BY <2>2, <2>3, <2>4, SubnetResults
  <2>6. new = Change!WithSubnet(l.base, id, None)
    BY <1>2, <2>1, <2>3, <2>5, WithSubnetTwice
  <2>7. new = l.base
    BY <1>2, <2>3, <2>6 DEF Change!WithSubnet, Present, Config
  <2> HIDE DEF new, back
  <2> QED
    BY <1>1, <2>2, <2>7 DEF Trail, new, back
<1>4. CASE r.kind = "edit-subnet"
  <2> DEFINE b == l.base.subnets[r.id]  old == Old(r, l).member
  <2>1. /\ r.id \in Ids /\ b \in Subnet /\ old = b.member /\ r.shared \in Names \cup {None}
        /\ c = WithMember(l.base, r.id, MemberNow(r, l)) /\ c \in Config /\ Present(c, r.id)
        /\ c.subnets[r.id] = [b EXCEPT !.member = MemberNow(r, l)]
    BY <1>4, EditTrail
  <2>2. WithMember(l.base, r.id, old) = l.base
    <3>1. [b EXCEPT !.member = old] = b
      BY <2>1 DEF Subnet
    <3>2. WithMember(l.base, r.id, old) = Change!WithSubnet(l.base, r.id, b)
      BY <3>1 DEF WithMember
    <3> QED
      BY <1>2, <2>1, <3>2 DEF Change!WithSubnet, Config
  <2> HIDE DEF b, old
  <2>3. ASSUME NEW member PROVE WithMember(c, r.id, member) = WithMember(l.base, r.id, member)
    <3> DEFINE one == [b EXCEPT !.member = MemberNow(r, l)]
    <3>1. [one EXCEPT !.member = member] = [b EXCEPT !.member = member]
      BY <2>1 DEF Subnet
    <3>2. c = Change!WithSubnet(l.base, r.id, one)
      BY <2>1 DEF WithMember, b
    <3> HIDE DEF one
    <3>3. WithMember(c, r.id, member) = Change!WithSubnet(c, r.id, [b EXCEPT !.member = member])
      BY <2>1, <3>1 DEF WithMember, one
    <3>4. Change!WithSubnet(c, r.id, [b EXCEPT !.member = member])
            = Change!WithSubnet(l.base, r.id, [b EXCEPT !.member = member])
      BY <1>2, <2>1, <3>2, WithSubnetTwice
    <3> QED
      BY <3>3, <3>4 DEF WithMember, b
  <2>4. \A name \in Names : /\ Result(c, Join(name, r.id)) = WithMember(l.base, r.id, name)
                            /\ Result(c, Leave(name, r.id)) = WithMember(l.base, r.id, None)
    <3> SUFFICES ASSUME NEW name \in Names
                 PROVE  /\ Result(c, Join(name, r.id)) = WithMember(l.base, r.id, name)
                        /\ Result(c, Leave(name, r.id)) = WithMember(l.base, r.id, None)
      OBVIOUS
    <3>1. Result(c, Join(name, r.id)) = WithMember(c, r.id, name) /\ Result(c, Leave(name, r.id)) = WithMember(c, r.id, None)
      BY <2>1, MemberResults
    <3> QED
      BY <2>3, <3>1
  <2>5. CASE l.done = <<UndoLeave(r, old)>> /\ old \notin {None, r.shared}
    <3>1. Head(l.done).cmd = Join(old, r.id) /\ Tail(l.done) = <<>>
      BY <2>5, HeadsAndTails DEF UndoLeave
    <3>2. old \in Names
      BY <2>1, <2>5 DEF Subnet
    <3>3. new = l.base
      BY <2>2, <2>4, <3>1, <3>2
    <3> HIDE DEF new, back
    <3> QED
      BY <1>1, <3>1, <3>3 DEF Trail, new, back
  <2>6. CASE l.done = <<UndoJoin(r)>> /\ old = None /\ r.shared # None
    <3>1. Head(l.done).cmd = Leave(r.shared, r.id) /\ Tail(l.done) = <<>>
      BY <2>6, HeadsAndTails DEF UndoJoin
    <3>2. new = l.base
      BY <2>1, <2>2, <2>4, <2>6, <3>1
    <3> HIDE DEF new, back
    <3> QED
      BY <1>1, <3>1, <3>2 DEF Trail, new, back
  <2>7. CASE l.done = <<UndoJoin(r), UndoLeave(r, old)>> /\ old \notin {None, r.shared} /\ r.shared # None
    <3>1. Head(l.done).cmd = Leave(r.shared, r.id) /\ Tail(l.done) = <<UndoLeave(r, old)>>
      BY <2>7, HeadsAndTails DEF UndoJoin
    <3>2. new = WithMember(l.base, r.id, None)
      BY <2>1, <2>4, <2>7, <3>1
    <3> HIDE DEF new, back
    <3>3. Old(r, back) = Old(r, l)
      BY <1>1 DEF Old
    <3>4. back.done # <<>> /\ Head(back.done) = UndoLeave(r, old) /\ UndoLeave(r, old).member = None
      BY <1>1, <3>1, HeadsAndTails DEF UndoLeave
    <3>5. MemberNow(r, back) = None
      BY <3>4 DEF MemberNow
    <3>6. back.done \in MoveUndos(r, old)
      BY <1>1, <2>7, <3>1 DEF MoveUndos
    <3> QED
      BY <1>1, <1>4, <3>2, <3>3, <3>5, <3>6 DEF Trail, new, back, old
  <2> QED
    BY <1>4, <2>5, <2>6, <2>7, MoveCases DEF old
<1> QED
  BY <1>3, <1>4, NoTrailYet

------------------------------------------------------------------------------
(* The invariant: a change that nothing disturbed is on its trail.         *)

\* Kea ran the command that the change checks, or not.
MayHaveRun(r, l, c) ==
    \E before \in Config :
        /\ Trail(r, l, before)
        /\ \/ c = before
           \/ Accepts(before, Head(l.todo).cmd) /\ c = Result(before, Head(l.todo).cmd)

\* What an undisturbed change has read and done at `place`, while Kea runs c.
OnTrack(place, l, r, c, application) ==
    /\ place \in {"network", "definition"} => Found(r, l)
    /\ place = "network" /\ r.kind = "add-subnet" => l.todo = AddPlan(r, l.view.id)
    /\ place \in {"send", "check"} => Found(r, l) /\ Compared(r, l) /\ Ready(r, l)
    /\ place = "send" => Trail(r, l, c)
    /\ place = "check" => MayHaveRun(r, l, c)
    /\ place \in {"undo-check", "undo-send"} => Found(r, l) /\ Trail(r, l, c)
    /\ place # "retry"
    /\ place = "persist" => \/ application = "applied" /\ c \in Change!Intended(r, l.base)
                            \/ application = "unknown" /\ Change!Partly(r, l.base, c)

\* A change that has not sent anything has nothing to undo, and an undisturbed one is on its trail.
Tracked(op) ==
    /\ pc[op] \notin Stepping => local[op].done = <<>>
    /\ ~local[op].disturbed => OnTrack(pc[op], local[op], req[op], running, outcome[op].application)

PlanInv == \A op \in Ops : Tracked(op)

LEMMA OfChange ==
    ASSUME IInv, LockInv, NEW op \in Ops, pc[op] \notin {"idle", "done"}
    PROVE  /\ Formed(req[op], local[op])
           /\ pc[op] \in Reading /\ ~local[op].disturbed => running = local[op].base
BY OfOp, RequestTyped DEF Formed, Fits, LockInv, ReadsAreCurrent

\* The facts about the reads depend on these fields only.
LEMMA SameFacts ==
    ASSUME NEW r, NEW l, NEW m, m.base = l.base, m.view = l.view, m.seen = l.seen
    PROVE  /\ Found(r, m) = Found(r, l) /\ Compared(r, m) = Compared(r, l)
           /\ m.todo = l.todo /\ m.done = l.done =>
                /\ Ready(r, m) = Ready(r, l)
                /\ \A c : Trail(r, m, c) = Trail(r, l, c)
<1>1. Old(r, m) = Old(r, l)
  BY DEF Old
<1>2. Found(r, m) = Found(r, l) /\ Compared(r, m) = Compared(r, l)
  BY <1>1 DEF Found, Compared
<1>3. m.done = l.done => MemberNow(r, m) = MemberNow(r, l)
  BY <1>1 DEF MemberNow
<1>4. TheCommand(r, m) = TheCommand(r, l)
  BY DEF TheCommand
<1>5. m.todo = l.todo /\ m.done = l.done => Ready(r, m) = Ready(r, l)
  BY <1>3, <1>4 DEF Ready
<1>6. m.todo = l.todo /\ m.done = l.done => \A c : Trail(r, m, c) = Trail(r, l, c)
  BY <1>1, <1>3 DEF Trail
<1> QED
  BY <1>2, <1>5, <1>6

------------------------------------------------------------------------------
(* Where an action takes its change.                                       *)

LEMMA GoTracked ==
    ASSUME ControlOK, NEW op \in Ops, NEW place, NEW new, Go(op, place, new), req' = req,
           place \notin Stepping => new.done = <<>>,
           ~new.disturbed => OnTrack(place, new, req[op], running', outcome[op].application)
    PROVE  Tracked(op)'
<1>1. pc'[op] = place /\ local'[op] = new /\ outcome'[op] = outcome[op] /\ req'[op] = req[op]
  BY DEF ControlOK, Go
<1> QED
  BY <1>1 DEF Tracked

LEMMA LeavesTracked == ASSUME ControlOK, NEW op \in Ops, Leaves(op) PROVE Tracked(op)'
<1>1. pc'[op] = "done" /\ local'[op].done = <<>>
  BY DEF ControlOK, Leaves, Blank
<1> QED
  BY <1>1 DEF Tracked, OnTrack

LEMMA ConcludeTracked ==
    ASSUME ControlOK, NEW op \in Ops, NEW application, Conclude(op, application), req' = req,
           ~local[op].disturbed =>
               \/ application = "applied" /\ running' \in Change!Intended(req[op], local[op].base)
               \/ application = "unknown" /\ Change!Partly(req[op], local[op].base, running')
    PROVE  Tracked(op)'
<1>1. pc'[op] = "persist" /\ local'[op] = local[op] /\ outcome'[op].application = application /\ req'[op] = req[op]
  BY DEF ControlOK, Conclude, Outcomes
<1> QED
  BY <1>1 DEF Tracked, OnTrack, Stepping

LEMMA AbandonTracked ==
    ASSUME ControlOK, NEW op \in Ops, Abandon(op), req' = req,
           ~local[op].disturbed => Found(req[op], local[op]) /\ Trail(req[op], local[op], running')
    PROVE  Tracked(op)'
<1>1. CASE Reject(op)
  BY <1>1, LeavesTracked DEF Reject
<1>2. CASE Go(op, "undo-check", local[op])
  <2>1. ~local[op].disturbed => OnTrack("undo-check", local[op], req[op], running', outcome[op].application)
    BY DEF OnTrack
  <2> QED
    BY <1>2, <2>1, GoTracked DEF Stepping
<1> QED
  BY <1>1, <1>2 DEF Abandon

\* A read finds the target of the change: it goes on with its plan.
LEMMA ProceedTracked ==
    ASSUME ControlOK, NEW op \in Ops, NEW place \in {"send", "network", "definition", "candidate"}, NEW plan, NEW target,
           local[op] \in Locals, Proceed(op, place, plan, target), req' = req, running' = running, local[op].done = <<>>,
           NEW new, new = [local[op] EXCEPT !.todo = plan, !.view = target],
           ~local[op].disturbed =>
               /\ running = local[op].base
               /\ place # "candidate" => Found(req[op], new)
               /\ place = "network" /\ req[op].kind = "add-subnet" => plan = AddPlan(req[op], target.id)
               /\ place = "send" => Compared(req[op], new) /\ Ready(req[op], new)
    PROVE  Tracked(op)'
<1>1. /\ new.todo = plan /\ new.view = target /\ new.done = <<>> /\ new.base = local[op].base
      /\ new.disturbed = local[op].disturbed
  BY DEF Locals
<1>2. ~new.disturbed => OnTrack(place, new, req[op], running', outcome[op].application)
  BY <1>1 DEF OnTrack, Trail
<1>3. Go(op, place, new)
  BY DEF Proceed
<1> QED
  BY <1>1, <1>2, <1>3, GoTracked

------------------------------------------------------------------------------
(* The reads find what the trail starts from.                              *)

LEMMA AllocatedFree == \A used : AllocatedIds(used) \subseteq Ids \ used
BY DEF AllocatedIds, Ids

LEMMA ScopeForAddTracked ==
    ASSUME IInv, LockInv, PlanInv, NEW op \in Ops, NEW complete \in BOOLEAN, pc[op] = "scope", req[op].kind = "add-subnet",
           ScopeForAdd(op, complete), UNCHANGED <<req, running>>
    PROVE  Tracked(op)'
<1> DEFINE r == req[op]  l == local[op]
<1>1. ControlOK /\ Formed(r, l) /\ (~l.disturbed => running = l.base) /\ l.done = <<>> /\ running \in Config
  BY OfChange, OfOp DEF PlanInv, Tracked, Stepping, Reading
<1>2. CASE Reject(op)
  BY <1>1, <1>2, LeavesTracked DEF Reject
<1>3. ASSUME NEW id \in NewIds(r, running), CanCreate(r, running),
             Proceed(op, IF r.shared = None \/ complete THEN "send" ELSE "network", AddPlan(r, id),
                     Target(id, r.network, None, None))
      PROVE  Tracked(op)'
  <2> DEFINE place  == IF r.shared = None \/ complete THEN "send" ELSE "network"
             target == Target(id, r.network, None, None)
             new    == [l EXCEPT !.todo = AddPlan(r, id), !.view = target]
  <2>1. id \in Ids /\ ~Present(running, id) /\ r.id \in {id, None}
    BY <1>3, AllocatedFree DEF NewIds, CanCreate, FreeIds
  <2>2. target.id = id /\ target.network = r.network
    BY DEF Target
  <2>3. /\ new.todo = AddPlan(r, id) /\ new.view = target /\ new.base = l.base /\ new.seen = l.seen /\ new.done = l.done
    BY <1>1 DEF Formed, Locals
  <2>4. place \in {"send", "network"}
    OBVIOUS
  <2>5. Proceed(op, place, AddPlan(r, id), target) /\ new = [local[op] EXCEPT !.todo = AddPlan(r, id), !.view = target]
    BY <1>3
  <2> HIDE DEF place, target, new
  <2>6. ~l.disturbed => Found(r, new)
    BY <1>1, <2>1, <2>2, <2>3 DEF Found, BySubnet
  <2>7. Compared(r, new)
    BY DEF Compared, BySend, ByExists
  <2>8. Ready(r, new)
    BY <1>1, <2>2, <2>3 DEF Ready
  <2> QED
    BY <1>1, <2>2, <2>4, <2>5, <2>6, <2>7, <2>8, ProceedTracked DEF Formed
<1> QED
  BY <1>2, <1>3 DEF ScopeForAdd

LEMMA ScopeForEditTracked ==
    ASSUME IInv, LockInv, PlanInv, NEW op \in Ops, NEW complete \in BOOLEAN, pc[op] = "scope", req[op].kind = "edit-subnet",
           ScopeForEdit(op, complete), UNCHANGED <<req, running>>
    PROVE  Tracked(op)'
<1> DEFINE r == req[op]  l == local[op]  old == l.seen.subnets[r.id]
           place == IF r.shared \notin {None, old.member} /\ ~complete THEN "network" ELSE "definition"
           target == Target(r.id, old.network, old.member, None)
           new == [l EXCEPT !.todo = <<>>, !.view = target]
<1>1. ControlOK /\ Formed(r, l) /\ (~l.disturbed => running = l.base) /\ l.done = <<>> /\ running \in Config
  BY OfChange, OfOp DEF PlanInv, Tracked, Stepping, Reading
<1>2. CASE Reject(op)
  BY <1>1, <1>2, LeavesTracked DEF Reject
<1>3. CASE MemberOf(running, r.id, old.network, old.member) /\ Proceed(op, place, <<>>, target)
  <2>1. target.network = old.network
    BY DEF Target
  <2>2. new.view = target /\ new.base = l.base /\ new.seen = l.seen
    BY <1>1 DEF Formed, Locals
  <2>3. place \in {"network", "definition"} /\ new = [local[op] EXCEPT !.todo = <<>>, !.view = target]
    OBVIOUS
  <2> HIDE DEF place, target, new
  <2>4. ~l.disturbed => Found(r, new)
    BY <1>1, <1>3, <2>1, <2>2 DEF Found, BySubnet, Old, MemberOf
  <2> QED
    BY <1>1, <1>3, <2>3, <2>4, ProceedTracked DEF Formed
<1> QED
  BY <1>2, <1>3 DEF ScopeForEdit

LEMMA ScopeForTargetTracked ==
    ASSUME IInv, LockInv, PlanInv, NEW op \in Ops, NEW complete \in BOOLEAN, pc[op] = "scope",
           req[op].kind \notin {"add-subnet", "edit-subnet"}, ScopeForTarget(op, complete), UNCHANGED <<req, running>>
    PROVE  Tracked(op)'
<1> DEFINE r == req[op]  l == local[op]  network == l.seen.subnets[r.id].network
           steps == CASE r.kind = "delete-subnet" -> <<Last(SubnetDel(r.id))>>
                      [] r.kind = "add-pool"      -> <<Last(PoolAdd(r.id, network, r.pool))>>
                      [] r.kind = "delete-pool"   -> <<Last(PoolDel(r.id, network, r.pool))>>
                      [] OTHER                    -> <<>>
           place == IF r.kind = "set-subnet-options" THEN "candidate" ELSE "send"
           target == Target(r.id, network, None, None)
           new == [l EXCEPT !.todo = steps, !.view = target]
<1>1. ControlOK /\ Formed(r, l) /\ (~l.disturbed => running = l.base) /\ l.done = <<>> /\ running \in Config
  BY OfChange, OfOp DEF PlanInv, Tracked, Stepping, Reading
<1>2. r.kind \in BySubnet \ {"edit-subnet"}
  BY OfOp DEF Fits
<1>3. CASE Reject(op)
  BY <1>1, <1>3, LeavesTracked DEF Reject
<1>4. CASE AsSeen(r.id, network) /\ Proceed(op, place, steps, target)
  <2>1. target.network = network
    BY DEF Target
  <2>2. new.todo = steps /\ new.view = target /\ new.base = l.base /\ new.seen = l.seen /\ new.done = l.done
    BY <1>1 DEF Formed, Locals
  <2>3. place \in {"candidate", "send"} /\ (place = "send" => r.kind # "set-subnet-options")
        /\ new = [local[op] EXCEPT !.todo = steps, !.view = target]
    OBVIOUS
  <2>4. r.kind # "set-subnet-options" => Ready(r, new)
    <3> HIDE DEF new, target
    <3>1. CASE r.kind = "delete-subnet"
      BY <2>2, <3>1 DEF Ready, TheCommand
    <3>2. CASE r.kind = "add-pool"
      BY <2>1, <2>2, <3>2 DEF Ready, TheCommand
    <3>3. CASE r.kind = "delete-pool"
      BY <2>1, <2>2, <3>3 DEF Ready, TheCommand
    <3> QED
      BY <1>2, <3>1, <3>2, <3>3 DEF BySubnet
  <2> HIDE DEF place, target, new, steps
  <2>5. ~l.disturbed => Found(r, new)
    BY <1>1, <1>2, <1>4, <2>1, <2>2 DEF Found, BySubnet, Old, AsSeen
  <2>6. r.kind # "set-subnet-options" => Compared(r, new)
    BY <1>2 DEF Compared, BySubnet, BySend, ByExists
  <2>7. l \in Locals /\ running' = running /\ req' = req
    BY <1>1 DEF Formed
  <2>8. place \in {"send", "network", "definition", "candidate"} /\ place # "network"
    BY <2>3
  <2>9. ~l.disturbed =>
          /\ running = l.base
          /\ place # "candidate" => Found(r, new)
          /\ place = "send" => Compared(r, new) /\ Ready(r, new)
    BY <1>1, <2>3, <2>4, <2>5, <2>6
  <2> QED
    BY <1>1, <1>4, <2>3, <2>7, <2>8, <2>9, ProceedTracked
<1> QED
  BY <1>3, <1>4 DEF ScopeForTarget

LEMMA ReadsTracked ==
    ASSUME IInv, LockInv, PlanInv, NEW op \in Ops, ReadFails(op) \/ ReadScope(op) \/ RequireNetwork(op)
    PROVE  Tracked(op)'
<1>1. ControlOK /\ UNCHANGED <<req, running>> /\ pc[op] \in Reading
  BY DEF IInv, ReadFails, ReadScope, RequireNetwork, ReadOnly, Reading
<1>2. CASE Reject(op)
  BY <1>1, <1>2, LeavesTracked DEF Reject
<1>3. CASE ReadScope(op)
  BY <1>1, <1>3, ScopeForAddTracked, ScopeForEditTracked, ScopeForTargetTracked DEF ReadScope
<1>4. CASE RequireNetwork(op)
  <2> DEFINE r == req[op]  l == local[op]  place == IF r.kind = "add-subnet" THEN "send" ELSE "definition"
  <2>1. pc[op] = "network" /\ (Reject(op) \/ Go(op, place, l))
    BY <1>4 DEF RequireNetwork
  <2>2. Formed(r, l) /\ (~l.disturbed => running = l.base) /\ l.done = <<>>
    BY <1>1, OfChange DEF PlanInv, Tracked, Stepping, Reading
  <2>3. ~l.disturbed => Found(r, l) /\ (r.kind = "add-subnet" => l.todo = AddPlan(r, l.view.id))
    BY <2>1 DEF PlanInv, Tracked, OnTrack
  <2>4. r.kind = "add-subnet" => Compared(r, l)
    BY DEF Compared, BySend, ByExists
  <2>5. ~l.disturbed /\ r.kind = "add-subnet" => Ready(r, l) /\ Trail(r, l, running)
    BY <2>2, <2>3 DEF Ready, Trail
  <2>6. ~l.disturbed => OnTrack(place, l, r, running', outcome[op].application)
    BY <1>1, <2>3, <2>4, <2>5 DEF OnTrack
  <2> HIDE DEF place
  <2> QED
    BY <1>1, <1>2, <2>1, <2>2, <2>6, GoTracked
<1> QED
  BY <1>2, <1>3, <1>4 DEF ReadFails

LEMMA ReadDefinitionTracked ==
    ASSUME IInv, LockInv, PlanInv, NEW op \in Ops, ReadDefinition(op)
    PROVE  Tracked(op)'
<1> DEFINE r == req[op]  l == local[op]  now == running.subnets[r.id]  old == Old(r, l)
           plan == EditPlan(r, Definition(now), old.member)
           new == [l EXCEPT !.todo = plan, !.view.definition = Definition(now), !.base = running]
<1>1. ControlOK /\ UNCHANGED <<req, running>> /\ pc[op] = "definition" /\ running \in Config /\ r.kind = "edit-subnet"
      /\ l.view \in Targets
  BY OfOp DEF IInv, ReadDefinition, ReadOnly, Fits
<1>2. Formed(r, l) /\ (~l.disturbed => running = l.base) /\ l.done = <<>>
  BY <1>1, OfChange DEF PlanInv, Tracked, Stepping, Reading
<1>3. CASE Reject(op)
  BY <1>1, <1>3, LeavesTracked DEF Reject
<1>4. CASE Go(op, "send", new) /\ Present(running, r.id) /\ now.network = old.network /\ now.pools = old.pools
           /\ now.managed = old.managed
  <2>1. /\ new.todo = plan /\ new.base = running /\ new.seen = l.seen /\ new.done = <<>>
        /\ new.disturbed = l.disturbed
        /\ new.view = [l.view EXCEPT !.definition = Definition(now)]
    BY <1>2 DEF Formed, Locals
  <2>2. new.view.definition = Definition(now) /\ new.view.network = l.view.network /\ new.view.id = l.view.id
    BY <1>1, <2>1 DEF Targets
  <2> HIDE DEF new, plan
  <2>3. Old(r, new) = old
    BY <2>1 DEF Old
  <2>4. ~l.disturbed => Found(r, l)
    BY <1>1 DEF PlanInv, Tracked, OnTrack
  <2>5. ~l.disturbed => Found(r, new)
    BY <1>1, <1>2, <2>1, <2>2, <2>3, <2>4 DEF Found
  <2>6. Compared(r, new)
    BY <1>1, <1>4, <2>1, <2>2, <2>3 DEF Compared, BySend, ByExists
  <2>7. Ready(r, new) /\ Trail(r, new, running)
    <3>1. MemberNow(r, new) = old.member
      BY <2>1, <2>3 DEF MemberNow
    <3> QED
      BY <1>1, <2>1, <2>2, <3>1 DEF Ready, Trail, plan
  <2>8. ~new.disturbed => OnTrack("send", new, r, running', outcome[op].application)
    BY <1>1, <2>1, <2>5, <2>6, <2>7 DEF OnTrack
  <2> QED
    BY <1>1, <1>4, <2>8, GoTracked DEF Stepping
<1> QED
  BY <1>3, <1>4 DEF ReadDefinition, StartFrom, Old

LEMMA ReadExistsTracked ==
    ASSUME IInv, LockInv, PlanInv, NEW op \in Ops, ReadExists(op)
    PROVE  Tracked(op)'
<1> DEFINE r == req[op]  l == local[op]
           cmd == IF r.kind = "add-network" THEN NetworkAdd(r.name) ELSE NetworkDel(r.name)
           new == [l EXCEPT !.todo = <<Last(cmd)>>, !.view = NoTarget]
<1>1. ControlOK /\ UNCHANGED <<req, running>> /\ pc[op] = "exists" /\ running \in Config /\ r.kind \in ByExists
  BY OfOp DEF IInv, ReadExists, ReadOnly, Fits
<1>2. Formed(r, l) /\ (~l.disturbed => running = l.base) /\ l.done = <<>>
  BY <1>1, OfChange DEF PlanInv, Tracked, Stepping, Reading
<1>3. CASE Reject(op)
  BY <1>1, <1>3, LeavesTracked DEF Reject
<1>4. CASE HasNetwork(running, r.name) # (r.kind = "add-network") /\ Proceed(op, "send", <<Last(cmd)>>, NoTarget)
  <2>1. new.todo = <<Last(cmd)>> /\ new.base = l.base /\ new.seen = l.seen /\ new.done = <<>>
    BY <1>2 DEF Formed, Locals
  <2>2. new = [local[op] EXCEPT !.todo = <<Last(cmd)>>, !.view = NoTarget]
    OBVIOUS
  <2>3. cmd = TheCommand(r, new)
    BY <1>1 DEF TheCommand, ByExists
  <2> HIDE DEF new, cmd
  <2>4. ~l.disturbed => Found(r, new)
    BY <1>1, <1>2, <2>1 DEF Found, ByExists, BySubnet
  <2>5. ~l.disturbed => Compared(r, new)
    <3>1. ~l.disturbed => HasNetwork(new.base, r.name) = (r.kind = "delete-network")
      BY <1>1, <1>2, <1>4, <2>1 DEF ByExists, HasNetwork
    <3> QED
      BY <1>1, <3>1 DEF Compared, ByExists, BySend
  <2>6. Ready(r, new)
    BY <1>1, <2>1, <2>3 DEF Ready, ByExists
  <2> QED
    BY <1>1, <1>2, <1>4, <2>2, <2>4, <2>5, <2>6, ProceedTracked DEF Formed
<1> QED
  BY <1>1, <1>3, <1>4 DEF ReadExists, ByExists

LEMMA ReadCandidateTracked ==
    ASSUME IInv, LockInv, PlanInv, NEW op \in Ops, ReadCandidate(op)
    PROVE  Tracked(op)'
<1> DEFINE r == req[op]  l == local[op]
           new == [l EXCEPT !.todo = <<Last(ConfigSet(Candidate(r, running)))>>, !.view = NoTarget, !.base = running]
<1>1. ControlOK /\ UNCHANGED <<req, running>> /\ pc[op] = "candidate" /\ running \in Config
      /\ r.kind \in BySend \cup {"set-subnet-options"}
  BY OfOp DEF IInv, ReadCandidate, ReadOnly, Fits
<1>2. Formed(r, l) /\ (~l.disturbed => running = l.base) /\ l.done = <<>>
  BY <1>1, OfChange DEF PlanInv, Tracked, Stepping, Reading
<1>3. CASE Reject(op)
  BY <1>1, <1>3, LeavesTracked DEF Reject
<1>4. CASE CanEdit(r, running, l.seen) /\ Go(op, "send", new)
  <2>1. new.todo = <<Last(ConfigSet(Candidate(r, running)))>> /\ new.base = running /\ new.seen = l.seen /\ new.done = <<>>
        /\ new.disturbed = l.disturbed
    BY <1>2 DEF Formed, Locals
  <2> HIDE DEF new
  <2>2. Found(r, new)
    BY <1>1, <1>4, <2>1 DEF Found, BySend, BySubnet, CanEdit, Old
  <2>3. Compared(r, new)
    BY <1>1, <1>4, <2>1 DEF Compared, BySend, ByExists
  <2>4. TheCommand(r, new) = ConfigSet(Candidate(r, running))
    BY <1>1, <2>1 DEF TheCommand, BySend
  <2>5. Ready(r, new) /\ Trail(r, new, running)
    BY <1>1, <2>1, <2>4 DEF Ready, Trail, BySend
  <2>6. OnTrack("send", new, r, running', outcome[op].application)
    BY <1>1, <2>2, <2>3, <2>5 DEF OnTrack
  <2> QED
    BY <1>1, <1>4, <2>6, GoTracked DEF Stepping
<1> QED
  BY <1>3, <1>4 DEF ReadCandidate

------------------------------------------------------------------------------
(* The commands and their checks keep to the trail.                        *)

LEMMA SendTracked ==
    ASSUME IInv, LockInv, PlanInv, NEW op \in Ops, Send(op)
    PROVE  Tracked(op)'
<1> DEFINE r == req[op]  l == local[op]  cmd == Head(l.todo).cmd
<1>1. ControlOK /\ req' = req /\ pc[op] = "send" /\ running \in Config /\ l.todo # <<>> /\ l \in Locals
  BY OfOp DEF Send, Fits
<1>2. Formed(r, l)
  BY <1>1, OfChange
<1>3. ~l.disturbed => Found(r, l) /\ Compared(r, l) /\ Ready(r, l) /\ Trail(r, l, running)
  BY <1>1 DEF PlanInv, Tracked, OnTrack
<1>4. ~l.disturbed => StepLeads(r, l, running)
  BY <1>2, <1>3, EachLeads
<1>5. ~l.disturbed => Change!Partly(r, l.base, running)
  BY <1>2, <1>3, TrailPartly
<1>6. ~l.disturbed /\ Accepts(running, cmd) => Change!Partly(r, l.base, Result(running, cmd))
  BY <1>1, <1>2, <1>3, <1>4, StepPartly
<1>7. CASE Execute(cmd, op, l.base) /\ NextStep(op)
  <2>1. Accepts(running, cmd) /\ running' = Result(running, cmd)
    BY <1>7 DEF Execute
  <2> DEFINE undo == Head(l.todo).undo
             next == [l EXCEPT !.todo = Tail(l.todo), !.done = <<undo>> \o @]
             new  == [l EXCEPT !.todo = Tail(l.todo), !.done = IF undo = NoUndo THEN @ ELSE <<undo>> \o @]
  <2>2. CASE Tail(l.todo) = <<>> /\ Conclude(op, "applied")
    <3>1. ~l.disturbed => running' \in Change!Intended(r, l.base)
      BY <1>4, <2>1, <2>2 DEF StepLeads
    <3> QED
      BY <1>1, <2>2, <3>1, ConcludeTracked
  <2>3. CASE Tail(l.todo) # <<>> /\ Go(op, "send", new)
    <3>1. new.disturbed = l.disturbed
      BY <1>1 DEF Locals
    <3>2. ~l.disturbed => undo # NoUndo /\ Ready(r, next) /\ Trail(r, next, running')
      BY <1>4, <2>1, <2>3 DEF StepLeads
    <3>3. undo # NoUndo => new = next
      OBVIOUS
    <3>4. next.base = l.base /\ next.view = l.view /\ next.seen = l.seen
      BY <1>1, NextLocal
    <3> HIDE DEF new, next
    <3>5. ~l.disturbed => Found(r, new) /\ Compared(r, new) /\ Ready(r, new) /\ Trail(r, new, running')
      BY <1>3, <3>2, <3>3, <3>4, SameFacts
    <3>6. ~new.disturbed => OnTrack("send", new, r, running', outcome[op].application)
      BY <3>1, <3>5 DEF OnTrack
    <3> QED
      BY <1>1, <2>3, <3>6, GoTracked DEF Stepping
  <2> QED
    BY <1>7, <2>2, <2>3 DEF NextStep
<1>8. CASE Perhaps(cmd, op, l.base) /\ Go(op, "check", l)
  <2>1. running' = running \/ (Accepts(running, cmd) /\ running' = Result(running, cmd))
    BY <1>8 DEF Perhaps, Execute
  <2>2. ~l.disturbed => MayHaveRun(r, l, running')
    BY <1>1, <1>3, <2>1 DEF MayHaveRun
  <2>3. ~l.disturbed => OnTrack("check", l, r, running', outcome[op].application)
    BY <1>3, <2>2 DEF OnTrack
  <2> QED
    BY <1>1, <1>8, <2>3, GoTracked DEF Stepping
<1>9. CASE Abandon(op) /\ running' = running
  BY <1>1, <1>3, <1>9, AbandonTracked
<1>10. CASE Perhaps(cmd, op, l.base) /\ Conclude(op, "unknown")
  <2>1. running' = running \/ (Accepts(running, cmd) /\ running' = Result(running, cmd))
    BY <1>10 DEF Perhaps, Execute
  <2> QED
    BY <1>1, <1>5, <1>6, <1>10, <2>1, ConcludeTracked
<1> QED
  BY <1>7, <1>8, <1>9, <1>10 DEF Send, Perhaps, Linger

\* What a step says of the values that it writes, for the read that checks it.
LEMMA StepTarget ==
    ASSUME NEW r, NEW l, NEW d, Formed(r, l), Found(r, l), Compared(r, l), Ready(r, l), Trail(r, l, d)
    PROVE  LET cmd == Head(l.todo).cmd
           IN  /\ cmd.do = "subnet-add" =>
                    cmd.subnet.network = l.view.network /\ r.kind = "add-subnet" /\ l.done = <<>>
               /\ cmd.do = "subnet-update" => l.view.definition = Definition(d.subnets[cmd.id])
<1> DEFINE cmd == Head(l.todo).cmd
<1>1. CASE r.kind = "add-subnet" /\ l.done = <<>>
  <2>1. Head(l.todo).cmd = SubnetAdd(l.view.id, NewSubnet(r))
    <3>1. l.todo = AddPlan(r, l.view.id)
      BY <1>1 DEF Ready
    <3>2. CASE r.shared = None
      BY <3>1, <3>2, HeadsAndTails DEF AddPlan, Last
    <3>3. CASE r.shared # None
      BY <3>1, <3>3, HeadsAndTails DEF AddPlan, Step
    <3> QED
      BY <3>2, <3>3
  <2>2. NewSubnet(r).network = l.view.network
    BY <1>1 DEF NewSubnet, Found
  <2> QED
    BY <1>1, <2>1, <2>2 DEF SubnetAdd
<1>2. CASE r.kind = "add-subnet" /\ l.done # <<>>
  <2>1. Head(l.todo).cmd = Join(r.shared, l.view.id)
    BY <1>2, HeadsAndTails DEF Ready, Last
  <2> QED
    BY <2>1 DEF Join
<1>3. CASE r.kind = "edit-subnet"
  <2> DEFINE b == l.base.subnets[r.id]  now == MemberNow(r, l)
  <2>1. l.todo = EditPlan(r, l.view.definition, now) /\ l.view.definition = Definition(b)
    BY <1>3 DEF Ready, Compared
  <2>2. d.subnets[r.id] = [b EXCEPT !.member = now] /\ b \in Subnet
    BY <1>3, EditTrail
  <2>3. Definition(d.subnets[r.id]) = Definition(b)
    <3> HIDE DEF now
    <3>1. [[b EXCEPT !.member = now] EXCEPT !.member = None] = [b EXCEPT !.member = None]
      BY <2>2 DEF Subnet
    <3> QED
      BY <2>2, <3>1 DEF Definition
  <2> HIDE DEF b, now
  <2>4. Head(l.todo) \in {UpdateStep(r, l.view.definition), JoinStep(r), LeaveStep(r, now)}
    BY <2>1, EditPlanStep
  <2>5. CASE Head(l.todo) = UpdateStep(r, l.view.definition)
    <3>1. cmd = SubnetUpdate(r.id, Edited(r, l.view.definition))
      BY <2>5 DEF UpdateStep, Last
    <3>2. cmd.do = "subnet-update" /\ cmd.id = r.id
      BY <3>1 DEF SubnetUpdate
    <3> QED
      BY <2>1, <2>3, <3>2
  <2>6. CASE Head(l.todo) \in {JoinStep(r), LeaveStep(r, now)}
    <3>1. cmd \in {Join(r.shared, r.id), Leave(now, r.id)}
      BY <2>6 DEF JoinStep, LeaveStep, Step
    <3> QED
      BY <3>1 DEF Join, Leave
  <2> QED
    BY <2>4, <2>5, <2>6
<1>4. CASE r.kind \notin {"add-subnet", "edit-subnet"}
  <2>1. cmd = TheCommand(r, l)
    BY <1>4, HeadsAndTails DEF Ready, Last
  <2>2. TheCommand(r, l).do \notin {"subnet-add", "subnet-update"}
    BY DEF TheCommand, SubnetDel, PoolAdd, PoolDel, NetworkAdd, NetworkDel, ConfigSet
  <2> QED
    BY <2>1, <2>2
<1> QED
  BY <1>1, <1>2, <1>3, <1>4

\* A check that shows nothing of the command is right: Kea runs what it ran before the command, and nobody took the
\* Subnet ID.
LEMMA CheckShows ==
    ASSUME IInv, LockInv, PlanInv, NEW op \in Ops, pc[op] = "check", ~local[op].disturbed, ShowsNothing(op)
    PROVE  Trail(req[op], local[op], running) /\ ~Taken(op)
<1> DEFINE r == req[op]  l == local[op]  cmd == Head(l.todo).cmd
<1>1. l.todo # <<>> /\ l \in Locals /\ Formed(r, l)
  BY OfOp, OfChange DEF Fits
<1>2. Found(r, l) /\ Compared(r, l) /\ Ready(r, l) /\ MayHaveRun(r, l, running)
  BY DEF PlanInv, Tracked, OnTrack
<1>3. PICK before \in Config : /\ Trail(r, l, before)
                               /\ running = before \/ (Accepts(before, cmd) /\ running = Result(before, cmd))
  BY <1>2 DEF MayHaveRun
<1>4. cmd \in Commands
  BY <1>1, HeadTyped, StepFields DEF Locals
<1>5. /\ cmd.do = "subnet-add" => cmd.subnet.network = l.view.network /\ r.kind = "add-subnet" /\ l.done = <<>>
      /\ cmd.do = "subnet-update" => l.view.definition = Definition(before.subnets[cmd.id])
  BY <1>1, <1>2, <1>3, StepTarget
<1>6. CanCheck(cmd, l.view.network, running) /\ NotLive(cmd, l.view.network, l.view.definition, running)
  BY DEF ShowsNothing
<1>7. running = before
  BY <1>3, <1>4, <1>5, <1>6, NotLiveMeans
<1>8. ~Taken(op)
  <2> SUFFICES ASSUME Taken(op) PROVE FALSE
    OBVIOUS
  <2>1. cmd.do = "subnet-add" /\ Present(running, l.view.id) /\ r.kind = "add-subnet"
    BY DEF Taken
  <2>2. before = l.base
    BY <1>3, <1>5, <2>1, NoTrailYet
  <2> QED
    BY <1>2, <1>7, <2>1, <2>2 DEF Found
<1> QED
  BY <1>3, <1>7, <1>8

LEMMA CheckTracked ==
    ASSUME IInv, LockInv, PlanInv, NEW op \in Ops, Check(op)
    PROVE  Tracked(op)'
<1> DEFINE r == req[op]  l == local[op]  cmd == Head(l.todo).cmd
<1>1. ControlOK /\ UNCHANGED <<req, running>> /\ pc[op] = "check" /\ l.todo # <<>> /\ Formed(r, l)
  BY OfOp, OfChange DEF Check, ReadOnly, Fits
<1>2. CASE Conclude(op, "unknown")
  <2>1. ASSUME ~l.disturbed PROVE Change!Partly(r, l.base, running)
    <3>1. Found(r, l) /\ Compared(r, l) /\ Ready(r, l) /\ MayHaveRun(r, l, running)
      BY <1>1, <2>1 DEF PlanInv, Tracked, OnTrack
    <3>2. PICK before \in Config : /\ Trail(r, l, before)
                                   /\ running = before \/ (Accepts(before, cmd) /\ running = Result(before, cmd))
      BY <3>1 DEF MayHaveRun
    <3>3. StepLeads(r, l, before)
      BY <1>1, <3>1, <3>2, EachLeads
    <3> QED
      BY <1>1, <3>1, <3>2, <3>3, TrailPartly, StepPartly
  <2> QED
    BY <1>1, <1>2, <2>1, ConcludeTracked
<1>3. CASE ShowsNothing(op) /\ Taken(op) /\ Go(op, "retry", l)
  <2>1. l.disturbed = TRUE
    BY <1>1, <1>3, CheckShows DEF Formed, Locals
  <2> QED
    BY <1>1, <1>3, <2>1, GoTracked DEF Stepping
<1>4. CASE ShowsNothing(op) /\ Abandon(op)
  <2>1. ~l.disturbed => Found(r, l) /\ Trail(r, l, running)
    BY <1>1, <1>4, CheckShows DEF PlanInv, Tracked, OnTrack
  <2> QED
    BY <1>1, <1>4, <2>1, AbandonTracked
<1> QED
  BY <1>2, <1>3, <1>4 DEF Check

LEMMA ReallocateTracked ==
    ASSUME IInv, LockInv, PlanInv, NEW op \in Ops, Reallocate(op)
    PROVE  Tracked(op)'
<1>1. ControlOK /\ UNCHANGED <<req, running>> /\ pc[op] = "retry" /\ local[op] \in Locals
  BY OfOp DEF Reallocate, ReadOnly
<1>2. local[op].disturbed
  BY <1>1 DEF PlanInv, Tracked, OnTrack
<1>3. CASE Reject(op)
  BY <1>1, <1>3, LeavesTracked DEF Reject
<1>4. ASSUME NEW id, Go(op, "send", [local[op] EXCEPT !.todo = AddPlan(req[op], id), !.view.id = id, !.retried = TRUE])
      PROVE  Tracked(op)'
  <2> DEFINE new == [local[op] EXCEPT !.todo = AddPlan(req[op], id), !.view.id = id, !.retried = TRUE]
  <2>1. new.disturbed
    BY <1>1, <1>2 DEF Locals
  <2>2. Go(op, "send", new)
    BY <1>4
  <2> HIDE DEF new
  <2> QED
    BY <1>1, <2>1, <2>2, GoTracked DEF Stepping
<1> QED
  BY <1>3, <1>4 DEF Reallocate

LEMMA CheckUndoTracked ==
    ASSUME IInv, LockInv, PlanInv, NEW op \in Ops, CheckUndo(op)
    PROVE  Tracked(op)'
<1> DEFINE r == req[op]  l == local[op]
           new == [l EXCEPT !.stale = \E other \in Ops \ {op} : pc[other] \in UnderLock]
<1>1. ControlOK /\ UNCHANGED <<req, running>> /\ pc[op] = "undo-check" /\ Formed(r, l)
  BY OfOp, OfChange DEF CheckUndo, ReadOnly
<1>2. ~l.disturbed => Found(r, l) /\ Trail(r, l, running)
  BY <1>1 DEF PlanInv, Tracked, OnTrack
<1>3. CASE Conclude(op, "unknown")
  BY <1>1, <1>2, <1>3, TrailPartly, ConcludeTracked
<1>4. CASE Go(op, "undo-send", new)
  <2>1. /\ new.disturbed = l.disturbed /\ new.base = l.base /\ new.view = l.view /\ new.seen = l.seen
        /\ new.todo = l.todo /\ new.done = l.done
    BY <1>1 DEF Formed, Locals
  <2> HIDE DEF new
  <2>2. ~l.disturbed => Found(r, new) /\ Trail(r, new, running)
    BY <1>2, <2>1, SameFacts
  <2>3. ~new.disturbed => OnTrack("undo-send", new, r, running', outcome[op].application)
    BY <1>1, <2>1, <2>2 DEF OnTrack
  <2> QED
    BY <1>1, <1>4, <2>3, GoTracked DEF Stepping
<1> QED
  BY <1>3, <1>4 DEF CheckUndo

LEMMA SendUndoTracked ==
    ASSUME IInv, LockInv, PlanInv, NEW op \in Ops, SendUndo(op)
    PROVE  Tracked(op)'
<1> DEFINE r == req[op]  l == local[op]  cmd == Head(l.done).cmd
           back == [l EXCEPT !.done = Tail(l.done)]
<1>1. ControlOK /\ req' = req /\ pc[op] = "undo-send" /\ Formed(r, l) /\ l.done # <<>> /\ l \in Locals
  BY OfOp, OfChange DEF SendUndo, Fits
<1>2. ~l.disturbed => Found(r, l) /\ Trail(r, l, running)
  BY <1>1 DEF PlanInv, Tracked, OnTrack
<1>3. /\ back.disturbed = l.disturbed /\ back.base = l.base /\ back.view = l.view /\ back.seen = l.seen
      /\ back.done = Tail(l.done) /\ back \in Locals
  BY <1>1, HeadTyped DEF Locals
<1>4. ~l.disturbed /\ Accepts(running, cmd) => Trail(r, back, Result(running, cmd))
  BY <1>1, <1>2, UndoLeads
<1> HIDE DEF back
<1>5. ~l.disturbed => Found(r, back)
  BY <1>2, <1>3, SameFacts
<1>6. Formed(r, back)
  BY <1>1, <1>3 DEF Formed
<1>7. CASE Execute(cmd, None, None) /\ Reject(op)
  BY <1>1, <1>7, LeavesTracked DEF Reject
<1>8. CASE Execute(cmd, None, None) /\ Go(op, "undo-check", back)
  <2>1. ~l.disturbed => Trail(r, back, running')
    BY <1>4, <1>8 DEF Execute
  <2>2. ~back.disturbed => OnTrack("undo-check", back, r, running', outcome[op].application)
    BY <1>3, <1>5, <2>1 DEF OnTrack
  <2> QED
    BY <1>1, <1>8, <2>2, GoTracked DEF Stepping
<1>9. CASE Perhaps(cmd, None, None) /\ Conclude(op, "unknown")
  <2>1. running' = running \/ (Accepts(running, cmd) /\ running' = Result(running, cmd))
    BY <1>9 DEF Perhaps, Execute
  <2>2. ~l.disturbed => Change!Partly(r, l.base, running)
    BY <1>1, <1>2, TrailPartly
  <2>3. ~l.disturbed /\ Accepts(running, cmd) => Change!Partly(r, l.base, Result(running, cmd))
    BY <1>3, <1>4, <1>5, <1>6, TrailPartly
  <2> QED
    BY <1>1, <1>9, <2>1, <2>2, <2>3, ConcludeTracked
<1> QED
  BY <1>7, <1>8, <1>9 DEF SendUndo, Perhaps, Linger, back

------------------------------------------------------------------------------
(* Every step keeps every change on its trail.                             *)

LEMMA OwnTracked ==
    ASSUME IInv, LockInv, PlanInv, NEW op \in Ops, OpenForm(op) \/ Submit(op) \/ Prepare(op) \/ Act(op)
    PROVE  Tracked(op)'
<1>1. ControlOK
  BY DEF IInv
<1>2. ASSUME NEW place \in Open \cup {"waiting", "scope", "exists", "candidate"}, NEW l, NEW r, NEW c, NEW application
      PROVE  place \notin Stepping /\ OnTrack(place, l, r, c, application)
  BY DEF Open, Stepping, OnTrack
<1>3. CASE OpenForm(op)
  <2>1. pc'[op] = "form" /\ local'[op] = [Blank EXCEPT !.seen = running]
    BY <1>1, <1>3 DEF OpenForm, Go, ControlOK
  <2>2. local'[op].done = <<>>
    BY <2>1 DEF Blank
  <2> QED
    BY <1>2, <2>1, <2>2 DEF Tracked, Open
<1>4. CASE Submit(op)
  <2>1. CASE Reject(op)
    BY <1>1, <2>1, LeavesTracked DEF Reject
  <2>2. CASE Go(op, "waiting", local[op])
    <3>1. local[op].done = <<>> /\ req' = req
      BY <1>4 DEF PlanInv, Tracked, Submit, Stepping
    <3> QED
      BY <1>1, <1>2, <2>2, <3>1, GoTracked
  <2> QED
    BY <1>4, <2>1, <2>2 DEF Submit
<1>5. CASE Acquire(op)
  <2>1. local[op].done = <<>> /\ local[op] \in Locals
    BY <1>5, OfOp DEF PlanInv, Tracked, Acquire, Stepping
  <2>2. pc'[op] = FirstRead(req[op]) /\ local'[op].done = local[op].done
    BY <1>1, <1>5, <2>1 DEF Acquire, ControlOK, Locals
  <2>3. FirstRead(req[op]) \in {"scope", "exists", "candidate"}
    BY DEF FirstRead
  <2> QED
    BY <1>2, <2>1, <2>2, <2>3 DEF Tracked
<1>6. CASE LockTimeout(op) \/ Persist(op)
  BY <1>1, <1>6, LeavesTracked DEF LockTimeout, Persist, Reject
<1> QED
  BY <1>3, <1>4, <1>5, <1>6, ReadsTracked, ReadDefinitionTracked, ReadExistsTracked, ReadCandidateTracked, SendTracked,
     CheckTracked, ReallocateTracked, CheckUndoTracked, SendUndoTracked DEF Prepare, Act

\* An action of op changes the request of no other change.
LEMMA RequestsKept ==
    ASSUME IInv, NEW op \in Ops, OpenForm(op) \/ Submit(op) \/ Prepare(op) \/ Act(op)
    PROVE  \A other \in Ops \ {op} : req'[other] = req[other]
BY DEF OpenForm, Submit, Prepare, Act, Acquire, LockTimeout, ReadFails, ReadScope, RequireNetwork, ReadDefinition,
       ReadExists, ReadCandidate, Send, Check, Reallocate, CheckUndo, SendUndo, Persist, ReadOnly, IInv, InputOK

\* The places where a change can be on its trail or off it.
LEMMA OffTheLock ==
    ASSUME NEW place, place \notin UnderLock, NEW l, NEW r, NEW c, NEW application
    PROVE  OnTrack(place, l, r, c, application)
BY DEF OnTrack, UnderLock, Reading, Stepping

LEMMA OthersTracked ==
    ASSUME IInv, LockInv, PlanInv, NEW op \in Ops, OpenForm(op) \/ Submit(op) \/ Prepare(op) \/ Act(op),
           NEW other \in Ops \ {op}
    PROVE  Tracked(other)'
<1>1. Own(op) /\ (running' = running \/ pc[op] \in UnderLock)
  <2>1. CASE Acquire(op)
    BY <2>1 DEF Acquire, Own, IInv, ControlOK
  <2>2. CASE ~Acquire(op)
    BY <2>2, OpSteps DEF Advance, ReadKept
  <2> QED
    BY <2>1, <2>2
<1>2. /\ pc'[other] = pc[other] /\ local'[other] = local[other] /\ outcome'[other] = outcome[other]
      /\ req'[other] = req[other]
  BY <1>1, RequestsKept DEF Own
<1>3. Tracked(other)
  BY DEF PlanInv
<1>4. CASE running' = running
  BY <1>2, <1>3, <1>4 DEF Tracked
<1>5. CASE pc[op] \in UnderLock
  <2>1. ~local[other].disturbed => pc[other] \notin UnderLock
    BY <1>5 DEF LockInv, Exclusive
  <2> QED
    BY <1>2, <1>3, <2>1, OffTheLock DEF Tracked
<1> QED
  BY <1>1, <1>4, <1>5

LEMMA OutsiderTracked ==
    ASSUME IInv, PlanInv, IInv', Environment
    PROVE  PlanInv'
<1>1. Outsider
  BY EnvironmentIsOutside
<1>2. req' = req /\ \A op \in Ops : local'[op].done = local[op].done
  <2>1. ASSUME NEW ops, Disturb(ops), NEW op \in Ops PROVE local'[op].done = local[op].done
    BY <2>1, OfOp DEF Disturb, Locals
  <2> QED
    BY <2>1 DEF Environment, AdminWrites, LateRequest, Restart, LoseLock, OtherPersist, control
<1>3. \A op \in Ops : local'[op].disturbed \in BOOLEAN
  BY DEF IInv, ControlOK, Locals
<1> SUFFICES ASSUME NEW op \in Ops PROVE Tracked(op)'
  BY DEF PlanInv
<1>4. pc'[op] = pc[op] /\ outcome'[op] = outcome[op] /\ Tracked(op)
  BY <1>1 DEF Outsider, PlanInv
<1>5. CASE pc[op] \in UnderLock
  BY <1>1, <1>2, <1>3, <1>4, <1>5 DEF Outsider, Tracked
<1>6. CASE pc[op] \notin UnderLock
  BY <1>2, <1>4, <1>6, OffTheLock DEF Tracked
<1> QED
  BY <1>5, <1>6

LEMMA PlanInvInit == Init => PlanInv
BY DEF Init, PlanInv, Tracked, OnTrack, Blank

LEMMA PlanInvNext == IInv /\ LockInv /\ PlanInv /\ [Next]_vars => PlanInv'
<1> SUFFICES ASSUME IInv, LockInv, PlanInv, [Next]_vars PROVE PlanInv'
  OBVIOUS
<1>1. ASSUME NEW op \in Ops, OpenForm(op) \/ Submit(op) \/ Prepare(op) \/ Act(op) PROVE PlanInv'
  BY <1>1, OwnTracked, OthersTracked DEF PlanInv
<1>2. CASE Environment
  BY <1>2, IInvNext, OutsiderTracked
<1>3. CASE UNCHANGED vars
  BY <1>3 DEF vars, control, PlanInv, Tracked
<1> QED
  BY <1>1, <1>2, <1>3 DEF Next, Terminating

------------------------------------------------------------------------------
(* What a change that nothing disturbs writes.                             *)

\* The part p of c shows what the form showed or nothing, or the change adds or removes one element of a set.
Replaceable(r, l, c, new, p) ==
    \/ Part(c, p) \in {Part(l.seen, p), None}
    \/ p[1] = "pools" /\ SymDiff(Part(c, p), Part(new, p)) = {r.pool}
    \/ p[1] = "server" /\ SymDiff(Part(c, p), Part(new, p)) = {r.def}

\* The change writes the Subnet that its request names, under the network that its form showed.
OfSeen(r, l, c, p) ==
    r.kind \in BySubnet =>
        /\ \E field \in Fields : p = <<field, r.id>>
        /\ Present(c, r.id) /\ c.subnets[r.id].network = Old(r, l).network

LEMMA SymDiffOne ==
    /\ \A set, x : x \notin set => SymDiff(set, set \cup {x}) = {x}
    /\ \A set, x : x \in set => SymDiff(set, set \ {x}) = {x}
BY DEF SymDiff

LEMMA AddWrites ==
    ASSUME NEW r, NEW l, NEW c, Formed(r, l), Found(r, l), Ready(r, l), Trail(r, l, c), r.kind = "add-subnet",
           NEW p \in Parts, NEW cmd, cmd = Head(l.todo).cmd, Part(Result(c, cmd), p) # Part(c, p)
    PROVE  Part(c, p) = None
<1> DEFINE id == l.view.id  first == Change!WithSubnet(l.base, id, NewSubnet(r))
<1>1. /\ id \in Ids /\ r.shared \in Names \cup {None} /\ NewSubnet(r) \in Subnet /\ l.base \in Config
      /\ NewSubnet(r).member = None /\ ~Present(l.base, id)
  BY NewSubnetGoal DEF Found
<1>2. CASE l.done = <<>>
  <2>1. c = l.base
    BY <1>2, NoTrailYet
  <2>2. cmd = SubnetAdd(id, NewSubnet(r))
    <3>1. l.todo = AddPlan(r, id)
      BY <1>2 DEF Ready
    <3>2. CASE r.shared = None
      BY <3>1, <3>2, HeadsAndTails DEF AddPlan, Last
    <3>3. CASE r.shared # None
      BY <3>1, <3>3, HeadsAndTails DEF AddPlan, Step
    <3> QED
      BY <3>2, <3>3
  <2>3. Result(c, cmd) = first
    <3>1. \A subnet \in Subnet : Result(l.base, SubnetAdd(id, subnet)) = Change!WithSubnet(l.base, id, subnet)
      BY <1>1, SubnetResults
    <3> QED
      BY <1>1, <2>1, <2>2, <3>1
  <2>4. \E field \in Fields : p = <<field, id>>
    BY <1>1, <2>1, <2>3, SubnetParts
  <2>5. \A field \in Fields : Part(l.base, <<field, id>>) = None
    BY <1>1, PartOf
  <2> QED
    BY <2>1, <2>4, <2>5
<1>3. CASE l.done # <<>>
  <2> DEFINE whole == [NewSubnet(r) EXCEPT !.member = r.shared]
  <2>1. r.shared # None /\ c = first
    BY <1>3 DEF Trail
  <2>2. cmd = Join(r.shared, id)
    BY <1>3, HeadsAndTails DEF Ready, Last
  <2>3. first \in Config /\ first.subnets[id] = NewSubnet(r)
        /\ \A field \in Fields : Part(first, <<field, id>>) = NewSubnet(r)[field]
    BY <1>1, SubnetParts, ConfigAssumption
  <2>4. Present(first, id) /\ r.shared \in Names
    BY <1>1, <2>1, <2>3, ConfigAssumption DEF Present
  <2>5. whole \in Subnet /\ \A field \in Fields \ {"member"} : whole[field] = NewSubnet(r)[field]
    BY <1>1 DEF Subnet, Fields
  <2> HIDE DEF id, first
  <2>6. \A name \in Names :
          Result(first, Join(name, id)) = Change!WithSubnet(first, id, [first.subnets[id] EXCEPT !.member = name])
    BY <1>1, <2>3, <2>4, SubnetResults
  <2>7. Result(c, cmd) = Change!WithSubnet(first, id, whole)
    BY <2>1, <2>2, <2>3, <2>4, <2>6
  <2> HIDE DEF whole
  <2>8. /\ Part(Result(c, cmd), p) = Part(c, p) \/ \E field \in Fields : p = <<field, id>>
        /\ \A field \in Fields : Part(Result(c, cmd), <<field, id>>) = whole[field]
    BY <1>1, <2>1, <2>3, <2>5, <2>7, SubnetParts, ConfigAssumption
  <2>9. PICK field \in Fields : p = <<field, id>>
    BY <2>8
  <2>10. field = "member"
    BY <2>1, <2>3, <2>5, <2>8, <2>9
  <2> QED
    BY <1>1, <2>1, <2>3, <2>9, <2>10
<1> QED
  BY <1>2, <1>3

LEMMA EditWrites ==
    ASSUME NEW r, NEW l, NEW c, Formed(r, l), Found(r, l), Compared(r, l), Ready(r, l), Trail(r, l, c),
           r.kind = "edit-subnet", NEW p \in Parts, NEW cmd, cmd = Head(l.todo).cmd, Part(Result(c, cmd), p) # Part(c, p)
    PROVE  /\ Part(c, p) \in {Part(l.seen, p), None}
           /\ OfSeen(r, l, c, p)
<1> DEFINE b == l.base.subnets[r.id]  now == MemberNow(r, l)  one == [b EXCEPT !.member = now]
<1>1. /\ r.id \in Ids /\ r.shared \in Names \cup {None} /\ b \in Subnet /\ Old(r, l).member = b.member
      /\ now \in Names \cup {None} /\ c \in Config /\ Present(c, r.id) /\ c.subnets[r.id] = one /\ one \in Subnet
  BY EditTrail
<1>2. l.todo = EditPlan(r, l.view.definition, now) /\ l.view.definition = Definition(b)
      /\ b.pools = Old(r, l).pools /\ b.managed = Old(r, l).managed /\ b.network = Old(r, l).network
  BY DEF Ready, Compared, Found, BySubnet
<1>3. Present(l.seen, r.id)
  BY DEF Formed, Shown, BySubnet
<1>4. \A field \in Fields : Part(l.seen, <<field, r.id>>) = Old(r, l)[field]
  BY <1>1, <1>3, PartOf DEF Old
<1>5. \A field \in Fields : Part(c, <<field, r.id>>) = one[field]
  BY <1>1, PartOf
<1>6. one.network = b.network /\ one.pools = b.pools /\ one.managed = b.managed /\ one.member = now
  BY <1>1 DEF Subnet
<1>7. \/ l.done = <<>> /\ now = b.member
      \/ now = None
      \/ now = r.shared
  BY <1>1, MoveCases
<1> HIDE DEF now, b, one
\* A command that makes another Subnet of r.id.
<1>8. ASSUME NEW subnet \in Subnet, Result(c, cmd) = Change!WithSubnet(c, r.id, subnet)
      PROVE  \E field \in Fields : p = <<field, r.id>> /\ subnet[field] # one[field]
  <2>1. /\ Part(Result(c, cmd), p) = Part(c, p) \/ \E field \in Fields : p = <<field, r.id>>
        /\ \A field \in Fields : Part(Result(c, cmd), <<field, r.id>>) = subnet[field]
    BY <1>1, <1>8, SubnetParts, ConfigAssumption
  <2> QED
    BY <1>5, <2>1
<1>9. ASSUME NEW member \in Names \cup {None}, Result(c, cmd) = Change!WithSubnet(c, r.id, [one EXCEPT !.member = member])
      PROVE  p = <<"member", r.id>>
  <2> DEFINE subnet == [one EXCEPT !.member = member]
  <2>1. subnet \in Subnet /\ \A field \in Fields \ {"member"} : subnet[field] = one[field]
    BY <1>1 DEF Subnet, Fields
  <2> HIDE DEF subnet
  <2>2. \E field \in Fields : p = <<field, r.id>> /\ subnet[field] # one[field]
    BY <1>8, <1>9, <2>1 DEF subnet
  <2> QED
    BY <2>1, <2>2
<1>10. CASE r.shared = now
  <2> DEFINE edited == Edited(r, Definition(b))  subnet == [edited EXCEPT !.member = now]
  <2>1. Head(l.todo) = UpdateStep(r, Definition(b))
    BY <1>2, <1>10, EditPlanStep
  <2>2. cmd = SubnetUpdate(r.id, edited)
    BY <2>1 DEF UpdateStep, Last
  <2>3. r.pools \in SUBSET Pools /\ r.managed \in Values
    BY DEF Formed, RequestForms
  <2>4. subnet = [one EXCEPT !.pools = r.pools, !.managed = r.managed]
    BY <1>1 DEF Edited, Definition, Subnet, one
  <2>5. subnet \in Subnet /\ \A field \in Fields \ {"pools", "managed"} : subnet[field] = one[field]
    <3> HIDE DEF subnet
    <3> QED
      BY <1>1, <2>3, <2>4 DEF Subnet, Fields
  <2> HIDE DEF edited
  <2>6. \A x : Result(c, SubnetUpdate(r.id, x)) = Change!WithSubnet(c, r.id, [x EXCEPT !.member = c.subnets[r.id].member])
    BY <1>1, SubnetResults
  <2>7. Result(c, cmd) = Change!WithSubnet(c, r.id, subnet)
    BY <1>1, <1>6, <2>2, <2>6
  <2> HIDE DEF subnet
  <2>8. PICK field \in Fields : p = <<field, r.id>> /\ subnet[field] # one[field]
    BY <1>8, <2>5, <2>7
  <2>9. field \in {"pools", "managed"}
    BY <2>5, <2>8
  <2>10. Part(c, p) = Part(l.seen, p)
    BY <1>2, <1>4, <1>5, <1>6, <2>8, <2>9 DEF Fields
  <2> QED
    BY <1>1, <1>2, <1>6, <2>8, <2>10 DEF OfSeen
<1>11. CASE r.shared # now
  <2>1. \/ now = None /\ cmd = Join(r.shared, r.id)
        \/ now # None /\ cmd = Leave(now, r.id)
    <3>1. CASE now = None
      <4>1. Head(l.todo) = JoinStep(r)
        BY <1>2, <1>11, <3>1, EditPlanStep
      <4> QED
        BY <3>1, <4>1 DEF JoinStep, Step
    <3>2. CASE now # None
      <4>1. Head(l.todo) = LeaveStep(r, now)
        BY <1>2, <1>11, <3>2, EditPlanStep
      <4> QED
        BY <3>2, <4>1 DEF LeaveStep, Step
    <3> QED
      BY <3>1, <3>2
  <2>2. \A name \in Names :
          /\ Result(c, Join(name, r.id)) = Change!WithSubnet(c, r.id, [c.subnets[r.id] EXCEPT !.member = name])
          /\ Result(c, Leave(name, r.id)) = Change!WithSubnet(c, r.id, [c.subnets[r.id] EXCEPT !.member = None])
    BY <1>1, SubnetResults
  <2>3. p = <<"member", r.id>>
    <3>1. CASE now = None
      <4>1. r.shared \in Names
        BY <1>1, <1>11, <3>1
      <4>2. Result(c, cmd) = Change!WithSubnet(c, r.id, [one EXCEPT !.member = r.shared])
        BY <1>1, <2>1, <2>2, <3>1, <4>1
      <4> QED
        BY <1>9, <4>1, <4>2
    <3>2. CASE now # None
      <4>1. Result(c, cmd) = Change!WithSubnet(c, r.id, [one EXCEPT !.member = None])
        BY <1>1, <2>1, <2>2, <3>2
      <4> QED
        BY <1>9, <4>1
    <3> QED
      BY <3>1, <3>2
  <2>4. Part(c, p) = now /\ Part(l.seen, p) = b.member
    BY <1>1, <1>4, <1>5, <1>6, <2>3 DEF Fields
  <2>5. \E field \in Fields : p = <<field, r.id>>
    BY <2>3 DEF Fields
  <2> QED
    BY <1>1, <1>2, <1>6, <1>7, <1>11, <2>4, <2>5 DEF OfSeen
<1> QED
  BY <1>10, <1>11

\* A command that makes another Subnet of r.id writes there.
LEMMA OneSubnetWrites ==
    ASSUME NEW c \in Config, NEW id \in Ids, Present(c, id), NEW subnet \in Subnet, NEW new,
           new = Change!WithSubnet(c, id, subnet), NEW p \in Parts, Part(new, p) # Part(c, p)
    PROVE  \E field \in Fields : /\ p = <<field, id>> /\ subnet[field] # c.subnets[id][field]
                                 /\ Part(c, p) = c.subnets[id][field] /\ Part(new, p) = subnet[field]
<1>1. /\ Part(new, p) = Part(c, p) \/ \E field \in Fields : p = <<field, id>>
      /\ \A field \in Fields : Part(new, <<field, id>>) = subnet[field]
  BY SubnetParts, ConfigAssumption
<1>2. \A field \in Fields : Part(c, <<field, id>>) = c.subnets[id][field]
  BY PartOf
<1> QED
  BY <1>1, <1>2

LEMMA SingleWrites ==
    ASSUME NEW r, NEW l, NEW c, Formed(r, l), Found(r, l), Compared(r, l), Ready(r, l), Trail(r, l, c),
           r.kind \notin {"add-subnet", "edit-subnet"}, NEW p \in Parts, NEW cmd, cmd = Head(l.todo).cmd,
           Accepts(c, cmd), Part(Result(c, cmd), p) # Part(c, p)
    PROVE  /\ r.kind \notin {"delete-subnet", "delete-network"} => Replaceable(r, l, c, Result(c, cmd), p)
           /\ OfSeen(r, l, c, p)
<1>1. c = l.base /\ c \in Config /\ cmd = TheCommand(r, l)
  <2>1. l.todo = <<Last(TheCommand(r, l))>>
    BY DEF Ready
  <2>2. cmd = TheCommand(r, l)
    BY <2>1, HeadsAndTails DEF Last
  <2> QED
    BY <2>2, NoTrailYet DEF Found
<1>2. r.kind \in BySubnet => /\ r.id \in Ids /\ Present(c, r.id) /\ c.subnets[r.id].network = Old(r, l).network
                             /\ Present(l.seen, r.id) /\ c.subnets[r.id] \in Subnet
  <2>1. r.kind \in BySubnet => r.id \in Ids
    BY DEF Formed, RequestForms, BySubnet
  <2>2. r.kind \in BySubnet => Present(l.seen, r.id) /\ Present(c, r.id) /\ c.subnets[r.id].network = Old(r, l).network
    BY <1>1 DEF Formed, Shown, Found
  <2> QED
    BY <1>1, <2>1, <2>2 DEF Present, Config
<1> DEFINE new == Result(c, cmd)
<1>3. CASE r.kind = "delete-subnet"
  <2>1. r.kind \in BySubnet
    BY <1>3 DEF BySubnet
  <2>2. cmd = SubnetDel(r.id)
    BY <1>1, <1>3 DEF TheCommand
  <2>3. new = Change!WithSubnet(c, r.id, None)
    BY <1>1, <1>2, <2>1, <2>2, SubnetResults
  <2>4. \E field \in Fields : p = <<field, r.id>>
    BY <1>1, <1>2, <2>1, <2>3, SubnetParts
  <2> QED
    BY <1>2, <1>3, <2>1, <2>4 DEF OfSeen
<1>4. CASE r.kind \in {"add-pool", "delete-pool"}
  <2> DEFINE now == c.subnets[r.id]
             pools == IF r.kind = "add-pool" THEN now.pools \cup {r.pool} ELSE now.pools \ {r.pool}
             subnet == [now EXCEPT !.pools = pools]
  <2>1. r.kind \in BySubnet /\ r.pool \in Pools
    BY <1>4 DEF BySubnet, Formed, RequestForms
  <2>2. \/ r.kind = "add-pool" /\ cmd = PoolAdd(r.id, l.view.network, r.pool)
        \/ r.kind = "delete-pool" /\ cmd = PoolDel(r.id, l.view.network, r.pool)
    BY <1>1, <1>4 DEF TheCommand
  <2>3. \A network, pool : /\ Result(c, PoolAdd(r.id, network, pool))
                                = Change!WithSubnet(c, r.id, [c.subnets[r.id] EXCEPT !.pools = @ \cup {pool}])
                           /\ Result(c, PoolDel(r.id, network, pool))
                                = Change!WithSubnet(c, r.id, [c.subnets[r.id] EXCEPT !.pools = @ \ {pool}])
    BY <1>1, <1>2, <2>1, SubnetResults
  <2>4. new = Change!WithSubnet(c, r.id, subnet)
    BY <1>4, <2>2, <2>3
  <2>5. SymDiff(now.pools, pools) = {r.pool}
    <3>1. CASE r.kind = "add-pool"
      <4>1. Accepts(c, PoolAdd(r.id, l.view.network, r.pool))
        BY <2>2, <3>1
      <4>2. r.pool \notin now.pools
        BY <4>1 DEF Accepts, PoolAdd
      <4> QED
        BY <3>1, <4>2, SymDiffOne
    <3>2. CASE r.kind = "delete-pool"
      <4>1. Accepts(c, PoolDel(r.id, l.view.network, r.pool))
        BY <2>2, <3>2
      <4>2. r.pool \in now.pools
        BY <4>1 DEF Accepts, PoolDel
      <4> QED
        BY <3>2, <4>2, SymDiffOne
    <3> QED
      BY <1>4, <3>1, <3>2
  <2>6. subnet \in Subnet /\ subnet.pools = pools /\ \A field \in Fields \ {"pools"} : subnet[field] = now[field]
    BY <1>2, <2>1 DEF Subnet, Fields
  <2> HIDE DEF subnet, pools, new
  <2>7. PICK field \in Fields : /\ p = <<field, r.id>> /\ subnet[field] # now[field]
                                /\ Part(c, p) = now[field] /\ Part(new, p) = subnet[field]
    BY <1>1, <1>2, <2>1, <2>4, <2>6, OneSubnetWrites DEF new
  <2>8. field = "pools"
    BY <2>6, <2>7
  <2>9. p[1] = "pools" /\ Part(c, p) = now.pools /\ Part(new, p) = pools
    BY <2>6, <2>7, <2>8
  <2> QED
    BY <1>2, <2>1, <2>5, <2>7, <2>9 DEF Replaceable, OfSeen, new
<1>5. CASE r.kind = "set-subnet-options"
  <2> DEFINE now == c.subnets[r.id]  subnet == [now EXCEPT !.managed = r.managed, !.unshown = r.unshown]
  <2>1. r.kind \in BySubnet /\ r.managed \in Values /\ r.unshown \in Values
    BY <1>5 DEF BySubnet, Formed, RequestForms
  <2>2. cmd = ConfigSet(Candidate(r, c))
    BY <1>1, <1>5 DEF TheCommand
  <2>3. new = Candidate(r, c)
    <3>1. Result(c, ConfigSet(Candidate(r, c))) = Candidate(r, c)
      BY DEF Result, ConfigSet
    <3> QED
      BY <2>2, <3>1
  <2>4. Candidate(r, c) = Change!WithSubnet(c, r.id, subnet)
    BY <1>1, <1>2, <1>5, <2>1 DEF Candidate, Change!WithSubnet, Config
  <2>5. subnet \in Subnet /\ \A field \in Fields \ {"managed", "unshown"} : subnet[field] = now[field]
    BY <1>2, <2>1 DEF Subnet, Fields
  <2>6. now.managed = Old(r, l).managed /\ now.unshown = Old(r, l).unshown
    BY <1>1, <1>5 DEF Compared, CanEdit, Old
  <2> HIDE DEF subnet, new
  <2>7. PICK field \in Fields : /\ p = <<field, r.id>> /\ subnet[field] # now[field] /\ Part(c, p) = now[field]
    BY <1>1, <1>2, <2>1, <2>3, <2>4, <2>5, OneSubnetWrites DEF new
  <2>8. field \in {"managed", "unshown"}
    BY <2>5, <2>7
  <2>9. Part(l.seen, p) = Old(r, l)[field]
    BY <1>2, <2>1, <2>7, PartOf DEF Old
  <2>10. Part(c, p) = Part(l.seen, p)
    BY <2>6, <2>7, <2>8, <2>9
  <2> QED
    BY <1>2, <2>1, <2>7, <2>10 DEF Replaceable, OfSeen
<1>6. CASE r.kind \in {"set-server-options", "add-definition", "delete-definition", "edit-network"}
  <2>1. r.kind \notin BySubnet /\ r.kind \in BySend
    BY <1>6 DEF BySubnet, BySend
  <2>2. cmd = ConfigSet(Candidate(r, c))
    BY <1>1, <1>6 DEF TheCommand
  <2>3. new = Candidate(r, c)
    <3>1. Result(c, ConfigSet(Candidate(r, c))) = Candidate(r, c)
      BY DEF Result, ConfigSet
    <3> QED
      BY <2>2, <3>1
  <2>4. CanEdit(r, c, l.seen)
    BY <1>1, <2>1 DEF Compared
  <2>5. Candidate(r, c) \in Config
    BY <1>1, <2>1, CandidateTyped DEF Formed, BySend
  <2> HIDE DEF new
  <2>6. CASE r.kind = "set-server-options"
    <3>1. Candidate(r, c) = [c EXCEPT !.options = r.options] /\ c.options = l.seen.options
      BY <2>4, <2>6 DEF Candidate, CanEdit
    <3>2. /\ Candidate(r, c).subnets = c.subnets /\ Candidate(r, c).nets = c.nets /\ Candidate(r, c).defs = c.defs
      BY <1>1, <3>1 DEF Config
    <3>3. p = <<"server", "options">>
      BY <1>1, <2>3, <2>5, <3>2, ServerParts DEF new
    <3> QED
      BY <2>1, <3>1, <3>3, PartOf DEF Replaceable, OfSeen
  <2>7. CASE r.kind \in {"add-definition", "delete-definition"}
    <3> DEFINE defs == IF r.kind = "add-definition" THEN c.defs \cup {r.def} ELSE c.defs \ {r.def}
    <3>1. Candidate(r, c) = [c EXCEPT !.defs = defs]
      BY <2>7 DEF Candidate
    <3>2. SymDiff(c.defs, defs) = {r.def}
      BY <2>4, <2>7, SymDiffOne DEF CanEdit
    <3> HIDE DEF defs
    <3>3. /\ Candidate(r, c).subnets = c.subnets /\ Candidate(r, c).nets = c.nets /\ Candidate(r, c).options = c.options
          /\ Candidate(r, c).defs = defs
      BY <1>1, <3>1 DEF Config
    <3>4. p = <<"server", "defs">>
      BY <1>1, <2>3, <2>5, <3>3, ServerParts DEF new
    <3>5. Part(c, p) = c.defs /\ Part(new, p) = defs /\ p[1] = "server"
      BY <2>3, <3>3, <3>4, PartOf
    <3> QED
      BY <2>1, <3>2, <3>5 DEF Replaceable, OfSeen, new
  <2>8. CASE r.kind = "edit-network"
    <3>1. Candidate(r, c) = [c EXCEPT !.nets[r.name] = r.value] /\ c.nets[r.name] = l.seen.nets[r.name]
      BY <2>4, <2>8 DEF Candidate, CanEdit
    <3>2. /\ Candidate(r, c).subnets = c.subnets /\ Candidate(r, c).defs = c.defs /\ Candidate(r, c).options = c.options
          /\ \A name \in Names \ {r.name} : Candidate(r, c).nets[name] = c.nets[name]
      BY <1>1, <3>1 DEF Config
    <3>3. PICK name \in Names : p = <<"net", name>> /\ Candidate(r, c).nets[name] # c.nets[name]
      BY <1>1, <2>3, <2>5, <3>2, ServerParts DEF new
    <3>4. p = <<"net", r.name>> /\ r.name \in Names
      BY <3>2, <3>3
    <3>5. Part(c, p) = Part(l.seen, p)
      BY <3>1, <3>4, PartOf
    <3> QED
      BY <2>1, <3>5 DEF Replaceable, OfSeen
  <2> QED
    BY <1>6, <2>6, <2>7, <2>8
<1>7. CASE r.kind = "add-network"
  <2>1. r.kind \notin BySubnet /\ r.name \in Names
    BY <1>7 DEF BySubnet, Formed, RequestForms
  <2>2. cmd = NetworkAdd(r.name)
    BY <1>1, <1>7 DEF TheCommand
  <2>3. new = [c EXCEPT !.nets[r.name] = Empty]
    <3>1. Result(c, NetworkAdd(r.name)) = [c EXCEPT !.nets[r.name] = Empty]
      BY DEF Result, NetworkAdd
    <3> QED
      BY <2>2, <3>1
  <2>4. c.nets[r.name] = None
    <3>1. Accepts(c, NetworkAdd(r.name))
      BY <2>2
    <3> QED
      BY <3>1 DEF Accepts, NetworkAdd, HasNetwork
  <2>5. new \in Config
    BY <1>1, <2>1, <2>3, ConfigAssumption DEF Config
  <2> HIDE DEF new
  <2>6. /\ new.subnets = c.subnets /\ new.defs = c.defs /\ new.options = c.options
        /\ \A name \in Names \ {r.name} : new.nets[name] = c.nets[name]
    BY <1>1, <2>3 DEF Config
  <2>7. PICK name \in Names : p = <<"net", name>> /\ new.nets[name] # c.nets[name]
    BY <1>1, <2>5, <2>6, ServerParts DEF new
  <2>8. Part(c, p) = None
    BY <2>4, <2>6, <2>7, PartOf
  <2> QED
    BY <2>1, <2>8 DEF Replaceable, OfSeen
<1>8. CASE r.kind = "delete-network"
  BY <1>8 DEF OfSeen, BySubnet
<1> QED
  BY <1>3, <1>4, <1>5, <1>6, <1>7, <1>8 DEF Formed, RequestForms

\* Only a command that the change itself sends changes a part that it writes.
LEMMA OwnWrite ==
    ASSUME IInv, LockInv, IInv', [Next]_vars, NEW op \in Ops, NEW p \in Parts, Writes(op, p)
    PROVE  /\ Accepts(running, Head(local[op].todo).cmd)
           /\ running' = Result(running, Head(local[op].todo).cmd)
<1>1. /\ pc[op] = "send" /\ ~local[op].disturbed /\ ~local'[op].disturbed /\ running' # running
      /\ pc[op] \in UnderLock
  BY DEF Writes, UnderLock, Stepping
<1>2. \A other \in Ops \ {op} : pc[other] \notin UnderLock
  BY <1>1 DEF LockInv, Exclusive
<1>3. ASSUME NEW one \in Ops, OpenForm(one) \/ Submit(one) \/ Prepare(one) \/ Act(one) PROVE Send(op)
  <2>1. CASE one # op
    <3>1. CASE Acquire(one)
      BY <1>1, <3>1 DEF Acquire
    <3>2. CASE ~Acquire(one)
      BY <1>1, <1>2, <1>3, <2>1, <3>2, OpSteps DEF Advance, ReadKept
    <3> QED
      BY <3>1, <3>2
  <2>2. CASE one = op
    BY <1>1, <1>3, <2>2 DEF OpenForm, Submit, Prepare, Acquire, LockTimeout, ReadFails, ReadScope, RequireNetwork,
       ReadDefinition, ReadExists, ReadCandidate, Act, Check, Reallocate, CheckUndo, SendUndo, Persist, Reading
  <2> QED
    BY <2>1, <2>2
<1>4. ~Environment
  BY <1>1, EnvironmentIsOutside DEF Outsider, IInv, ControlOK, Locals
<1>5. Send(op)
  BY <1>1, <1>3, <1>4 DEF Next, Terminating, vars
<1> QED
  BY <1>1, <1>5 DEF Send, Perhaps, Execute, Linger

LEMMA WritesKeep ==
    ASSUME IInv, LockInv, PlanInv, IInv', [Next]_vars, NEW op \in Ops, NEW p \in Parts, Writes(op, p)
    PROVE  /\ req[op].kind \notin {"delete-subnet", "delete-network"} =>
                Replaceable(req[op], local[op], running, running', p)
           /\ OfSeen(req[op], local[op], running, p)
<1> DEFINE r == req[op]  l == local[op]  cmd == Head(l.todo).cmd
<1>1. pc[op] = "send" /\ ~l.disturbed /\ Part(running', p) # Part(running, p)
  BY DEF Writes
<1>2. Accepts(running, cmd) /\ running' = Result(running, cmd)
  BY OwnWrite
<1>3. Formed(r, l)
  BY <1>1, OfChange
<1>4. Found(r, l) /\ Compared(r, l) /\ Ready(r, l) /\ Trail(r, l, running)
  BY <1>1 DEF PlanInv, Tracked, OnTrack
<1>5. Accepts(running, cmd) /\ Part(Result(running, cmd), p) # Part(running, p)
  BY <1>1, <1>2
<1> HIDE DEF r, l, cmd
<1>6. CASE r.kind = "add-subnet"
  <2>1. Part(running, p) = None
    BY <1>3, <1>4, <1>5, <1>6, AddWrites DEF cmd
  <2> QED
    BY <1>6, <2>1 DEF Replaceable, OfSeen, BySubnet, r, l
<1>7. CASE r.kind = "edit-subnet"
  <2>1. Part(running, p) \in {Part(l.seen, p), None} /\ OfSeen(r, l, running, p)
    BY <1>3, <1>4, <1>5, <1>7, EditWrites DEF cmd
  <2> QED
    BY <2>1 DEF Replaceable, r, l
<1>8. CASE r.kind \notin {"add-subnet", "edit-subnet"}
  <2>1. /\ r.kind \notin {"delete-subnet", "delete-network"} => Replaceable(r, l, running, Result(running, cmd), p)
        /\ OfSeen(r, l, running, p)
    BY <1>3, <1>4, <1>5, <1>8, SingleWrites DEF cmd
  <2> QED
    BY <1>2, <2>1 DEF r, l
<1> QED
  BY <1>6, <1>7, <1>8

LEMMA KeepsUpdatesNext == IInv /\ LockInv /\ PlanInv /\ IInv' /\ [Next]_vars => KeepsUpdates
BY WritesKeep DEF KeepsUpdates, Replaceable

LEMMA ActsOnSeenNext == IInv /\ LockInv /\ PlanInv /\ IInv' /\ [Next]_vars => ActsOnSeen
<1> SUFFICES ASSUME IInv, LockInv, PlanInv, IInv', [Next]_vars, NEW op \in Ops, NEW id \in Ids,
                    NEW field \in Fields, Writes(op, <<field, id>>), req[op].kind \in BySubnet
             PROVE  id = req[op].id /\ Part(running, <<"network", id>>) = Part(local[op].seen, <<"network", id>>)
  BY DEF ActsOnSeen
<1>1. <<field, id>> \in Parts
  BY PartOf
<1>2. /\ \E other \in Fields : <<field, id>> = <<other, req[op].id>>
      /\ Present(running, req[op].id) /\ running.subnets[req[op].id].network = Old(req[op], local[op]).network
  BY <1>1, WritesKeep DEF OfSeen
<1>3. id = req[op].id
  BY <1>2
<1>4. Present(local[op].seen, id)
  BY <1>3, OfChange DEF Formed, Shown, Writes
<1>5. "network" \in Fields
  BY DEF Fields
<1>6. \A c : Present(c, id) => Part(c, <<"network", id>>) = c.subnets[id].network
  BY <1>5, PartOf
<1> QED
  BY <1>2, <1>3, <1>4, <1>6 DEF Old

\* No change writes over what another operator did after its form was shown: config_write compares under the lock what
\* the form showed, and everything that it sends follows from that read.
THEOREM NothingLost == Spec => NoLostUpdate
BY IInvInit, IInvNext, LockInvInit, LockInvNext, PlanInvInit, PlanInvNext, KeepsUpdatesNext, PTL DEF Spec, NoLostUpdate

\* A change of a Subnet never writes to a Subnet that took over the ID from the one that the operator saw.
THEOREM SeenSubnetOnly == Spec => ActsOnSeenSubnet
BY IInvInit, IInvNext, LockInvInit, LockInvNext, PlanInvInit, PlanInvNext, ActsOnSeenNext, PTL DEF Spec, ActsOnSeenSubnet

------------------------------------------------------------------------------
(* The rollback.                                                           *)

\* What the read before an undo saw holds until the undo is sent, unless somebody comes from outside the lock.
UndoInv ==
    \A op \in Ops :
        pc[op] = "undo-send" /\ lock = op /\ ~local[op].stale =>
            Holds(op) /\ \A other \in Ops \ {op} : pc[other] \notin UnderLock

\* Only CheckUndo leads to an undo.
LEMMA UndoFollowsCheck ==
    ASSUME IInv, NEW op \in Ops, OpenForm(op) \/ Submit(op) \/ Prepare(op) \/ Act(op), pc'[op] = "undo-send"
    PROVE  CheckUndo(op)
<1>1. ControlOK
  BY DEF IInv
<1>2. \A place, new : Go(op, place, new) => place = "undo-send"
  BY <1>1 DEF Go, ControlOK
<1>3. ~Reject(op) /\ ~Leaves(op) /\ \A application : ~Conclude(op, application)
  BY <1>1 DEF Reject, Leaves, Conclude, ControlOK
<1>4. ~Abandon(op) /\ ~NextStep(op)
  BY <1>2, <1>3 DEF Abandon, NextStep
<1>5. ~OpenForm(op) /\ ~Submit(op) /\ ~LockTimeout(op) /\ ~ReadFails(op)
  BY <1>2, <1>3 DEF OpenForm, Submit, LockTimeout, ReadFails
<1>6. ~Acquire(op)
  BY <1>1 DEF Acquire, FirstRead, ControlOK
<1>7. ~ReadScope(op)
  <2>1. \A place, plan, target : Proceed(op, place, plan, target) => place = "undo-send"
    BY <1>2 DEF Proceed
  <2> QED
    BY <1>3, <2>1 DEF ReadScope, ScopeForAdd, ScopeForEdit, ScopeForTarget
<1>8. ~RequireNetwork(op) /\ ~ReadDefinition(op) /\ ~ReadExists(op) /\ ~ReadCandidate(op)
  BY <1>2, <1>3 DEF RequireNetwork, ReadDefinition, StartFrom, ReadExists, Proceed, ReadCandidate
<1>9. ~Send(op) /\ ~Check(op) /\ ~Reallocate(op) /\ ~SendUndo(op) /\ ~Persist(op)
  BY <1>2, <1>3, <1>4 DEF Send, Check, Reallocate, SendUndo, Persist
<1> QED
  BY <1>5, <1>6, <1>7, <1>8, <1>9 DEF Prepare, Act

LEMMA OwnUndo ==
    ASSUME IInv, NEW op \in Ops, CheckUndo(op), pc'[op] = "undo-send", lock' = op, ~local'[op].stale
    PROVE  Holds(op)' /\ \A other \in Ops \ {op} : pc'[other] \notin UnderLock
<1>1. ControlOK /\ local[op] \in Locals /\ running' = running
  BY OfOp DEF IInv, CheckUndo, ReadOnly
<1>2. \A application : ~Conclude(op, application)
  BY <1>1 DEF Conclude, ControlOK
<1>3. /\ Holds(op)
      /\ Go(op, "undo-send", [local[op] EXCEPT !.stale = \E other \in Ops \ {op} : pc[other] \in UnderLock])
  BY <1>2 DEF CheckUndo
<1>4. local'[op] = [local[op] EXCEPT !.stale = \E other \in Ops \ {op} : pc[other] \in UnderLock]
  BY <1>1, <1>3 DEF Go, ControlOK
<1>5. /\ local'[op].stale = \E other \in Ops \ {op} : pc[other] \in UnderLock
      /\ local'[op].done = local[op].done /\ local'[op].view = local[op].view
  BY <1>1, <1>4 DEF Locals
<1>6. Holds(op)'
  BY <1>1, <1>3, <1>5 DEF Holds
<1>7. \A other \in Ops \ {op} : pc'[other] = pc[other]
  BY <1>1, <1>3 DEF Go, ControlOK
<1> QED
  BY <1>5, <1>6, <1>7

LEMMA OtherUndo ==
    ASSUME IInv, UndoInv, NEW one \in Ops, OpenForm(one) \/ Submit(one) \/ Prepare(one) \/ Act(one),
           NEW op \in Ops \ {one}, pc'[op] = "undo-send", lock' = op, ~local'[op].stale
    PROVE  Holds(op)' /\ \A other \in Ops \ {op} : pc'[other] \notin UnderLock
<1>1. None \notin Ops /\ "done" \notin UnderLock
  BY ConfigWriteAssumption DEF UnderLock, Reading, Stepping
<1>2. ~Acquire(one)
  BY DEF Acquire
<1>3. Own(one) /\ LockKept(one) /\ ReadKept(one)
  BY <1>2, OpSteps DEF Advance
<1>4. lock = op /\ pc[op] = "undo-send" /\ local'[op] = local[op]
  BY <1>1, <1>3 DEF LockKept, Own
<1>5. Holds(op) /\ \A other \in Ops \ {op} : pc[other] \notin UnderLock
  BY <1>4 DEF UndoInv
<1>6. running' = running
  BY <1>3, <1>5 DEF ReadKept
<1>7. Holds(op)'
  BY <1>4, <1>5, <1>6 DEF Holds
<1> QED
  BY <1>1, <1>3, <1>5, <1>7 DEF Own, LockKept

LEMMA OutsiderUndo ==
    ASSUME IInv, UndoInv, Environment
    PROVE  UndoInv'
<1>1. ControlOK /\ None \notin Ops
  BY ConfigWriteAssumption DEF IInv
<1>2. CASE AdminWrites \/ LateRequest \/ Restart
  <2>1. Disturb(Active)
    BY <1>2 DEF AdminWrites, LateRequest, Restart
  <2>2. ASSUME NEW op \in Ops, pc'[op] = "undo-send" PROVE local'[op].stale = TRUE
    <3>1. op \in Active
      BY <2>1, <2>2 DEF Active, Disturb, UnderLock, Stepping
    <3> QED
      BY <1>1, <2>1, <3>1 DEF Disturb, ControlOK, Locals
  <2> QED
    BY <2>2 DEF UndoInv
<1>3. CASE LoseLock
  BY <1>1, <1>3 DEF LoseLock, UndoInv
<1>4. CASE OtherPersist
  BY <1>4 DEF OtherPersist, control, UndoInv, Holds
<1> QED
  BY <1>2, <1>3, <1>4 DEF Environment

LEMMA UndoInvNext == IInv /\ UndoInv /\ [Next]_vars => UndoInv'
<1> SUFFICES ASSUME IInv, UndoInv, [Next]_vars PROVE UndoInv'
  OBVIOUS
<1>1. ASSUME NEW one \in Ops, OpenForm(one) \/ Submit(one) \/ Prepare(one) \/ Act(one) PROVE UndoInv'
  <2>1. ASSUME NEW op \in Ops, pc'[op] = "undo-send", lock' = op, ~local'[op].stale
        PROVE  Holds(op)' /\ \A other \in Ops \ {op} : pc'[other] \notin UnderLock
    <3>1. CASE op = one
      BY <1>1, <2>1, <3>1, UndoFollowsCheck, OwnUndo
    <3>2. CASE op # one
      BY <1>1, <2>1, <3>2, OtherUndo
    <3> QED
      BY <3>1, <3>2
  <2> QED
    BY <2>1 DEF UndoInv
<1>2. CASE Environment
  BY <1>2, OutsiderUndo
<1>3. CASE UNCHANGED vars
  BY <1>3 DEF vars, control, UndoInv, Holds
<1> QED
  BY <1>1, <1>2, <1>3 DEF Next, Terminating

\* An undo that a change sends under its lock finds the Subnet as the undone step left it: the read before it is current.
THEOREM RollbackFindsItsStep == Spec => RollbackSparesMembership
<1>1. Init => UndoInv
  BY DEF Init, UndoInv
<1>2. UndoInv /\ [Next]_vars => SparesMembership
  BY DEF UndoInv, SparesMembership, Undoes, Holds
<1> QED
  BY <1>1, <1>2, IInvInit, IInvNext, UndoInvNext, PTL DEF Spec, RollbackSparesMembership

------------------------------------------------------------------------------
(* ConfigWrite implements ConfigChange while Kea and the network fail, and *)
(* nothing comes from outside the lock. The step that ends a change is the *)
(* step of ConfigChange; Committed does not see the ones before it.        *)

\* Without a writer outside the lock, nothing is disturbed, nothing is in flight, and what the lock names is under it.
CalmChange(op) ==
    /\ ~local[op].disturbed
    /\ pc[op] = "idle" => req[op] = None
    /\ pc[op] \notin {"persist", "done"} => outcome[op] = Unfinished
    /\ pc[op] = "persist" => outcome[op].persistence = "not-requested"

CalmInv ==
    /\ inFlight = {}
    /\ lock # None => pc[lock] \in UnderLock
    /\ \A op \in Ops : CalmChange(op)

CalmSafe == IInv /\ LockInv /\ PlanInv /\ CalmInv

\* The ways in which an action of op goes on, the ones that end it apart.
Continues(op) ==
    /\ UNCHANGED <<disk, req, inFlight>>
    /\ pc[op] \notin {"idle", "persist", "done"}
    /\ running' = running \/ pc[op] \in UnderLock
    /\ \/ \E place, new :
            /\ Go(op, place, new) /\ place \notin {"idle", "persist", "done"}
            /\ place \in UnderLock <=> pc[op] \in UnderLock
            /\ ~new.disturbed
            /\ pc[op] \in UnderLock => new.base = local[op].base
       \/ \E application \in {"applied", "unknown"} : Conclude(op, application) /\ pc[op] \in UnderLock
       \/ Reject(op) /\ (pc[op] \in UnderLock => running' = local[op].base)

LEMMA CalmLock ==
    ASSUME CalmSafe, NEW op \in Ops
    PROVE  /\ pc[op] \in UnderLock <=> lock = op
           /\ lock = None \/ lock \in Ops
           /\ ~local[op].disturbed
           /\ pc[op] \in Reading => running = local[op].base
           /\ Formed(req[op], local[op]) \/ pc[op] \in {"idle", "done"}
           /\ local[op] \in Locals
           /\ pc[op] # "idle" => req[op] # None
BY OfChange, OfOp, ConfigWriteAssumption
   DEF CalmSafe, CalmInv, CalmChange, LockInv, Exclusive, ReadsAreCurrent, UnderLock, ControlOK

LEMMA UnfinishedWith ==
    \A application :
        [Unfinished EXCEPT !.application = application] = [application |-> application, persistence |-> "not-requested"]
BY DEF Unfinished

\* An action that continues is a rejection of the abstract change, or nothing.
LEMMA ContinuesMaps ==
    ASSUME CalmSafe, NEW op \in Ops, Continues(op)
    PROVE  UNCHANGED Change!vars \/ Change!Reject(op)
<1> DEFINE result == [one \in Ops |-> IF pc[one] = "done" THEN outcome[one] ELSE Unfinished]
<1>1. ControlOK /\ pc[op] # "done" /\ UNCHANGED <<disk, req>>
  BY CalmLock, OfOp DEF CalmSafe, Continues
<1>2. \A one \in Ops : pc[one] \in UnderLock <=> lock = one
  BY CalmLock
<1>3. lock = None \/ lock \in Ops
  BY <1>1 DEF ControlOK
<1>4. ASSUME NEW place, NEW new, Go(op, place, new), place # "done", pc[op] \in UnderLock => new.base = local[op].base
      PROVE  UNCHANGED Change!vars
  <2>1. Committed' = Committed
    <3>1. lock' = lock /\ local' = [local EXCEPT ![op] = new]
      BY <1>4 DEF Go
    <3>2. CASE lock = op
      <4>1. local'[lock].base = new.base /\ pc[op] \in UnderLock
        BY <1>1, <1>2, <3>1, <3>2 DEF ControlOK
      <4> QED
        BY <1>4, <3>1, <3>2, <4>1, ConfigWriteAssumption DEF Committed
    <3>3. CASE lock = None
      <4>1. running' = running
        BY <1>2, <3>3, ConfigWriteAssumption DEF Continues
      <4> QED
        BY <3>1, <3>3, <4>1 DEF Committed
    <3>4. CASE lock \notin {op, None}
      <4>1. local'[lock] = local[lock]
        BY <1>1, <1>3, <3>1, <3>4 DEF ControlOK
      <4> QED
        BY <3>1, <3>4, <4>1 DEF Committed
    <3> QED
      BY <3>2, <3>3, <3>4
  <2>2. result' = result
    BY <1>1, <1>4 DEF Go, ControlOK
  <2> QED
    BY <1>1, <2>1, <2>2 DEF Change!vars
<1>5. ASSUME NEW application, Conclude(op, application), pc[op] \in UnderLock
      PROVE  UNCHANGED Change!vars
  <2>1. Committed' = Committed
    BY <1>1, <1>2, <1>3, <1>5, ConfigWriteAssumption DEF Committed, Conclude
  <2>2. result' = result
    BY <1>1, <1>5 DEF Conclude, ControlOK
  <2> QED
    BY <1>1, <2>1, <2>2 DEF Change!vars
<1>6. ASSUME Reject(op), pc[op] \in UnderLock => running' = local[op].base
      PROVE  Change!Reject(op)
  <2>1. Committed' = Committed
    BY <1>1, <1>2, <1>3, <1>6, ConfigWriteAssumption DEF Committed, Reject, Leaves, ControlOK, Continues
  <2>2. outcome[op] = Unfinished
    BY DEF CalmSafe, CalmInv, CalmChange, Continues
  <2>3. /\ pc' = [pc EXCEPT ![op] = "done"]
        /\ outcome' = [outcome EXCEPT ![op] = [application |-> "rejected", persistence |-> "not-requested"]]
    BY <1>1, <1>6, <2>2, UnfinishedWith DEF Reject, Leaves, ControlOK
  <2>4. result' = [result EXCEPT ![op] = [application |-> "rejected", persistence |-> "not-requested"]]
    BY <1>1, <2>3 DEF ControlOK
  <2>5. result[op] = Change!Pending /\ req[op] # None
    BY <1>1, CalmLock DEF Unfinished, Change!Pending, Continues
  <2> QED
    BY <1>1, <2>1, <2>4, <2>5 DEF Change!Reject, Change!End
<1> QED
  BY <1>4, <1>5, <1>6 DEF Continues

LEMMA ContinuesCalm ==
    ASSUME CalmSafe, NEW op \in Ops, Continues(op)
    PROVE  CalmInv'
<1>1. ControlOK /\ None \notin Ops /\ UNCHANGED <<req, inFlight>> /\ CalmInv
  BY OfOp, ConfigWriteAssumption DEF CalmSafe, Continues
<1>2. lock = None \/ lock \in Ops
  BY <1>1 DEF ControlOK
<1>3. outcome[op] = Unfinished
  BY <1>1 DEF CalmInv, CalmChange, Continues
<1>4. ASSUME NEW place, NEW new, Go(op, place, new), place \notin {"idle", "persist", "done"},
             place \in UnderLock <=> pc[op] \in UnderLock, ~new.disturbed
      PROVE  CalmInv'
  BY <1>1, <1>2, <1>3, <1>4 DEF Go, ControlOK, CalmInv, CalmChange
<1>5. ASSUME NEW application \in {"applied", "unknown"}, Conclude(op, application), pc[op] \in UnderLock
      PROVE  CalmInv'
  <2>1. outcome' = [outcome EXCEPT ![op] = [application |-> application, persistence |-> "not-requested"]]
    BY <1>1, <1>3, <1>5, UnfinishedWith DEF Conclude, ControlOK
  <2>2. "persist" \in UnderLock
    BY DEF UnderLock, Stepping
  <2> QED
    BY <1>1, <1>2, <1>5, <2>1, <2>2 DEF Conclude, ControlOK, CalmInv, CalmChange
<1>6. CASE Reject(op)
  BY <1>1, <1>2, <1>6 DEF Reject, Leaves, Blank, ControlOK, CalmInv, CalmChange
<1> QED
  BY <1>4, <1>5, <1>6 DEF Continues

\* An outage of Kea is the only thing that can go wrong.
LEMMA OnlyFaultsSpent ==
    ASSUME InputOK, OnlyFaults, NEW kind \in Disturbances \ {"fault"}
    PROVE  ~Spend(kind)
BY DEF InputOK, OnlyFaults, Spend

LEMMA ReadsContinue ==
    ASSUME CalmSafe, NEW op \in Ops,
           \/ Submit(op) \/ LockTimeout(op) \/ ReadFails(op) \/ ReadScope(op) \/ RequireNetwork(op)
           \/ ReadDefinition(op) \/ ReadExists(op) \/ ReadCandidate(op)
    PROVE  Continues(op)
<1>1. /\ UNCHANGED <<running, disk, req, inFlight>>
      /\ pc[op] \in {"form", "waiting"} \cup Reading
      /\ Reading \subseteq UnderLock /\ "form" \notin UnderLock /\ "waiting" \notin UnderLock /\ "send" \in UnderLock
      /\ "idle" \notin Reading /\ "persist" \notin Reading /\ "done" \notin Reading
  BY DEF Submit, LockTimeout, ReadFails, ReadScope, RequireNetwork, ReadDefinition, ReadExists, ReadCandidate, ReadOnly,
         UnderLock, Reading, Stepping
<1>2. /\ ~local[op].disturbed /\ local[op] \in Locals /\ (pc[op] \in UnderLock => running = local[op].base)
  BY <1>1, CalmLock
<1>3. CASE Reject(op)
  BY <1>1, <1>2, <1>3 DEF Continues
<1>4. ASSUME NEW place \in Reading \cup {"send"}, NEW new, Go(op, place, new), ~new.disturbed, new.base = local[op].base,
             pc[op] \in Reading
      PROVE  Continues(op)
  BY <1>1, <1>4 DEF Continues
<1>5. CASE Submit(op)
  <2>1. CASE Go(op, "waiting", local[op])
    <3>1. pc[op] = "form"
      BY <1>5 DEF Submit
    <3> QED
      BY <1>1, <1>2, <2>1, <3>1 DEF Continues
  <2> QED
    BY <1>3, <1>5, <2>1 DEF Submit
<1>6. CASE ReadScope(op)
  <2>1. ASSUME NEW place \in Reading \cup {"send"}, NEW plan, NEW target, Proceed(op, place, plan, target)
        PROVE  Continues(op)
    <3> DEFINE new == [local[op] EXCEPT !.todo = plan, !.view = target]
    <3>1. ~new.disturbed /\ new.base = local[op].base
      BY <1>2 DEF Locals
    <3>2. pc[op] \in Reading
      BY <1>6 DEF ReadScope, Reading
    <3>3. Go(op, place, new)
      BY <2>1 DEF Proceed
    <3> HIDE DEF new
    <3> QED
      BY <1>4, <2>1, <3>1, <3>2, <3>3
  <2>2. {"network", "definition", "candidate", "send"} \subseteq Reading \cup {"send"}
    BY DEF Reading
  <2>3. Reject(op) \/ \E place \in {"network", "definition", "candidate", "send"} : \E plan,
        target : Proceed(op, place, plan, target)
    BY <1>6 DEF ReadScope, ScopeForAdd, ScopeForEdit, ScopeForTarget
  <2> QED
    BY <1>3, <2>1, <2>2, <2>3
<1>7. CASE RequireNetwork(op)
  <2>1. pc[op] \in Reading /\ "definition" \in Reading
    BY <1>7 DEF RequireNetwork, Reading
  <2>2. Reject(op) \/ \E place \in {"send", "definition"} : Go(op, place, local[op])
    BY <1>7 DEF RequireNetwork
  <2> QED
    BY <1>2, <1>3, <1>4, <2>1, <2>2
<1>8. CASE ReadDefinition(op) \/ ReadCandidate(op) \/ ReadExists(op)
  <2>1. pc[op] \in Reading
    BY <1>8 DEF ReadDefinition, ReadCandidate, ReadExists, Reading
  <2>2. running = local[op].base
    BY <1>1, <1>2, <2>1
  <2>3. ASSUME NEW plan, NEW definition, StartFrom(op, plan, definition) PROVE Continues(op)
    <3> DEFINE new == [local[op] EXCEPT !.todo = plan, !.view.definition = definition, !.base = running]
    <3>1. ~new.disturbed /\ new.base = local[op].base
      BY <1>2, <2>2 DEF Locals
    <3>2. Go(op, "send", new)
      BY <2>3 DEF StartFrom
    <3> HIDE DEF new
    <3> QED
      BY <1>4, <2>1, <3>1, <3>2
  <2>4. ASSUME NEW plan, NEW target, Proceed(op, "send", plan, target) PROVE Continues(op)
    <3> DEFINE new == [local[op] EXCEPT !.todo = plan, !.view = target]
    <3>1. ~new.disturbed /\ new.base = local[op].base
      BY <1>2 DEF Locals
    <3>2. Go(op, "send", new)
      BY <2>4 DEF Proceed
    <3> HIDE DEF new
    <3> QED
      BY <1>4, <2>1, <3>1, <3>2
  <2>5. ASSUME NEW plan, Go(op, "send", [local[op] EXCEPT !.todo = plan, !.view = NoTarget, !.base = running])
        PROVE  Continues(op)
    <3> DEFINE new == [local[op] EXCEPT !.todo = plan, !.view = NoTarget, !.base = running]
    <3>1. ~new.disturbed /\ new.base = local[op].base
      BY <1>2, <2>2 DEF Locals
    <3>2. Go(op, "send", new)
      BY <2>5
    <3> HIDE DEF new
    <3> QED
      BY <1>4, <2>1, <3>1, <3>2
  <2> QED
    BY <1>3, <1>8, <2>3, <2>4, <2>5 DEF ReadDefinition, ReadCandidate, ReadExists
<1> QED
  BY <1>3, <1>5, <1>6, <1>7, <1>8 DEF LockTimeout, ReadFails

LEMMA StepsContinue ==
    ASSUME CalmSafe, OnlyFaults, NEW op \in Ops,
           Send(op) \/ Check(op) \/ Reallocate(op) \/ CheckUndo(op) \/ SendUndo(op)
    PROVE  Continues(op)
<1> DEFINE r == req[op]  l == local[op]
<1>1. /\ UNCHANGED <<disk, req>> /\ ~Spend("late")
      /\ pc[op] \in Stepping \ {"persist"}
      /\ Stepping \subseteq UnderLock /\ "idle" \notin Stepping /\ "done" \notin Stepping
      /\ {"send", "check", "retry", "undo-check", "undo-send", "persist"} = Stepping
  BY OfOp, OnlyFaultsSpent
     DEF CalmSafe, Disturbances, Send, Check, Reallocate, CheckUndo, SendUndo, ReadOnly, UnderLock, Stepping
<1>2. inFlight' = inFlight
  BY <1>1 DEF Send, Check, Reallocate, CheckUndo, SendUndo, ReadOnly, Linger
<1>3. ~l.disturbed /\ l \in Locals /\ Formed(r, l) /\ pc[op] \in UnderLock
  BY <1>1, CalmLock
<1>4. OnTrack(pc[op], l, r, running, outcome[op].application)
  BY <1>3 DEF CalmSafe, PlanInv, Tracked
<1>5. ASSUME NEW place \in {"send", "check", "undo-check", "undo-send"}, NEW new, Go(op, place, new),
             ~new.disturbed, new.base = l.base
      PROVE  Continues(op)
  BY <1>1, <1>2, <1>3, <1>5 DEF Continues
<1>6. ASSUME NEW application \in {"applied", "unknown"}, Conclude(op, application)
      PROVE  Continues(op)
  BY <1>1, <1>2, <1>3, <1>6 DEF Continues
<1>7. ASSUME Reject(op), running' = l.base
      PROVE  Continues(op)
  BY <1>1, <1>2, <1>3, <1>7 DEF Continues
<1>8. ASSUME Abandon(op), Trail(r, l, running'), UNCHANGED running
      PROVE  Continues(op)
  <2>1. CASE l.done = <<>>
    BY <1>7, <1>8, <2>1, NoTrailYet DEF Abandon
  <2>2. CASE l.done # <<>>
    BY <1>3, <1>5, <1>8, <2>2 DEF Abandon
  <2> QED
    BY <2>1, <2>2
<1>9. CASE Send(op)
  <2>1. Trail(r, l, running) /\ pc[op] = "send"
    BY <1>4, <1>9 DEF OnTrack, Send
  <2>2. CASE NextStep(op)
    <3> DEFINE undo == Head(l.todo).undo
               new  == [l EXCEPT !.todo = Tail(l.todo), !.done = IF undo = NoUndo THEN @ ELSE <<undo>> \o @]
    <3>1. Conclude(op, "applied") \/ Go(op, "send", new)
      BY <2>2 DEF NextStep
    <3>2. ~new.disturbed /\ new.base = l.base
      BY <1>3 DEF Locals
    <3> HIDE DEF new
    <3> QED
      BY <1>5, <1>6, <3>1, <3>2
  <2>3. CASE Go(op, "check", l)
    BY <1>3, <1>5, <2>3
  <2>4. CASE Abandon(op) /\ running' = running
    BY <1>8, <2>1, <2>4
  <2> QED
    BY <1>1, <1>6, <1>9, <2>2, <2>3, <2>4 DEF Send, Linger
<1>10. CASE Check(op)
  <2>1. ShowsNothing(op) => Trail(r, l, running) /\ ~Taken(op)
    BY <1>3, <1>10, CheckShows DEF CalmSafe, Check
  <2> QED
    BY <1>6, <1>8, <1>10, <2>1 DEF Check, ReadOnly
<1>11. CASE Reallocate(op)
  BY <1>4, <1>11 DEF OnTrack, Reallocate
<1>12. CASE CheckUndo(op)
  <2> DEFINE new == [l EXCEPT !.stale = \E other \in Ops \ {op} : pc[other] \in UnderLock]
  <2>1. ~new.disturbed /\ new.base = l.base
    BY <1>3 DEF Locals
  <2>2. Conclude(op, "unknown") \/ Go(op, "undo-send", new)
    BY <1>12 DEF CheckUndo
  <2> HIDE DEF new
  <2> QED
    BY <1>5, <1>6, <2>1, <2>2
<1>13. CASE SendUndo(op)
  <2> DEFINE cmd == Head(l.done).cmd  back == [l EXCEPT !.done = Tail(l.done)]
  <2>1. pc[op] = "undo-send" /\ l.done # <<>>
    BY <1>13, OfOp DEF CalmSafe, SendUndo, Fits
  <2>2. Found(r, l) /\ Trail(r, l, running)
    BY <1>4, <2>1 DEF OnTrack
  <2>3. Accepts(running, cmd) => Trail(r, back, Result(running, cmd))
    BY <1>3, <2>1, <2>2, UndoLeads
  <2>4. ~back.disturbed /\ back.base = l.base /\ back.done = Tail(l.done)
    BY <1>3 DEF Locals
  <2> HIDE DEF back
  <2>5. CASE Execute(cmd, None, None) /\ Tail(l.done) = <<>> /\ Reject(op)
    <3>1. Trail(r, back, running')
      BY <2>3, <2>5 DEF Execute
    <3>2. back.done = <<>>
      BY <2>4, <2>5
    <3>3. running' = back.base
      BY <3>1, <3>2, NoTrailYet
    <3> QED
      BY <1>7, <2>4, <2>5, <3>3
  <2>6. CASE Go(op, "undo-check", back)
    BY <1>5, <2>4, <2>6
  <2> QED
    BY <1>1, <1>6, <1>13, <2>5, <2>6 DEF SendUndo, Linger, back
<1> QED
  BY <1>9, <1>10, <1>11, <1>12, <1>13

\* The operator asks.
LEMMA OpenMaps ==
    ASSUME CalmSafe, NEW op \in Ops, OpenForm(op)
    PROVE  Change!Ask(op) /\ CalmInv'
<1> DEFINE result == [one \in Ops |-> IF pc[one] = "done" THEN outcome[one] ELSE Unfinished]
<1>1. /\ ControlOK /\ CalmInv /\ pc[op] = "idle" /\ UNCHANGED <<running, disk, inFlight, outcome, lock>>
      /\ pc' = [pc EXCEPT ![op] = "form"] /\ local' = [local EXCEPT ![op] = [Blank EXCEPT !.seen = running]]
      /\ req \in [Ops -> Requests \cup {None}]
  BY OfOp DEF CalmSafe, OpenForm, Go, InputOK
<1>2. lock # op /\ (lock = None \/ lock \in Ops)
  BY <1>1, CalmLock DEF UnderLock, Reading, Stepping
<1>3. Committed' = Committed
  BY <1>1, <1>2 DEF Committed, ControlOK
<1>4. result' = result
  BY <1>1 DEF ControlOK
<1>5. req[op] = None /\ \E r \in Requests : req' = [req EXCEPT ![op] = r]
  BY <1>1 DEF CalmInv, CalmChange, OpenForm
<1>6. Change!Ask(op)
  BY <1>1, <1>3, <1>4, <1>5 DEF Change!Ask
<1>7. ~local'[op].disturbed
  BY <1>1 DEF ControlOK, Blank
<1>8. CalmInv'
  BY <1>1, <1>2, <1>5, <1>7 DEF CalmInv, CalmChange, ControlOK
<1> QED
  BY <1>6, <1>8

\* The lock keeps what Kea runs.
LEMMA AcquireMaps ==
    ASSUME CalmSafe, NEW op \in Ops, Acquire(op)
    PROVE  UNCHANGED Change!vars /\ CalmInv'
<1> DEFINE result == [one \in Ops |-> IF pc[one] = "done" THEN outcome[one] ELSE Unfinished]
<1>1. /\ ControlOK /\ CalmInv /\ pc[op] = "waiting" /\ UNCHANGED <<running, disk, inFlight, outcome, req>>
      /\ lock = None /\ lock' = op
      /\ pc' = [pc EXCEPT ![op] = FirstRead(req[op])]
      /\ local' = [local EXCEPT ![op].base = running, ![op].disturbed = \E other \in Ops : pc[other] \in UnderLock]
  BY OfOp DEF CalmSafe, Acquire, LockFree
<1>2. FirstRead(req[op]) \in Reading /\ \A place \in Reading : place \notin {"idle", "done", "persist"}
      /\ place \in UnderLock
  BY DEF FirstRead, Reading, UnderLock
<1>3. \A other \in Ops : pc[other] \notin UnderLock
  BY <1>1, CalmLock, ConfigWriteAssumption
<1>4. local'[op].base = running /\ ~local'[op].disturbed
  BY <1>1, <1>3 DEF ControlOK, Locals
<1>5. Committed' = Committed
  BY <1>1, <1>4, ConfigWriteAssumption DEF Committed
<1>6. result' = result
  BY <1>1, <1>2 DEF ControlOK
<1>7. CalmInv'
  BY <1>1, <1>2, <1>4 DEF CalmInv, CalmChange, ControlOK
<1> QED
  BY <1>1, <1>5, <1>6, <1>7 DEF Change!vars

\* The persist step ends the change: from now on Committed has it.
LEMMA PersistMaps ==
    ASSUME CalmSafe, NEW op \in Ops, Persist(op)
    PROVE  Change!Finish(op) /\ CalmInv'
<1> DEFINE result == [one \in Ops |-> IF pc[one] = "done" THEN outcome[one] ELSE Unfinished]
           application == outcome[op].application
<1>1. /\ ControlOK /\ CalmInv /\ pc[op] = "persist" /\ UNCHANGED <<running, inFlight, req>> /\ Leaves(op)
      /\ outcome[op].persistence = "not-requested" /\ None \notin Ops
  BY OfOp, ConfigWriteAssumption DEF CalmSafe, Persist, CalmInv, CalmChange
<1>2. PICK persistence \in {"persisted", "failed", "not-requested"} :
        /\ outcome' = [outcome EXCEPT ![op].persistence = persistence]
        /\ persistence = "persisted" => disk' = running
        /\ persistence = "failed" => disk' \in {disk, running}
        /\ persistence = "not-requested" => disk' = disk
  BY DEF Persist, WriteDisk
<1>3. lock = op
  BY <1>1, CalmLock DEF UnderLock, Stepping
<1>4. lock' = None /\ pc' = [pc EXCEPT ![op] = "done"] /\ local' = [local EXCEPT ![op] = Blank]
  BY <1>1, <1>3 DEF Leaves
<1>5. Committed = local[op].base /\ Committed' = running
  BY <1>1, <1>3, <1>4 DEF Committed
<1>6. \/ application = "applied" /\ running \in Change!Intended(req[op], local[op].base)
      \/ application = "unknown" /\ Change!Partly(req[op], local[op].base, running)
  BY <1>1, CalmLock DEF CalmSafe, PlanInv, Tracked, OnTrack
<1>7. outcome'[op] = [application |-> application, persistence |-> persistence]
  BY <1>1, <1>2 DEF ControlOK, Outcomes
<1>8. result' = [result EXCEPT ![op] = [application |-> application, persistence |-> persistence]]
  <2>1. \A one \in Ops \ {op} : pc'[one] = pc[one] /\ outcome'[one] = outcome[one]
    BY <1>1, <1>2, <1>4 DEF ControlOK
  <2>2. pc'[op] = "done"
    BY <1>1, <1>4 DEF ControlOK
  <2> QED
    BY <1>7, <2>1, <2>2
<1>9. result[op] = Change!Pending /\ req[op] # None
  BY <1>1, CalmLock DEF Unfinished, Change!Pending
<1>10. Change!End(op, application, persistence)
  BY <1>1, <1>8, <1>9 DEF Change!End
<1>11. Change!Saved(persistence)
  BY <1>2, <1>5 DEF Change!Saved
<1>12. Change!Finish(op)
  BY <1>2, <1>5, <1>6, <1>10, <1>11 DEF Change!Finish
<1>13. CalmInv'
  BY <1>1, <1>2, <1>4 DEF CalmInv, CalmChange, ControlOK, Blank
<1> QED
  BY <1>12, <1>13

LEMMA CalmNext == CalmSafe /\ [Next /\ OnlyFaults]_vars => CalmInv' /\ [Change!Next]_(Change!vars)
<1> SUFFICES ASSUME CalmSafe, [Next /\ OnlyFaults]_vars PROVE CalmInv' /\ [Change!Next]_(Change!vars)
  OBVIOUS
<1>1. CASE UNCHANGED vars
  <2>1. CalmInv'
    BY <1>1 DEF CalmSafe, CalmInv, CalmChange, vars, control
  <2>2. UNCHANGED Change!vars
    BY <1>1 DEF Change!vars, Committed, vars, control
  <2> QED
    BY <2>1, <2>2
<1>2. ASSUME OnlyFaults, NEW op \in Ops, OpenForm(op) \/ Submit(op) \/ Prepare(op) \/ Act(op)
      PROVE  CalmInv' /\ [Change!Next]_(Change!vars)
  <2>1. CASE OpenForm(op)
    BY <2>1, OpenMaps DEF Change!Next
  <2>2. CASE Acquire(op)
    BY <2>2, AcquireMaps
  <2>3. CASE Persist(op)
    BY <2>3, PersistMaps DEF Change!Next
  <2>4. CASE Continues(op)
    BY <2>4, ContinuesMaps, ContinuesCalm DEF Change!Next
  <2> QED
    BY <1>2, <2>1, <2>2, <2>3, <2>4, ReadsContinue, StepsContinue DEF Prepare, Act
<1>3. ASSUME OnlyFaults PROVE ~Environment
  <2>1. /\ ~Spend("admin") /\ ~Spend("restart") /\ ~Spend("lock-loss") /\ ~Spend("other-persist") /\ inFlight = {}
    BY <1>3, OnlyFaultsSpent DEF CalmSafe, CalmInv, IInv, Disturbances
  <2> QED
    BY <2>1 DEF Environment, AdminWrites, LateRequest, Restart, LoseLock, OtherPersist
<1> QED
  BY <1>1, <1>2, <1>3 DEF Next, Terminating

LEMMA CalmInit == Init => CalmInv /\ Change!Init
<1> SUFFICES ASSUME Init PROVE CalmInv /\ Change!Init
  OBVIOUS
<1>1. CalmInv
  BY DEF Init, CalmInv, CalmChange, Blank
<1>2. Committed = running
  BY DEF Init, Committed
<1>3. [op \in Ops |-> IF pc[op] = "done" THEN outcome[op] ELSE Unfinished] = [op \in Ops |-> Change!Pending]
  BY DEF Init, Unfinished, Change!Pending
<1> QED
  BY <1>1, <1>2, <1>3 DEF Init, Change!Init

\* While only Kea and the network fail, each operation of config_write is one step: applied, rejected, or unconfirmed,
\* with nothing of it left behind by a rejection.
THEOREM OneStepEach == AtomicSpec => AppliedAsAWhole
<1>1. [Next /\ OnlyFaults]_vars => [Next]_vars
  OBVIOUS
<1>2. IInv /\ LockInv /\ PlanInv /\ CalmInv /\ [Next /\ OnlyFaults]_vars => CalmInv' /\ [Change!Next]_(Change!vars)
  BY CalmNext DEF CalmSafe
<1> QED
  BY <1>1, <1>2, IInvInit, IInvNext, LockInvInit, LockInvNext, PlanInvInit, PlanInvNext, CalmInit, PTL
  DEF AtomicSpec, AppliedAsAWhole, Change!Spec

------------------------------------------------------------------------------
(* What a change aims at and can undo, whoever disturbs it.                *)

Sending == Stepping \ {"persist"}

\* The target is the one of the request, as the form or the read of the definition shows it.
Aimed(r, l) ==
    /\ r.kind = "add-subnet" => l.view.id \in Ids /\ l.view.network = r.network
    /\ r.kind \in BySubnet \ {"set-subnet-options"} => l.view.network = Old(r, l).network
    /\ r.kind = "edit-subnet" =>
         /\ l.base \in Config /\ Present(l.base, r.id)
         /\ l.view.definition = Definition(l.base.subnets[r.id])

\* The steps that applied are the first ones of an add or of a move.
Undoable(r, l) ==
    \/ l.done = <<>>
    \/ r.kind = "add-subnet" /\ r.shared # None /\ l.done = <<UndoAdd(l.view.id)>>
    \/ r.kind = "edit-subnet" /\ l.done \in MoveUndos(r, Old(r, l).member)

Aiming(place, r, l) ==
    /\ place \in Sending => Aimed(r, l) /\ Undoable(r, l)
    /\ place \in {"send", "check"} => Ready(r, l)
    /\ place = "retry" => l.done = <<>>
    /\ place = "network" /\ r.kind = "add-subnet" => Aimed(r, l) /\ l.todo = AddPlan(r, l.view.id)
    /\ place \in {"network", "definition"} /\ r.kind = "edit-subnet" => l.view.network = Old(r, l).network

Aims(op) == Aiming(pc[op], req[op], local[op])

AimInv == \A op \in Ops : Aims(op)

\* The facts depend on these fields only.
LEMMA SameAim ==
    ASSUME NEW r, NEW l, NEW m, m.view = l.view, m.seen = l.seen, m.base = l.base
    PROVE  /\ Old(r, m) = Old(r, l) /\ Aimed(r, m) = Aimed(r, l)
           /\ m.done = l.done => Undoable(r, m) = Undoable(r, l)
           /\ m.done = l.done /\ m.todo = l.todo =>
                \A place : Aiming(place, r, m) = Aiming(place, r, l)
<1>1. Old(r, m) = Old(r, l)
  BY DEF Old
<1>2. Aimed(r, m) = Aimed(r, l)
  BY <1>1 DEF Aimed
<1>3. m.done = l.done => Undoable(r, m) = Undoable(r, l)
  BY <1>1 DEF Undoable
<1>4. m.done = l.done /\ m.todo = l.todo => Ready(r, m) = Ready(r, l)
  BY SameFacts
<1> QED
  BY <1>1, <1>2, <1>3, <1>4 DEF Aiming

\* What an action does next with its change.
LEMMA GoAims ==
    ASSUME ControlOK, NEW op \in Ops, NEW place, NEW new, Go(op, place, new), req' = req, Aiming(place, req[op], new)
    PROVE  Aims(op)'
<1>1. pc'[op] = place /\ local'[op] = new /\ req'[op] = req[op]
  BY DEF ControlOK, Go
<1> QED
  BY <1>1 DEF Aims

\* The places that aim at nothing.
LEMMA AimlessPlaces ==
    ASSUME NEW place, place \notin Sending \cup {"network", "definition"}, NEW r, NEW l
    PROVE  Aiming(place, r, l)
BY DEF Aiming, Sending, Stepping

LEMMA LeavesAims == ASSUME ControlOK, NEW op \in Ops, Leaves(op) PROVE Aims(op)'
<1>1. pc'[op] = "done"
  BY DEF ControlOK, Leaves
<1> QED
  BY <1>1, AimlessPlaces DEF Aims, Sending, Stepping

LEMMA ConcludeAims ==
    ASSUME ControlOK, NEW op \in Ops, NEW application, Conclude(op, application)
    PROVE  Aims(op)'
<1>1. pc'[op] = "persist"
  BY DEF ControlOK, Conclude
<1> QED
  BY <1>1, AimlessPlaces DEF Aims, Sending

LEMMA AbandonAims ==
    ASSUME ControlOK, AimInv, NEW op \in Ops, pc[op] \in {"send", "check"}, Abandon(op), req' = req
    PROVE  Aims(op)'
<1>1. Aimed(req[op], local[op]) /\ Undoable(req[op], local[op])
  BY DEF AimInv, Aims, Aiming, Sending, Stepping
<1>2. Aiming("undo-check", req[op], local[op])
  BY <1>1 DEF Aiming
<1> QED
  BY <1>2, GoAims, LeavesAims DEF Abandon, Reject

\* The reads before the first command, and the steps.
LEMMA ScopeAims ==
    ASSUME IInv, LockInv, PlanInv, NEW op \in Ops, ReadScope(op)
    PROVE  Aims(op)'
<1> DEFINE r == req[op]  l == local[op]  network == l.seen.subnets[r.id].network
<1>1. ControlOK /\ pc[op] = "scope" /\ UNCHANGED <<req, running>> /\ Formed(r, l) /\ l.done = <<>> /\ running \in Config
  BY OfChange, OfOp DEF PlanInv, Tracked, Stepping, ReadScope, ReadOnly
<1>2. CASE Reject(op)
  BY <1>1, <1>2, LeavesAims DEF Reject
<1>3. ASSUME NEW place \in {"send", "network", "definition", "candidate"}, NEW plan, NEW target,
             Proceed(op, place, plan, target),
             \A m : /\ m.todo = plan /\ m.view = target /\ m.seen = l.seen /\ m.base = l.base /\ m.done = <<>>
                    => Aiming(place, r, m)
      PROVE  Aims(op)'
  <2> DEFINE new == [l EXCEPT !.todo = plan, !.view = target]
  <2>1. new.todo = plan /\ new.view = target /\ new.seen = l.seen /\ new.base = l.base /\ new.done = <<>>
    BY <1>1 DEF Formed, Locals
  <2>2. Go(op, place, new)
    BY <1>3 DEF Proceed
  <2> HIDE DEF new
  <2> QED
    BY <1>1, <1>3, <2>1, <2>2, GoAims
<1>4. ASSUME NEW complete \in BOOLEAN, r.kind = "add-subnet", ScopeForAdd(op, complete) PROVE Aims(op)'
  <2> DEFINE place == IF r.shared = None \/ complete THEN "send" ELSE "network"
  <2>1. ASSUME NEW id \in NewIds(r, running), CanCreate(r, running),
               Proceed(op, place, AddPlan(r, id), Target(id, r.network, None, None))
        PROVE  Aims(op)'
    <3> DEFINE target == Target(id, r.network, None, None)
    <3>1. id \in Ids /\ target.id = id /\ target.network = r.network
      BY <2>1, AllocatedFree DEF NewIds, CanCreate, FreeIds, Target
    <3> HIDE DEF target
    <3>2. ASSUME NEW m, m.todo = AddPlan(r, id), m.view = target, m.done = <<>>
          PROVE  Aiming(place, r, m)
      BY <1>4, <3>1, <3>2 DEF Aiming, Aimed, Undoable, Ready, BySubnet
    <3> QED
      BY <1>3, <2>1, <3>2 DEF target
  <2> QED
    BY <1>2, <1>4, <2>1 DEF ScopeForAdd
<1>5. ASSUME NEW complete \in BOOLEAN, r.kind = "edit-subnet", ScopeForEdit(op, complete) PROVE Aims(op)'
  <2> DEFINE old == l.seen.subnets[r.id]
             place == IF r.shared \notin {None, old.member} /\ ~complete THEN "network" ELSE "definition"
             target == Target(r.id, old.network, old.member, None)
  <2>1. CASE Proceed(op, place, <<>>, target)
    <3>1. target.network = old.network
      BY DEF Target
    <3> HIDE DEF target
    <3>2. ASSUME NEW m, m.view = target, m.seen = l.seen PROVE Aiming(place, r, m)
      BY <1>5, <3>1, <3>2 DEF Aiming, Old, Sending, Stepping
    <3> QED
      BY <1>3, <2>1, <3>2
  <2> QED
    BY <1>2, <1>5, <2>1 DEF ScopeForEdit
<1>6. ASSUME NEW complete \in BOOLEAN, r.kind \notin {"add-subnet", "edit-subnet"}, ScopeForTarget(op, complete)
      PROVE  Aims(op)'
  <2> DEFINE steps == CASE r.kind = "delete-subnet" -> <<Last(SubnetDel(r.id))>>
                        [] r.kind = "add-pool"      -> <<Last(PoolAdd(r.id, network, r.pool))>>
                        [] r.kind = "delete-pool"   -> <<Last(PoolDel(r.id, network, r.pool))>>
                        [] OTHER                    -> <<>>
             place == IF r.kind = "set-subnet-options" THEN "candidate" ELSE "send"
             target == Target(r.id, network, None, None)
  <2>1. CASE Proceed(op, place, steps, target)
    <3>1. target.network = network /\ r.kind \in BySubnet \ {"edit-subnet"}
      BY <1>1, <1>6, OfOp DEF Target, Fits
    <3> HIDE DEF target
    <3>2. ASSUME NEW m, m.todo = steps, m.view = target, m.seen = l.seen, m.done = <<>>
          PROVE  Aiming(place, r, m)
      <4>1. CASE r.kind = "set-subnet-options"
        BY <4>1, AimlessPlaces DEF Sending, Stepping
      <4>2. CASE r.kind # "set-subnet-options"
        <5>1. Aimed(r, m) /\ Undoable(r, m)
          BY <1>6, <3>1, <3>2 DEF Aimed, Undoable, Old
        <5>2. Ready(r, m)
          <6>1. CASE r.kind = "delete-subnet"
            BY <3>2, <6>1 DEF Ready, TheCommand
          <6>2. CASE r.kind = "add-pool"
            BY <3>1, <3>2, <6>2 DEF Ready, TheCommand
          <6>3. CASE r.kind = "delete-pool"
            BY <3>1, <3>2, <6>3 DEF Ready, TheCommand
          <6> QED
            BY <3>1, <4>2, <6>1, <6>2, <6>3 DEF BySubnet
        <5> QED
          BY <4>2, <5>1, <5>2 DEF Aiming
      <4> QED
        BY <4>1, <4>2
    <3> HIDE DEF steps
    <3> QED
      BY <1>3, <2>1, <3>2
  <2> QED
    BY <1>2, <1>6, <2>1 DEF ScopeForTarget
<1> QED
  BY <1>4, <1>5, <1>6 DEF ReadScope

LEMMA ReadsAim ==
    ASSUME IInv, LockInv, PlanInv, AimInv, NEW op \in Ops,
           RequireNetwork(op) \/ ReadDefinition(op) \/ ReadExists(op) \/ ReadCandidate(op)
    PROVE  Aims(op)'
<1> DEFINE r == req[op]  l == local[op]
<1>1. ControlOK /\ UNCHANGED <<req, running>> /\ pc[op] \in Reading /\ running \in Config
  BY OfOp DEF RequireNetwork, ReadDefinition, ReadExists, ReadCandidate, ReadOnly, Reading
<1>2. Formed(r, l) /\ l.done = <<>> /\ Aiming(pc[op], r, l) /\ Fits(pc[op], l, r)
  BY <1>1, OfChange, OfOp DEF PlanInv, Tracked, Stepping, Reading, AimInv, Aims
<1>3. CASE Reject(op)
  BY <1>1, <1>3, LeavesAims DEF Reject
<1>4. CASE RequireNetwork(op)
  <2> DEFINE place == IF r.kind = "add-subnet" THEN "send" ELSE "definition"
  <2>1. pc[op] = "network" /\ (Reject(op) \/ Go(op, place, l)) /\ r.kind \in {"add-subnet", "edit-subnet"}
    BY <1>2, <1>4 DEF RequireNetwork, Fits
  <2>2. Aiming(place, r, l)
    BY <1>2, <2>1 DEF Aiming, Aimed, Undoable, Ready, BySubnet, Sending, Stepping
  <2> HIDE DEF place
  <2> QED
    BY <1>1, <1>3, <2>1, <2>2, GoAims
<1>5. CASE ReadDefinition(op)
  <2> DEFINE now == running.subnets[r.id]  old == Old(r, l)
             plan == EditPlan(r, Definition(now), old.member)
             new == [l EXCEPT !.todo = plan, !.view.definition = Definition(now), !.base = running]
  <2>1. pc[op] = "definition" /\ r.kind = "edit-subnet" /\ l.view \in Targets
    BY <1>2, <1>5 DEF ReadDefinition, Fits
  <2>2. CASE Go(op, "send", new) /\ Present(running, r.id)
    <3>1. /\ new.todo = plan /\ new.base = running /\ new.seen = l.seen /\ new.done = <<>>
          /\ new.view = [l.view EXCEPT !.definition = Definition(now)]
      BY <1>2 DEF Formed, Locals
    <3>2. new.view.definition = Definition(now) /\ new.view.network = l.view.network
      BY <2>1, <3>1 DEF Targets
    <3> HIDE DEF new, plan
    <3>3. Old(r, new) = old
      BY <3>1 DEF Old
    <3>4. MemberNow(r, new) = old.member
      BY <3>1, <3>3 DEF MemberNow
    <3>5. Ready(r, new)
      BY <2>1, <3>1, <3>2, <3>4 DEF Ready, plan
    <3>6. Aimed(r, new) /\ Undoable(r, new)
      BY <1>1, <1>2, <2>1, <2>2, <3>1, <3>2, <3>3 DEF Aimed, Undoable, Aiming, BySubnet
    <3>7. Aiming("send", r, new)
      BY <3>5, <3>6 DEF Aiming
    <3> QED
      BY <1>1, <2>2, <3>7, GoAims
  <2> QED
    BY <1>3, <1>5, <2>2 DEF ReadDefinition, StartFrom, Old
<1>6. CASE ReadExists(op)
  <2> DEFINE cmd == IF r.kind = "add-network" THEN NetworkAdd(r.name) ELSE NetworkDel(r.name)
             new == [l EXCEPT !.todo = <<Last(cmd)>>, !.view = NoTarget]
  <2>1. r.kind \in ByExists
    BY <1>2, <1>6 DEF ReadExists, Fits
  <2>2. CASE Go(op, "send", new)
    <3>1. new.todo = <<Last(cmd)>> /\ new.done = <<>>
      BY <1>2 DEF Formed, Locals
    <3>2. cmd = TheCommand(r, new)
      BY <2>1 DEF TheCommand, ByExists
    <3> HIDE DEF new, cmd
    <3>3. Aiming("send", r, new)
      BY <2>1, <3>1, <3>2 DEF Aiming, Aimed, Undoable, Ready, ByExists, BySubnet
    <3> QED
      BY <1>1, <2>2, <3>3, GoAims
  <2> QED
    BY <1>3, <1>6, <2>1, <2>2 DEF ReadExists, Proceed, ByExists
<1>7. CASE ReadCandidate(op)
  <2> DEFINE new == [l EXCEPT !.todo = <<Last(ConfigSet(Candidate(r, running)))>>, !.view = NoTarget, !.base = running]
  <2>1. r.kind \in BySend \cup {"set-subnet-options"}
    BY <1>2, <1>7 DEF ReadCandidate, Fits
  <2>2. CASE Go(op, "send", new)
    <3>1. new.todo = <<Last(ConfigSet(Candidate(r, running)))>> /\ new.base = running /\ new.done = <<>>
      BY <1>2 DEF Formed, Locals
    <3> HIDE DEF new
    <3>2. TheCommand(r, new) = ConfigSet(Candidate(r, running))
      BY <2>1, <3>1 DEF TheCommand, BySend
    <3>3. Aiming("send", r, new)
      BY <2>1, <3>1, <3>2 DEF Aiming, Aimed, Undoable, Ready, BySend, BySubnet
    <3> QED
      BY <1>1, <2>2, <3>3, GoAims
  <2> QED
    BY <1>3, <1>7, <2>2 DEF ReadCandidate
<1> QED
  BY <1>4, <1>5, <1>6, <1>7

\* The Shared Network that an edit has its Subnet in by now, from the steps that it has done.
LEMMA MovedSoFar ==
    ASSUME NEW r, NEW l, Formed(r, l), r.kind = "edit-subnet", Undoable(r, l)
    PROVE  /\ r.id \in Ids /\ r.shared \in Names \cup {None} /\ Old(r, l) \in Subnet
           /\ MemberNow(r, l) \in Names \cup {None}
           /\ \/ l.done = <<>> /\ MemberNow(r, l) = Old(r, l).member
              \/ /\ l.done = <<UndoLeave(r, Old(r, l).member)>> /\ Old(r, l).member \notin {None, r.shared}
                 /\ MemberNow(r, l) = None
              \/ /\ r.shared # None /\ MemberNow(r, l) = r.shared
                 /\ \/ l.done = <<UndoJoin(r)>> /\ Old(r, l).member = None
                    \/ l.done = <<UndoJoin(r), UndoLeave(r, Old(r, l).member)>> /\ Old(r, l).member \notin {None, r.shared}
<1> DEFINE c == IF l.done = <<>> THEN l.base ELSE WithMember(l.base, r.id, MemberNow(r, l))
<1>1. Trail(r, l, c)
  BY DEF Trail, Undoable
<1> HIDE DEF c
<1>2. r.id \in Ids /\ r.shared \in Names \cup {None} /\ Old(r, l) \in Subnet
  BY DEF Formed, RequestForms, Shown, BySubnet, Present, Config, Old
<1>3. Old(r, l).member \in Names \cup {None}
  BY <1>2 DEF Subnet
<1> QED
  BY <1>1, <1>2, <1>3, MoveCases

\* The steps of a plan one by one, whoever disturbs the change: an add.
LEMMA AddSteps ==
    ASSUME NEW r, NEW l, Formed(r, l), r.kind = "add-subnet", Aimed(r, l), Undoable(r, l), Ready(r, l)
    PROVE  /\ l.view.id \in Ids /\ r.shared \in Names \cup {None} /\ NewSubnet(r) \in Subnet
           /\ l.done = <<>> => Head(l.todo).cmd = SubnetAdd(l.view.id, NewSubnet(r))
           /\ l.done = <<>> /\ r.shared = None => Tail(l.todo) = <<>>
           /\ l.done = <<>> /\ r.shared # None =>
                Head(l.todo).undo = UndoAdd(l.view.id) /\ Tail(l.todo) = <<Last(Join(r.shared, l.view.id))>>
           /\ l.done # <<>> =>
                /\ r.shared # None /\ l.done = <<UndoAdd(l.view.id)>>
                /\ Head(l.todo).cmd = Join(r.shared, l.view.id) /\ Tail(l.todo) = <<>>
<1> DEFINE id == l.view.id
<1>1. id \in Ids /\ r.shared \in Names \cup {None} /\ NewSubnet(r) \in Subnet
  BY ConfigAssumption DEF Formed, Aimed, RequestForms, NewSubnet, Subnet
<1>2. CASE l.done = <<>> /\ r.shared = None
  <2>1. l.todo = <<Last(SubnetAdd(id, NewSubnet(r)))>>
    BY <1>2 DEF Ready, AddPlan
  <2> HIDE DEF id
  <2> QED
    BY <1>1, <1>2, <2>1, HeadsAndTails DEF Last, id
<1>3. CASE l.done = <<>> /\ r.shared # None
  <2>1. l.todo = <<Step(SubnetAdd(id, NewSubnet(r)), SubnetDel(id), None), Last(Join(r.shared, id))>>
    BY <1>3 DEF Ready, AddPlan
  <2> HIDE DEF id
  <2>2. Head(l.todo) = Step(SubnetAdd(id, NewSubnet(r)), SubnetDel(id), None) /\ Tail(l.todo) = <<Last(Join(r.shared, id))>>
    BY <2>1, HeadsAndTails
  <2> QED
    BY <1>1, <1>3, <2>2 DEF Step, UndoAdd, id
<1>4. CASE l.done # <<>>
  <2>1. l.todo = <<Last(Join(r.shared, id))>> /\ r.shared # None /\ l.done = <<UndoAdd(id)>>
    BY <1>4 DEF Ready, Undoable
  <2> HIDE DEF id
  <2> QED
    BY <1>1, <1>4, <2>1, HeadsAndTails DEF Last, id
<1> QED
  BY <1>2, <1>3, <1>4

\* The same for an edit.
LEMMA EditSteps ==
    ASSUME NEW r, NEW l, Formed(r, l), r.kind = "edit-subnet", Ready(r, l)
    PROVE  LET now == MemberNow(r, l)
           IN  /\ r.shared = now =>
                    Head(l.todo).cmd = SubnetUpdate(r.id, Edited(r, l.view.definition)) /\ Tail(l.todo) = <<>>
               /\ r.shared # now /\ now = None =>
                    /\ Head(l.todo).cmd = Join(r.shared, r.id) /\ Head(l.todo).undo = UndoJoin(r)
                    /\ Tail(l.todo) = EditPlan(r, l.view.definition, r.shared)
               /\ r.shared # now /\ now # None =>
                    /\ Head(l.todo).cmd = Leave(now, r.id) /\ Head(l.todo).undo = UndoLeave(r, now)
                    /\ Tail(l.todo) = EditPlan(r, l.view.definition, None)
<1> DEFINE now == MemberNow(r, l)
<1>1. l.todo = EditPlan(r, l.view.definition, now)
  BY DEF Ready
<1> HIDE DEF now
<1>2. CASE r.shared = now
  <2>1. Head(l.todo) = UpdateStep(r, l.view.definition) /\ Tail(l.todo) = <<>>
    BY <1>1, <1>2, EditPlanStep
  <2> QED
    BY <1>2, <2>1 DEF UpdateStep, Last, now
<1>3. CASE r.shared # now /\ now = None
  <2>1. Head(l.todo) = JoinStep(r) /\ Tail(l.todo) = EditPlan(r, l.view.definition, r.shared)
    BY <1>1, <1>3, EditPlanStep
  <2> QED
    BY <1>3, <2>1 DEF JoinStep, Step, UndoJoin, now
<1>4. CASE r.shared # now /\ now # None
  <2>1. Head(l.todo) = LeaveStep(r, now) /\ Tail(l.todo) = EditPlan(r, l.view.definition, None)
    BY <1>1, <1>4, EditPlanStep
  <2> QED
    BY <1>4, <2>1 DEF LeaveStep, Step, UndoLeave, now
<1> QED
  BY <1>2, <1>3, <1>4 DEF now

\* The same for the changes that have one step.
LEMMA SingleStep ==
    ASSUME NEW r, NEW l, r.kind \notin {"add-subnet", "edit-subnet"}, Undoable(r, l), Ready(r, l)
    PROVE  l.done = <<>> /\ Head(l.todo).cmd = TheCommand(r, l) /\ Tail(l.todo) = <<>>
BY HeadsAndTails DEF Ready, Undoable, Last

\* A plan that goes on has an undo for the step that applied.
LEMMA NextAims ==
    ASSUME NEW r, NEW l, Formed(r, l), Aimed(r, l), Undoable(r, l), Ready(r, l), Tail(l.todo) # <<>>
    PROVE  LET next == [l EXCEPT !.todo = Tail(l.todo), !.done = <<Head(l.todo).undo>> \o @]
           IN  Head(l.todo).undo # NoUndo /\ next.done # <<>> /\ Undoable(r, next) /\ Ready(r, next)
<1> DEFINE undo == Head(l.todo).undo
           next == [l EXCEPT !.todo = Tail(l.todo), !.done = <<undo>> \o @]
<1>1. next.todo = Tail(l.todo) /\ next.done = <<undo>> \o l.done /\ next.base = l.base /\ next.view = l.view
      /\ next.seen = l.seen
  BY NextLocal DEF Formed
<1> HIDE DEF next
<1>2. Old(r, next) = Old(r, l)
  BY <1>1 DEF Old
<1>3. CASE r.kind = "add-subnet"
  <2>1. l.done = <<>> /\ r.shared # None
    BY <1>3, AddSteps
  <2>2. l.view.id \in Ids /\ undo = UndoAdd(l.view.id) /\ Tail(l.todo) = <<Last(Join(r.shared, l.view.id))>>
    BY <1>3, <2>1, AddSteps
  <2>3. undo # NoUndo
    <3>1. SubnetDel(l.view.id) # None
      BY <2>2, CommandTyped, ConfigWriteAssumption
    <3> QED
      BY <2>2, <3>1 DEF UndoAdd, NoUndo
  <2>4. next.done = <<undo>> /\ <<undo>> # <<>>
    BY <1>1, <2>1, JoinNone, HeadsAndTails
  <2> HIDE DEF undo
  <2>5. Undoable(r, next)
    BY <1>1, <1>3, <2>1, <2>2, <2>4 DEF Undoable
  <2>6. Ready(r, next)
    BY <1>1, <1>3, <2>2, <2>4 DEF Ready
  <2> QED
    BY <2>3, <2>4, <2>5, <2>6 DEF undo, next
<1>4. CASE r.kind = "edit-subnet"
  <2> DEFINE now == MemberNow(r, l)  old == Old(r, l).member
  <2>1. /\ r.id \in Ids /\ r.shared \in Names \cup {None} /\ now \in Names \cup {None}
        /\ \/ l.done = <<>> /\ now = old
           \/ l.done = <<UndoLeave(r, old)>> /\ old \notin {None, r.shared} /\ now = None
           \/ r.shared # None /\ now = r.shared
    BY <1>4, MovedSoFar
  <2>2. /\ r.shared = now => Tail(l.todo) = <<>>
        /\ r.shared # now /\ now = None => undo = UndoJoin(r) /\ Tail(l.todo) = EditPlan(r, l.view.definition, r.shared)
        /\ r.shared # now /\ now # None => undo = UndoLeave(r, now) /\ Tail(l.todo) = EditPlan(r, l.view.definition, None)
    BY <1>4, EditSteps
  <2> HIDE DEF now, old, undo
  <2>3. ASSUME NEW member, undo # NoUndo, undo.member = member, Tail(l.todo) = EditPlan(r, l.view.definition, member),
               <<undo>> \o l.done \in MoveUndos(r, old)
        PROVE  undo # NoUndo /\ next.done # <<>> /\ Undoable(r, next) /\ Ready(r, next)
    <3>1. next.done # <<>> /\ Head(next.done) = undo
      <4>1. l.done \in Seq(Undos)
        BY DEF Formed, Locals
      <4> QED
        BY <1>1, <4>1, <2>3 DEF MoveUndos, HeadsAndTails
    <3>2. MemberNow(r, next) = member
      BY <2>3, <3>1 DEF MemberNow
    <3>3. Ready(r, next)
      BY <1>1, <1>4, <2>3, <3>2 DEF Ready
    <3>4. Undoable(r, next)
      BY <1>1, <1>2, <1>4, <2>3 DEF Undoable, old
    <3> QED
      BY <2>3, <3>1, <3>3, <3>4
  <2>4. CASE r.shared # now /\ now = None
    <3>1. undo = UndoJoin(r) /\ Tail(l.todo) = EditPlan(r, l.view.definition, r.shared) /\ r.shared # None
      BY <2>2, <2>4
    <3>2. UndoJoin(r) # NoUndo /\ UndoJoin(r).member = r.shared
      BY <3>1 DEF UndoJoin, NoUndo
    <3>3. <<UndoJoin(r)>> \o l.done \in MoveUndos(r, old)
      <4>1. CASE l.done = <<>> /\ old = None
        BY <3>1, <4>1, JoinNone DEF MoveUndos
      <4>2. CASE l.done = <<UndoLeave(r, old)>> /\ old \notin {None, r.shared}
        BY <3>1, <4>2, JoinTwo DEF MoveUndos
      <4> QED
        BY <2>1, <2>4, <4>1, <4>2
    <3> QED
      BY <2>3, <3>1, <3>2, <3>3 DEF undo, next
  <2>5. CASE r.shared # now /\ now # None
    <3>1. undo = UndoLeave(r, now) /\ Tail(l.todo) = EditPlan(r, l.view.definition, None) /\ l.done = <<>> /\ now = old
      BY <2>1, <2>2, <2>5
    <3>2. UndoLeave(r, now) # NoUndo /\ UndoLeave(r, now).member = None
      <4>1. Join(now, r.id) # None
        BY <2>1, <2>5, CommandTyped, ConfigWriteAssumption
      <4> QED
        BY <4>1 DEF UndoLeave, NoUndo
    <3>3. <<UndoLeave(r, now)>> \o l.done \in MoveUndos(r, old)
      BY <2>5, <3>1, JoinNone DEF MoveUndos
    <3> QED
      BY <2>3, <3>1, <3>2, <3>3 DEF undo, next
  <2> QED
    BY <2>2, <2>4, <2>5
<1>5. CASE r.kind \notin {"add-subnet", "edit-subnet"}
  BY <1>5, SingleStep
<1> QED
  BY <1>3, <1>4, <1>5

LEMMA SendAims ==
    ASSUME IInv, LockInv, AimInv, NEW op \in Ops, Send(op)
    PROVE  Aims(op)'
<1> DEFINE r == req[op]  l == local[op]
<1>1. ControlOK /\ req' = req /\ pc[op] = "send" /\ l \in Locals
  BY OfOp DEF Send
<1>2. Formed(r, l)
  BY <1>1, OfChange
<1>3. Aimed(r, l) /\ Undoable(r, l) /\ Ready(r, l)
  BY <1>1 DEF AimInv, Aims, Aiming, Sending, Stepping
<1>4. CASE NextStep(op)
  <2> DEFINE undo == Head(l.todo).undo
             next == [l EXCEPT !.todo = Tail(l.todo), !.done = <<undo>> \o @]
             new  == [l EXCEPT !.todo = Tail(l.todo), !.done = IF undo = NoUndo THEN @ ELSE <<undo>> \o @]
  <2>1. CASE Tail(l.todo) = <<>> /\ Conclude(op, "applied")
    BY <1>1, <2>1, ConcludeAims
  <2>2. CASE Tail(l.todo) # <<>> /\ Go(op, "send", new)
    <3>1. undo # NoUndo /\ Undoable(r, next) /\ Ready(r, next)
      BY <1>2, <1>3, <2>2, NextAims
    <3>2. new = next
      BY <3>1
    <3>3. next.base = l.base /\ next.view = l.view /\ next.seen = l.seen
      BY <1>1, NextLocal
    <3> HIDE DEF new, next
    <3>4. Aimed(r, new)
      BY <1>3, <3>2, <3>3, SameAim
    <3>5. Aiming("send", r, new)
      BY <3>1, <3>2, <3>4 DEF Aiming
    <3> QED
      BY <1>1, <2>2, <3>5, GoAims
  <2> QED
    BY <1>4, <2>1, <2>2 DEF NextStep
<1>5. CASE Go(op, "check", l)
  <2>1. Aiming("check", r, l)
    BY <1>3 DEF Aiming
  <2> QED
    BY <1>1, <1>5, <2>1, GoAims
<1>6. CASE Abandon(op)
  BY <1>1, <1>6, AbandonAims
<1> QED
  BY <1>1, <1>4, <1>5, <1>6, ConcludeAims DEF Send

LEMMA CheckAims ==
    ASSUME IInv, LockInv, AimInv, NEW op \in Ops, Check(op)
    PROVE  Aims(op)'
<1> DEFINE r == req[op]  l == local[op]
<1>1. ControlOK /\ req' = req /\ pc[op] = "check" /\ l \in Locals
  BY OfOp DEF Check, ReadOnly
<1>2. Formed(r, l)
  BY <1>1, OfChange
<1>3. Aimed(r, l) /\ Undoable(r, l) /\ Ready(r, l)
  BY <1>1 DEF AimInv, Aims, Aiming, Sending, Stepping
<1>4. CASE Taken(op) /\ Go(op, "retry", l)
  <2>1. r.kind = "add-subnet" /\ Head(l.todo).cmd.do = "subnet-add"
    BY <1>4 DEF Taken
  <2>2. l.done # <<>> => Head(l.todo).cmd = Join(r.shared, l.view.id)
    BY <1>2, <1>3, <2>1, AddSteps
  <2>3. l.done = <<>>
    BY <2>1, <2>2 DEF Join
  <2>4. Aiming("retry", r, l)
    BY <1>3, <2>3 DEF Aiming
  <2> QED
    BY <1>1, <1>4, <2>4, GoAims
<1> QED
  BY <1>1, <1>4, ConcludeAims, AbandonAims DEF Check

LEMMA ReallocateAims ==
    ASSUME IInv, AimInv, NEW op \in Ops, Reallocate(op)
    PROVE  Aims(op)'
<1> DEFINE r == req[op]  l == local[op]
<1>1. ControlOK /\ req' = req /\ pc[op] = "retry" /\ l \in Locals /\ r.kind = "add-subnet" /\ l.view \in Targets
  BY OfOp DEF Reallocate, ReadOnly, Fits, Stepping
<1>2. Aimed(r, l) /\ l.done = <<>>
  BY <1>1 DEF AimInv, Aims, Aiming, Sending, Stepping
<1>3. CASE Reject(op)
  BY <1>1, <1>3, LeavesAims DEF Reject
<1>4. ASSUME NEW id \in NewIds(r, running), CanCreate(r, running),
             Go(op, "send", [l EXCEPT !.todo = AddPlan(r, id), !.view.id = id, !.retried = TRUE])
      PROVE  Aims(op)'
  <2> DEFINE new == [l EXCEPT !.todo = AddPlan(r, id), !.view.id = id, !.retried = TRUE]
  <2>1. new.todo = AddPlan(r, id) /\ new.view = [l.view EXCEPT !.id = id] /\ new.done = <<>>
    BY <1>1, <1>2 DEF Locals
  <2>2. new.view.id = id /\ new.view.network = l.view.network
    BY <1>1, <2>1 DEF Targets
  <2>3. id \in Ids
    BY <1>4, AllocatedFree DEF NewIds, CanCreate, FreeIds
  <2>4. Go(op, "send", new)
    BY <1>4
  <2> HIDE DEF new
  <2>5. Aiming("send", r, new)
    BY <1>1, <1>2, <2>1, <2>2, <2>3 DEF Aiming, Aimed, Undoable, Ready, BySubnet
  <2> QED
    BY <1>1, <2>4, <2>5, GoAims
<1> QED
  BY <1>3, <1>4 DEF Reallocate

LEMMA CheckUndoAims ==
    ASSUME IInv, AimInv, NEW op \in Ops, CheckUndo(op)
    PROVE  Aims(op)'
<1> DEFINE r == req[op]  l == local[op]
           new == [l EXCEPT !.stale = \E other \in Ops \ {op} : pc[other] \in UnderLock]
<1>1. ControlOK /\ req' = req /\ pc[op] = "undo-check" /\ l \in Locals
  BY OfOp DEF CheckUndo, ReadOnly
<1>2. CASE Go(op, "undo-send", new)
  <2>1. new.view = l.view /\ new.seen = l.seen /\ new.base = l.base /\ new.done = l.done
    BY <1>1 DEF Locals
  <2> HIDE DEF new
  <2>2. Aiming("undo-send", r, new)
    BY <1>1, <2>1, SameAim DEF AimInv, Aims, Aiming, Sending, Stepping
  <2> QED
    BY <1>1, <1>2, <2>2, GoAims
<1> QED
  BY <1>1, <1>2, ConcludeAims DEF CheckUndo

\* What is left of the undo commands after the first one.
LEMMA RestOfUndos ==
    ASSUME NEW r, NEW l, Undoable(r, l), l.done # <<>>
    PROVE  Tail(l.done) = <<>> \/ (r.kind = "edit-subnet" /\ Tail(l.done) \in MoveUndos(r, Old(r, l).member))
<1> DEFINE old == Old(r, l).member
<1>1. CASE r.kind = "add-subnet" /\ l.done = <<UndoAdd(l.view.id)>>
  BY <1>1, HeadsAndTails
<1>2. CASE r.kind = "edit-subnet" /\ l.done \in MoveUndos(r, old)
  <2>1. CASE l.done \in {<<UndoLeave(r, old)>>, <<UndoJoin(r)>>}
    BY <2>1, HeadsAndTails
  <2>2. CASE l.done = <<UndoJoin(r), UndoLeave(r, old)>> /\ old \notin {None, r.shared}
    BY <1>2, <2>2, HeadsAndTails DEF MoveUndos
  <2> HIDE DEF old
  <2> QED
    BY <1>2, <2>1, <2>2 DEF MoveUndos
<1> QED
  BY <1>1, <1>2 DEF Undoable

LEMMA SendUndoAims ==
    ASSUME IInv, AimInv, NEW op \in Ops, SendUndo(op)
    PROVE  Aims(op)'
<1> DEFINE r == req[op]  l == local[op]
           back == [l EXCEPT !.done = Tail(l.done)]
<1>1. ControlOK /\ req' = req /\ pc[op] = "undo-send" /\ l \in Locals /\ l.done # <<>>
  BY OfOp DEF SendUndo, Fits
<1>2. Aimed(r, l) /\ Undoable(r, l)
  BY <1>1 DEF AimInv, Aims, Aiming, Sending, Stepping
<1>3. CASE Go(op, "undo-check", back)
  <2>1. back.view = l.view /\ back.seen = l.seen /\ back.base = l.base /\ back.done = Tail(l.done)
    BY <1>1 DEF Locals
  <2> HIDE DEF back
  <2>2. Undoable(r, back)
    <3>1. Old(r, back) = Old(r, l)
      BY <2>1 DEF Old
    <3>2. Tail(l.done) = <<>> \/ (r.kind = "edit-subnet" /\ Tail(l.done) \in MoveUndos(r, Old(r, l).member))
      BY <1>1, <1>2, RestOfUndos
    <3> QED
      BY <2>1, <3>1, <3>2 DEF Undoable
  <2>3. Aiming("undo-check", r, back)
    BY <1>2, <2>1, <2>2, SameAim DEF Aiming
  <2> QED
    BY <1>1, <1>3, <2>3, GoAims
<1> QED
  BY <1>1, <1>3, ConcludeAims, LeavesAims DEF SendUndo, Reject

LEMMA OwnAims ==
    ASSUME IInv, LockInv, PlanInv, AimInv, NEW op \in Ops, OpenForm(op) \/ Submit(op) \/ Prepare(op) \/ Act(op)
    PROVE  Aims(op)'
<1>1. ControlOK
  BY DEF IInv
<1>2. CASE OpenForm(op) \/ Submit(op)
  <2>1. pc'[op] \in {"form", "waiting", "done"}
    BY <1>1, <1>2 DEF OpenForm, Submit, Go, Reject, Leaves, ControlOK
  <2> QED
    BY <2>1, AimlessPlaces DEF Aims, Sending, Stepping
<1>3. CASE Acquire(op)
  <2>1. pc'[op] = FirstRead(req[op])
    BY <1>1, <1>3 DEF Acquire, ControlOK
  <2>2. FirstRead(req[op]) \in {"scope", "exists", "candidate"}
    BY DEF FirstRead
  <2> QED
    BY <2>1, <2>2, AimlessPlaces DEF Aims, Sending, Stepping
<1>4. CASE LockTimeout(op) \/ ReadFails(op) \/ Persist(op)
  BY <1>1, <1>4, LeavesAims DEF LockTimeout, ReadFails, Persist, Reject
<1> QED
  BY <1>2, <1>3, <1>4, ScopeAims, ReadsAim, SendAims, CheckAims, ReallocateAims, CheckUndoAims, SendUndoAims
     DEF Prepare, Act

\* An action of op, or of no change, leaves the other changes as they are, but for their history.
LEMMA OthersStay ==
    ASSUME IInv, NEW op \in Ops, OpenForm(op) \/ Submit(op) \/ Prepare(op) \/ Act(op), NEW other \in Ops \ {op}
    PROVE  pc'[other] = pc[other] /\ local'[other] = local[other] /\ outcome'[other] = outcome[other]
           /\ req'[other] = req[other]
<1>1. Own(op)
  <2>1. CASE Acquire(op)
    BY <2>1 DEF Acquire, Own, IInv, ControlOK
  <2>2. CASE ~Acquire(op)
    BY <2>2, OpSteps DEF Advance
  <2> QED
    BY <2>1, <2>2
<1> QED
  BY <1>1, RequestsKept DEF Own

LEMMA EnvironmentStays ==
    ASSUME IInv, Environment, NEW op \in Ops
    PROVE  /\ pc' = pc /\ outcome' = outcome /\ req' = req
           /\ local'[op].view = local[op].view /\ local'[op].seen = local[op].seen /\ local'[op].base = local[op].base
           /\ local'[op].done = local[op].done /\ local'[op].todo = local[op].todo
<1>1. ASSUME NEW ops, Disturb(ops)
      PROVE  /\ pc' = pc /\ outcome' = outcome
             /\ local'[op].view = local[op].view /\ local'[op].seen = local[op].seen /\ local'[op].base = local[op].base
             /\ local'[op].done = local[op].done /\ local'[op].todo = local[op].todo
  BY <1>1, OfOp DEF Disturb, Locals
<1> QED
  BY <1>1 DEF Environment, AdminWrites, LateRequest, Restart, LoseLock, OtherPersist, control

LEMMA AimInvInit == Init => AimInv
BY AimlessPlaces DEF Init, AimInv, Aims, Sending, Stepping

LEMMA AimInvNext == IInv /\ LockInv /\ PlanInv /\ AimInv /\ [Next]_vars => AimInv'
<1> SUFFICES ASSUME IInv, LockInv, PlanInv, AimInv, [Next]_vars PROVE AimInv'
  OBVIOUS
<1>1. ASSUME NEW op \in Ops, OpenForm(op) \/ Submit(op) \/ Prepare(op) \/ Act(op) PROVE AimInv'
  <2>1. ASSUME NEW other \in Ops \ {op} PROVE Aims(other)'
    BY <1>1, <2>1, OthersStay DEF AimInv, Aims
  <2> QED
    BY <1>1, <2>1, OwnAims DEF AimInv
<1>2. CASE Environment
  <2>1. ASSUME NEW op \in Ops PROVE Aims(op)'
    BY <1>2, <2>1, EnvironmentStays, SameAim DEF AimInv, Aims
  <2> QED
    BY <2>1 DEF AimInv
<1>3. CASE UNCHANGED vars
  BY <1>3 DEF vars, control, AimInv, Aims
<1> QED
  BY <1>1, <1>2, <1>3 DEF Next, Terminating

------------------------------------------------------------------------------
(* What a change that still sends can have live, whoever disturbs it.      *)

\* A membership that only the steps of an edit write.
Written(r, l, member) ==
    \/ member = None /\ Old(r, l).member \notin {None, r.shared}
    \/ member = r.shared /\ r.shared \notin {None, Old(r, l).member}

\* The step that the change checks is one of these commands.
Checks(place, l, commands) == place = "check" /\ Head(l.todo).cmd.do \in commands

\* While op is at `place`, a part of c that has its mark in m has a value that op asked for.
LiveAdd(op, place, r, l, p, c, m) ==
    /\ p[1] \in Fields /\ Part(c, p) # None
    /\ p[1] = "network" => Part(c, p) = r.network
    /\ \/ m[<<"network", p[2]>>] # op
       \/ p[2] = l.view.id /\ place # "retry" /\ (place = "send" => l.done # <<>>)

LiveEdit(place, r, l, p, c) ==
    /\ p[1] \in Fields /\ p[2] = r.id
    /\ IF p[1] = "member"
       THEN /\ Written(r, l, Part(c, p))
            /\ l.done # <<>> \/ Checks(place, l, {"network-subnet-add", "network-subnet-del"})
       ELSE Checks(place, l, {"subnet-update"}) /\ Part(c, p) # Part(l.base, p)

\* A change with one step has something live only between the step and its check.
LiveSingle(r, p, c) ==
    CASE r.kind = "delete-subnet"  -> p[1] \in Fields /\ p[2] = r.id /\ Part(c, p) = None
      [] r.kind = "add-pool"       -> p = <<"pools", r.id>> /\ Part(c, p) # None /\ r.pool \in Part(c, p)
      [] r.kind = "delete-pool"    -> p = <<"pools", r.id>> /\ Part(c, p) # None /\ r.pool \notin Part(c, p)
      [] r.kind = "add-network"    -> p = <<"net", r.name>> /\ Part(c, p) # None
      [] r.kind = "delete-network" -> p[1] = "member" \/ (p = <<"net", r.name>> /\ Part(c, p) = None)
      [] OTHER                     -> TRUE

Live(op, place, r, l, p, c, m) ==
    IF r.kind = "add-subnet" THEN LiveAdd(op, place, r, l, p, c, m)
    ELSE IF r.kind = "edit-subnet" THEN LiveEdit(place, r, l, p, c)
    ELSE place = "check" /\ LiveSingle(r, p, c)

\* A part that has the mark of a change is a value that it asked for while it can still be rejected, and not its own
\* when it is rejected.
Accounted(op) ==
    /\ outcome[op].application = "rejected" => pc[op] = "done"
    /\ \A p \in Parts : marks[p] = op =>
         /\ pc[op] \in Stepping \cup {"done"}
         /\ pc[op] \in Sending => Live(op, pc[op], req[op], local[op], p, running, marks)
         /\ outcome[op].application = "rejected" => Overtaken(op, p, marks)

AccountInv == \A op \in Ops : Accounted(op)

LEMMA AccountedMeans == AccountInv => RejectedNotLive
BY DEF AccountInv, Accounted, RejectedNotLive

------------------------------------------------------------------------------
(* The marks.                                                              *)

LEMMA FieldPart ==
    ASSUME NEW p \in Parts, p[1] \in Fields
    PROVE  p[2] \in Ids /\ p = <<p[1], p[2]>>
BY PartCases DEF Fields

\* A part that keeps the mark of another writer keeps its value.
LEMMA OthersMarks ==
    ASSUME NEW cmd, NEW writer, NEW origin, Execute(cmd, writer, origin), NEW other, other \notin {writer, None},
           NEW p \in Parts, marks'[p] = other
    PROVE  marks[p] = other /\ Part(running', p) = Part(running, p)
BY DEF Execute, Marked

\* A part that gets a mark gets a new value, and not the one that the change read.
LEMMA OwnMark ==
    ASSUME NEW cmd, NEW writer, writer # None, NEW origin, Execute(cmd, writer, origin), NEW p \in Parts, marks'[p] = writer
    PROVE  \/ marks[p] = writer /\ Part(running', p) = Part(running, p)
           \/ Part(running', p) # Part(running, p) /\ (origin # None => Part(running', p) # Part(origin, p))
BY DEF Execute, Marked

\* A change has less to answer for when others write over its marks.
LEMMA LiveKept ==
    ASSUME NEW op, NEW place, NEW r, NEW l, NEW p \in Parts, NEW c, NEW m, NEW c2, NEW m2,
           Live(op, place, r, l, p, c, m), Part(c2, p) = Part(c, p),
           \A q \in Parts : m2[q] = op => m[q] = op
    PROVE  Live(op, place, r, l, p, c2, m2)
<1>1. ASSUME p[1] \in Fields, m[<<"network", p[2]>>] # op PROVE m2[<<"network", p[2]>>] # op
  <2>1. <<"network", p[2]>> \in Parts
    BY <1>1, FieldPart, PartOf DEF Fields
  <2> QED
    BY <1>1, <2>1
<1>2. LiveAdd(op, place, r, l, p, c, m) => LiveAdd(op, place, r, l, p, c2, m2)
  BY <1>1 DEF LiveAdd
<1>3. LiveEdit(place, r, l, p, c) => LiveEdit(place, r, l, p, c2)
  BY DEF LiveEdit
<1>4. LiveSingle(r, p, c) => LiveSingle(r, p, c2)
  BY DEF LiveSingle
<1> QED
  BY <1>2, <1>3, <1>4 DEF Live

\* What is live before a command is live while it is checked.
LEMMA LiveAtCheck ==
    ASSUME NEW op, NEW r, NEW l, NEW p, NEW c, NEW m, Live(op, "send", r, l, p, c, m)
    PROVE  Live(op, "check", r, l, p, c, m)
BY DEF Live, LiveAdd, LiveEdit, Checks

LEMMA OvertakenKept ==
    ASSUME NEW op, NEW p \in Parts, NEW m, NEW m2, Overtaken(op, p, m), \A q \in Parts : m2[q] = op => m[q] = op,
           req[op] \in RequestForms
    PROVE  Overtaken(op, p, m2)
<1>1. CASE req[op].kind = "delete-network"
  <2>1. <<"net", req[op].name>> \in Parts
    BY <1>1, PartOf DEF RequestForms
  <2> QED
    BY <1>1, <2>1 DEF Overtaken
<1>2. CASE req[op].kind # "delete-network"
  <2>1. <<"network", p[2]>> \in Parts
    BY FieldPart, PartOf DEF Fields, Overtaken
  <2> QED
    BY <1>2, <2>1 DEF Overtaken
<1> QED
  BY <1>1, <1>2

------------------------------------------------------------------------------
(* What a command of a change makes live.                                  *)

\* A Subnet has a value in each field, but for the Shared Network.
LEMMA FieldValues ==
    ASSUME NEW subnet \in Subnet, NEW field \in Fields
    PROVE  field # "member" => subnet[field] # None
<1>1. CASE field \in {"network", "managed", "unshown"}
  BY <1>1, ConfigAssumption DEF Subnet
<1>2. CASE field = "pools"
  <2>1. subnet.pools \in SUBSET Pools
    BY DEF Subnet
  <2> QED
    BY <1>2, <2>1, ConfigAssumption
<1> QED
  BY <1>1, <1>2 DEF Fields

\* One lemma for each shape of the plan, and then for all of them.
LEMMA AddMakesLive ==
    ASSUME NEW op \in Ops, NEW r, NEW l, Formed(r, l), Aimed(r, l), Undoable(r, l), Ready(r, l), r.kind = "add-subnet",
           running \in Config, Execute(Head(l.todo).cmd, op, l.base),
           \A p \in Parts : marks[p] = op => Live(op, "send", r, l, p, running, marks),
           NEW p \in Parts, marks'[p] = op
    PROVE  Live(op, "check", r, l, p, running', marks')
<1> DEFINE id == l.view.id  cmd == Head(l.todo).cmd
<1>1. id \in Ids /\ r.shared \in Names \cup {None} /\ NewSubnet(r) \in Subnet /\ NewSubnet(r).network = r.network
      /\ NewSubnet(r).member = None
  BY AddSteps DEF NewSubnet
<1>2. op # None /\ Accepts(running, cmd) /\ running' = Result(running, cmd)
  BY ConfigWriteAssumption DEF Execute
<1>3. /\ l.done = <<>> => cmd = SubnetAdd(id, NewSubnet(r))
      /\ l.done # <<>> => r.shared # None /\ cmd = Join(r.shared, id)
  BY AddSteps
<1>4. Accepts(running, SubnetAdd(id, NewSubnet(r))) => ~Present(running, id)
  BY DEF Accepts, SubnetAdd
<1>5. \A name : Accepts(running, Join(name, id)) => Present(running, id)
  BY DEF Accepts, Join
\* The marks that op already has stay what they are.
<1>6. ASSUME marks[p] = op, Part(running', p) = Part(running, p) PROVE Live(op, "check", r, l, p, running', marks')
  <2>1. LiveAdd(op, "send", r, l, p, running, marks)
    BY <1>6 DEF Live
  <2>2. p[1] \in Fields /\ p[2] \in Ids /\ <<"network", p[2]>> \in Parts
    BY <2>1, FieldPart, PartOf DEF LiveAdd, Fields
  <2>3. marks[<<"network", p[2]>>] # op /\ p[2] # id => marks'[<<"network", p[2]>>] # op
    <3> SUFFICES ASSUME marks[<<"network", p[2]>>] # op, p[2] # id, marks'[<<"network", p[2]>>] = op PROVE FALSE
      OBVIOUS
    <3>1. Part(running', <<"network", p[2]>>) # Part(running, <<"network", p[2]>>)
      BY <1>2, <2>2, OwnMark
    <3>2. running' = Change!WithSubnet(running, id, running'.subnets[id]) /\ running'.subnets[id] \in Subnet
      <4>1. CASE cmd = SubnetAdd(id, NewSubnet(r))
        <5>1. running' = Change!WithSubnet(running, id, NewSubnet(r))
          BY <1>1, <1>2, <4>1, SubnetResults
        <5>2. running'.subnets[id] = NewSubnet(r)
          BY <1>1, <5>1, SubnetParts
        <5> QED
          BY <1>1, <5>1, <5>2
      <4>2. CASE cmd = Join(r.shared, id) /\ r.shared # None
        <5>1. Present(running, id)
          BY <1>2, <1>5, <4>2
        <5> DEFINE new == [running.subnets[id] EXCEPT !.member = r.shared]
        <5>2. running' = Change!WithSubnet(running, id, new)
          BY <1>1, <1>2, <4>2, <5>1, SubnetResults
        <5>3. running.subnets[id] \in Subnet
          BY <1>1, <5>1, SubnetResults
        <5>4. new \in Subnet
          BY <1>1, <5>3 DEF Subnet
        <5> HIDE DEF new
        <5>5. running'.subnets[id] = new
          BY <1>1, <5>2, <5>4, SubnetParts
        <5> QED
          BY <5>2, <5>4, <5>5
      <4> QED
        BY <1>3, <4>1, <4>2
    <3>3. \E field \in Fields : <<"network", p[2]>> = <<field, id>>
      BY <1>1, <2>2, <3>1, <3>2, SubnetParts
    <3> QED
      BY <3>3
  <2> QED
    BY <1>6, <2>1, <2>3 DEF Live, LiveAdd
<1>7. ASSUME Part(running', p) # Part(running, p), l.done = <<>> PROVE Live(op, "check", r, l, p, running', marks')
  <2>1. running' = Change!WithSubnet(running, id, NewSubnet(r))
    BY <1>1, <1>2, <1>7, <1>3, SubnetResults
  <2>2. PICK field \in Fields : p = <<field, id>>
    BY <1>1, <1>7, <2>1, SubnetParts
  <2>3. Part(running', p) = NewSubnet(r)[field]
    BY <1>1, <2>1, <2>2, SubnetParts, ConfigAssumption
  <2>4. ~Present(running, id)
    BY <1>2, <1>7, <1>3, <1>4
  <2>5. Part(running, p) = None
    BY <1>1, <2>2, <2>4, PartOf
  <2> QED
    BY <1>1, <1>7, <2>2, <2>3, <2>5 DEF Live, LiveAdd
<1>8. ASSUME Part(running', p) # Part(running, p), l.done # <<>> PROVE Live(op, "check", r, l, p, running', marks')
  <2>1. r.shared # None /\ cmd = Join(r.shared, id)
    BY <1>8, <1>3
  <2>2. Present(running, id)
    BY <1>2, <1>5, <2>1
  <2>3. running.subnets[id] \in Subnet
    BY <1>1, <2>2, SubnetResults
  <2> DEFINE new == [running.subnets[id] EXCEPT !.member = r.shared]
  <2>4. running' = Change!WithSubnet(running, id, new)
    <3>1. r.shared \in Names /\ running' = Result(running, Join(r.shared, id))
      BY <1>1, <1>2, <2>1
    <3> QED
      BY <1>1, <2>2, <3>1, SubnetResults
  <2>5. new \in Subnet /\ new.member = r.shared /\ \A field \in Fields \ {"member"} : new[field] = running.subnets[id][field]
    BY <1>1, <2>3 DEF Subnet, Fields
  <2> HIDE DEF new
  <2>6. PICK field \in Fields : p = <<field, id>>
    BY <1>1, <1>8, <2>4, <2>5, SubnetParts
  <2>7. Part(running', p) = new[field] /\ Part(running, p) = running.subnets[id][field]
    BY <1>1, <2>2, <2>4, <2>5, <2>6, SubnetParts, PartOf, ConfigAssumption
  <2>8. field = "member" /\ Part(running', p) = r.shared
    BY <1>8, <2>5, <2>7
  <2> QED
    BY <1>1, <2>1, <2>6, <2>8 DEF Live, LiveAdd
<1> QED
  BY <1>2, <1>6, <1>7, <1>8, OwnMark

LEMMA EditMakesLive ==
    ASSUME NEW op \in Ops, NEW r, NEW l, Formed(r, l), Aimed(r, l), Undoable(r, l), Ready(r, l), r.kind = "edit-subnet",
           running \in Config, Execute(Head(l.todo).cmd, op, l.base),
           \A p \in Parts : marks[p] = op => Live(op, "send", r, l, p, running, marks),
           NEW p \in Parts, marks'[p] = op
    PROVE  Live(op, "check", r, l, p, running', marks')
<1> DEFINE cmd == Head(l.todo).cmd  now == MemberNow(r, l)  old == Old(r, l).member
<1>1. /\ r.id \in Ids /\ r.shared \in Names \cup {None} /\ now \in Names \cup {None} /\ l.base \in Config /\ l.base # None
      /\ \/ l.done = <<>> /\ now = old
         \/ l.done # <<>> /\ old \notin {None, r.shared} /\ now = None
         \/ r.shared # None /\ now = r.shared
  <2>1. l.base \in Config /\ l.base # None
    BY ConfigAssumption DEF Aimed
  <2>2. <<UndoLeave(r, Old(r, l).member)>> # <<>>
    BY HeadsAndTails
  <2> QED
    BY <2>1, <2>2, MovedSoFar
<1>2. op # None /\ Accepts(running, cmd) /\ running' = Result(running, cmd)
  BY ConfigWriteAssumption DEF Execute
<1>3. /\ r.shared = now => cmd = SubnetUpdate(r.id, Edited(r, l.view.definition))
      /\ r.shared # now /\ now = None => cmd = Join(r.shared, r.id)
      /\ r.shared # now /\ now # None => cmd = Leave(now, r.id)
  BY EditSteps
<1> HIDE DEF now, old
<1>4. CASE marks[p] = op /\ Part(running', p) = Part(running, p)
  <2>1. LiveEdit("send", r, l, p, running)
    BY <1>4 DEF Live
  <2>2. LiveEdit("check", r, l, p, running')
    BY <1>4, <2>1 DEF LiveEdit, Checks
  <2> QED
    BY <2>2 DEF Live
<1>5. ASSUME NEW member, running' = WithMember(running, r.id, member), Present(running, r.id), Written(r, l, member),
             member \in Names \cup {None}, cmd.do \in {"network-subnet-add", "network-subnet-del"},
             Part(running', p) # Part(running, p)
      PROVE  Live(op, "check", r, l, p, running', marks')
  <2> DEFINE new == [running.subnets[r.id] EXCEPT !.member = member]
  <2>1. running.subnets[r.id] \in Subnet
    BY <1>1, <1>5, SubnetResults
  <2>2. new \in Subnet /\ new.member = member /\ \A field \in Fields \ {"member"} : new[field] = running.subnets[r.id][field]
    BY <1>5, <2>1 DEF Subnet, Fields
  <2>3. running' = Change!WithSubnet(running, r.id, new)
    BY <1>5 DEF WithMember
  <2> HIDE DEF new
  <2>4. PICK field \in Fields : p = <<field, r.id>>
    BY <1>1, <1>5, <2>2, <2>3, SubnetParts
  <2>5. Part(running', p) = new[field] /\ Part(running, p) = running.subnets[r.id][field]
    BY <1>1, <1>5, <2>2, <2>3, <2>4, SubnetParts, PartOf, ConfigAssumption
  <2>6. field = "member" /\ Part(running', p) = member
    BY <1>5, <2>2, <2>5
  <2>7. LiveEdit("check", r, l, p, running')
    BY <1>5, <2>4, <2>6 DEF LiveEdit, Checks
  <2> QED
    BY <2>7 DEF Live
<1>6. CASE r.shared = now /\ Part(running', p) # Part(running, p) /\ Part(running', p) # Part(l.base, p)
  <2> DEFINE definition == Edited(r, l.view.definition)
             new == [definition EXCEPT !.member = running.subnets[r.id].member]
  <2>1. cmd = SubnetUpdate(r.id, definition)
    BY <1>3, <1>6
  <2>2. Accepts(running, SubnetUpdate(r.id, definition)) => Present(running, r.id)
    BY DEF Accepts, SubnetUpdate
  <2>3. running.subnets[r.id] \in Subnet /\ Present(running, r.id)
    BY <1>1, <1>2, <2>1, <2>2, SubnetResults
  <2>4. definition \in Subnet
    <3>1. l.base.subnets[r.id] \in Subnet
      BY <1>1, SubnetResults DEF Aimed
    <3>2. l.view.definition \in Subnet
      BY <3>1, DefinitionTyped DEF Aimed
    <3>3. r.pools \in SUBSET Pools /\ r.managed \in Values
      BY DEF Formed, RequestForms
    <3> QED
      BY <3>2, <3>3 DEF Edited, Subnet
  <2> HIDE DEF definition
  <2>5. running' = Change!WithSubnet(running, r.id, new)
    <3>1. \A subnet : Result(running, SubnetUpdate(r.id, subnet))
                       = Change!WithSubnet(running, r.id, [subnet EXCEPT !.member = running.subnets[r.id].member])
      BY <1>1, SubnetResults
    <3> QED
      BY <1>2, <2>1, <3>1
  <2>6. new \in Subnet /\ new.member = running.subnets[r.id].member
    BY <2>3, <2>4 DEF Subnet
  <2> HIDE DEF new
  <2>7. PICK field \in Fields : p = <<field, r.id>>
    BY <1>1, <1>6, <2>5, <2>6, SubnetParts
  <2>8. Part(running', p) = new[field] /\ Part(running, p) = running.subnets[r.id][field]
    BY <1>1, <2>3, <2>5, <2>6, <2>7, SubnetParts, PartOf, ConfigAssumption
  <2>9. field # "member"
    BY <1>6, <2>6, <2>8
  <2>10. cmd.do = "subnet-update"
    BY <2>1 DEF SubnetUpdate
  <2>11. LiveEdit("check", r, l, p, running')
    BY <1>6, <2>7, <2>9, <2>10 DEF LiveEdit, Checks
  <2> QED
    BY <2>11 DEF Live
<1>7. CASE r.shared # now /\ now = None /\ Part(running', p) # Part(running, p)
  <2>1. cmd = Join(r.shared, r.id) /\ r.shared \in Names /\ cmd.do = "network-subnet-add"
    BY <1>1, <1>3, <1>7 DEF Join
  <2>2. \A name : Accepts(running, Join(name, r.id)) => Present(running, r.id)
    BY DEF Accepts, Join
  <2>3. Present(running, r.id) /\ running' = WithMember(running, r.id, r.shared)
    BY <1>1, <1>2, <2>1, <2>2, MemberResults
  <2>4. Written(r, l, r.shared)
    BY <1>1, <1>7 DEF Written, old
  <2> QED
    BY <1>1, <1>5, <1>7, <2>1, <2>3, <2>4
<1>8. CASE r.shared # now /\ now # None /\ Part(running', p) # Part(running, p)
  <2>1. cmd = Leave(now, r.id) /\ now \in Names /\ cmd.do = "network-subnet-del"
    BY <1>1, <1>3, <1>8 DEF Leave
  <2>2. \A name : Accepts(running, Leave(name, r.id)) => Present(running, r.id)
    BY DEF Accepts, Leave
  <2>3. Present(running, r.id) /\ running' = WithMember(running, r.id, None)
    BY <1>1, <1>2, <2>1, <2>2, MemberResults
  <2>4. Written(r, l, None)
    BY <1>1, <1>8 DEF Written, old
  <2> QED
    BY <1>1, <1>5, <1>8, <2>1, <2>3, <2>4
<1>9. \/ marks[p] = op /\ Part(running', p) = Part(running, p)
      \/ Part(running', p) # Part(running, p) /\ Part(running', p) # Part(l.base, p)
  BY <1>1, <1>2, OwnMark
<1> QED
  BY <1>4, <1>6, <1>7, <1>8, <1>9

LEMMA SingleMakesLive ==
    ASSUME NEW op \in Ops, NEW r, NEW l, Formed(r, l), Aimed(r, l), Undoable(r, l), Ready(r, l),
           r.kind \notin {"add-subnet", "edit-subnet"}, running \in Config, Execute(Head(l.todo).cmd, op, l.base),
           \A p \in Parts : marks[p] = op => Live(op, "send", r, l, p, running, marks),
           NEW p \in Parts, marks'[p] = op
    PROVE  Live(op, "check", r, l, p, running', marks')
<1> DEFINE cmd == Head(l.todo).cmd  c == running
<1>1. op # None /\ Accepts(c, cmd) /\ running' = Result(c, cmd) /\ cmd = TheCommand(r, l)
  BY SingleStep, ConfigWriteAssumption DEF Execute
<1>2. Part(running', p) # Part(c, p)
  BY <1>1, OwnMark DEF Live
<1> SUFFICES LiveSingle(r, p, running')
  BY DEF Live
<1>3. r.kind \in {"delete-subnet", "add-pool", "delete-pool"} => r.id \in Ids
  BY DEF Formed, RequestForms
<1>4. r.kind \in {"add-network", "delete-network"} => r.name \in Names
  BY DEF Formed, RequestForms
<1> HIDE DEF cmd
<1>5. CASE r.kind = "delete-subnet"
  <2>1. running' = Change!WithSubnet(c, r.id, None)
    BY <1>1, <1>3, <1>5, SubnetResults DEF TheCommand
  <2>2. PICK field \in Fields : p = <<field, r.id>>
    BY <1>2, <1>3, <1>5, <2>1, SubnetParts
  <2>3. Part(running', p) = None
    BY <1>3, <1>5, <2>1, <2>2, SubnetParts
  <2> QED
    BY <1>5, <2>2, <2>3 DEF LiveSingle
<1>6. CASE r.kind \in {"add-pool", "delete-pool"}
  <2> DEFINE pools == IF r.kind = "add-pool" THEN c.subnets[r.id].pools \cup {r.pool} ELSE c.subnets[r.id].pools \ {r.pool}
             new == [c.subnets[r.id] EXCEPT !.pools = pools]
  <2>1. cmd = IF r.kind = "add-pool" THEN PoolAdd(r.id, l.view.network, r.pool) ELSE PoolDel(r.id, l.view.network, r.pool)
    BY <1>1, <1>6 DEF TheCommand
  <2>2. /\ Accepts(c, PoolAdd(r.id, l.view.network, r.pool)) => Present(c, r.id)
        /\ Accepts(c, PoolDel(r.id, l.view.network, r.pool)) => Present(c, r.id)
    BY DEF Accepts, PoolAdd, PoolDel
  <2>3. Present(c, r.id) /\ c.subnets[r.id] \in Subnet
    BY <1>1, <1>3, <1>6, <2>1, <2>2, SubnetResults
  <2>4. running' = Change!WithSubnet(c, r.id, new)
    <3>1. \A network, pool : /\ Result(c, PoolAdd(r.id, network, pool))
                                  = Change!WithSubnet(c, r.id, [c.subnets[r.id] EXCEPT !.pools = @ \cup {pool}])
                             /\ Result(c, PoolDel(r.id, network, pool))
                                  = Change!WithSubnet(c, r.id, [c.subnets[r.id] EXCEPT !.pools = @ \ {pool}])
      <4>1. r.id \in Ids
        BY <1>3, <1>6
      <4> QED
        BY <2>3, <4>1, SubnetResults
    <3> QED
      BY <1>1, <1>6, <2>1, <3>1
  <2>5. r.pool \in Pools
    BY <1>6 DEF Formed, RequestForms
  <2>6. new \in Subnet /\ new.pools = pools /\ \A field \in Fields \ {"pools"} : new[field] = c.subnets[r.id][field]
    BY <2>3, <2>5 DEF Subnet, Fields
  <2>7. (r.kind = "add-pool") <=> (r.pool \in pools)
    BY <1>6
  <2> HIDE DEF new, pools
  <2>8. PICK field \in Fields : p = <<field, r.id>>
    BY <1>2, <1>3, <1>6, <2>4, <2>6, SubnetParts
  <2>9. Part(running', p) = new[field] /\ Part(c, p) = c.subnets[r.id][field]
    BY <1>3, <1>6, <2>3, <2>4, <2>6, <2>8, SubnetParts, PartOf, ConfigAssumption
  <2>10. field = "pools" /\ Part(running', p) = pools
    BY <1>2, <2>6, <2>9
  <2>11. pools # None
    BY <2>6, <2>10, FieldValues
  <2> QED
    BY <1>6, <2>7, <2>8, <2>10, <2>11 DEF LiveSingle
<1>7. CASE r.kind = "add-network"
  <2>1. cmd = NetworkAdd(r.name)
    BY <1>1, <1>7 DEF TheCommand
  <2>2. running' = [c EXCEPT !.nets[r.name] = Empty]
    BY <1>1, <2>1 DEF Result, NetworkAdd
  <2>3. /\ running' \in Config /\ running'.subnets = c.subnets /\ running'.options = c.options /\ running'.defs = c.defs
        /\ running'.nets = [c.nets EXCEPT ![r.name] = Empty]
    BY <1>4, <1>7, <2>2, ConfigAssumption DEF Config
  <2>4. running'.nets[r.name] = Empty /\ \A name \in Names : name # r.name => running'.nets[name] = c.nets[name]
    BY <1>4, <1>7, <2>3 DEF Config
  <2>5. PICK name \in Names : p = <<"net", name>> /\ running'.nets[name] # c.nets[name]
    <3>1. \A q \in Parts : \/ Part(running', q) = Part(c, q)
                          \/ \E name \in Names : q = <<"net", name>> /\ running'.nets[name] # c.nets[name]
      BY <2>3, ServerParts
    <3> QED
      BY <1>2, <3>1
  <2>6. p = <<"net", r.name>> /\ Part(running', p) = Empty
    BY <1>4, <1>7, <2>4, <2>5, PartOf
  <2> QED
    BY <1>7, <2>6, ConfigAssumption DEF LiveSingle
<1>8. CASE r.kind = "delete-network"
  <2> DEFINE subnets == [id \in Ids |-> IF Present(c, id) /\ c.subnets[id].member = r.name
                                        THEN [c.subnets[id] EXCEPT !.member = None] ELSE c.subnets[id]]
  <2>1. cmd = NetworkDel(r.name)
    BY <1>1, <1>8 DEF TheCommand
  <2>2. running' = [c EXCEPT !.nets[r.name] = None, !.subnets = subnets]
    BY <1>1, <2>1 DEF Result, NetworkDel
  <2>3. /\ running'.subnets = subnets /\ running'.options = c.options /\ running'.defs = c.defs
        /\ running'.nets = [c.nets EXCEPT ![r.name] = None]
    <3> HIDE DEF subnets
    <3> QED
      BY <2>2 DEF Config
  <2>4. running'.nets[r.name] = None /\ \A name \in Names : name # r.name => running'.nets[name] = c.nets[name]
    BY <1>4, <1>8, <2>3 DEF Config
  <2>5. ASSUME NEW field \in Fields \ {"member"}, NEW id \in Ids
        PROVE  Part(running', <<field, id>>) = Part(c, <<field, id>>)
    <3>1. running'.subnets[id] = IF Present(c, id) /\ c.subnets[id].member = r.name
                                 THEN [c.subnets[id] EXCEPT !.member = None] ELSE c.subnets[id]
      BY <2>3
    <3>2. CASE Present(c, id)
      <4>1. c.subnets[id] \in Subnet
        BY <3>2, SubnetResults
      <4>2. running'.subnets[id] \in Subnet /\ running'.subnets[id][field] = c.subnets[id][field]
        BY <3>1, <4>1 DEF Subnet, Fields
      <4>3. Present(running', id)
        BY <4>2, ConfigAssumption DEF Present
      <4> QED
        BY <3>2, <4>2, <4>3, PartOf
    <3>3. CASE ~Present(c, id)
      BY <3>1, <3>3, PartOf DEF Present
    <3> QED
      BY <3>2, <3>3
  <2>6. /\ Part(running', <<"server", "options">>) = Part(c, <<"server", "options">>)
        /\ Part(running', <<"server", "defs">>) = Part(c, <<"server", "defs">>)
    BY <2>3, PartOf
  <2>7. CASE \E field \in Fields, id \in Ids : p = <<field, id>>
    BY <1>2, <1>8, <2>5, <2>7 DEF LiveSingle
  <2>8. CASE \E name \in Names : p = <<"net", name>>
    <3>1. PICK name \in Names : p = <<"net", name>>
      BY <2>8
    <3>2. Part(running', p) = running'.nets[name] /\ Part(c, p) = c.nets[name]
      BY <3>1, PartOf
    <3>3. name = r.name /\ Part(running', p) = None
      BY <1>2, <2>4, <3>1, <3>2
    <3> QED
      BY <1>8, <3>1, <3>3 DEF LiveSingle
  <2> QED
    BY <1>2, <2>6, <2>7, <2>8, PartCases
<1>9. CASE r.kind \notin {"delete-subnet", "add-pool", "delete-pool", "add-network", "delete-network"}
  BY <1>9 DEF LiveSingle
<1> QED
  BY <1>5, <1>6, <1>7, <1>8, <1>9

\* The command of a change that Kea runs leaves nothing live but what the change checks.
LEMMA MakesLive ==
    ASSUME NEW op \in Ops, NEW r, NEW l, Formed(r, l), Aimed(r, l), Undoable(r, l), Ready(r, l),
           running \in Config, Perhaps(Head(l.todo).cmd, op, l.base),
           \A p \in Parts : marks[p] = op => Live(op, "send", r, l, p, running, marks),
           NEW p \in Parts, marks'[p] = op
    PROVE  Live(op, "check", r, l, p, running', marks')
<1>1. CASE Execute(Head(l.todo).cmd, op, l.base)
  BY <1>1, AddMakesLive, EditMakesLive, SingleMakesLive
<1>2. CASE UNCHANGED <<running, marks>>
  BY <1>2, LiveAtCheck
<1> QED
  BY <1>1, <1>2 DEF Perhaps

------------------------------------------------------------------------------
(* What the reads show of it.                                              *)

\* What is live depends on these fields of the local state only.
LEMMA SameLive ==
    ASSUME NEW op, NEW place, NEW r, NEW l, NEW m, NEW p, NEW c, NEW w, m.view = l.view, m.seen = l.seen, m.base = l.base,
           m.done = l.done, place = "check" => m.todo = l.todo
    PROVE  Live(op, place, r, m, p, c, w) = Live(op, place, r, l, p, c, w)
<1>1. Old(r, m) = Old(r, l)
  BY DEF Old
<1>2. \A member : Written(r, m, member) = Written(r, l, member)
  BY <1>1 DEF Written
<1>3. \A commands : Checks(place, m, commands) = Checks(place, l, commands)
  BY DEF Checks
<1>4. LiveAdd(op, place, r, m, p, c, w) = LiveAdd(op, place, r, l, p, c, w)
  BY DEF LiveAdd
<1>5. LiveEdit(place, r, m, p, c) = LiveEdit(place, r, l, p, c)
  BY <1>2, <1>3 DEF LiveEdit
<1> QED
  BY <1>4, <1>5 DEF Live

\* A check that shows nothing of the command leaves to the change what its earlier steps made live.
LEMMA AddNotLive ==
    ASSUME NEW op \in Ops, NEW l, Formed(req[op], l), req[op].kind = "add-subnet", Aimed(req[op], l), Undoable(req[op], l),
           Ready(req[op], l), NotLive(Head(l.todo).cmd, l.view.network, l.view.definition, running),
           \A p \in Parts : marks[p] = op => Live(op, "check", req[op], l, p, running, marks),
           NEW p \in Parts, marks[p] = op
    PROVE  /\ l.done = <<>> => Overtaken(op, p, marks) /\ Live(op, "retry", req[op], l, p, running, marks)
           /\ l.done # <<>> => Live(op, "undo-check", req[op], l, p, running, marks)
<1> DEFINE r == req[op]  id == l.view.id
<1>1. LiveAdd(op, "check", r, l, p, running, marks)
  BY DEF Live
<1>2. CASE l.done # <<>>
  BY <1>1, <1>2 DEF Live, LiveAdd
<1>3. CASE l.done = <<>>
  <2> DEFINE q == <<"network", id>>
  <2>1. id \in Ids /\ l.view.network = r.network /\ Head(l.todo).cmd = SubnetAdd(id, NewSubnet(r))
    BY <1>3, AddSteps DEF Aimed
  <2>2. ~Present(running, id) \/ running.subnets[id].network # r.network
    <3>1. NotLive(SubnetAdd(id, NewSubnet(r)), r.network, l.view.definition, running)
      BY <2>1
    <3> QED
      BY <3>1 DEF NotLive, SubnetAdd
  <2>3. q \in Parts /\ Part(running, q) = IF Present(running, id) THEN running.subnets[id].network ELSE None
    BY <2>1, PartOf DEF Fields
  <2>4. marks[q] # op
    <3> SUFFICES ASSUME marks[q] = op PROVE FALSE
      OBVIOUS
    <3>1. LiveAdd(op, "check", r, l, q, running, marks)
      BY <2>3 DEF Live
    <3>2. Part(running, q) # None /\ Part(running, q) = r.network
      BY <3>1 DEF LiveAdd
    <3> QED
      BY <2>2, <2>3, <3>2
  <2>5. p[1] \in Fields /\ marks[<<"network", p[2]>>] # op
    BY <1>1, <2>4 DEF LiveAdd
  <2>6. Overtaken(op, p, marks)
    BY <2>5 DEF Overtaken
  <2>7. LiveAdd(op, "retry", r, l, p, running, marks)
    BY <1>1, <2>5 DEF LiveAdd
  <2> QED
    BY <1>3, <2>6, <2>7 DEF Live
<1> QED
  BY <1>2, <1>3

LEMMA EditNotLive ==
    ASSUME NEW op \in Ops, NEW r, NEW l, Formed(r, l), r.kind = "edit-subnet", Aimed(r, l), Undoable(r, l), Ready(r, l),
           running \in Config, CanCheck(Head(l.todo).cmd, l.view.network, running),
           NotLive(Head(l.todo).cmd, l.view.network, l.view.definition, running),
           NEW p \in Parts, LiveEdit("check", r, l, p, running)
    PROVE  l.done # <<>> /\ LiveEdit("undo-check", r, l, p, running)
<1> DEFINE now == MemberNow(r, l)  old == Old(r, l).member  cmd == Head(l.todo).cmd  c == running
<1>1. /\ r.id \in Ids /\ r.shared \in Names \cup {None} /\ now \in Names \cup {None}
      /\ \/ l.done = <<>> /\ now = old
         \/ l.done # <<>> /\ old \notin {None, r.shared} /\ now = None
         \/ r.shared # None /\ now = r.shared
  <2>1. <<UndoLeave(r, Old(r, l).member)>> # <<>>
    BY HeadsAndTails
  <2> QED
    BY <2>1, MovedSoFar
<1>2. /\ r.shared = now => cmd = SubnetUpdate(r.id, Edited(r, l.view.definition))
      /\ r.shared # now /\ now = None => cmd = Join(r.shared, r.id)
      /\ r.shared # now /\ now # None => cmd = Leave(now, r.id)
  BY EditSteps
<1> HIDE DEF now, old
<1>3. p[1] \in Fields /\ p[2] = r.id /\ p = <<p[1], r.id>>
  BY FieldPart DEF LiveEdit
<1>4. Part(c, p) = IF Present(c, r.id) THEN c.subnets[r.id][p[1]] ELSE None
  <2>1. \A field \in Fields : Part(c, <<field, r.id>>) = IF Present(c, r.id) THEN c.subnets[r.id][field] ELSE None
    BY <1>1, PartOf
  <2> QED
    BY <1>3, <2>1
<1>5. p[1] = "member"
  <2> SUFFICES ASSUME p[1] # "member" PROVE FALSE
    OBVIOUS
  <2>1. cmd.do = "subnet-update" /\ Part(c, p) # Part(l.base, p)
    BY DEF LiveEdit, Checks
  <2>2. cmd = SubnetUpdate(r.id, Edited(r, l.view.definition))
    BY <1>2, <2>1 DEF Join, Leave
  <2>3. CanCheck(SubnetUpdate(r.id, Edited(r, l.view.definition)), l.view.network, c)
        /\ NotLive(SubnetUpdate(r.id, Edited(r, l.view.definition)), l.view.network, l.view.definition, c)
    BY <2>2
  <2>4. Present(c, r.id) /\ Definition(c.subnets[r.id]) = l.view.definition
    BY <2>3 DEF CanCheck, NotLive, SubnetUpdate
  <2> DEFINE one == c.subnets[r.id]  two == l.base.subnets[r.id]
  <2>5. one \in Subnet /\ two \in Subnet /\ Definition(one) = Definition(two) /\ Present(l.base, r.id)
    BY <1>1, <2>4, SubnetResults DEF Aimed
  <2>6. Part(c, p) = one[p[1]] /\ Part(l.base, p) = two[p[1]]
    BY <1>1, <1>3, <2>4, <2>5, PartOf
  <2> HIDE DEF one, two
  <2>7. \A field \in Fields \ {"member"} : Definition(one)[field] = one[field] /\ Definition(two)[field] = two[field]
    BY <2>5 DEF Definition, Subnet, Fields
  <2> QED
    BY <1>3, <2>1, <2>5, <2>6, <2>7
<1>6. Written(r, l, Part(c, p))
  BY <1>5 DEF LiveEdit
<1>7. l.done # <<>>
  <2> SUFFICES ASSUME l.done = <<>> PROVE FALSE
    OBVIOUS
  <2>1. Checks("check", l, {"network-subnet-add", "network-subnet-del"})
    BY <1>5 DEF LiveEdit
  <2>2. now = old \/ (r.shared # None /\ now = r.shared)
    BY <1>1
  <2>3. r.shared # now
    <3>1. \A subnet : SubnetUpdate(r.id, subnet).do = "subnet-update"
      BY DEF SubnetUpdate
    <3> QED
      BY <1>2, <2>1, <3>1 DEF Checks
  <2>4. CASE now = None
    <3>1. NotLive(Join(r.shared, r.id), l.view.network, l.view.definition, c)
      BY <1>2, <2>3, <2>4
    <3>2. ~Present(c, r.id) \/ c.subnets[r.id].member # r.shared
      BY <3>1 DEF NotLive, Join
    <3>3. Part(c, p) # r.shared
      BY <1>4, <1>5, <2>3, <2>4, <3>2
    <3> QED
      BY <1>6, <2>2, <2>3, <2>4, <3>3 DEF Written, old
  <2>5. CASE now # None
    <3>1. NotLive(Leave(now, r.id), l.view.network, l.view.definition, c)
      BY <1>2, <2>3, <2>5
    <3>2. Present(c, r.id) /\ c.subnets[r.id].member = now
      BY <3>1 DEF NotLive, Leave, MemberOf
    <3>3. Part(c, p) = now
      BY <1>4, <1>5, <3>2
    <3> QED
      BY <1>6, <2>2, <2>3, <2>5, <3>3 DEF Written, old
  <2> QED
    BY <2>4, <2>5
<1>8. LiveEdit("undo-check", r, l, p, c)
  BY <1>5, <1>6, <1>7 DEF LiveEdit
<1> QED
  BY <1>7, <1>8

LEMMA SingleNotLive ==
    ASSUME NEW op \in Ops, NEW l, Formed(req[op], l), req[op].kind \notin {"add-subnet", "edit-subnet"}, Aimed(req[op], l),
           Undoable(req[op], l), Ready(req[op], l), running \in Config, CanCheck(Head(l.todo).cmd, l.view.network, running),
           NotLive(Head(l.todo).cmd, l.view.network, l.view.definition, running),
           \A p \in Parts : marks[p] = op => Live(op, "check", req[op], l, p, running, marks),
           NEW p \in Parts, marks[p] = op
    PROVE  l.done = <<>> /\ Overtaken(op, p, marks)
<1> DEFINE r == req[op]  c == running
<1>1. l.done = <<>> /\ CanCheck(TheCommand(r, l), l.view.network, c)
      /\ NotLive(TheCommand(r, l), l.view.network, l.view.definition, c)
  BY SingleStep
<1>2. \A q \in Parts : marks[q] = op => LiveSingle(r, q, c)
  BY DEF Live
<1>3. CASE r.kind = "delete-subnet"
  <2>1. r.id \in Ids
    BY <1>3 DEF Formed, RequestForms
  <2>2. NotLive(SubnetDel(r.id), l.view.network, l.view.definition, c)
    BY <1>1, <1>3 DEF TheCommand
  <2>3. Present(c, r.id)
    BY <2>2 DEF NotLive, SubnetDel
  <2>4. p[1] \in Fields /\ p[2] = r.id /\ Part(c, p) = None /\ p = <<p[1], p[2]>>
    BY <1>2, <1>3, FieldPart DEF LiveSingle
  <2>5. c.subnets[r.id] \in Subnet /\ Part(c, p) = c.subnets[r.id][p[1]]
    BY <2>1, <2>3, <2>4, PartOf, SubnetResults
  <2>6. p[1] = "member"
    BY <2>4, <2>5, FieldValues
  <2> DEFINE q == <<"network", r.id>>
  <2>7. q \in Parts /\ Part(c, q) = c.subnets[r.id]["network"] /\ c.subnets[r.id]["network"] # None
    BY <2>1, <2>3, <2>5, PartOf, FieldValues DEF Fields
  <2>8. marks[q] # op
    BY <1>2, <1>3, <2>7 DEF LiveSingle
  <2> QED
    BY <1>1, <1>3, <2>4, <2>6, <2>8 DEF Overtaken
<1>4. CASE r.kind = "delete-network"
  <2>1. r.name \in Names /\ <<"net", r.name>> \in Parts /\ Part(c, <<"net", r.name>>) = c.nets[r.name]
    BY <1>4, PartOf DEF Formed, RequestForms
  <2>2. NotLive(NetworkDel(r.name), l.view.network, l.view.definition, c)
    BY <1>1, <1>4 DEF TheCommand
  <2>3. c.nets[r.name] # None
    BY <2>2 DEF NotLive, NetworkDel, HasNetwork
  <2>4. ~(<<"net", r.name>>[1] = "member")
    OBVIOUS
  <2>5. \A q \in Parts : marks[q] = op => q[1] = "member" \/ (q = <<"net", r.name>> /\ Part(c, q) = None)
    BY <1>2, <1>4 DEF LiveSingle
  <2>6. marks[<<"net", r.name>>] # op /\ p[1] = "member"
    BY <2>1, <2>3, <2>4, <2>5
  <2> QED
    BY <1>1, <1>4, <2>6 DEF Overtaken
<1>5. CASE r.kind = "add-network"
  <2>1. r.name \in Names /\ Part(c, <<"net", r.name>>) = c.nets[r.name]
    BY <1>5, PartOf DEF Formed, RequestForms
  <2>2. NotLive(NetworkAdd(r.name), l.view.network, l.view.definition, c)
    BY <1>1, <1>5 DEF TheCommand
  <2>3. c.nets[r.name] = None
    BY <2>2 DEF NotLive, NetworkAdd, HasNetwork
  <2> QED
    BY <1>2, <1>5, <2>1, <2>3 DEF LiveSingle
<1>6. CASE r.kind \in {"add-pool", "delete-pool"}
  <2>1. r.id \in Ids /\ Part(c, <<"pools", r.id>>) = IF Present(c, r.id) THEN c.subnets[r.id]["pools"] ELSE None
    BY <1>6, PartOf DEF Formed, RequestForms, Fields
  <2>2. /\ r.kind = "add-pool" => NotLive(PoolAdd(r.id, l.view.network, r.pool), l.view.network, l.view.definition, c)
        /\ r.kind = "delete-pool" => NotLive(PoolDel(r.id, l.view.network, r.pool), l.view.network, l.view.definition, c)
    BY <1>1 DEF TheCommand
  <2>3. /\ r.kind = "add-pool" => (Present(c, r.id) => r.pool \notin c.subnets[r.id].pools)
        /\ r.kind = "delete-pool" => Present(c, r.id) /\ r.pool \in c.subnets[r.id].pools
    BY <2>2 DEF NotLive, PoolAdd, PoolDel
  <2>4. p = <<"pools", r.id>> /\ Part(c, p) # None /\ (r.kind = "add-pool" <=> r.pool \in Part(c, p))
    BY <1>2, <1>6 DEF LiveSingle
  <2> QED
    BY <1>6, <2>1, <2>3, <2>4
<1>7. CASE r.kind \notin {"delete-subnet", "delete-network", "add-network", "add-pool", "delete-pool"}
  <2>1. TheCommand(r, l) = ConfigSet(Candidate(r, l.base))
    BY <1>7 DEF TheCommand
  <2> QED
    BY <1>1, <2>1 DEF CanCheck, ConfigSet
<1> QED
  BY <1>3, <1>4, <1>5, <1>6, <1>7

LEMMA ChecksAreRight ==
    ASSUME NEW op \in Ops, NEW l, Formed(req[op], l), Aimed(req[op], l), Undoable(req[op], l), Ready(req[op], l),
           running \in Config, CanCheck(Head(l.todo).cmd, l.view.network, running),
           NotLive(Head(l.todo).cmd, l.view.network, l.view.definition, running),
           \A p \in Parts : marks[p] = op => Live(op, "check", req[op], l, p, running, marks),
           NEW p \in Parts, marks[p] = op
    PROVE  /\ l.done = <<>> => Overtaken(op, p, marks)
           /\ l.done # <<>> => Live(op, "undo-check", req[op], l, p, running, marks)
           /\ l.done = <<>> /\ req[op].kind = "add-subnet" => Live(op, "retry", req[op], l, p, running, marks)
<1>1. CASE req[op].kind = "add-subnet"
  BY <1>1, AddNotLive
<1>2. CASE req[op].kind = "edit-subnet"
  <2>1. LiveEdit("check", req[op], l, p, running)
    BY <1>2 DEF Live
  <2> QED
    BY <1>2, <2>1, EditNotLive DEF Live
<1>3. CASE req[op].kind \notin {"add-subnet", "edit-subnet"}
  BY <1>3, SingleNotLive
<1> QED
  BY <1>1, <1>2, <1>3

\* A command that never reached Kea leaves the same.
LEMMA NotSent ==
    ASSUME NEW op, NEW l, NEW p, NEW c, NEW m, Live(op, "send", req[op], l, p, c, m)
    PROVE  /\ l.done = <<>> => Overtaken(op, p, m)
           /\ l.done # <<>> => Live(op, "undo-check", req[op], l, p, c, m)
BY DEF Live, LiveAdd, LiveEdit, Checks, Overtaken

\* The step applied, and the plan goes on.
LEMMA GoesOn ==
    ASSUME NEW op, NEW r, NEW l, NEW m, NEW p, NEW c, NEW w, Formed(r, l), Aimed(r, l), Undoable(r, l), Ready(r, l),
           Tail(l.todo) # <<>>, m.view = l.view, m.seen = l.seen, m.base = l.base, m.done # <<>>,
           Live(op, "check", r, l, p, c, w)
    PROVE  Live(op, "send", r, m, p, c, w)
<1>1. CASE r.kind = "add-subnet"
  BY <1>1 DEF Live, LiveAdd
<1>2. CASE r.kind = "edit-subnet"
  <2>1. Old(r, m) = Old(r, l)
    BY DEF Old
  <2>2. Head(l.todo).cmd.do # "subnet-update"
    <3>1. r.shared # MemberNow(r, l)
      BY <1>2, EditSteps
    <3>2. \E name : Head(l.todo).cmd \in {Join(name, r.id), Leave(name, r.id)}
      BY <1>2, <3>1, EditSteps
    <3> QED
      BY <3>2 DEF Join, Leave
  <2> QED
    BY <1>2, <2>1, <2>2 DEF Live, LiveEdit, Checks, Written
<1>3. CASE r.kind \notin {"add-subnet", "edit-subnet"}
  BY <1>3, SingleStep
<1> QED
  BY <1>1, <1>2, <1>3

\* An undo that Kea runs takes back what its step made live.
LEMMA UndoTakesBack ==
    ASSUME NEW op \in Ops, NEW l, Formed(req[op], l), Aimed(req[op], l), Undoable(req[op], l), l.done # <<>>,
           running \in Config, Execute(Head(l.done).cmd, None, None),
           \A p \in Parts : marks[p] = op => Live(op, "undo-send", req[op], l, p, running, marks),
           NEW p \in Parts, marks'[p] = op
    PROVE  Tail(l.done) = <<>> /\ Overtaken(op, p, marks')
<1> DEFINE r == req[op]  c == running  cmd == Head(l.done).cmd
<1>1. op # None /\ Accepts(c, cmd) /\ running' = Result(c, cmd)
  BY ConfigWriteAssumption DEF Execute
<1>2. \A q \in Parts : marks'[q] = op => marks[q] = op /\ Part(running', q) = Part(c, q)
  BY <1>1, OthersMarks
<1>3. Live(op, "undo-send", r, l, p, c, marks)
  BY <1>2
<1>4. CASE r.kind = "add-subnet"
  <2> DEFINE id == l.view.id
  <2>1. id \in Ids /\ l.done = <<UndoAdd(id)>>
    BY <1>4 DEF Aimed, Undoable
  <2>2. cmd = SubnetDel(id) /\ Tail(l.done) = <<>>
    BY <2>1, HeadsAndTails DEF UndoAdd
  <2>3. LiveAdd(op, "undo-send", r, l, p, c, marks)
    BY <1>3, <1>4 DEF Live
  <2> HIDE DEF id, cmd
  <2>4. running' = Change!WithSubnet(c, id, None)
    BY <1>1, <2>1, <2>2, SubnetResults
  <2>5. p[1] \in Fields /\ p[2] \in Ids /\ p = <<p[1], p[2]>> /\ Part(running', p) # None
    BY <1>2, <2>3, FieldPart DEF LiveAdd
  <2>6. p[2] # id
    BY <2>1, <2>4, <2>5, SubnetParts
  <2>7. <<"network", p[2]>> \in Parts /\ marks[<<"network", p[2]>>] # op
    BY <2>3, <2>5, <2>6, PartOf DEF LiveAdd, Fields, id
  <2>8. Overtaken(op, p, marks')
    BY <1>2, <1>4, <2>5, <2>7 DEF Overtaken
  <2> QED
    BY <2>2, <2>8
<1>5. CASE r.kind = "edit-subnet"
  <2> DEFINE old == Old(r, l).member
  <2>1. LiveEdit("undo-send", r, l, p, c)
    BY <1>3, <1>5 DEF Live
  <2>2. p[1] = "member" /\ p[2] = r.id /\ Written(r, l, Part(c, p)) /\ p = <<"member", r.id>>
    BY <2>1, FieldPart DEF LiveEdit, Checks
  <2>3. r.id \in Ids /\ r.shared \in Names \cup {None} /\ Old(r, l) \in Subnet
        /\ \/ Head(l.done) = UndoLeave(r, old) /\ old \notin {None, r.shared}
           \/ Head(l.done) = UndoJoin(r) /\ r.shared # None
    <3>1. /\ Head(<<UndoLeave(r, old)>>) = UndoLeave(r, old) /\ Head(<<UndoJoin(r)>>) = UndoJoin(r)
          /\ Head(<<UndoJoin(r), UndoLeave(r, old)>>) = UndoJoin(r)
      BY HeadsAndTails
    <3> HIDE DEF old
    <3> QED
      BY <1>5, <3>1, MovedSoFar DEF old
  <2>4. old \in Names \cup {None}
    BY <2>3 DEF Subnet
  <2> HIDE DEF old, cmd
  <2>5. ASSUME NEW member \in Names \cup {None}, Present(c, r.id), running' = WithMember(c, r.id, member)
        PROVE  Part(c, p) = member
    <3> DEFINE new == [c.subnets[r.id] EXCEPT !.member = member]
    <3>1. c.subnets[r.id] \in Subnet
      BY <2>3, <2>5, SubnetResults
    <3>2. new \in Subnet /\ new.member = member
      BY <2>5, <3>1 DEF Subnet
    <3>3. running' = Change!WithSubnet(c, r.id, new)
      BY <2>5 DEF WithMember
    <3> HIDE DEF new
    <3>4. Part(running', p) = new["member"]
      <4>1. \A field \in Fields : Part(running', <<field, r.id>>) = IF new = None THEN None ELSE new[field]
        BY <2>3, <3>2, <3>3, SubnetParts
      <4>2. new # None /\ "member" \in Fields
        BY <3>2, ConfigAssumption DEF Fields
      <4> QED
        BY <2>2, <4>1, <4>2
    <3> QED
      BY <1>2, <3>2, <3>4
  <2>6. CASE Head(l.done) = UndoLeave(r, old) /\ old \notin {None, r.shared}
    <3>1. cmd = Join(old, r.id) /\ old \in Names
      BY <2>4, <2>6 DEF UndoLeave, cmd
    <3>2. Accepts(c, Join(old, r.id)) => Present(c, r.id)
      BY DEF Accepts, Join
    <3>3. Present(c, r.id) /\ running' = WithMember(c, r.id, old)
      BY <1>1, <2>3, <3>1, <3>2, MemberResults
    <3> QED
      BY <2>2, <2>4, <2>5, <2>6, <3>3 DEF Written, old
  <2>7. CASE Head(l.done) = UndoJoin(r) /\ r.shared # None
    <3>1. cmd = Leave(r.shared, r.id) /\ r.shared \in Names
      BY <2>3, <2>7 DEF UndoJoin, cmd
    <3>2. Accepts(c, Leave(r.shared, r.id)) => Present(c, r.id) /\ c.subnets[r.id].member = r.shared
      BY DEF Accepts, Leave
    <3>3. Present(c, r.id) /\ c.subnets[r.id].member = r.shared /\ running' = WithMember(c, r.id, None)
      BY <1>1, <2>3, <3>1, <3>2, MemberResults
    <3>4. Part(c, p) = r.shared
      BY <2>2, <2>3, <3>3, PartOf DEF Fields
    <3> QED
      BY <2>5, <2>7, <3>3, <3>4
  <2> QED
    BY <2>3, <2>6, <2>7
<1>6. CASE r.kind \notin {"add-subnet", "edit-subnet"}
  BY <1>3, <1>6 DEF Live
<1> QED
  BY <1>4, <1>5, <1>6

------------------------------------------------------------------------------
(* Where an action takes what its change has live.                         *)

\* The application of the outcome, after each way on.
LEMMA Applications ==
    ASSUME ControlOK, NEW op \in Ops
    PROVE  /\ \A place, new : Go(op, place, new) =>
                pc'[op] = place /\ local'[op] = new /\ outcome'[op].application = outcome[op].application
           /\ Reject(op) => pc'[op] = "done" /\ outcome'[op].application = "rejected"
           /\ \A application : Conclude(op, application) =>
                pc'[op] = "persist" /\ outcome'[op].application = application
<1>1. \A application : [outcome[op] EXCEPT !.application = application].application = application
  BY DEF ControlOK, Outcomes
<1>2. ASSUME NEW application, outcome' = [outcome EXCEPT ![op].application = application]
      PROVE  outcome'[op].application = application
  BY <1>1, <1>2 DEF ControlOK
<1> QED
  BY <1>2 DEF ControlOK, Go, Reject, Leaves, Conclude

\* What an action does next with its change.
LEMMA GoAccounted ==
    ASSUME ControlOK, NEW op \in Ops, outcome[op].application # "rejected", NEW place, NEW new, Go(op, place, new),
           req' = req,
           \A p \in Parts : marks'[p] = op =>
                place \in Stepping /\ (place \in Sending => Live(op, place, req[op], new, p, running', marks'))
    PROVE  Accounted(op)'
<1>1. pc'[op] = place /\ local'[op] = new /\ outcome'[op].application # "rejected" /\ req'[op] = req[op]
  BY Applications
<1> QED
  BY <1>1 DEF Accounted

LEMMA RejectAccounted ==
    ASSUME ControlOK, NEW op \in Ops, Reject(op), req' = req, \A p \in Parts : marks'[p] = op => Overtaken(op, p, marks')
    PROVE  Accounted(op)'
<1>1. pc'[op] = "done"
  BY Applications
<1>2. \A p \in Parts : marks'[p] = op => Overtaken(op, p, marks)'
  BY DEF Overtaken
<1> QED
  BY <1>1, <1>2 DEF Accounted, Sending, Stepping

LEMMA ConcludeAccounted ==
    ASSUME ControlOK, NEW op \in Ops, NEW application, Conclude(op, application), application # "rejected"
    PROVE  Accounted(op)'
<1>1. pc'[op] = "persist" /\ outcome'[op].application # "rejected"
  BY Applications
<1> QED
  BY <1>1 DEF Accounted, Sending, Stepping

\* A change that has not come to its first command has written nothing.
LEMMA NothingYet ==
    ASSUME IInv, AccountInv, NEW op \in Ops, pc[op] \notin Stepping \cup {"done"}, marks' = marks,
           \/ \E place, new : Go(op, place, new)
           \/ Reject(op)
           \/ outcome' = outcome
    PROVE  Accounted(op)'
<1>1. ControlOK /\ outcome[op].application # "rejected" /\ \A p \in Parts : marks[p] # op
  BY DEF IInv, AccountInv, Accounted
<1>2. outcome'[op].application = "rejected" => pc'[op] = "done"
  BY <1>1, Applications
<1> QED
  BY <1>1, <1>2 DEF Accounted

LEMMA OpenAccounted ==
    ASSUME IInv, AccountInv, NEW op \in Ops, OpenForm(op) \/ Submit(op) \/ Prepare(op)
    PROVE  Accounted(op)'
<1>1. marks' = marks /\ pc[op] \notin Stepping \cup {"done"}
  BY DEF OpenForm, Submit, Prepare, Acquire, LockTimeout, ReadFails, ReadScope, RequireNetwork, ReadDefinition, ReadExists,
         ReadCandidate, ReadOnly, Reading, Stepping
<1>2. CASE OpenForm(op) \/ Submit(op) \/ Acquire(op) \/ LockTimeout(op) \/ ReadFails(op)
  BY <1>1, <1>2, NothingYet DEF OpenForm, Submit, Acquire, LockTimeout, ReadFails
<1>3. CASE ReadScope(op)
  <2>1. Reject(op) \/ \E place, new : Go(op, place, new)
    BY <1>3 DEF ReadScope, ScopeForAdd, ScopeForEdit, ScopeForTarget, Proceed
  <2> QED
    BY <1>1, <2>1, NothingYet
<1>4. CASE RequireNetwork(op) \/ ReadDefinition(op) \/ ReadExists(op) \/ ReadCandidate(op)
  <2>1. Reject(op) \/ \E place, new : Go(op, place, new)
    BY <1>4 DEF RequireNetwork, ReadDefinition, StartFrom, ReadExists, Proceed, ReadCandidate
  <2> QED
    BY <1>1, <2>1, NothingYet
<1> QED
  BY <1>2, <1>3, <1>4 DEF Prepare

\* What the invariants say of a change that sends.
LEMMA OfSender ==
    ASSUME IInv, LockInv, AimInv, AccountInv, NEW op \in Ops, pc[op] \in Sending
    PROVE  /\ ControlOK /\ running \in Config /\ local[op] \in Locals
           /\ Formed(req[op], local[op]) /\ Aimed(req[op], local[op]) /\ Undoable(req[op], local[op])
           /\ pc[op] \in {"send", "check"} => Ready(req[op], local[op])
           /\ outcome[op].application # "rejected"
           /\ \A p \in Parts : marks[p] = op => Live(op, pc[op], req[op], local[op], p, running, marks)
<1>1. pc[op] \notin {"idle", "done"}
  BY DEF Sending, Stepping
<1> QED
  BY <1>1, OfOp, OfChange DEF AimInv, Aims, Aiming, AccountInv, Accounted

LEMMA AbandonAccounted ==
    ASSUME ControlOK, NEW op \in Ops, outcome[op].application # "rejected", Abandon(op), req' = req, marks' = marks,
           running' = running,
           \A p \in Parts : marks[p] = op =>
               /\ local[op].done = <<>> => Overtaken(op, p, marks)
               /\ local[op].done # <<>> => Live(op, "undo-check", req[op], local[op], p, running, marks)
    PROVE  Accounted(op)'
<1>1. CASE local[op].done = <<>>
  BY <1>1, RejectAccounted DEF Abandon
<1>2. CASE local[op].done # <<>>
  BY <1>2, GoAccounted DEF Abandon, Stepping
<1> QED
  BY <1>1, <1>2

\* The steps one by one.
LEMMA SendAccounted ==
    ASSUME IInv, LockInv, AimInv, AccountInv, NEW op \in Ops, Send(op)
    PROVE  Accounted(op)'
<1> DEFINE r == req[op]  l == local[op]  cmd == Head(l.todo).cmd
<1>1. req' = req /\ pc[op] = "send"
  BY DEF Send
<1>2. /\ ControlOK /\ running \in Config /\ l \in Locals /\ Formed(r, l) /\ Aimed(r, l) /\ Undoable(r, l) /\ Ready(r, l)
      /\ outcome[op].application # "rejected"
      /\ \A p \in Parts : marks[p] = op => Live(op, "send", r, l, p, running, marks)
  BY <1>1, OfSender DEF Sending, Stepping
<1>3. ASSUME Perhaps(cmd, op, l.base), NEW p \in Parts, marks'[p] = op PROVE Live(op, "check", r, l, p, running', marks')
  BY <1>2, <1>3, MakesLive
<1>4. CASE Execute(cmd, op, l.base) /\ NextStep(op)
  <2> DEFINE undo == Head(l.todo).undo
             next == [l EXCEPT !.todo = Tail(l.todo), !.done = <<undo>> \o @]
             new  == [l EXCEPT !.todo = Tail(l.todo), !.done = IF undo = NoUndo THEN @ ELSE <<undo>> \o @]
  <2>1. CASE Tail(l.todo) = <<>> /\ Conclude(op, "applied")
    BY <1>2, <2>1, ConcludeAccounted
  <2>2. CASE Tail(l.todo) # <<>> /\ Go(op, "send", new)
    <3>1. undo # NoUndo /\ next.done # <<>>
      BY <1>2, <2>2, NextAims
    <3>2. new = next
      BY <3>1
    <3>3. next.base = l.base /\ next.view = l.view /\ next.seen = l.seen
      BY <1>2, NextLocal
    <3> HIDE DEF new, next
    <3>4. ASSUME NEW p \in Parts, marks'[p] = op PROVE Live(op, "send", r, new, p, running', marks')
      <4>1. Live(op, "check", r, l, p, running', marks')
        BY <1>3, <1>4, <3>4 DEF Perhaps
      <4> QED
        BY <1>2, <2>2, <3>1, <3>2, <3>3, <4>1, GoesOn
    <3> QED
      BY <1>1, <1>2, <2>2, <3>4, GoAccounted DEF Stepping
  <2> QED
    BY <1>4, <2>1, <2>2 DEF NextStep
<1>5. CASE Perhaps(cmd, op, l.base) /\ Go(op, "check", l)
  BY <1>1, <1>2, <1>3, <1>5, GoAccounted DEF Stepping
<1>6. CASE Abandon(op) /\ UNCHANGED <<running, marks>>
  <2>1. ASSUME NEW p \in Parts, marks[p] = op
        PROVE  /\ l.done = <<>> => Overtaken(op, p, marks)
               /\ l.done # <<>> => Live(op, "undo-check", r, l, p, running, marks)
    BY <1>2, <2>1, NotSent
  <2> QED
    BY <1>1, <1>2, <1>6, <2>1, AbandonAccounted
<1>7. CASE Conclude(op, "unknown")
  BY <1>2, <1>7, ConcludeAccounted
<1> QED
  BY <1>4, <1>5, <1>6, <1>7 DEF Send, Perhaps

LEMMA CheckAccounted ==
    ASSUME IInv, LockInv, AimInv, AccountInv, NEW op \in Ops, Check(op)
    PROVE  Accounted(op)'
<1> DEFINE r == req[op]  l == local[op]  cmd == Head(l.todo).cmd
<1>1. req' = req /\ marks' = marks /\ running' = running /\ pc[op] = "check"
  BY DEF Check, ReadOnly
<1>2. /\ ControlOK /\ running \in Config /\ Formed(r, l) /\ Aimed(r, l) /\ Undoable(r, l) /\ Ready(r, l)
      /\ outcome[op].application # "rejected"
      /\ \A p \in Parts : marks[p] = op => Live(op, "check", r, l, p, running, marks)
  BY <1>1, OfSender DEF Sending, Stepping
<1>3. ASSUME ShowsNothing(op), NEW p \in Parts, marks[p] = op
      PROVE  /\ l.done = <<>> => Overtaken(op, p, marks)
             /\ l.done # <<>> => Live(op, "undo-check", r, l, p, running, marks)
             /\ l.done = <<>> /\ r.kind = "add-subnet" => Live(op, "retry", r, l, p, running, marks)
  <2>1. CanCheck(cmd, l.view.network, running) /\ NotLive(cmd, l.view.network, l.view.definition, running)
    BY <1>3 DEF ShowsNothing
  <2> QED
    BY <1>2, <1>3, <2>1, ChecksAreRight
<1>4. CASE ShowsNothing(op) /\ Taken(op) /\ Go(op, "retry", l)
  <2>1. r.kind = "add-subnet" /\ cmd.do = "subnet-add"
    BY <1>4 DEF Taken
  <2>2. l.done # <<>> => cmd = Join(r.shared, l.view.id)
    BY <1>2, <2>1, AddSteps
  <2>3. l.done = <<>>
    BY <2>1, <2>2 DEF Join
  <2> QED
    BY <1>1, <1>2, <1>3, <1>4, <2>1, <2>3, GoAccounted DEF Stepping
<1>5. CASE ShowsNothing(op) /\ Abandon(op)
  BY <1>1, <1>2, <1>3, <1>5, AbandonAccounted
<1>6. CASE Conclude(op, "unknown")
  BY <1>2, <1>6, ConcludeAccounted
<1> QED
  BY <1>4, <1>5, <1>6 DEF Check

LEMMA ReallocateAccounted ==
    ASSUME IInv, LockInv, AimInv, AccountInv, NEW op \in Ops, Reallocate(op)
    PROVE  Accounted(op)'
<1> DEFINE r == req[op]  l == local[op]
<1>1. req' = req /\ marks' = marks /\ running' = running /\ pc[op] = "retry" /\ r.kind = "add-subnet"
  BY OfOp DEF Reallocate, ReadOnly, Fits
<1>2. /\ ControlOK /\ outcome[op].application # "rejected"
      /\ \A p \in Parts : marks[p] = op => Live(op, "retry", r, l, p, running, marks)
  BY <1>1, OfSender DEF Sending, Stepping
<1>3. ASSUME NEW p \in Parts, marks[p] = op
      PROVE  /\ p[1] \in Fields /\ Part(running, p) # None /\ (p[1] = "network" => Part(running, p) = r.network)
             /\ marks[<<"network", p[2]>>] # op
  BY <1>1, <1>2, <1>3 DEF Live, LiveAdd
<1>4. CASE Reject(op)
  BY <1>1, <1>2, <1>3, <1>4, RejectAccounted DEF Overtaken
<1>5. ASSUME NEW new, Go(op, "send", new) PROVE Accounted(op)'
  <2>1. ASSUME NEW p \in Parts, marks[p] = op PROVE Live(op, "send", r, new, p, running, marks)
    BY <1>1, <1>3, <2>1 DEF Live, LiveAdd
  <2> QED
    BY <1>1, <1>2, <1>5, <2>1, GoAccounted DEF Stepping
<1> QED
  BY <1>4, <1>5 DEF Reallocate

LEMMA CheckUndoAccounted ==
    ASSUME IInv, LockInv, AimInv, AccountInv, NEW op \in Ops, CheckUndo(op)
    PROVE  Accounted(op)'
<1> DEFINE r == req[op]  l == local[op]
           new == [l EXCEPT !.stale = \E other \in Ops \ {op} : pc[other] \in UnderLock]
<1>1. req' = req /\ marks' = marks /\ running' = running /\ pc[op] = "undo-check"
  BY DEF CheckUndo, ReadOnly
<1>2. /\ ControlOK /\ outcome[op].application # "rejected" /\ l \in Locals
      /\ \A p \in Parts : marks[p] = op => Live(op, "undo-check", r, l, p, running, marks)
  BY <1>1, OfSender DEF Sending, Stepping
<1>3. CASE Go(op, "undo-send", new)
  <2>1. new.view = l.view /\ new.seen = l.seen /\ new.base = l.base /\ new.done = l.done
    BY <1>2 DEF Locals
  <2> HIDE DEF new
  <2>2. ASSUME NEW p \in Parts, marks[p] = op PROVE Live(op, "undo-send", r, new, p, running, marks)
    <3>1. Live(op, "undo-check", r, new, p, running, marks)
      BY <1>2, <2>1, <2>2, SameLive
    <3> QED
      BY <3>1 DEF Live, LiveAdd, LiveEdit, Checks
  <2> QED
    BY <1>1, <1>2, <1>3, <2>2, GoAccounted DEF Stepping
<1>4. CASE Conclude(op, "unknown")
  BY <1>2, <1>4, ConcludeAccounted
<1> QED
  BY <1>3, <1>4 DEF CheckUndo

LEMMA SendUndoAccounted ==
    ASSUME IInv, LockInv, AimInv, AccountInv, NEW op \in Ops, SendUndo(op)
    PROVE  Accounted(op)'
<1> DEFINE r == req[op]  l == local[op]  cmd == Head(l.done).cmd
<1>1. req' = req /\ pc[op] = "undo-send" /\ l.done # <<>>
  BY OfOp DEF SendUndo, Fits
<1>2. /\ ControlOK /\ running \in Config /\ Formed(r, l) /\ Aimed(r, l) /\ Undoable(r, l)
      /\ outcome[op].application # "rejected"
      /\ \A p \in Parts : marks[p] = op => Live(op, "undo-send", r, l, p, running, marks)
  BY <1>1, OfSender DEF Sending, Stepping
<1>3. ASSUME Execute(cmd, None, None), NEW p \in Parts, marks'[p] = op
      PROVE  Tail(l.done) = <<>> /\ Overtaken(op, p, marks')
  BY <1>1, <1>2, <1>3, UndoTakesBack
<1>4. CASE Execute(cmd, None, None) /\ Tail(l.done) = <<>> /\ Reject(op)
  BY <1>1, <1>2, <1>3, <1>4, RejectAccounted
<1>5. ASSUME Execute(cmd, None, None), Tail(l.done) # <<>>, NEW new, Go(op, "undo-check", new) PROVE Accounted(op)'
  BY <1>1, <1>2, <1>3, <1>5, GoAccounted
<1>6. CASE Conclude(op, "unknown")
  BY <1>2, <1>6, ConcludeAccounted
<1> QED
  BY <1>4, <1>5, <1>6 DEF SendUndo

LEMMA PersistAccounted ==
    ASSUME IInv, AccountInv, NEW op \in Ops, Persist(op)
    PROVE  Accounted(op)' /\ outcome'[op].application # "rejected" /\ pc'[op] = "done"
<1>1. ControlOK /\ pc[op] = "persist" /\ pc'[op] = "done" /\ marks' = marks
  BY DEF IInv, ControlOK, Persist, Leaves
<1>2. outcome[op].application # "rejected" /\ outcome[op] \in Outcomes
  BY <1>1 DEF AccountInv, Accounted, ControlOK
<1>3. outcome'[op].application # "rejected"
  <2>1. PICK persistence : outcome' = [outcome EXCEPT ![op].persistence = persistence]
    BY DEF Persist
  <2>2. outcome'[op] = [outcome[op] EXCEPT !.persistence = persistence]
    BY <1>1, <2>1 DEF ControlOK
  <2> QED
    BY <1>2, <2>2 DEF Outcomes
<1> QED
  BY <1>1, <1>3 DEF Accounted, Sending, Stepping

LEMMA OwnAccounted ==
    ASSUME IInv, LockInv, AimInv, AccountInv, NEW op \in Ops, OpenForm(op) \/ Submit(op) \/ Prepare(op) \/ Act(op)
    PROVE  Accounted(op)'
BY OpenAccounted, SendAccounted, CheckAccounted, ReallocateAccounted, CheckUndoAccounted, SendUndoAccounted,
   PersistAccounted DEF Act

------------------------------------------------------------------------------
(* What the other writers do to it.                                        *)

\* A change that keeps its place has live what it had, less what the others replaced.
LEMMA OtherKept ==
    ASSUME IInv, AccountInv, NEW op \in Ops, pc'[op] = pc[op], outcome'[op] = outcome[op], req'[op] = req[op],
           local'[op].view = local[op].view, local'[op].seen = local[op].seen, local'[op].base = local[op].base,
           local'[op].done = local[op].done, local'[op].todo = local[op].todo,
           \A p \in Parts : marks'[p] = op => marks[p] = op /\ Part(running', p) = Part(running, p)
    PROVE  Accounted(op)'
<1>1. outcome'[op].application = "rejected" => pc'[op] = "done"
  BY DEF AccountInv, Accounted
<1>2. ASSUME NEW p \in Parts, marks'[p] = op
      PROVE  /\ pc'[op] \in Stepping \cup {"done"}
             /\ pc'[op] \in Sending => Live(op, pc'[op], req'[op], local'[op], p, running', marks')
             /\ outcome'[op].application = "rejected" => Overtaken(op, p, marks)'
  <2>1. /\ marks[p] = op /\ Part(running', p) = Part(running, p) /\ pc[op] \in Stepping \cup {"done"}
        /\ pc[op] \in Sending => Live(op, pc[op], req[op], local[op], p, running, marks)
        /\ outcome[op].application = "rejected" => Overtaken(op, p, marks)
    BY <1>2 DEF AccountInv, Accounted
  <2>2. req[op] \in RequestForms
    BY <2>1, OfOp DEF Stepping
  <2>3. ASSUME pc[op] \in Sending PROVE Live(op, pc[op], req[op], local'[op], p, running', marks')
    <3>1. Live(op, pc[op], req[op], local[op], p, running', marks')
      BY <2>1, <2>3, LiveKept
    <3> QED
      BY <3>1, SameLive
  <2>4. ASSUME outcome[op].application = "rejected" PROVE Overtaken(op, p, marks)'
    <3>1. Overtaken(op, p, marks')
      BY <2>1, <2>2, <2>4, OvertakenKept
    <3> QED
      BY <3>1 DEF Overtaken
  <2> QED
    BY <2>1, <2>3, <2>4
<1> QED
  BY <1>1, <1>2 DEF Accounted

LEMMA OthersAccounted ==
    ASSUME IInv, AccountInv, NEW op \in Ops, OpenForm(op) \/ Submit(op) \/ Prepare(op) \/ Act(op), NEW other \in Ops \ {op}
    PROVE  Accounted(other)'
<1>1. None \notin Ops
  BY ConfigWriteAssumption
<1>2. ASSUME NEW p \in Parts, marks'[p] = other PROVE marks[p] = other /\ Part(running', p) = Part(running, p)
  <2>1. CASE UNCHANGED <<running, marks>>
    BY <1>2, <2>1
  <2>2. ASSUME NEW cmd, NEW writer \in {op, None}, NEW origin, Execute(cmd, writer, origin)
        PROVE  marks[p] = other /\ Part(running', p) = Part(running, p)
    BY <1>1, <1>2, <2>2, OthersMarks
  <2>3. CASE Send(op) \/ SendUndo(op)
    BY <2>1, <2>2, <2>3 DEF Send, SendUndo, Perhaps, Linger
  <2>4. CASE ~(Send(op) \/ SendUndo(op))
    <3>1. UNCHANGED <<running, marks>>
      BY <2>4 DEF OpenForm, Submit, Prepare, Act, Acquire, LockTimeout, ReadFails, ReadScope, RequireNetwork, ReadDefinition,
         ReadExists, ReadCandidate, Check, Reallocate, CheckUndo, Persist, ReadOnly
    <3> QED
      BY <2>1, <3>1
  <2> QED
    BY <2>3, <2>4
<1> QED
  BY <1>2, OthersStay, OtherKept

\* The environment leaves a change what it has live, or replaces it. A restart brings back what is on disk.
LEMMA EnvironmentAccounted ==
    ASSUME IInv, AccountInv, Environment, ~Restart, NEW op \in Ops
    PROVE  Accounted(op)'
<1>1. None \notin Ops /\ Outside \notin Ops
  BY ConfigWriteAssumption
<1>2. ASSUME NEW p \in Parts, marks'[p] = op PROVE marks[p] = op /\ Part(running', p) = Part(running, p)
  <2>1. CASE UNCHANGED <<running, marks>>
    BY <1>2, <2>1
  <2>2. ASSUME NEW cmd, Execute(cmd, Outside, None) PROVE marks[p] = op /\ Part(running', p) = Part(running, p)
    BY <1>1, <1>2, <2>2, OthersMarks
  <2> QED
    BY <2>1, <2>2 DEF Environment, AdminWrites, LateRequest, LoseLock, OtherPersist
<1> QED
  BY <1>2, EnvironmentStays, OtherKept

------------------------------------------------------------------------------
(* What is on disk, when only changes under their lock write it.           *)

\* The disturbances that happened are not more than the bounds of the model.
WithinBudget == \A kind \in Disturbances : budget[kind] <= Budget[kind]

\* Only the holder of the lock is under it.
Locked == \A op \in Ops : pc[op] \in UnderLock => lock = op

\* What a change has on disk is from its own persist step or a later one, so it ended before.
Saved ==
    \A op \in Ops, p \in Parts : diskMarks[p] = op =>
        pc[op] = "done" /\ (outcome[op].application = "rejected" => Overtaken(op, p, diskMarks))

\* Kea does not restart, or nobody writes the disk in the middle of a change.
DiskIsOrderly == Budget["restart"] = 0 \/ (Budget["other-persist"] = 0 /\ Budget["lock-loss"] = 0)

DiskOrder == Budget["other-persist"] = 0 /\ Budget["lock-loss"] = 0 => Locked /\ Saved

LEMMA WithinBudgetNext == IInv /\ WithinBudget /\ [Next]_vars => WithinBudget'
<1> SUFFICES ASSUME IInv, WithinBudget, [Next]_vars PROVE WithinBudget'
  OBVIOUS
<1>1. budget \in [Disturbances -> Nat] /\ Budget \in [Disturbances -> Nat]
  BY ConfigWriteAssumption DEF IInv, InputOK
<1>2. CASE budget' = budget
  BY <1>2 DEF WithinBudget
<1>3. ASSUME NEW kind \in Disturbances, Spend(kind) PROVE WithinBudget'
  <2>1. \A other \in Disturbances : budget'[other] <= budget[other]
    BY <1>1, <1>3 DEF Spend
  <2>2. \A other \in Disturbances : budget[other] \in Nat /\ budget'[other] \in Nat /\ Budget[other] \in Nat
    BY <1>1, <1>3 DEF Spend
  <2> QED
    BY <2>1, <2>2 DEF WithinBudget
<1>4. CASE \E kind \in Disturbances : Spend(kind)
  BY <1>3, <1>4
<1>5. ASSUME NEW op \in Ops, OpenForm(op) \/ Submit(op) \/ Prepare(op) \/ Act(op)
      PROVE  budget' = budget \/ Spend("fault") \/ Spend("late")
  <2>1. CASE OpenForm(op) \/ Submit(op)
    BY <2>1 DEF OpenForm, Submit
  <2>2. CASE Prepare(op)
    BY <2>2 DEF Prepare, Acquire, LockTimeout, ReadFails, ReadScope, RequireNetwork, ReadDefinition, ReadExists, ReadCandidate
  <2>3. CASE Send(op)
    BY <2>3 DEF Send, Linger
  <2>4. CASE Check(op) \/ Reallocate(op) \/ CheckUndo(op) \/ Persist(op)
    BY <2>4 DEF Check, Reallocate, CheckUndo, Persist
  <2>5. CASE SendUndo(op)
    BY <2>5 DEF SendUndo, Linger
  <2> QED
    BY <1>5, <2>1, <2>2, <2>3, <2>4, <2>5 DEF Act
<1>6. CASE Environment
  BY <1>2, <1>4, <1>6 DEF Environment, AdminWrites, LateRequest, Restart, LoseLock, OtherPersist, Disturbances
<1>7. CASE UNCHANGED vars
  BY <1>2, <1>7 DEF vars
<1> QED
  BY <1>2, <1>4, <1>5, <1>6, <1>7 DEF Next, Terminating, Disturbances

\* A disturbance that the bounds rule out never happens.
LEMMA NeverSpent ==
    ASSUME IInv, WithinBudget, NEW kind \in Disturbances, Budget[kind] = 0
    PROVE  ~Spend(kind)
<1>1. budget[kind] \in Nat /\ budget[kind] <= 0
  BY DEF IInv, InputOK, WithinBudget
<1> QED
  BY <1>1 DEF Spend

LEMMA OwnLocked ==
    ASSUME IInv, Locked, NEW op \in Ops, OpenForm(op) \/ Submit(op) \/ Prepare(op) \/ Act(op)
    PROVE  Locked'
<1>1. \A other \in Ops \ {op} : pc'[other] = pc[other]
  BY OthersStay
<1>2. CASE Acquire(op)
  <2>1. lock = None /\ lock' = op /\ None \notin Ops
    BY <1>2, ConfigWriteAssumption DEF Acquire, LockFree
  <2> QED
    BY <1>1, <2>1 DEF Locked
<1>3. CASE ~Acquire(op)
  <2>1. LockKept(op)
    BY <1>3, OpSteps DEF Advance
  <2>2. "done" \notin UnderLock
    BY DEF UnderLock, Reading, Stepping
  <2> QED
    BY <1>1, <2>1, <2>2 DEF Locked, LockKept
<1> QED
  BY <1>2, <1>3

\* A part that a change has on disk stays accounted for while the disk keeps its marks.
LEMMA SavedStays ==
    ASSUME Saved, diskMarks' = diskMarks, NEW op \in Ops, pc[op] = "done" => pc'[op] = "done" /\ outcome'[op] = outcome[op],
           req'[op] = req[op], NEW p \in Parts, diskMarks'[p] = op
    PROVE  pc'[op] = "done" /\ (outcome'[op].application = "rejected" => Overtaken(op, p, diskMarks)')
BY DEF Saved, Overtaken

LEMMA OwnSaved ==
    ASSUME IInv, AccountInv, Locked, Saved, NEW op \in Ops, OpenForm(op) \/ Submit(op) \/ Prepare(op) \/ Act(op)
    PROVE  Saved'
<1>1. pc[op] # "done"
  BY OpenMarks, ReadMarks, ActMarks DEF Prepare, MarksKept
<1>2. \A other \in Ops \ {op} : pc'[other] = pc[other] /\ outcome'[other] = outcome[other] /\ req'[other] = req[other]
  BY OthersStay
<1>3. CASE diskMarks' = diskMarks
  <2>1. ASSUME NEW one \in Ops, NEW p \in Parts, diskMarks'[p] = one
        PROVE  pc'[one] = "done" /\ (outcome'[one].application = "rejected" => Overtaken(one, p, diskMarks)')
    <3>1. one # op
      BY <1>1, <1>3, <2>1 DEF Saved
    <3> QED
      BY <1>2, <1>3, <2>1, <3>1, SavedStays
  <2> QED
    BY <2>1 DEF Saved
<1>4. CASE Persist(op) /\ diskMarks' = marks
  <2>1. marks' = marks /\ pc[op] = "persist" /\ lock = op
    BY <1>4 DEF Persist, Locked, UnderLock, Stepping
  <2>2. Accounted(op)' /\ outcome'[op].application # "rejected" /\ pc'[op] = "done"
    BY <1>4, PersistAccounted
  <2>3. ASSUME NEW other \in Ops \ {op}, NEW p \in Parts, marks[p] = other
        PROVE  pc'[other] = "done" /\ (outcome'[other].application = "rejected" => Overtaken(other, p, diskMarks)')
    <3>1. pc[other] \in Stepping \cup {"done"} /\ (outcome[other].application = "rejected" => Overtaken(other, p, marks))
      BY <2>3 DEF AccountInv, Accounted
    <3>2. pc[other] = "done"
      BY <2>1, <3>1 DEF Locked, UnderLock
    <3> QED
      BY <1>2, <1>4, <3>1, <3>2 DEF Overtaken
  <2> QED
    BY <1>4, <2>2, <2>3 DEF Saved
<1>5. CASE Persist(op)
  BY <1>3, <1>4, <1>5 DEF Persist, WriteDisk
<1>6. CASE ~Persist(op)
  <2>1. diskMarks' = diskMarks
    BY <1>6 DEF OpenForm, Submit, Prepare, Act, Acquire, LockTimeout, ReadFails, ReadScope, RequireNetwork, ReadDefinition,
       ReadExists, ReadCandidate, Send, Check, Reallocate, CheckUndo, SendUndo, ReadOnly
  <2> QED
    BY <1>3, <2>1
<1> QED
  BY <1>5, <1>6

LEMMA DiskOrderNext == IInv /\ AccountInv /\ WithinBudget /\ DiskOrder /\ [Next]_vars => DiskOrder'
<1> SUFFICES ASSUME IInv, AccountInv, WithinBudget, Budget["other-persist"] = 0, Budget["lock-loss"] = 0, Locked, Saved,
                    [Next]_vars
             PROVE  Locked' /\ Saved'
  BY DEF DiskOrder
<1>1. ASSUME NEW op \in Ops, OpenForm(op) \/ Submit(op) \/ Prepare(op) \/ Act(op) PROVE Locked' /\ Saved'
  BY <1>1, OwnLocked, OwnSaved
<1>2. CASE Environment
  <2>1. ~OtherPersist /\ ~LoseLock
    BY NeverSpent DEF OtherPersist, LoseLock, Disturbances
  <2>2. pc' = pc /\ outcome' = outcome /\ req' = req /\ lock' = lock /\ diskMarks' = diskMarks
    BY <1>2, <2>1 DEF Environment, AdminWrites, LateRequest, Restart, Disturb
  <2>3. Locked'
    BY <2>2 DEF Locked
  <2>4. Saved'
    BY <2>2, SavedStays DEF Saved
  <2> QED
    BY <2>3, <2>4
<1>3. CASE UNCHANGED vars
  BY <1>3 DEF vars, control, Locked, Saved, Overtaken
<1> QED
  BY <1>1, <1>2, <1>3 DEF Next, Terminating

\* A restart brings back the marks on disk.
LEMMA RestartAccounted ==
    ASSUME IInv, AccountInv, Saved, Restart, NEW op \in Ops
    PROVE  Accounted(op)'
<1>1. pc' = pc /\ outcome' = outcome /\ req' = req /\ marks' = diskMarks /\ diskMarks' = diskMarks
  BY DEF Restart, Disturb
<1>2. ASSUME NEW p \in Parts, marks'[p] = op
      PROVE  pc'[op] = "done" /\ (outcome'[op].application = "rejected" => Overtaken(op, p, marks)')
  BY <1>1, <1>2 DEF Saved, Overtaken
<1> QED
  BY <1>1, <1>2 DEF AccountInv, Accounted, Sending, Stepping

LEMMA AccountInvNext ==
    ASSUME DiskIsOrderly
    PROVE  IInv /\ LockInv /\ AimInv /\ AccountInv /\ WithinBudget /\ DiskOrder /\ [Next]_vars => AccountInv'
<1> SUFFICES ASSUME IInv, LockInv, AimInv, AccountInv, WithinBudget, DiskOrder, [Next]_vars PROVE AccountInv'
  OBVIOUS
<1>1. ASSUME NEW op \in Ops, OpenForm(op) \/ Submit(op) \/ Prepare(op) \/ Act(op) PROVE AccountInv'
  BY <1>1, OwnAccounted, OthersAccounted DEF AccountInv
<1>2. CASE Environment /\ ~Restart
  BY <1>2, EnvironmentAccounted DEF AccountInv
<1>3. CASE Restart
  <2>1. Saved
    BY <1>3, NeverSpent DEF DiskIsOrderly, DiskOrder, Restart, Disturbances
  <2> QED
    BY <1>3, <2>1, RestartAccounted DEF AccountInv
<1>4. CASE UNCHANGED vars
  BY <1>4 DEF vars, control, AccountInv, Accounted, Overtaken
<1> QED
  BY <1>1, <1>2, <1>3, <1>4 DEF Next, Terminating, Environment

LEMMA AccountInit == Init => AccountInv /\ WithinBudget /\ DiskOrder
<1> SUFFICES ASSUME Init PROVE AccountInv /\ WithinBudget /\ DiskOrder
  OBVIOUS
<1>1. \A op \in Ops : op # None /\ pc[op] = "idle" /\ outcome[op].application = None
  BY ConfigWriteAssumption DEF Init, Unfinished
<1>2. \A p \in Parts : marks[p] = None /\ diskMarks[p] = None
  BY DEF Init
<1>3. budget = Budget /\ \A kind \in Disturbances : Budget[kind] \in Nat
  BY ConfigWriteAssumption DEF Init
<1>4. None # "rejected"
  BY ConfigWriteAssumption
<1> QED
  BY <1>1, <1>2, <1>3, <1>4 DEF AccountInv, Accounted, WithinBudget, DiskOrder, Locked, Saved, UnderLock, Reading, Stepping

\* A change that reports its rejection left nothing of its own live in Kea: not after a failed command, a rollback, a second
\* Subnet ID, a lost lock, writes of an administrator or late requests, as long as Kea does not load a configuration file
\* that somebody else wrote in the middle of the change. Overtaken names the exceptions.
THEOREM RejectedLeavesNothing ==
    ASSUME Budget["restart"] = 0 \/ (Budget["other-persist"] = 0 /\ Budget["lock-loss"] = 0)
    PROVE  Spec => []RejectedNotLive
<1> DEFINE Inv == IInv /\ LockInv /\ PlanInv /\ AimInv /\ AccountInv /\ WithinBudget /\ DiskOrder
<1>1. Init => Inv
  BY IInvInit, LockInvInit, PlanInvInit, AimInvInit, AccountInit
<1>2. Inv /\ [Next]_vars => Inv'
  BY IInvNext, LockInvNext, PlanInvNext, AimInvNext, AccountInvNext, WithinBudgetNext, DiskOrderNext DEF DiskIsOrderly
<1>3. Inv => RejectedNotLive
  BY AccountedMeans
<1> QED
  BY <1>1, <1>2, <1>3, PTL DEF Spec
==============================================================================
