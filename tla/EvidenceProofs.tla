--------------------------- MODULE EvidenceProofs ---------------------------
(***************************************************************************)
(* ProofEarned and RejectedForReason of Evidence, for any trees, runners,  *)
(* verifiers and number of events.                                         *)
(*                                                                         *)
(* What a campaign read of the working tree it read in an order.  As long  *)
(* as no edit is undone a tree that is there again was there all the time, *)
(* so a judgement that captures the tree of the first reading knows all    *)
(* readings in between (Chron, Frozen).                                    *)
(*                                                                         *)
(* For RejectedForReason the argument follows an undisturbed campaign      *)
(* stage by stage: each leaves the records a sound tree gives (CalmState). *)
(***************************************************************************)
EXTENDS Evidence, SequenceTheorems, TLAPS

-----------------------------------------------------------------------------
(* The states of a campaign.                                               *)

SomeTree == Trees \cup {None}
RowSet    == [status : {None, "PASS", "FAIL", "BLOCKED"},
              bound : SomeTree, ran : SomeTree, mods : SomeTree]
TrialSet  == [bound : SomeTree, ran : SomeTree, mods : SomeTree, detected : BOOLEAN]
AllRows   == [OwnerSet -> RowSet]
AllTrials == [OwnerSet -> TrialSet]
FileSet   == {None} \cup [by : Runners, ok : BOOLEAN]

Early     == {"idle", "claim"}
LiveSteps     == {"judge", "judged"}
Retaining == {"collect", "copy", "inventory"}
Before    == {"owner", "write"} \cup LiveSteps \cup Retaining
Judges    == {"rejudge", "rejudged"}
After     == {"load", "prove"} \cup Judges
Ended     == {"rejected", "done", "dead"}
Steps     == Early \cup {"refused"} \cup Before \cup After \cup Ended

Processes ==
  [pc : Steps, own : 1..5, stage : 1..4, rows : AllRows, trials : AllTrials,
   read : [Files -> FileSet], snap : SomeTree, round : 1..4, ok : BOOLEAN,
   cache : [Trees -> SomeTree]]

WorldTyped ==
  /\ tree \in Trees /\ edits \in Nat /\ faults \in Nat /\ tree \in seen /\ seen \subseteq Trees
  /\ undone \in BOOLEAN /\ fresh \in BOOLEAN /\ build \in Trees
DiskTyped ==
  /\ campaign \in Runners \cup {None} /\ files \in [Files -> FileSet]
  /\ copies \in [Files -> FileSet] /\ inventory \in {None} \cup [Files -> FileSet]
  /\ aggregate \in {None} \cup [by : Runners, rows : AllRows, trials : AllTrials]
  /\ proof \in [{"P03", "P04"} -> {None} \cup [by : Procs, snap : Trees]]
EvidenceTyped == WorldTyped /\ DiskTyped /\ proc \in [Procs -> Processes]

-----------------------------------------------------------------------------
(* What records say of the trees they were made on.                        *)

Captured(rows, trials, o) == {rows[o].bound, rows[o].ran, trials[o].bound, trials[o].ran}
AllAre(rows, trials, t)   == \A o \in OwnerSet : Captured(rows, trials, o) \subseteq {None, t}

\* Every record earned: EarnedOnOneTree, for records at hand.
Earned(rows, trials) ==
  LET t == rows["SQL"].bound
  IN \A o \in OwnerSet :
       /\ rows[o].status = "PASS" /\ rows[o].bound = t /\ rows[o].ran = t
       /\ trials[o].bound = t /\ trials[o].ran = t
       /\ o \in TypeScript => rows[o].mods = t /\ trials[o].mods = t
       /\ <<t, o>> \notin Broken \cup Blind

\* All controls passed under the first binding, with modules compiled from it.
Passed(rows, cache) ==
  LET t == rows["SQL"].bound
  IN /\ t \in Trees
     /\ \A o \in OwnerSet :
          /\ rows[o].status = "PASS" /\ rows[o].bound = t
          /\ o \in TypeScript => cache[t] # None /\ rows[o].mods = cache[t]

-----------------------------------------------------------------------------
(* What holds of one process.                                              *)

\* Only the campaign's runner works; who has not begun has nothing.
Roled(p) ==
  LET x == proc[p] IN
  /\ p \in Runners /\ x.pc \notin Early \cup {"refused", "dead"} => campaign = p
  /\ p \in Verifiers =>
       x.pc \notin {"claim", "refused"} \cup Before /\ (x.pc # "idle" => inventory # None)
  /\ p \in Runners /\ x.pc \in Before => inventory = None
  /\ x.pc \notin {"judge", "rejudge", "judged", "rejudged", "prove"} \cup Ended
       => x.round = 1 /\ x.snap = None /\ x.ok
  /\ x.pc \in {"judged", "rejudged"} => x.round \in {1, 3} /\ x.snap # None
  /\ x.pc = "prove" => x.snap # None

\* The owners a campaign has not come to have left nothing.
Future(r) ==
  LET x == proc[r] IN
  /\ x.pc \in Early => x.own = 1 /\ x.stage = 1
  /\ x.pc \in Early \cup {"owner"} =>
       /\ \A i \in 1..5 : i > x.own \/ (i = x.own /\ x.stage = 1) =>
            x.rows[Owners[i]] = NoRow /\ x.trials[Owners[i]] = NoTrial
       /\ x.own > 1 \/ x.stage > 1 => x.rows["SQL"].bound # None
       /\ x.stage <= Len(Stages(Owners[x.own]))

\* The order in which a campaign read the tree.
Chron(r) ==
  LET x == proc[r] IN
  /\ \A o \in OwnerSet : Captured(x.rows, x.trials, o) \subseteq {None} \cup seen
  /\ ~undone /\ x.rows["SQL"].bound = tree => AllAre(x.rows, x.trials, tree)

Caching(p) ==
  \A b \in Trees : proc[p].cache[b] # None =>
    b \in seen /\ (~undone /\ b = tree => proc[p].cache[b] = b)

\* What the records of a case and of a mutated trial say of the tree they ran on.
RanRight(rows, trials, cache) ==
  \A o \in OwnerSet :
    /\ rows[o].status = "PASS" => rows[o].ran # None /\ <<rows[o].ran, o>> \notin Broken
    /\ trials[o].detected =>
         /\ trials[o].ran # None
         /\ \/ <<trials[o].ran, o>> \notin Blind
            \/ /\ o = "CLOCK"
               /\ trials[o].bound \in Trees =>
                    cache[trials[o].bound] # None /\ trials[o].mods # cache[trials[o].bound]
Browsed(rows, cache) ==
  rows["BROWSER"].status = "PASS" /\ rows["BROWSER"].bound \in Trees
    => cache[rows["BROWSER"].bound] # None

\* A judgement under way, of the campaign's own records.
Frozen(r) ==
  LET x == proc[r] IN
  x.pc \in LiveSteps /\ x.snap # None /\ ~undone /\ x.snap = x.rows["SQL"].bound =>
    /\ AllAre(x.rows, x.trials, x.snap)
    /\ x.ok /\ x.cache[x.snap] # None => x.cache[x.snap] = x.snap

\* After a round of controls that found nothing.
ControlsPassed(p) ==
  LET x == proc[p] IN
  /\ x.pc \in LiveSteps /\ x.ok /\ (x.round > 1 \/ x.pc = "judged") => Passed(x.rows, x.cache)
  /\ x.pc \in Judges /\ x.ok /\ (x.round > 1 \/ x.pc = "rejudged") =>
       Passed(aggregate.rows, x.cache)

SnapSeen(p) == proc[p].snap # None => proc[p].snap \in seen

Campaigning(r) ==
  /\ Future(r) /\ Chron(r) /\ Frozen(r)
  /\ RanRight(proc[r].rows, proc[r].trials, proc[r].cache) /\ Browsed(proc[r].rows, proc[r].cache)
  /\ proc[r].pc = "write" /\ ~undone => Earned(proc[r].rows, proc[r].trials)

-----------------------------------------------------------------------------
(* What holds of the retained set.                                         *)

AggregateTrue ==
  /\ campaign \in Runners
  /\ aggregate \in [by : {campaign}, rows : AllRows, trials : AllTrials]
  /\ ~undone => Earned(aggregate.rows, aggregate.trials)

Bound(t) == \A o \in OwnerSet : aggregate.rows[o].bound = t /\ aggregate.trials[o].bound = t
Referenced == \A o \in OwnerSet : inventory[o] = Good(aggregate.by)

Retained ==
  /\ inventory # None => AggregateTrue
  /\ campaign = None => inventory = None
  /\ \A r \in Runners : proc[r].pc \in Retaining \cup After \cup {"done"} => AggregateTrue
  /\ \A p \in Procs : proc[p].pc \in Judges \cup {"prove"} => Referenced
  /\ \A p \in Procs : proc[p].pc = "prove" => Bound(proc[p].snap)

Proved ==
  /\ \A k \in {"P03", "P04"} : proof[k] # None =>
       /\ AggregateTrue /\ Referenced /\ Bound(proof[k].snap)
       /\ \A r \in Runners : proc[r].pc \notin Before
  /\ proof["P03"] # None => \E r \in Runners : campaign = r /\ proc[r].pc = "done"

EarnedInv ==
  /\ EvidenceTyped
  /\ \A p \in Procs : Roled(p) /\ Caching(p) /\ SnapSeen(p) /\ ControlsPassed(p)
  /\ \A r \in Runners : Campaigning(r)
  /\ Retained /\ Proved

-----------------------------------------------------------------------------
(* Owners and their stages.                                                *)

LEMMA FiveOwners ==
  /\ Owners = <<"SQL", "BROWSER", "GAP", "DESTRUCTION", "CLOCK">>
  /\ OwnerSet = {"SQL", "BROWSER", "GAP", "DESTRUCTION", "CLOCK"}
  /\ \A i \in 1..5 : Owners[i] \in OwnerSet
  /\ \A i, j \in 1..5 : Owners[i] = Owners[j] => i = j
  /\ \A i \in 1..5 : Owners[i] = "SQL" => i = 1
  /\ Len(Owners) = 5
<1>1. /\ DOMAIN Owners = 1..5 /\ Len(Owners) = 5
      /\ Owners[1] = "SQL" /\ Owners[2] = "BROWSER" /\ Owners[3] = "GAP"
      /\ Owners[4] = "DESTRUCTION" /\ Owners[5] = "CLOCK"
  BY DEF Owners
<1>2. OwnerSet = {"SQL", "BROWSER", "GAP", "DESTRUCTION", "CLOCK"}
  <2>1. \A i \in 1..5 : i = 1 \/ i = 2 \/ i = 3 \/ i = 4 \/ i = 5
    OBVIOUS
  <2> QED
    BY <1>1, <2>1 DEF OwnerSet, Range
<1> QED
  BY <1>1, <1>2 DEF Owners

LEMMA OwnersStages ==
  /\ Stages("SQL") = <<"capture", "case", "recapture", "trial">>
  /\ Stages("BROWSER") = <<"capture", "case", "recapture", "trial">>
  /\ Stages("GAP") = <<"capture", "case", "trial">>
  /\ Stages("DESTRUCTION") = <<"case", "capture", "trial", "recapture">>
  /\ Stages("CLOCK") = <<"capture", "case", "trial", "drift">>
BY DEF Stages

LEMMA StageLengths ==
  /\ \A o \in OwnerSet : Len(Stages(o)) \in 3..4
  /\ \A o \in OwnerSet : \A k \in 1..Len(Stages(o)) :
       Stages(o)[k] = "capture" => k = 1 \/ (o = "DESTRUCTION" /\ k = 2)
  /\ \A o \in OwnerSet : Stages(o)[1] = IF o = "DESTRUCTION" THEN "case" ELSE "capture"
<1> SUFFICES ASSUME NEW o \in OwnerSet
             PROVE  /\ Len(Stages(o)) \in 3..4
                    /\ \A k \in 1..Len(Stages(o)) :
                         Stages(o)[k] = "capture" => k = 1 \/ (o = "DESTRUCTION" /\ k = 2)
                    /\ Stages(o)[1] = IF o = "DESTRUCTION" THEN "case" ELSE "capture"
  OBVIOUS
<1>0. /\ \A k \in 1..3 : k = 1 \/ k = 2 \/ k = 3
      /\ \A k \in 1..4 : k = 1 \/ k = 2 \/ k = 3 \/ k = 4
  OBVIOUS
<1>1. CASE o = "GAP"
  <2>1. /\ Len(Stages(o)) = 3 /\ Stages(o)[1] = "capture" /\ Stages(o)[2] = "case"
        /\ Stages(o)[3] = "trial"
    BY <1>1, OwnersStages
  <2> QED
    BY <1>0, <1>1, <2>1
<1>2. CASE o = "DESTRUCTION"
  <2>1. /\ Len(Stages(o)) = 4 /\ Stages(o)[1] = "case" /\ Stages(o)[2] = "capture"
        /\ Stages(o)[3] = "trial" /\ Stages(o)[4] = "recapture"
    BY <1>2, OwnersStages
  <2> QED
    BY <1>0, <1>2, <2>1
<1>3. CASE o = "CLOCK"
  <2>1. /\ Len(Stages(o)) = 4 /\ Stages(o)[1] = "capture" /\ Stages(o)[2] = "case"
        /\ Stages(o)[3] = "trial" /\ Stages(o)[4] = "drift"
    BY <1>3, OwnersStages
  <2> QED
    BY <1>0, <1>3, <2>1
<1>4. CASE o \in {"SQL", "BROWSER"}
  <2>1. /\ Len(Stages(o)) = 4 /\ Stages(o)[1] = "capture" /\ Stages(o)[2] = "case"
        /\ Stages(o)[3] = "recapture" /\ Stages(o)[4] = "trial"
    BY <1>4, OwnersStages
  <2> QED
    BY <1>0, <1>4, <2>1
<1> QED
  BY <1>1, <1>2, <1>3, <1>4, FiveOwners

Keeps(d, q) ==
  /\ q.rows = d.rows /\ q.trials = d.trials /\ q.cache = d.cache /\ q.snap = d.snap
  /\ q.round = d.round /\ q.ok = d.ok /\ q.read = d.read

\* Where a process goes when a stage is over.
LEMMA NextStage ==
  ASSUME NEW d \in Processes, d.pc = "owner"
  PROVE  LET q == Next1(d) IN
         /\ q \in Processes /\ Keeps(d, q)
         /\ \/ q.pc = "owner" /\ q.own = d.own /\ q.stage = d.stage + 1
               /\ d.stage < Len(Stages(Owners[d.own]))
            \/ q.pc = "owner" /\ q.own = d.own + 1 /\ q.stage = 1
               /\ d.stage >= Len(Stages(Owners[d.own]))
            \/ q.pc = "judge" /\ q.own = d.own /\ q.stage = d.stage /\ q.own = 5
               /\ d.stage >= Len(Stages(Owners[d.own]))
<1>1. /\ d.own \in 1..5 /\ d.stage \in 1..4 /\ Owners[d.own] \in OwnerSet /\ Len(Owners) = 5
      /\ Len(Stages(Owners[d.own])) \in 3..4 /\ "judge" \in Steps
  BY FiveOwners, StageLengths DEF Processes, Steps, LiveSteps, Before
<1> DEFINE len == Len(Stages(Owners[d.own]))
           up1 == d.stage + 1
           over == d.own + 1
<1>2. CASE d.stage < len
  <2>1. up1 \in 1..4
    <3>1. \A n \in 3..4 : \A k \in 1..4 : k < n => k + 1 \in 1..4
      OBVIOUS
    <3> QED
      BY <1>1, <1>2, <3>1
  <2>2. Next1(d) = [d EXCEPT !.stage = up1]
    BY <1>2 DEF Next1
  <2> HIDE DEF up1
  <2>3. /\ Next1(d) \in Processes /\ Next1(d).stage = up1 /\ Next1(d).own = d.own
        /\ Next1(d).pc = "owner" /\ Keeps(d, Next1(d))
    BY <1>1, <1>2, <2>1, <2>2 DEF Processes, Keeps
  <2> QED
    BY <1>2, <2>3 DEF up1
<1>3. CASE ~(d.stage < len) /\ d.own < 5
  <2>1. over \in 1..5 /\ d.stage >= len
    BY <1>1, <1>3
  <2>2. Next1(d) = [d EXCEPT !.own = over, !.stage = 1]
    BY <1>1, <1>3 DEF Next1
  <2> HIDE DEF over
  <2>3. /\ Next1(d).stage = 1 /\ Next1(d).own = over
        /\ Next1(d).pc = "owner" /\ Keeps(d, Next1(d))
    BY <1>1, <2>2 DEF Processes, Keeps
  <2>4. Next1(d) \in Processes
    <3> DEFINE e == [d EXCEPT !.own = over]
    <3>1. e \in Processes
      BY <2>1 DEF Processes
    <3>2. Next1(d) = [e EXCEPT !.stage = 1]
      BY <2>2
    <3> HIDE DEF e
    <3> QED
      BY <3>1, <3>2 DEF Processes
  <2> QED
    BY <1>3, <2>1, <2>3, <2>4 DEF over
<1>4. CASE ~(d.stage < len) /\ ~(d.own < 5)
  <2>1. d.own = 5 /\ d.stage >= len
    BY <1>1, <1>4
  <2>2. Next1(d) = [d EXCEPT !.pc = "judge"]
    BY <1>1, <1>4 DEF Next1
  <2> QED
    BY <1>1, <1>4, <2>1, <2>2 DEF Processes, Keeps
<1> QED
  BY <1>2, <1>3, <1>4

-----------------------------------------------------------------------------
(* A step of one process.                                                  *)

Lasting == <<tree, edits, seen, undone, fresh, build, campaign, aggregate, inventory, proof>>

\* What the retained set must satisfy for a process that is where q is.
Reached(p, q) ==
  /\ p \in Runners /\ q.pc \in Retaining \cup After \cup {"done"} => AggregateTrue
  /\ q.pc \in Judges \cup {"prove"} => Referenced
  /\ q.pc = "prove" => Bound(q.snap)
  /\ p \in Runners /\ q.pc \in Before => proc[p].pc \in Before \/ \A k \in {"P03", "P04"} : proof[k] = None

\* What holds of a campaign that did not move, on a tree that did not change.
LEMMA CampaignLasts ==
  ASSUME NEW r \in Runners, Campaigning(r), proc'[r] = proc[r],
         tree' = tree, seen' = seen, undone' = undone
  PROVE  Campaigning(r)'
<1>1. Future(r)'
  BY DEF Campaigning, Future
<1>2. Chron(r)'
  <2>1. Chron(r)
    BY DEF Campaigning
  <2> QED
    BY <2>1 DEF Chron, Captured, AllAre
<1>3. Frozen(r)'
  <2>1. Frozen(r)
    BY DEF Campaigning
  <2> QED
    BY <2>1 DEF Frozen, Captured, AllAre
<1>4. RanRight(proc[r].rows, proc[r].trials, proc[r].cache)'
  <2>1. RanRight(proc[r].rows, proc[r].trials, proc[r].cache)
    BY DEF Campaigning
  <2> QED
    BY <2>1 DEF RanRight
<1>5. Browsed(proc[r].rows, proc[r].cache)'
  <2>1. Browsed(proc[r].rows, proc[r].cache)
    BY DEF Campaigning
  <2> QED
    BY <2>1 DEF Browsed
<1>6. (proc[r].pc = "write" /\ ~undone => Earned(proc[r].rows, proc[r].trials))'
  <2>1. proc[r].pc = "write" /\ ~undone => Earned(proc[r].rows, proc[r].trials)
    BY DEF Campaigning
  <2> QED
    BY <2>1 DEF Earned
<1> QED
  BY <1>1, <1>2, <1>3, <1>4, <1>5, <1>6 DEF Campaigning

LEMMA StepKeeps ==
  ASSUME EarnedInv, NEW p \in Procs, NEW q \in Processes, proc' = [proc EXCEPT ![p] = q],
         UNCHANGED Lasting, DiskTyped', faults' \in Nat,
         Roled(p)', Caching(p)', SnapSeen(p)', ControlsPassed(p)', p \in Runners => Campaigning(p)',
         Reached(p, q), p \in Runners => proc[p].pc # "done"
  PROVE  EarnedInv'
<1>1. /\ proc' \in [Procs -> Processes] /\ proc'[p] = q
      /\ \A s \in Procs : s # p => proc'[s] = proc[s]
      /\ proc \in [Procs -> Processes] /\ Runners \subseteq Procs
  BY DEF EarnedInv, EvidenceTyped, Procs
<1>2. EvidenceTyped'
  BY <1>1 DEF EarnedInv, EvidenceTyped, WorldTyped, Lasting
<1>3. ASSUME NEW s \in Procs
      PROVE  Roled(s)' /\ Caching(s)' /\ SnapSeen(s)' /\ ControlsPassed(s)'
  <2>1. CASE s = p
    BY <2>1
  <2>2. CASE s # p
    <3>1. proc'[s] = proc[s] /\ Roled(s) /\ Caching(s) /\ SnapSeen(s) /\ ControlsPassed(s)
      BY <1>1, <2>2 DEF EarnedInv
    <3>2. Roled(s)'
      BY <3>1 DEF Roled, Lasting
    <3>3. Caching(s)' /\ SnapSeen(s)'
      BY <3>1 DEF Caching, SnapSeen, Lasting
    <3>4. ControlsPassed(s)'
      BY <3>1 DEF ControlsPassed, Passed, Lasting
    <3> QED
      BY <3>2, <3>3, <3>4
  <2> QED
    BY <2>1, <2>2
<1>4. ASSUME NEW r \in Runners
      PROVE  Campaigning(r)'
  <2>1. CASE r = p
    BY <2>1
  <2>2. CASE r # p
    <3>1. proc'[r] = proc[r] /\ Campaigning(r)
      BY <1>1, <2>2 DEF EarnedInv
    <3> QED
      BY <3>1, CampaignLasts DEF Lasting
  <2> QED
    BY <2>1, <2>2
<1>5. AggregateTrue' = AggregateTrue /\ Referenced' = Referenced
  BY DEF AggregateTrue, Earned, Referenced, Lasting
<1>6. \A t : Bound(t)' <=> Bound(t)
  BY DEF Bound, Lasting
<1>7. Retained'
  <2>1. (inventory # None => AggregateTrue) /\ (campaign = None => inventory = None)
    BY DEF EarnedInv, Retained
  <2>2. ASSUME NEW r \in Runners, proc'[r].pc \in Retaining \cup After \cup {"done"}
        PROVE  AggregateTrue
    BY <1>1, <2>2 DEF EarnedInv, Retained, Reached
  <2>3. ASSUME NEW s \in Procs, proc'[s].pc \in Judges \cup {"prove"}
        PROVE  Referenced
    BY <1>1, <2>3 DEF EarnedInv, Retained, Reached
  <2>4. ASSUME NEW s \in Procs, proc'[s].pc = "prove"
        PROVE  Bound(proc[s].snap)'
    BY <1>1, <2>4 DEF EarnedInv, Retained, Reached, Bound, Lasting
  <2> QED
    BY <1>5, <2>1, <2>2, <2>3, <2>4 DEF Retained, Lasting
<1>8. Proved'
  <2>1. ASSUME NEW k \in {"P03", "P04"}, proof[k] # None
        PROVE  /\ AggregateTrue /\ Referenced /\ Bound(proof[k].snap)
               /\ \A r \in Runners : proc'[r].pc \notin Before
    BY <1>1, <2>1 DEF EarnedInv, Proved, Reached
  <2>2. proof["P03"] # None => \E r \in Runners : campaign = r /\ proc'[r].pc = "done"
    BY <1>1 DEF EarnedInv, Proved
  <2> QED
    BY <1>5, <1>6, <2>1, <2>2 DEF Proved, Lasting
<1> QED
  BY <1>2, <1>3, <1>4, <1>7, <1>8 DEF EarnedInv

LEMMA StepNames ==
  /\ Early \cup {"refused"} \cup Before \cup After \cup Ended = Steps
  /\ "done" \in Ended /\ "rejected" \in Ended /\ "dead" \in Ended
  /\ \A s \in Ended \cup {"refused"} : s \notin Before \cup After \cup Retaining \cup Judges \cup Early
                                         \cup LiveSteps \cup {"prove", "judged", "write", "owner"}
  /\ Ended \cup {"refused"} \subseteq Steps
BY DEF Early, Before, After, Ended, Steps, Retaining, Judges, LiveSteps

\* A process that comes to its end, other than by its proof.
LEMMA EndKeeps ==
  ASSUME EarnedInv, NEW p \in Procs, NEW step \in {"rejected", "dead", "refused"},
         proc' = [proc EXCEPT ![p] = [proc[p] EXCEPT !.pc = step]], UNCHANGED <<world, disk>>,
         faults' \in Nat, proc[p].pc # "done",
         step = "rejected" => proc[p].pc \notin Early \cup {"refused", "dead"},
         step = "dead" => proc[p].pc # "idle",
         step = "refused" => p \in Runners /\ proc[p].pc \in Early
  PROVE  EarnedInv'
<1> DEFINE q == [proc[p] EXCEPT !.pc = step]
<1>1. /\ proc \in [Procs -> Processes] /\ q \in Processes /\ q.pc = step /\ q.own = proc[p].own
      /\ q.stage = proc[p].stage /\ Keeps(proc[p], q)
  <2>1. step \in Steps
    BY StepNames
  <2> QED
    BY <2>1 DEF EarnedInv, EvidenceTyped, Processes, Keeps
<1>2. proc'[p] = q /\ UNCHANGED Lasting /\ DiskTyped'
  BY <1>1 DEF world, disk, Lasting, DiskTyped, EarnedInv, EvidenceTyped
<1> HIDE DEF q
<1>3. Roled(p) /\ Caching(p) /\ SnapSeen(p) /\ (p \in Runners => Campaigning(p))
  BY DEF EarnedInv
<1>4. Roled(p)'
  BY <1>1, <1>2, <1>3, EvidenceAssumption
     DEF Roled, Lasting, Keeps, Early, Before, Ended, LiveSteps, Retaining
<1>5. Caching(p)' /\ SnapSeen(p)' /\ ControlsPassed(p)'
  BY <1>1, <1>2, <1>3, StepNames DEF Caching, SnapSeen, ControlsPassed, Lasting, Keeps
<1>6. ASSUME p \in Runners PROVE Campaigning(p)'
  BY <1>1, <1>2, <1>3, <1>6, StepNames
     DEF Campaigning, Future, Chron, Captured, AllAre, Frozen, RanRight, Browsed, Lasting, Keeps
<1>7. Reached(p, q)
  BY <1>1, StepNames DEF Reached
<1> QED
  BY <1>1, <1>2, <1>4, <1>5, <1>6, <1>7, StepKeeps DEF q

-----------------------------------------------------------------------------
(* One stage of one owner: it may change the owner's row, the owner's      *)
(* trial and the cache.                                                    *)

Grows(c, e) == \A b \in Trees : e[b] = c[b] \/ (c[b] = None /\ b \in seen /\ e[b] = tree)

\* The process as the stage leaves it, before it goes on.
Works(r, row, trial, c, d) ==
  /\ d \in Processes /\ d.pc = "owner" /\ d.own = proc[r].own /\ d.stage = proc[r].stage
  /\ d.rows = [proc[r].rows EXCEPT ![Owner(r)] = row]
  /\ d.trials = [proc[r].trials EXCEPT ![Owner(r)] = trial]
  /\ d.cache = c /\ Grows(proc[r].cache, c)
  /\ d.snap = proc[r].snap /\ d.round = proc[r].round /\ d.ok = proc[r].ok

\* What the stage may write into them.
Fits(r, row, trial, c) ==
  LET o == Owner(r)
      old == proc[r].rows[o]
  IN /\ {row.bound, row.ran, trial.bound, trial.ran}
          \subseteq Captured(proc[r].rows, proc[r].trials, o) \cup {None, tree}
     /\ o = "SQL" => row.bound = IF proc[r].stage = 1 THEN tree ELSE old.bound
     /\ row.status = "PASS" => row.ran # None /\ <<row.ran, o>> \notin Broken
     /\ trial.detected =>
          /\ trial.ran # None
          /\ \/ <<trial.ran, o>> \notin Blind
             \/ /\ o = "CLOCK"
                /\ trial.bound \in Trees => c[trial.bound] # None /\ trial.mods # c[trial.bound]
     /\ o = "BROWSER" /\ row.status = "PASS" /\ row.bound \in Trees => c[row.bound] # None

LEMMA GrownCache ==
  ASSUME EarnedInv, NEW p \in Procs, NEW c, Grows(proc[p].cache, c)
  PROVE  /\ \A b \in Trees : c[b] # None => b \in seen /\ (~undone /\ b = tree => c[b] = b)
         /\ \A b \in Trees : proc[p].cache[b] # None => c[b] = proc[p].cache[b]
<1>1. Caching(p)
  BY DEF EarnedInv
<1> QED
  BY <1>1 DEF Caching, Grows

LEMMA WorkKeeps ==
  ASSUME EarnedInv, NEW r \in Runners, proc[r].pc = "owner",
         NEW row \in RowSet, NEW trial \in TrialSet, NEW c \in [Trees -> SomeTree],
         NEW d \in Processes, Works(r, row, trial, c, d), Fits(r, row, trial, c),
         proc' = [proc EXCEPT ![r] = Next1(d)], UNCHANGED <<Lasting, faults>>, DiskTyped'
  PROVE  EarnedInv'
<1> DEFINE q == Next1(d)
<1>1. PICK o \in OwnerSet : o = Owner(r)
  BY FiveOwners DEF EarnedInv, EvidenceTyped, Processes, Procs, Owner
<1>2. PICK own \in 1..5 : own = proc[r].own /\ o = Owners[own]
  BY <1>1 DEF EarnedInv, EvidenceTyped, Processes, Procs, Owner
<1>3. PICK stage \in 1..4 : stage = proc[r].stage
  BY DEF EarnedInv, EvidenceTyped, Processes, Procs
<1>4. /\ d.pc = "owner" /\ d.own = own /\ d.stage = stage /\ Keeps(d, q) /\ q \in Processes
      /\ \/ q.pc = "owner" /\ q.own = own /\ q.stage = stage + 1 /\ stage < Len(Stages(o))
         \/ q.pc = "owner" /\ q.own = own + 1 /\ q.stage = 1 /\ stage >= Len(Stages(o))
         \/ q.pc = "judge" /\ q.own = 5
  BY <1>2, <1>3, NextStage DEF Works
<1>5. proc'[r] = q /\ proc \in [Procs -> Processes] /\ r \in Procs
  BY DEF EarnedInv, EvidenceTyped, Procs
<1> HIDE DEF q
<1>6. Roled(r) /\ Caching(r) /\ Campaigning(r)
  BY <1>5 DEF EarnedInv
<1>7. /\ proc[r].rows \in AllRows /\ proc[r].trials \in AllTrials /\ proc[r].cache \in [Trees -> SomeTree]
      /\ q.rows = [proc[r].rows EXCEPT ![o] = row] /\ q.trials = [proc[r].trials EXCEPT ![o] = trial]
      /\ q.cache = c /\ Grows(proc[r].cache, c) /\ q.snap = None /\ q.round = 1 /\ q.ok
      /\ campaign = r /\ inventory = None
  BY <1>1, <1>4, <1>5, <1>6 DEF Works, Keeps, Processes, Roled, Early, Before, Ended
<1>8. /\ q.rows[o] = row /\ q.trials[o] = trial
      /\ \A x \in OwnerSet : x # o => q.rows[x] = proc[r].rows[x] /\ q.trials[x] = proc[r].trials[x]
  BY <1>7 DEF AllRows, AllTrials
<1>9. /\ q.pc \in {"owner", "judge"} /\ q.pc \in Before /\ q.pc \notin Early \cup Retaining \cup After \cup Ended \cup Judges
      /\ q.pc \notin {"idle", "judged", "rejudged", "prove", "write", "claim", "refused", "done"}
      /\ proc[r].pc \in Before
  BY <1>4 DEF Before, Early, Retaining, After, Ended, Judges, LiveSteps
<1>10. Roled(r)'
  BY <1>5, <1>7, <1>9, EvidenceAssumption DEF Roled, Lasting
<1>11. Caching(r)' /\ SnapSeen(r)' /\ ControlsPassed(r)'
  BY <1>5, <1>7, <1>9, GrownCache DEF Caching, SnapSeen, ControlsPassed, Lasting
<1>12. Future(r)'
  <2>1. Future(r)
    BY <1>6 DEF Campaigning
  <2>2. /\ \A i \in 1..5 : i > own \/ (i = own /\ stage = 1) =>
             proc[r].rows[Owners[i]] = NoRow /\ proc[r].trials[Owners[i]] = NoTrial
        /\ own > 1 \/ stage > 1 => proc[r].rows["SQL"].bound # None
        /\ Len(Stages(o)) \in 3..4 /\ q.own \in 1..5
    BY <1>2, <1>3, <1>4, <2>1, StageLengths DEF Future, Processes
  <2>3. q.rows["SQL"].bound # None
    <3>1. CASE o = "SQL"
      <4>1. own = 1
        BY <1>2, <3>1, FiveOwners
      <4>2. row.bound = IF stage = 1 THEN tree ELSE proc[r].rows[o].bound
        BY <1>1, <1>3, <3>1 DEF Fits
      <4>3. tree # None
        BY EvidenceAssumption DEF EarnedInv, EvidenceTyped, WorldTyped
      <4> QED
        BY <1>8, <2>2, <3>1, <4>2, <4>3
    <3>2. CASE o # "SQL"
      <4>1. own > 1 /\ "SQL" \in OwnerSet
        BY <1>2, <3>2, FiveOwners
      <4> QED
        BY <1>8, <2>2, <3>2, <4>1
    <3> QED
      BY <3>1, <3>2
  <2>4. ASSUME q.pc = "owner", NEW i \in 1..5, i > q.own \/ (i = q.own /\ q.stage = 1)
        PROVE  q.rows[Owners[i]] = NoRow /\ q.trials[Owners[i]] = NoTrial
    <3>1. i > own
      BY <1>4, <2>2, <2>4
    <3>2. Owners[i] # o /\ Owners[i] \in OwnerSet
      BY <1>2, <3>1, FiveOwners
    <3> QED
      BY <1>8, <2>2, <3>1, <3>2
  <2>5. q.pc = "owner" => q.stage <= Len(Stages(Owners[q.own]))
    <3>1. \A x \in OwnerSet : Len(Stages(x)) \in 3..4
      BY StageLengths
    <3>2. Owners[q.own] \in OwnerSet
      BY <2>2, FiveOwners
    <3>3. CASE q.own = own /\ q.stage = stage + 1 /\ stage < Len(Stages(o))
      BY <1>2, <2>2, <3>3
    <3>4. CASE q.stage = 1
      <4>1. PICK n \in 3..4 : n = Len(Stages(Owners[q.own]))
        BY <3>1, <3>2
      <4>2. 1 <= n
        OBVIOUS
      <4>3. 1 <= Len(Stages(Owners[q.own]))
        BY <4>1, <4>2
      <4> QED
        BY <3>4, <4>3
    <3> QED
      BY <1>4, <3>3, <3>4
  <2> QED
    BY <1>5, <1>9, <2>3, <2>4, <2>5 DEF Future, Early
<1>13. Chron(r)'
  <2>1. Chron(r) /\ tree \in seen
    BY <1>6 DEF Campaigning, EarnedInv, EvidenceTyped, WorldTyped
  <2>2. {row.bound, row.ran, trial.bound, trial.ran}
           \subseteq Captured(proc[r].rows, proc[r].trials, o) \cup {None, tree}
    BY <1>1 DEF Fits
  <2>3. Captured(q.rows, q.trials, o) = {row.bound, row.ran, trial.bound, trial.ran}
    BY <1>8 DEF Captured
  <2>4. \A x \in OwnerSet : x # o => Captured(q.rows, q.trials, x) = Captured(proc[r].rows, proc[r].trials, x)
    BY <1>8 DEF Captured
  <2>5. \A x \in OwnerSet : Captured(q.rows, q.trials, x) \subseteq {None} \cup seen
    BY <2>1, <2>2, <2>3, <2>4 DEF Chron
  <2>6. ASSUME ~undone, q.rows["SQL"].bound = tree
        PROVE  AllAre(q.rows, q.trials, tree)
    <3>1. CASE o = "SQL" /\ stage = 1
      <4>1. Future(r) /\ own = 1
        BY <1>2, <1>6, <3>1, FiveOwners DEF Campaigning
      <4>2. \A i \in 1..5 : proc[r].rows[Owners[i]] = NoRow /\ proc[r].trials[Owners[i]] = NoTrial
        <5>1. \A i \in 1..5 : i > own \/ i = own
          BY <4>1
        <5> QED
          BY <1>2, <1>3, <3>1, <4>1, <5>1 DEF Future
      <4>3. \A x \in OwnerSet : proc[r].rows[x] = NoRow /\ proc[r].trials[x] = NoTrial
        BY <4>2, FiveOwners DEF Owners
      <4>4. \A x \in OwnerSet : Captured(proc[r].rows, proc[r].trials, x) = {None}
        BY <4>3 DEF Captured, NoRow, NoTrial
      <4> QED
        BY <2>2, <2>3, <2>4, <4>4 DEF AllAre
    <3>2. CASE ~(o = "SQL" /\ stage = 1)
      <4>1. proc[r].rows["SQL"].bound = tree
        <5>1. CASE o = "SQL"
          BY <1>1, <1>3, <1>8, <2>6, <3>2, <5>1 DEF Fits
        <5>2. CASE o # "SQL"
          BY <1>8, <2>6, <5>2, FiveOwners
        <5> QED
          BY <5>1, <5>2
      <4>2. AllAre(proc[r].rows, proc[r].trials, tree)
        BY <2>1, <2>6, <4>1 DEF Chron
      <4> QED
        BY <2>2, <2>3, <2>4, <4>2 DEF AllAre
    <3> QED
      BY <3>1, <3>2
  <2> QED
    BY <1>5, <2>5, <2>6 DEF Chron, Captured, AllAre, Lasting
<1>14. Frozen(r)'
  BY <1>5, <1>7 DEF Frozen
<1>15. RanRight(q.rows, q.trials, q.cache)
  <2>1. \A b \in Trees : proc[r].cache[b] # None => c[b] = proc[r].cache[b]
    BY <1>5, <1>7, GrownCache
  <2>2. RanRight(proc[r].rows, proc[r].trials, proc[r].cache)
    BY <1>6 DEF Campaigning
  <2>3. ASSUME NEW x \in OwnerSet, x # o
        PROVE  /\ q.rows[x].status = "PASS" => q.rows[x].ran # None /\ <<q.rows[x].ran, x>> \notin Broken
               /\ q.trials[x].detected =>
                    /\ q.trials[x].ran # None
                    /\ \/ <<q.trials[x].ran, x>> \notin Blind
                       \/ /\ x = "CLOCK"
                          /\ q.trials[x].bound \in Trees =>
                               c[q.trials[x].bound] # None /\ q.trials[x].mods # c[q.trials[x].bound]
    BY <1>8, <2>1, <2>2, <2>3 DEF RanRight
  <2>4. /\ row.status = "PASS" => row.ran # None /\ <<row.ran, o>> \notin Broken
        /\ trial.detected =>
             /\ trial.ran # None
             /\ \/ <<trial.ran, o>> \notin Blind
                \/ /\ o = "CLOCK"
                   /\ trial.bound \in Trees => c[trial.bound] # None /\ trial.mods # c[trial.bound]
    BY <1>1 DEF Fits
  <2> QED
    BY <1>7, <1>8, <2>3, <2>4 DEF RanRight
<1>16. Browsed(q.rows, q.cache)
  <2>1. \A b \in Trees : proc[r].cache[b] # None => c[b] = proc[r].cache[b]
    BY <1>5, <1>7, GrownCache
  <2>2. Browsed(proc[r].rows, proc[r].cache)
    BY <1>6 DEF Campaigning
  <2>3. CASE o = "BROWSER"
    BY <1>1, <1>7, <1>8, <2>3 DEF Fits, Browsed
  <2>4. CASE o # "BROWSER"
    BY <1>7, <1>8, <2>1, <2>2, <2>4, FiveOwners DEF Browsed
  <2> QED
    BY <2>3, <2>4
<1>17. Campaigning(r)'
  BY <1>5, <1>9, <1>12, <1>13, <1>14, <1>15, <1>16 DEF Campaigning, RanRight, Browsed
<1>18. Reached(r, q)
  BY <1>9 DEF Reached
<1>19. faults' \in Nat
  BY DEF EarnedInv, EvidenceTyped, WorldTyped
<1> QED
  BY <1>4, <1>5, <1>9, <1>10, <1>11, <1>17, <1>18, <1>19, StepKeeps DEF q

-----------------------------------------------------------------------------
(* The stages of the owners.                                               *)

LEMMA AtStage ==
  ASSUME EarnedInv, NEW r \in Runners, NEW stage, At(r, stage)
  PROVE  /\ proc[r].pc = "owner" /\ Owner(r) \in OwnerSet /\ proc[r] \in Processes
         /\ proc[r].rows \in AllRows /\ proc[r].trials \in AllTrials
         /\ proc[r].cache \in [Trees -> SomeTree] /\ Next1(proc[r]) \in Processes
         /\ Caching(r) /\ Campaigning(r) /\ Roled(r)
         /\ stage = "capture" /\ Owner(r) # "DESTRUCTION" =>
              proc[r].stage = 1 /\ proc[r].rows[Owner(r)] = NoRow
         /\ stage # "capture" /\ Owner(r) = "SQL" => proc[r].stage # 1
<1>1. /\ proc[r].pc = "owner" /\ r \in Procs /\ proc[r] \in Processes
      /\ Caching(r) /\ Campaigning(r) /\ Roled(r)
  BY DEF At, EarnedInv, EvidenceTyped, Procs
<1>2. Owner(r) \in OwnerSet /\ proc[r].stage \in 1..4
  BY <1>1, FiveOwners DEF Owner, Processes
<1>3. Next1(proc[r]) \in Processes
  BY <1>1, NextStage
<1>4. stage = Stages(Owner(r))[proc[r].stage]
  BY DEF At
<1>5. proc[r].stage \in 1..Len(Stages(Owner(r)))
  <2>1. proc[r].stage <= Len(Stages(Owner(r)))
    BY <1>1 DEF Campaigning, Future, Owner
  <2>2. PICK n \in 3..4 : n = Len(Stages(Owner(r)))
    BY <1>2, StageLengths
  <2> QED
    BY <1>2, <2>1, <2>2
<1>6. ASSUME stage = "capture", Owner(r) # "DESTRUCTION"
      PROVE  proc[r].stage = 1 /\ proc[r].rows[Owner(r)] = NoRow
  <2>1. proc[r].stage = 1
    BY <1>2, <1>4, <1>5, <1>6, StageLengths
  <2>2. Future(r) /\ proc[r].own \in 1..5
    BY <1>1 DEF Campaigning, Processes
  <2> QED
    BY <1>1, <2>1, <2>2 DEF Future, Owner
<1>7. stage # "capture" /\ Owner(r) = "SQL" => proc[r].stage # 1
  BY <1>2, <1>4, OwnersStages
<1> QED
  BY <1>1, <1>2, <1>3, <1>6, <1>7 DEF Processes

\* What is recorded already stays true as the cache grows.
LEMMA StillRight ==
  ASSUME EarnedInv, NEW r \in Runners, NEW o \in OwnerSet, NEW c, Grows(proc[r].cache, c)
  PROVE  LET row == proc[r].rows[o]
             trial == proc[r].trials[o]
         IN /\ row.status = "PASS" => row.ran # None /\ <<row.ran, o>> \notin Broken
            /\ trial.detected =>
                 /\ trial.ran # None
                 /\ \/ <<trial.ran, o>> \notin Blind
                    \/ /\ o = "CLOCK"
                       /\ trial.bound \in Trees => c[trial.bound] # None /\ trial.mods # c[trial.bound]
            /\ o = "BROWSER" /\ row.status = "PASS" /\ row.bound \in Trees => c[row.bound] # None
<1>1. Campaigning(r) /\ r \in Procs
  BY DEF EarnedInv, Procs
<1>2. \A b \in Trees : proc[r].cache[b] # None => c[b] = proc[r].cache[b]
  BY <1>1, GrownCache
<1> QED
  BY <1>1, <1>2 DEF Campaigning, RanRight, Browsed

LEMMA CaptureKeeps ==
  ASSUME EarnedInv, NEW r \in Runners, Capture(r)
  PROVE  EarnedInv'
<1> DEFINE x == proc[r]
           o == Owner(r)
           d == [x EXCEPT !.rows[o].bound = tree]
           row == [x.rows[o] EXCEPT !.bound = tree]
           trial == x.trials[o]
<1>1. /\ x.pc = "owner" /\ o \in OwnerSet /\ x \in Processes /\ x.rows \in AllRows
      /\ x.trials \in AllTrials /\ x.cache \in [Trees -> SomeTree]
      /\ (o # "DESTRUCTION" => x.stage = 1 /\ x.rows[o] = NoRow)
  BY AtStage DEF Capture
<1>2. tree \in SomeTree /\ tree # None
  BY EvidenceAssumption DEF EarnedInv, EvidenceTyped, WorldTyped, SomeTree
<1>3. row \in RowSet /\ trial \in TrialSet
  BY <1>1, <1>2 DEF AllRows, AllTrials, RowSet
<1>4. d.rows = [x.rows EXCEPT ![o] = row] /\ [x.rows EXCEPT ![o] = row] \in AllRows
  BY <1>1, <1>3 DEF Processes, AllRows
<1>5. Grows(x.cache, x.cache)
  BY DEF Grows
<1>6. Works(r, row, trial, x.cache, d) /\ d \in Processes
  BY <1>1, <1>4, <1>5 DEF Works, Processes, AllTrials
<1>7. Fits(r, row, trial, x.cache)
  <2>1. /\ row.status = x.rows[o].status /\ row.ran = x.rows[o].ran /\ row.bound = tree
        /\ o # "DESTRUCTION" => row.status = None
    BY <1>1 DEF AllRows, RowSet, NoRow
  <2>2. None # "PASS"
    BY EvidenceAssumption
  <2> QED
    BY <1>1, <1>5, <2>1, <2>2, StillRight DEF Fits, Captured
<1>8. /\ proc' = [proc EXCEPT ![r] = Next1(d)] /\ UNCHANGED <<world, disk, faults>>
  BY DEF Capture, Becomes
<1>9. UNCHANGED <<Lasting, faults>> /\ DiskTyped'
  BY <1>8 DEF world, disk, Lasting, EarnedInv, EvidenceTyped, DiskTyped
<1> HIDE DEF d, row, trial
<1> QED
  BY <1>1, <1>3, <1>6, <1>7, <1>8, <1>9, WorkKeeps

\* A compilation for a binding the process captured.
LEMMA CompilingGrows ==
  ASSUME EarnedInv, NEW p \in Procs, NEW key \in seen \cup {None}
  PROVE  LET d == Compiling(proc[p], key)
             c == d.cache
         IN /\ d \in Processes /\ c \in [Trees -> SomeTree] /\ Grows(proc[p].cache, c)
            /\ key \in Trees => c[key] # None /\ c[key] = Compiled(proc[p], key)
            /\ d.pc = proc[p].pc /\ d.own = proc[p].own /\ d.stage = proc[p].stage
            /\ d.rows = proc[p].rows /\ d.trials = proc[p].trials /\ d.read = proc[p].read
            /\ d.snap = proc[p].snap /\ d.round = proc[p].round /\ d.ok = proc[p].ok
<1> DEFINE k == Compiled(proc[p], key)
           d == Compiling(proc[p], key)
<1>1. proc[p] \in Processes /\ tree \in Trees /\ seen \subseteq Trees
  BY DEF EarnedInv, EvidenceTyped, WorldTyped
<1>2. proc[p].cache \in [Trees -> SomeTree] /\ None \notin Trees
  BY <1>1, EvidenceAssumption DEF Processes
<1>3. key \in Trees => k \in Trees
  BY <1>1, <1>2 DEF Compiled, SomeTree
<1>4. d = [proc[p] EXCEPT !.cache = [proc[p].cache EXCEPT ![key] = k]]
  BY DEF Compiling
<1>5. [proc[p].cache EXCEPT ![key] = k] \in [Trees -> SomeTree]
  BY <1>2, <1>3 DEF SomeTree
<1>6. /\ d \in Processes /\ d.cache = [proc[p].cache EXCEPT ![key] = k]
      /\ d.pc = proc[p].pc /\ d.own = proc[p].own /\ d.stage = proc[p].stage
      /\ d.rows = proc[p].rows /\ d.trials = proc[p].trials /\ d.read = proc[p].read
      /\ d.snap = proc[p].snap /\ d.round = proc[p].round /\ d.ok = proc[p].ok
  BY <1>1, <1>4, <1>5 DEF Processes
<1>7. Grows(proc[p].cache, d.cache)
  <2>1. ASSUME NEW b \in Trees
        PROVE  d.cache[b] = proc[p].cache[b]
                 \/ (proc[p].cache[b] = None /\ b \in seen /\ d.cache[b] = tree)
    BY <1>2, <1>6 DEF Compiled
  <2> QED
    BY <2>1 DEF Grows
<1>8. key \in Trees => d.cache[key] = k /\ k # None
  BY <1>2, <1>3, <1>6
<1> QED
  BY <1>5, <1>6, <1>7, <1>8

LEMMA Bindings ==
  ASSUME EarnedInv, NEW r \in Runners, NEW o \in OwnerSet
  PROVE  /\ proc[r].rows[o] \in RowSet /\ proc[r].trials[o] \in TrialSet
         /\ proc[r].rows[o].bound \in seen \cup {None} /\ proc[r].trials[o].bound \in seen \cup {None}
         /\ seen \subseteq Trees /\ tree \in Trees /\ None \notin Trees /\ build \in Trees
         /\ tree \in SomeTree /\ None \in SomeTree /\ build \in SomeTree
<1>1. Chron(r) /\ proc[r] \in Processes
  BY DEF EarnedInv, EvidenceTyped, Campaigning, Procs
<1>2. /\ seen \subseteq Trees /\ tree \in Trees /\ None \notin Trees /\ build \in Trees
      /\ tree \in SomeTree /\ None \in SomeTree /\ build \in SomeTree
  BY EvidenceAssumption DEF EarnedInv, EvidenceTyped, WorldTyped, SomeTree
<1>3. proc[r].rows[o] \in RowSet /\ proc[r].trials[o] \in TrialSet
  BY <1>1 DEF Processes, AllRows, AllTrials
<1> QED
  BY <1>1, <1>2, <1>3 DEF Chron, Captured

\* The records as they are, a compilation aside.
LEMMA Compiles ==
  ASSUME EarnedInv, NEW r \in Runners, NEW stage, At(r, stage), NEW d \in Processes,
         NEW key \in seen \cup {None}, d = Compiling(proc[r], key) \/ d = proc[r]
  PROVE  LET o == Owner(r)
             c == d.cache
         IN /\ Works(r, proc[r].rows[o], proc[r].trials[o], c, d) /\ c \in [Trees -> SomeTree]
            /\ d = Compiling(proc[r], key) /\ key \in Trees =>
                 c[key] # None /\ c[key] = Compiled(proc[r], key)
<1>1. r \in Procs /\ proc[r].pc = "owner" /\ Owner(r) \in OwnerSet
      /\ proc[r].rows \in AllRows /\ proc[r].trials \in AllTrials
  BY AtStage DEF Procs
<1>2. /\ Grows(proc[r].cache, d.cache) /\ d.pc = proc[r].pc /\ d.own = proc[r].own
      /\ d.stage = proc[r].stage /\ d.rows = proc[r].rows /\ d.trials = proc[r].trials
      /\ d.snap = proc[r].snap /\ d.round = proc[r].round /\ d.ok = proc[r].ok
  <2>1. CASE d = Compiling(proc[r], key)
    BY <1>1, <2>1, CompilingGrows
  <2>2. CASE d = proc[r]
    BY <2>2 DEF Grows
  <2> QED
    BY <2>1, <2>2
<1>3. /\ d.rows = [proc[r].rows EXCEPT ![Owner(r)] = proc[r].rows[Owner(r)]]
      /\ d.trials = [proc[r].trials EXCEPT ![Owner(r)] = proc[r].trials[Owner(r)]]
  BY <1>1, <1>2 DEF AllRows, AllTrials
<1>4. d.cache \in [Trees -> SomeTree]
  BY DEF Processes
<1>5. d = Compiling(proc[r], key) /\ key \in Trees =>
        d.cache[key] # None /\ d.cache[key] = Compiled(proc[r], key)
  BY <1>1, CompilingGrows
<1> QED
  BY <1>1, <1>2, <1>3, <1>4, <1>5 DEF Works

\* A case that leaves its record.
LEMMA KeepKeeps ==
  ASSUME EarnedInv, NEW r \in Runners, CaseOf(r, Owner(r)), NEW d \in Processes,
         NEW key \in seen \cup {None}, d = Compiling(proc[r], key) \/ d = proc[r],
         NEW status \in {"PASS", "FAIL"}, Keep(r, d, status),
         status = "PASS" => <<tree, Owner(r)>> \notin Broken,
         Owner(r) = "BROWSER" => d = Compiling(proc[r], key) /\ key = proc[r].rows["BROWSER"].bound,
         UNCHANGED <<world, campaign, aggregate, copies, foreign, inventory, proof, faults>>
  PROVE  EarnedInv'
<1> DEFINE o == Owner(r)
           c == d.cache
           mods == IF o \in TypeScript THEN build ELSE None
           row == [proc[r].rows[o] EXCEPT !.status = status, !.ran = tree, !.mods = mods]
           trial == proc[r].trials[o]
           e == [d EXCEPT !.rows[o].status = status, !.rows[o].ran = tree, !.rows[o].mods = mods]
<1>1. At(r, "case") /\ r \in Procs
  BY DEF CaseOf, Procs
<1>2. /\ proc[r].pc = "owner" /\ o \in OwnerSet /\ proc[r].rows \in AllRows /\ proc[r].trials \in AllTrials
      /\ (o = "SQL" => proc[r].stage # 1)
  BY <1>1, AtStage
<1>3. /\ proc[r].rows[o] \in RowSet /\ trial \in TrialSet /\ tree \in Trees /\ None \notin Trees
      /\ mods \in SomeTree /\ tree \in SomeTree
  BY <1>2, Bindings
<1>4. /\ Works(r, proc[r].rows[o], trial, c, d) /\ c \in [Trees -> SomeTree]
      /\ d = Compiling(proc[r], key) /\ key \in Trees => c[key] # None
  BY <1>1, Compiles
<1>5. row \in RowSet /\ row.bound = proc[r].rows[o].bound /\ row.status = status /\ row.ran = tree
  BY <1>3 DEF RowSet
<1>6. d.rows = proc[r].rows /\ d.trials = proc[r].trials
  BY <1>2, <1>4 DEF Works, AllRows, AllTrials
<1>7. e = [d EXCEPT !.rows = [d.rows EXCEPT ![o] = row]] /\ [d.rows EXCEPT ![o] = row] \in AllRows
  <2>1. d.rows \in AllRows /\ row \in RowSet
    BY <1>2, <1>5, <1>6
  <2>2. e.rows = [d.rows EXCEPT ![o] = row]
    BY <1>2, <1>6 DEF Processes, AllRows, RowSet
  <2> QED
    BY <1>2, <2>1, <2>2 DEF Processes, AllRows
<1>8. e \in Processes /\ Works(r, row, trial, c, e)
  <2>1. PICK rows \in AllRows : rows = [d.rows EXCEPT ![o] = row] /\ e = [d EXCEPT !.rows = rows]
    BY <1>7
  <2> HIDE DEF e, row, trial
  <2>2. /\ e \in Processes /\ e.rows = rows /\ e.pc = d.pc /\ e.own = d.own /\ e.stage = d.stage
        /\ e.trials = d.trials /\ e.cache = d.cache /\ e.snap = d.snap /\ e.round = d.round
        /\ e.ok = d.ok
    BY <2>1 DEF Processes
  <2> QED
    BY <1>4, <1>6, <2>1, <2>2 DEF Works
<1>9. Fits(r, row, trial, c)
  <2>1. o = "BROWSER" /\ row.bound \in Trees => c[row.bound] # None
    BY <1>4, <1>5
  <2>2. Grows(proc[r].cache, c)
    BY <1>4 DEF Works
  <2> QED
    BY <1>2, <1>3, <1>5, <2>1, <2>2, StillRight DEF Fits, Captured
<1>10. proc' = [proc EXCEPT ![r] = Next1(e)] /\ files' = [files EXCEPT ![o] = Good(r)]
  BY DEF Keep, Becomes
<1>11. UNCHANGED <<Lasting, faults>> /\ DiskTyped'
  <2>1. Good(r) \in FileSet
    BY DEF Good, FileSet
  <2> QED
    BY <1>2, <1>10, <2>1 DEF world, Lasting, EarnedInv, EvidenceTyped, DiskTyped, Files
<1> HIDE DEF e, row, trial, c
<1> QED
  BY <1>2, <1>3, <1>4, <1>5, <1>8, <1>9, <1>10, <1>11, WorkKeeps DEF trial, c

\* An owner that reports itself blocked.
LEMMA BlockedKeeps ==
  ASSUME EarnedInv, NEW r \in Runners, CaseOf(r, Owner(r)), ReportBlocked(r),
         UNCHANGED <<world, campaign, aggregate, copies, foreign, inventory, proof, faults>>
  PROVE  EarnedInv'
<1> DEFINE o == Owner(r)
           x == proc[r]
           row == [x.rows[o] EXCEPT !.status = "BLOCKED"]
           trial == x.trials[o]
           e == [x EXCEPT !.rows[o].status = "BLOCKED"]
<1>1. At(r, "case") /\ r \in Procs
  BY DEF CaseOf, Procs
<1>2. /\ x.pc = "owner" /\ o \in OwnerSet /\ x.rows \in AllRows /\ x.trials \in AllTrials
      /\ x \in Processes /\ x.cache \in [Trees -> SomeTree] /\ (o = "SQL" => x.stage # 1)
  BY <1>1, AtStage
<1>3. row \in RowSet /\ trial \in TrialSet /\ row.bound = x.rows[o].bound /\ row.status = "BLOCKED"
      /\ row.ran = x.rows[o].ran
  BY <1>2 DEF AllRows, AllTrials, RowSet
<1>4. e.rows = [x.rows EXCEPT ![o] = row] /\ [x.rows EXCEPT ![o] = row] \in AllRows
  BY <1>2, <1>3 DEF Processes, AllRows
<1>5. Grows(x.cache, x.cache)
  BY DEF Grows
<1>6. Works(r, row, trial, x.cache, e) /\ e \in Processes
  BY <1>2, <1>4, <1>5 DEF Works, Processes, AllTrials
<1>7. Fits(r, row, trial, x.cache)
  BY <1>2, <1>3, <1>5, StillRight DEF Fits, Captured
<1>8. proc' = [proc EXCEPT ![r] = Next1(e)] /\ UNCHANGED files
  BY DEF ReportBlocked, Becomes
<1>9. UNCHANGED <<Lasting, faults>> /\ DiskTyped'
  BY <1>8 DEF world, Lasting, EarnedInv, EvidenceTyped, DiskTyped
<1> HIDE DEF e, row, trial
<1> QED
  BY <1>2, <1>3, <1>6, <1>7, <1>8, <1>9, WorkKeeps

\* A campaign that ends because a check failed.
LEMMA RejectKeeps ==
  ASSUME EarnedInv, NEW p \in Procs, Reject(p),
         proc[p].pc \notin Early \cup Ended \cup {"refused"}, UNCHANGED <<world, disk, faults>>
  PROVE  EarnedInv'
<1>1. faults' \in Nat
  BY DEF EarnedInv, EvidenceTyped, WorldTyped
<1> QED
  BY <1>1, EndKeeps DEF Reject, Becomes, Ended

LEMMA StopKeeps ==
  ASSUME EarnedInv, NEW r \in Runners, proc[r].pc = "owner", Reject(r), UNCHANGED <<world, disk, faults>>
  PROVE  EarnedInv'
BY RejectKeeps DEF Procs, Early, Ended

LEMMA RunCaseKeeps ==
  ASSUME EarnedInv, NEW r \in Runners, RunCase(r)
  PROVE  EarnedInv'
<1>1. At(r, "case") /\ CaseOf(r, Owner(r))
  BY DEF RunCase, SqlCase, BrowserCase, GapCase, DestructionCase, ClockCase, CaseOf
<1>2. proc[r].pc = "owner" /\ Owner(r) \in OwnerSet /\ proc[r] \in Processes /\ r \in Procs
  BY <1>1, AtStage DEF Procs
<1>3. UNCHANGED <<world, campaign, aggregate, copies, foreign, inventory, proof, faults>>
  BY DEF RunCase
<1>4. Stop(r) => EarnedInv'
  BY <1>2, <1>3, StopKeeps DEF Stop, disk
<1>5. ReportBlocked(r) => EarnedInv'
  BY <1>1, <1>3, BlockedKeeps
<1>6. ASSUME Owner(r) # "BROWSER", NEW status \in {"PASS", "FAIL"}, Keep(r, proc[r], status),
             status = "PASS" => Right(Owner(r))
      PROVE  EarnedInv'
  <2>1. None \in seen \cup {None}
    OBVIOUS
  <2> QED
    BY <1>1, <1>2, <1>3, <1>6, <2>1, KeepKeeps DEF Right
<1>7. ASSUME BrowserCase(r) PROVE EarnedInv'
  <2> DEFINE bound == proc[r].rows["BROWSER"].bound
             d == Compiling(proc[r], bound)
  <2>1. Owner(r) = "BROWSER" /\ bound \in seen \cup {None}
    BY <1>7, FiveOwners, Bindings DEF BrowserCase, CaseOf
  <2>2. d \in Processes
    BY <1>2, <2>1, CompilingGrows
  <2>3. Keep(r, d, "PASS") /\ Right("BROWSER") => EarnedInv'
    BY <1>1, <1>3, <2>1, <2>2, KeepKeeps DEF Right
  <2> QED
    BY <1>4, <1>5, <1>7, <2>3 DEF BrowserCase
<1> QED
  BY <1>4, <1>5, <1>6, <1>7 DEF RunCase, SqlCase, GapCase, DestructionCase, ClockCase, CaseOf

\* A trial that leaves its record.
LEMMA KeepTrialKeeps ==
  ASSUME EarnedInv, NEW r \in Runners, TrialOf(r, Owner(r)), NEW d \in Processes,
         NEW key \in seen \cup {None}, d = Compiling(proc[r], key) \/ d = proc[r],
         NEW bound \in {proc[r].rows[Owner(r)].bound, proc[r].trials[Owner(r)].bound},
         NEW detected \in BOOLEAN, KeepTrial(r, d, bound, detected),
         detected => \/ <<tree, Owner(r)>> \notin Blind
                     \/ /\ Owner(r) = "CLOCK"
                        /\ key \in Trees => build # Compiled(proc[r], key)
                        /\ d = Compiling(proc[r], key) /\ key = bound,
         UNCHANGED <<world, disk, faults>>
  PROVE  EarnedInv'
<1> DEFINE o == Owner(r)
           c == d.cache
           mods == IF o \in TypeScript THEN build ELSE None
           row == proc[r].rows[o]
           trial == [bound |-> bound, ran |-> tree, mods |-> mods, detected |-> detected]
           e == [d EXCEPT !.trials[o] = trial]
<1>1. At(r, "trial") /\ r \in Procs
  BY DEF TrialOf, Procs
<1>2. /\ proc[r].pc = "owner" /\ o \in OwnerSet /\ proc[r].rows \in AllRows /\ proc[r].trials \in AllTrials
      /\ (o = "SQL" => proc[r].stage # 1)
  BY <1>1, AtStage
<1>3. /\ row \in RowSet /\ proc[r].trials[o] \in TrialSet /\ tree \in Trees /\ None \notin Trees
      /\ mods \in SomeTree /\ tree \in SomeTree
  BY <1>2, Bindings
<1>4. /\ Works(r, row, proc[r].trials[o], c, d) /\ c \in [Trees -> SomeTree]
      /\ d = Compiling(proc[r], key) /\ key \in Trees =>
           c[key] # None /\ c[key] = Compiled(proc[r], key)
  BY <1>1, Compiles
<1>5. trial \in TrialSet /\ trial.bound = bound /\ trial.ran = tree /\ trial.detected = detected
      /\ trial.mods = mods
  BY <1>3 DEF TrialSet, RowSet
<1>6. d.rows = proc[r].rows /\ d.trials = proc[r].trials
  BY <1>2, <1>4 DEF Works, AllRows, AllTrials
<1>7. [d.trials EXCEPT ![o] = trial] \in AllTrials
  BY <1>2, <1>5, <1>6 DEF AllTrials
<1>8. e \in Processes /\ Works(r, row, trial, c, e)
  <2>1. PICK trials \in AllTrials : /\ trials = [d.trials EXCEPT ![o] = trial]
                                    /\ e = [d EXCEPT !.trials = trials]
    BY <1>7
  <2> HIDE DEF e, row, trial
  <2>2. /\ e \in Processes /\ e.rows = d.rows /\ e.pc = d.pc /\ e.own = d.own /\ e.stage = d.stage
        /\ e.trials = trials /\ e.cache = d.cache /\ e.snap = d.snap /\ e.round = d.round
        /\ e.ok = d.ok
    BY <2>1 DEF Processes
  <2> QED
    BY <1>4, <1>6, <2>1, <2>2 DEF Works
<1>9. Fits(r, row, trial, c)
  <2>1. Grows(proc[r].cache, c)
    BY <1>4 DEF Works
  <2>2. ASSUME detected
        PROVE  \/ <<trial.ran, o>> \notin Blind
               \/ /\ o = "CLOCK"
                  /\ trial.bound \in Trees => c[trial.bound] # None /\ trial.mods # c[trial.bound]
    BY <1>4, <1>5, <2>2 DEF TypeScript
  <2> HIDE DEF trial
  <2> QED
    BY <1>2, <1>3, <1>5, <2>1, <2>2, StillRight DEF Fits, Captured
<1>10. proc' = [proc EXCEPT ![r] = Next1(e)]
  BY DEF KeepTrial, Becomes
<1>11. UNCHANGED <<Lasting, faults>> /\ DiskTyped'
  BY DEF world, disk, Lasting, EarnedInv, EvidenceTyped, DiskTyped
<1> HIDE DEF e, row, trial, c
<1> QED
  BY <1>2, <1>3, <1>4, <1>5, <1>8, <1>9, <1>10, <1>11, WorkKeeps DEF row, c

LEMMA RunTrialKeeps ==
  ASSUME EarnedInv, NEW r \in Runners, RunTrial(r)
  PROVE  EarnedInv'
<1>1. TrialOf(r, Owner(r)) /\ At(r, "trial")
  BY DEF RunTrial, SqlTrial, BrowserTrial, GapTrial, DestructionTrial, ClockTrial, TrialOf
<1>2. /\ proc[r].pc = "owner" /\ Owner(r) \in OwnerSet /\ proc[r] \in Processes /\ r \in Procs
      /\ proc[r].rows[Owner(r)].bound \in seen \cup {None}
      /\ proc[r].trials[Owner(r)].bound \in seen \cup {None}
  BY <1>1, AtStage, Bindings DEF Procs
<1>3. UNCHANGED <<world, disk, faults>>
  BY DEF RunTrial
<1>4. Reject(r) => EarnedInv'
  BY <1>2, <1>3, StopKeeps
<1>5. ASSUME NEW bound \in {proc[r].rows[Owner(r)].bound, proc[r].trials[Owner(r)].bound},
             NEW d \in {proc[r], Compiling(proc[r], bound)}, Caught(Owner(r)), KeepTrial(r, d, bound, TRUE)
      PROVE  EarnedInv'
  <2>1. bound \in seen \cup {None} /\ d \in Processes
    BY <1>2, CompilingGrows
  <2> QED
    BY <1>1, <1>3, <1>5, <2>1, KeepTrialKeeps DEF Caught
<1>6. ASSUME ClockTrial(r) PROVE EarnedInv'
  <2> DEFINE bound == proc[r].rows["CLOCK"].bound
             d == Compiling(proc[r], bound)
             detected == /\ ~Blocked("CLOCK") /\ Right("CLOCK")
                         /\ Caught("CLOCK") \/ build # Compiled(d, bound)
  <2>1. Owner(r) = "CLOCK" /\ KeepTrial(r, d, bound, detected) /\ detected \in BOOLEAN
    BY <1>6 DEF ClockTrial, TrialOf
  <2>2. bound \in seen \cup {None} /\ d \in Processes
    BY <1>2, <2>1, CompilingGrows
  <2>3. detected => <<tree, "CLOCK">> \notin Blind \/ build # Compiled(d, bound)
    BY DEF Caught
  <2>4. bound \in Trees => Compiled(d, bound) = Compiled(proc[r], bound)
    BY <1>2, <2>2, CompilingGrows DEF Compiled
  <2>5. detected => \/ <<tree, Owner(r)>> \notin Blind
                    \/ bound \in Trees => build # Compiled(proc[r], bound)
    BY <2>1, <2>3, <2>4
  <2> HIDE DEF detected
  <2> QED
    BY <1>1, <1>3, <2>1, <2>2, <2>5, KeepTrialKeeps
<1> QED
  BY <1>2, <1>4, <1>5, <1>6 DEF RunTrial, SqlTrial, BrowserTrial, GapTrial, DestructionTrial, TrialOf

LEMMA RecaptureKeeps ==
  ASSUME EarnedInv, NEW r \in Runners, At(r, "recapture"), NEW d \in Processes,
         NEW key \in seen \cup {None}, d = Compiling(proc[r], key) \/ d = proc[r],
         Becomes(r, Next1([d EXCEPT !.trials[Owner(r)].bound = tree])),
         Owner(r) # "CLOCK", UNCHANGED <<world, disk, faults>>
  PROVE  EarnedInv'
<1> DEFINE o == Owner(r)
           c == d.cache
           row == proc[r].rows[o]
           trial == [proc[r].trials[o] EXCEPT !.bound = tree]
           e == [d EXCEPT !.trials[o].bound = tree]
<1>1. r \in Procs
  BY DEF Procs
<1>2. /\ proc[r].pc = "owner" /\ o \in OwnerSet /\ proc[r].rows \in AllRows /\ proc[r].trials \in AllTrials
      /\ (o = "SQL" => proc[r].stage # 1)
  BY AtStage
<1>3. row \in RowSet /\ proc[r].trials[o] \in TrialSet /\ tree \in Trees /\ tree \in SomeTree
  BY <1>2, Bindings
<1>4. Works(r, row, proc[r].trials[o], c, d) /\ c \in [Trees -> SomeTree]
  BY Compiles
<1>5. trial \in TrialSet /\ trial.bound = tree /\ trial.ran = proc[r].trials[o].ran
      /\ trial.detected = proc[r].trials[o].detected /\ trial.mods = proc[r].trials[o].mods
  BY <1>3 DEF TrialSet
<1>6. d.rows = proc[r].rows /\ d.trials = proc[r].trials
  BY <1>2, <1>4 DEF Works, AllRows, AllTrials
<1>7. e = [d EXCEPT !.trials = [d.trials EXCEPT ![o] = trial]] /\ [d.trials EXCEPT ![o] = trial] \in AllTrials
  <2>1. d.trials \in AllTrials /\ trial \in TrialSet
    BY <1>2, <1>5, <1>6
  <2>2. e.trials = [d.trials EXCEPT ![o] = trial]
    BY <1>2, <1>6 DEF Processes, AllTrials, TrialSet
  <2> QED
    BY <1>2, <2>1, <2>2 DEF Processes, AllTrials
<1>8. e \in Processes /\ Works(r, row, trial, c, e)
  <2>1. PICK trials \in AllTrials : /\ trials = [d.trials EXCEPT ![o] = trial]
                                    /\ e = [d EXCEPT !.trials = trials]
    BY <1>7
  <2> HIDE DEF e, row, trial
  <2>2. /\ e \in Processes /\ e.rows = d.rows /\ e.pc = d.pc /\ e.own = d.own /\ e.stage = d.stage
        /\ e.trials = trials /\ e.cache = d.cache /\ e.snap = d.snap /\ e.round = d.round
        /\ e.ok = d.ok
    BY <2>1 DEF Processes
  <2> QED
    BY <1>4, <1>6, <2>1, <2>2 DEF Works
<1>9. Fits(r, row, trial, c)
  <2>1. Grows(proc[r].cache, c)
    BY <1>4 DEF Works
  <2> HIDE DEF trial
  <2> QED
    BY <1>2, <1>3, <1>5, <2>1, StillRight DEF Fits, Captured
<1>10. proc' = [proc EXCEPT ![r] = Next1(e)]
  BY DEF Becomes
<1>11. UNCHANGED <<Lasting, faults>> /\ DiskTyped'
  BY DEF world, disk, Lasting, EarnedInv, EvidenceTyped, DiskTyped
<1> HIDE DEF e, row, trial, c
<1> QED
  BY <1>2, <1>3, <1>4, <1>5, <1>8, <1>9, <1>10, <1>11, WorkKeeps DEF row, c

LEMMA RecapturesKeep ==
  ASSUME EarnedInv, NEW r \in Runners, RecaptureTrials(r) \/ RecaptureDestruction(r)
  PROVE  EarnedInv'
<1>1. /\ At(r, "recapture") /\ Owner(r) \in {"SQL", "BROWSER", "DESTRUCTION"}
      /\ UNCHANGED <<world, disk, faults>>
  BY DEF RecaptureTrials, RecaptureDestruction
<1>2. proc[r].pc = "owner" /\ proc[r] \in Processes /\ r \in Procs /\ "DESTRUCTION" \in OwnerSet
  BY <1>1, AtStage, FiveOwners DEF Procs
<1>3. CASE RecaptureTrials(r)
  <2>1. None \in seen \cup {None}
    OBVIOUS
  <2> QED
    BY <1>1, <1>2, <1>3, <2>1, RecaptureKeeps DEF RecaptureTrials
<1>4. CASE RecaptureDestruction(r)
  <2> DEFINE bound == proc[r].rows["DESTRUCTION"].bound
             d == Compiling(proc[r], bound)
  <2>1. Owner(r) = "DESTRUCTION" /\ bound \in seen \cup {None} /\ d \in Processes
    BY <1>2, <1>4, Bindings, CompilingGrows DEF RecaptureDestruction
  <2>2. \/ Becomes(r, Next1([d EXCEPT !.trials["DESTRUCTION"].bound = tree]))
        \/ Reject(r)
    BY <1>4 DEF RecaptureDestruction
  <2> QED
    BY <1>1, <1>2, <2>1, <2>2, RecaptureKeeps, StopKeeps
<1> QED
  BY <1>3, <1>4

LEMMA DriftKeeps ==
  ASSUME EarnedInv, NEW r \in Runners, Drift(r)
  PROVE  EarnedInv'
<1> DEFINE x == proc[r]
           o == Owner(r)
<1>1. At(r, "drift") /\ UNCHANGED <<world, disk, faults>> /\ None \in seen \cup {None}
  BY DEF Drift
<1>2. /\ x.pc = "owner" /\ o \in OwnerSet /\ x.rows \in AllRows /\ x.trials \in AllTrials
      /\ x \in Processes /\ x.cache \in [Trees -> SomeTree] /\ (o = "SQL" => x.stage # 1)
  BY <1>1, AtStage
<1>3. CASE Reject(r)
  BY <1>1, <1>2, <1>3, StopKeeps
<1>4. CASE Becomes(r, Next1(x))
  <2>1. Works(r, x.rows[o], x.trials[o], x.cache, x) /\ Grows(x.cache, x.cache)
    BY <1>1, <1>2, Compiles DEF Grows
  <2>2. x.rows[o] \in RowSet /\ x.trials[o] \in TrialSet
    BY <1>2, Bindings
  <2>3. Fits(r, x.rows[o], x.trials[o], x.cache)
    BY <1>2, <2>1, StillRight DEF Fits, Captured
  <2>4. UNCHANGED <<Lasting, faults>> /\ DiskTyped'
    BY <1>1 DEF world, disk, Lasting, EarnedInv, EvidenceTyped, DiskTyped
  <2> QED
    BY <1>2, <1>4, <2>1, <2>2, <2>3, <2>4, WorkKeeps DEF Becomes
<1> QED
  BY <1>3, <1>4 DEF Drift

-----------------------------------------------------------------------------
(* Steps that leave a process's records alone.                             *)

SameRecords(p, q) ==
  /\ q.rows = proc[p].rows /\ q.trials = proc[p].trials /\ q.cache = proc[p].cache
  /\ q.own = proc[p].own /\ q.stage = proc[p].stage

LEMMA MoveKeeps ==
  ASSUME EarnedInv, NEW p \in Procs, NEW q \in Processes, proc' = [proc EXCEPT ![p] = q],
         UNCHANGED Lasting, DiskTyped', faults' \in Nat, SameRecords(p, q),
         Roled(p)', SnapSeen(p)', ControlsPassed(p)', p \in Runners => Frozen(p)',
         p \in Runners /\ q.pc \in Early \cup {"owner"} => proc[p].pc \in Early,
         p \in Runners /\ q.pc = "write" /\ ~undone => Earned(q.rows, q.trials),
         Reached(p, q), p \in Runners => proc[p].pc # "done"
  PROVE  EarnedInv'
<1>1. proc'[p] = q /\ Caching(p) /\ (p \in Runners => Campaigning(p))
  BY DEF EarnedInv, EvidenceTyped
<1>2. Caching(p)'
  BY <1>1 DEF Caching, Lasting, SameRecords
<1>3. ASSUME p \in Runners PROVE Campaigning(p)'
  <2>1. Future(p)'
    BY <1>1, <1>3 DEF Campaigning, Future, SameRecords, Early
  <2>2. Chron(p)'
    BY <1>1, <1>3 DEF Campaigning, Chron, Captured, AllAre, Lasting, SameRecords
  <2>3. RanRight(q.rows, q.trials, q.cache) /\ Browsed(q.rows, q.cache)
    BY <1>1, <1>3 DEF Campaigning, SameRecords
  <2> QED
    BY <1>1, <1>3, <2>1, <2>2, <2>3 DEF Campaigning, RanRight, Browsed, Earned, Lasting
<1> QED
  BY <1>2, <1>3, StepKeeps

LEMMA BeginKeeps ==
  ASSUME EarnedInv, NEW r \in Runners, Begin(r)
  PROVE  EarnedInv'
<1>1. proc[r].pc = "idle" /\ UNCHANGED <<world, disk, faults>> /\ r \in Procs /\ proc[r] \in Processes
      /\ faults' \in Nat
  BY DEF Begin, Procs, EarnedInv, EvidenceTyped, WorldTyped
<1>2. CASE Becomes(r, [proc[r] EXCEPT !.pc = "refused"])
  BY <1>1, <1>2, EndKeeps DEF Becomes, Early
<1>3. CASE Becomes(r, [proc[r] EXCEPT !.pc = "claim"])
  <2> DEFINE q == [proc[r] EXCEPT !.pc = "claim"]
  <2>1. q \in Processes /\ q.pc = "claim" /\ SameRecords(r, q)
        /\ q.round = proc[r].round /\ q.snap = proc[r].snap /\ q.ok = proc[r].ok
    BY <1>1 DEF Processes, Steps, Early, SameRecords
  <2> HIDE DEF q
  <2>2. proc'[r] = q /\ Roled(r) /\ UNCHANGED Lasting /\ DiskTyped'
    BY <1>1, <1>3 DEF EarnedInv, EvidenceTyped, Becomes, q, world, disk, Lasting, DiskTyped
  <2>3. Roled(r)'
    BY <1>1, <2>1, <2>2, EvidenceAssumption
       DEF Roled, Lasting, Early, Before, Ended, LiveSteps, Retaining
  <2>4. SnapSeen(r)' /\ ControlsPassed(r)' /\ Frozen(r)'
    BY <1>1, <2>1, <2>2 DEF Roled, SnapSeen, ControlsPassed, Frozen, LiveSteps, Judges, Ended
  <2>5. Reached(r, q)
    BY <2>1 DEF Reached, Retaining, After, Judges, Before, LiveSteps
  <2> QED
    BY <1>1, <1>3, <2>1, <2>2, <2>3, <2>4, <2>5, MoveKeeps DEF Becomes, q, Early
<1> QED
  BY <1>2, <1>3 DEF Begin

\* Nobody has begun when the directory is not there.
LEMMA NobodyBegan ==
  ASSUME EarnedInv, campaign = None
  PROVE  /\ inventory = None /\ proof["P03"] = None /\ proof["P04"] = None
         /\ \A r \in Runners : proc[r].pc \in Early \cup {"refused", "dead"}
         /\ \A v \in Verifiers : proc[v].pc = "idle"
<1>1. inventory = None /\ None \notin Runners
  BY EvidenceAssumption DEF EarnedInv, Retained
<1>2. \A k \in {"P03", "P04"} : proof[k] = None
  BY <1>1 DEF EarnedInv, Proved, AggregateTrue
<1>3. \A p \in Procs : Roled(p)
  BY DEF EarnedInv
<1> QED
  BY <1>1, <1>2, <1>3 DEF Roled, Procs

LEMMA ClaimKeeps ==
  ASSUME EarnedInv, NEW r \in Runners, Claim(r)
  PROVE  EarnedInv'
<1>1. proc[r].pc = "claim" /\ r \in Procs /\ proc[r] \in Processes
  BY DEF Claim, ClaimAny, Procs, EarnedInv, EvidenceTyped
<1>2. CASE campaign # None
  <2>1. Becomes(r, [proc[r] EXCEPT !.pc = "refused"]) /\ UNCHANGED <<world, disk, faults>>
    BY <1>2 DEF Claim
  <2>2. faults' \in Nat
    BY <2>1 DEF EarnedInv, EvidenceTyped, WorldTyped
  <2> QED
    BY <1>1, <2>1, <2>2, EndKeeps DEF Becomes, Early
<1>3. CASE campaign = None
  <2> DEFINE q == [proc[r] EXCEPT !.pc = "owner"]
  <2>1. /\ campaign' = r /\ proc' = [proc EXCEPT ![r] = q]
        /\ UNCHANGED <<world, files, aggregate, copies, foreign, inventory, proof, faults>>
    BY <1>3 DEF Claim, ClaimAny, Becomes
  <2>2. q \in Processes /\ q.pc = "owner" /\ SameRecords(r, q)
        /\ q.round = proc[r].round /\ q.snap = proc[r].snap /\ q.ok = proc[r].ok
    BY <1>1 DEF Processes, Steps, Before, SameRecords
  <2> HIDE DEF q
  <2>3. /\ proc' \in [Procs -> Processes] /\ proc'[r] = q
        /\ \A s \in Procs : s # r => proc'[s] = proc[s]
        /\ Runners \subseteq Procs
    BY <2>1, <2>2 DEF EarnedInv, EvidenceTyped, Procs
  <2>4. EvidenceTyped'
    BY <2>1, <2>3 DEF EarnedInv, EvidenceTyped, WorldTyped, DiskTyped, world
  <2>5. /\ inventory' = None /\ proof'["P03"] = None /\ proof'["P04"] = None
        /\ \A s \in Runners : proc[s].pc \in Early \cup {"refused", "dead"}
        /\ \A v \in Verifiers : proc[v].pc = "idle"
    BY <1>3, <2>1, NobodyBegan
  <2>6. ASSUME NEW s \in Procs
        PROVE  Roled(s)' /\ Caching(s)' /\ SnapSeen(s)' /\ ControlsPassed(s)'
    <3>1. Roled(s) /\ Caching(s) /\ SnapSeen(s) /\ ControlsPassed(s)
      BY DEF EarnedInv
    <3>2. CASE s = r
      <4>1. Roled(s)'
        BY <1>1, <2>1, <2>2, <2>3, <2>5, <3>1, <3>2, EvidenceAssumption
           DEF Roled, Early, Before, Ended, LiveSteps, Retaining
      <4>2. Caching(s)' /\ SnapSeen(s)' /\ ControlsPassed(s)'
        BY <2>1, <2>2, <2>3, <3>1, <3>2
           DEF Caching, SnapSeen, ControlsPassed, SameRecords, world, LiveSteps, Judges
      <4> QED
        BY <4>1, <4>2
    <3>3. CASE s # r
      <4>1. proc'[s] = proc[s] /\ proc[s].pc \in Early \cup {"refused", "dead"}
        BY <2>3, <2>5, <3>3 DEF Procs, Early
      <4>2. Roled(s)'
        BY <2>1, <2>5, <3>1, <4>1 DEF Roled, Early, Before, Ended, LiveSteps, Retaining
      <4>3. Caching(s)' /\ SnapSeen(s)' /\ ControlsPassed(s)'
        BY <2>1, <3>1, <4>1 DEF Caching, SnapSeen, ControlsPassed, world, LiveSteps, Judges, Early
      <4> QED
        BY <4>2, <4>3
    <3> QED
      BY <3>2, <3>3
  <2>7. ASSUME NEW s \in Runners
        PROVE  Campaigning(s)'
    <3>1. Campaigning(s)
      BY DEF EarnedInv
    <3>2. CASE s = r
      <4>1. Future(s)'
        BY <1>1, <2>2, <2>3, <3>1, <3>2 DEF Campaigning, Future, SameRecords, Early
      <4>2. Chron(s)'
        BY <2>1, <2>2, <2>3, <3>1, <3>2 DEF Campaigning, Chron, Captured, AllAre, SameRecords, world
      <4>3. RanRight(q.rows, q.trials, q.cache) /\ Browsed(q.rows, q.cache)
        BY <2>2, <3>1, <3>2 DEF Campaigning, SameRecords
      <4>4. Frozen(s)'
        BY <2>2, <2>3, <3>2 DEF Frozen, LiveSteps
      <4> QED
        BY <2>2, <2>3, <3>2, <4>1, <4>2, <4>3, <4>4 DEF Campaigning, RanRight, Browsed
    <3>3. CASE s # r
      <4>1. proc'[s] = proc[s]
        BY <2>3, <3>3
      <4> QED
        BY <2>1, <3>1, <4>1, CampaignLasts DEF world
    <3> QED
      BY <3>2, <3>3
  <2>8. \A s \in Procs : proc'[s].pc \in Early \cup {"refused", "dead", "owner"}
    BY <2>2, <2>3, <2>5 DEF Procs, Early
  <2>9. Retained' /\ Proved'
    <3>1. \A s \in Procs : proc'[s].pc \notin Retaining \cup After \cup {"done"} \cup Judges \cup {"prove"}
      BY <2>8 DEF Retaining, After, Judges, Early
    <3> QED
      BY <2>1, <2>3, <2>5, <3>1, EvidenceAssumption DEF Retained, Proved
  <2> QED
    BY <2>4, <2>6, <2>7, <2>9 DEF EarnedInv
<1> QED
  BY <1>2, <1>3

\* A process at work, with nothing of a judgement on it, goes to another step of that kind.
LEMMA GoesOn ==
  ASSUME EarnedInv, NEW p \in Procs, NEW q \in Processes, proc' = [proc EXCEPT ![p] = q],
         UNCHANGED Lasting, DiskTyped', faults' \in Nat, SameRecords(p, q),
         q.snap = None, q.round = 1, q.ok,
         \/ q.pc \in {"copy", "inventory"} /\ p \in Runners /\ proc[p].pc \in Retaining
         \/ q.pc \in {"load", "rejudge"} /\ proc[p].pc \in {"idle", "load"},
         q.pc = "load" => p \in Verifiers /\ inventory # None,
         q.pc = "rejudge" => Referenced /\ proc[p].pc = "load"
  PROVE  EarnedInv'
<1>1. proc'[p] = q /\ Roled(p)
  BY DEF EarnedInv, EvidenceTyped
<1>2. Roled(p)'
  BY <1>1, EvidenceAssumption DEF Roled, Lasting, Early, Before, Ended, LiveSteps, Retaining
<1>3. SnapSeen(p)' /\ ControlsPassed(p)' /\ Frozen(p)'
  BY <1>1 DEF SnapSeen, ControlsPassed, Frozen, LiveSteps, Judges
<1>4. Reached(p, q)
  <2>1. p \in Runners /\ q.pc \in Retaining \cup After \cup {"done"} => AggregateTrue
    BY EvidenceAssumption DEF EarnedInv, Retained, Retaining, After
  <2>2. p \in Runners /\ q.pc \in Before => proc[p].pc \in Before
    BY DEF Before, Retaining, LiveSteps
  <2> QED
    BY <2>1, <2>2 DEF Reached, Judges
<1> QED
  BY <1>1, <1>2, <1>3, <1>4, MoveKeeps DEF Early, Retaining

LEMMA CopiedFiles == \A i \in DOMAIN CopyOrder : CopyOrder[i] \in Files
<1>1. \A i \in 1..6 : i = 1 \/ i - 1 \in 1..5
  OBVIOUS
<1>2. DOMAIN CopyOrder = 1..6 /\ CopyOrder[1] = "AGGREGATE" /\ \A i \in 1..5 : CopyOrder[i + 1] = Owners[i]
  BY DEF CopyOrder, Owners
<1>3. \A i \in 1..6 : i = 1 \/ CopyOrder[i] = Owners[i - 1]
  <2>1. \A i \in 1..6 : i = 1 \/ (i - 1) + 1 = i
    OBVIOUS
  <2> QED
    BY <1>1, <1>2, <2>1
<1> QED
  BY <1>1, <1>2, <1>3, FiveOwners DEF Files

LEMMA RetainingKeeps ==
  ASSUME EarnedInv, NEW r \in Runners, Collect(r) \/ Copy(r)
  PROVE  EarnedInv'
<1>1. /\ proc[r].pc \in {"collect", "copy"} /\ proc[r].pc \in Retaining /\ r \in Procs
      /\ proc[r] \in Processes /\ faults' \in Nat /\ Roled(r)
  BY DEF Collect, Copy, Procs, EarnedInv, EvidenceTyped, WorldTyped, Retaining
<1>2. proc[r].snap = None /\ proc[r].round = 1 /\ proc[r].ok
  BY <1>1 DEF Roled, Ended
<1>3. CASE Collect(r) /\ Reject(r)
  BY <1>1, <1>3, RejectKeeps DEF Collect, Early, Ended
<1>4. CASE Collect(r) /\ Becomes(r, [proc[r] EXCEPT !.pc = "copy"])
  <2> DEFINE q == [proc[r] EXCEPT !.pc = "copy"]
  <2>1. q \in Processes /\ q.pc = "copy" /\ SameRecords(r, q)
        /\ q.round = proc[r].round /\ q.snap = proc[r].snap /\ q.ok = proc[r].ok
    BY <1>1 DEF Processes, Steps, Before, Retaining, SameRecords
  <2>2. UNCHANGED Lasting /\ DiskTyped'
    BY <1>4 DEF Collect, world, disk, Lasting, EarnedInv, EvidenceTyped, DiskTyped
  <2> HIDE DEF q
  <2>3. proc' = [proc EXCEPT ![r] = q]
    BY <1>4 DEF Becomes, q
  <2>4. q.pc \in {"copy", "inventory"} /\ q.pc # "load" /\ q.pc # "rejudge"
    BY <2>1
  <2> QED
    BY <1>1, <1>2, <2>1, <2>2, <2>3, <2>4, GoesOn
<1>5. CASE Copy(r)
  <2>1. PICK i \in DOMAIN CopyOrder :
          /\ copies' = [copies EXCEPT ![CopyOrder[i]] = files[CopyOrder[i]]]
          /\ Becomes(r, [proc[r] EXCEPT !.read[CopyOrder[i]] = files[CopyOrder[i]],
                             !.pc = IF i < Len(CopyOrder) THEN @ ELSE "inventory"])
    BY <1>5 DEF Copy
  <2>2. PICK f \in Files : f = CopyOrder[i]
    BY CopiedFiles
  <2>3. PICK step \in {"copy", "inventory"} :
          step = IF i < Len(CopyOrder) THEN proc[r].pc ELSE "inventory"
    BY <1>5 DEF Copy
  <2>4. PICK read \in [Files -> FileSet] : read = [proc[r].read EXCEPT ![f] = files[f]]
    BY <1>1, <2>2 DEF Processes, EarnedInv, EvidenceTyped, DiskTyped
  <2> DEFINE q == [proc[r] EXCEPT !.read = read, !.pc = step]
  <2>5. q \in Processes /\ q.pc = step /\ SameRecords(r, q)
        /\ q.round = proc[r].round /\ q.snap = proc[r].snap /\ q.ok = proc[r].ok
    BY <1>1 DEF Processes, Steps, Before, Retaining, SameRecords
  <2>6. proc' = [proc EXCEPT ![r] = q]
    BY <2>1, <2>2, <2>3, <2>4 DEF Becomes
  <2>7. UNCHANGED Lasting /\ DiskTyped'
    <3>1. files[f] \in FileSet
      BY DEF EarnedInv, EvidenceTyped, DiskTyped
    <3> QED
      BY <1>5, <2>1, <2>2, <3>1 DEF Copy, world, Lasting, EarnedInv, EvidenceTyped, DiskTyped
  <2> HIDE DEF q
  <2>8. q.pc \in {"copy", "inventory"} /\ q.pc # "load" /\ q.pc # "rejudge"
    BY <2>5
  <2> QED
    BY <1>1, <1>2, <2>5, <2>6, <2>7, <2>8, GoesOn
<1> QED
  BY <1>3, <1>4, <1>5 DEF Collect

LEMMA LoadKeeps ==
  ASSUME EarnedInv, NEW p \in Procs, (p \in Verifiers /\ StartVerify(p)) \/ LoadInventory(p)
  PROVE  EarnedInv'
<1>1. /\ proc[p].pc \in {"idle", "load"} /\ proc[p] \in Processes /\ faults' \in Nat /\ Roled(p)
      /\ UNCHANGED <<world, disk, faults>>
  BY DEF StartVerify, LoadInventory, EarnedInv, EvidenceTyped, WorldTyped
<1>2. proc[p].snap = None /\ proc[p].round = 1 /\ proc[p].ok
  BY <1>1 DEF Roled, Ended
<1>3. UNCHANGED Lasting /\ DiskTyped'
  BY <1>1 DEF world, disk, Lasting, EarnedInv, EvidenceTyped, DiskTyped
<1>4. CASE LoadInventory(p) /\ Reject(p)
  BY <1>1, <1>4, RejectKeeps DEF LoadInventory, Early, Ended
<1>5. ASSUME NEW step \in {"load", "rejudge"}, Becomes(p, [proc[p] EXCEPT !.pc = step]),
             step = "load" => p \in Verifiers /\ inventory # None,
             step = "rejudge" => Referenced /\ proc[p].pc = "load"
      PROVE  EarnedInv'
  <2> DEFINE q == [proc[p] EXCEPT !.pc = step]
  <2>1. q \in Processes /\ q.pc = step /\ SameRecords(p, q)
        /\ q.round = proc[p].round /\ q.snap = proc[p].snap /\ q.ok = proc[p].ok
    BY <1>1 DEF Processes, Steps, After, Judges, SameRecords
  <2> HIDE DEF q
  <2> QED
    BY <1>1, <1>2, <1>3, <1>5, <2>1, GoesOn DEF Becomes, q
<1>6. CASE p \in Verifiers /\ StartVerify(p)
  BY <1>5, <1>6 DEF StartVerify
<1>7. CASE LoadInventory(p)
  BY <1>4, <1>5, <1>7 DEF LoadInventory, Closed, Referenced
<1> QED
  BY <1>6, <1>7

-----------------------------------------------------------------------------
(* The judgements.                                                         *)

LEMMA SnapKeeps ==
  ASSUME EarnedInv, NEW p \in Procs, Snap(p)
  PROVE  EarnedInv'
<1> DEFINE q == [proc[p] EXCEPT !.snap = tree]
<1>1. /\ proc[p].pc \in {"judge", "rejudge"} /\ proc[p].snap = None /\ proc[p] \in Processes
      /\ UNCHANGED <<world, disk, faults>> /\ proc' = [proc EXCEPT ![p] = q] /\ faults' \in Nat
      /\ tree \in Trees /\ tree \in seen /\ proc \in [Procs -> Processes]
  BY DEF Snap, Judging, Becomes, EarnedInv, EvidenceTyped, WorldTyped
<1>2. q \in Processes /\ q.pc = proc[p].pc /\ q.snap = tree /\ q.round = proc[p].round
      /\ (q.ok <=> proc[p].ok) /\ SameRecords(p, q)
  BY <1>1 DEF Processes, SomeTree, SameRecords
<1>3. UNCHANGED Lasting /\ DiskTyped'
  BY <1>1 DEF world, disk, Lasting, EarnedInv, EvidenceTyped, DiskTyped
<1> HIDE DEF q
<1>4. proc'[p] = q /\ Roled(p) /\ Caching(p) /\ ControlsPassed(p) /\ (p \in Runners => Campaigning(p))
  BY <1>1 DEF EarnedInv
<1>5. Roled(p)'
  BY <1>1, <1>2, <1>3, <1>4 DEF Roled, Lasting, Early, Before, Ended, LiveSteps, Retaining
<1>6. SnapSeen(p)' /\ ControlsPassed(p)'
  BY <1>1, <1>2, <1>3, <1>4 DEF SnapSeen, ControlsPassed, Lasting, SameRecords, LiveSteps, Judges, Passed
<1>7. ASSUME p \in Runners PROVE Frozen(p)'
  <2>1. Chron(p)
    BY <1>4, <1>7 DEF Campaigning
  <2>2. ASSUME ~undone, q.rows["SQL"].bound = tree
        PROVE  /\ AllAre(q.rows, q.trials, tree)
               /\ q.cache[tree] # None => q.cache[tree] = tree
    BY <1>1, <1>2, <1>4, <2>1, <2>2 DEF Chron, Caching, SameRecords
  <2> QED
    BY <1>2, <1>3, <1>4, <2>2 DEF Frozen, AllAre, Captured, Lasting
<1>8. Reached(p, q)
  BY <1>1, <1>2 DEF EarnedInv, Retained, Reached, Before, Retaining, After, Judges, LiveSteps
<1> QED
  BY <1>1, <1>2, <1>3, <1>5, <1>6, <1>7, <1>8, MoveKeeps DEF Early

LEMMA DriftCheckKeeps ==
  ASSUME EarnedInv, NEW p \in Procs, DriftCheck(p)
  PROVE  EarnedInv'
<1>1. /\ proc[p].pc \in {"judged", "rejudged"} /\ proc[p] \in Processes
      /\ UNCHANGED <<world, disk, faults>> /\ faults' \in Nat
      /\ proc \in [Procs -> Processes] /\ Roled(p) /\ ControlsPassed(p)
  BY DEF DriftCheck, EarnedInv, EvidenceTyped, WorldTyped
<1>2. PICK round \in {2, 4} : round = proc[p].round + 1
  BY <1>1 DEF Roled
<1>3. PICK ok \in BOOLEAN : ok <=> proc[p].ok /\ tree = proc[p].snap
  OBVIOUS
<1>4. PICK step \in {"judge", "rejudge"} : step = IF proc[p].pc = "judged" THEN "judge" ELSE "rejudge"
  OBVIOUS
<1> DEFINE q == [proc[p] EXCEPT !.ok = ok, !.pc = step, !.snap = None, !.round = round]
<1>5. proc' = [proc EXCEPT ![p] = q]
  <2>1. (proc[p].ok /\ tree = proc[p].snap) = ok
    BY <1>3
  <2> QED
    BY <1>2, <1>4, <2>1 DEF DriftCheck, Becomes
<1>6. q \in Processes /\ q.pc = step /\ q.snap = None /\ q.round = round /\ q.ok = ok /\ SameRecords(p, q)
  <2>1. step \in Steps /\ round \in 1..4
    BY DEF Steps, After, Before, Judges, LiveSteps
  <2> QED
    BY <1>1, <2>1 DEF Processes, SomeTree, SameRecords
<1>7. UNCHANGED Lasting /\ DiskTyped'
  BY <1>1 DEF world, disk, Lasting, EarnedInv, EvidenceTyped, DiskTyped
<1> HIDE DEF q
<1>8. proc'[p] = q
  BY <1>1, <1>5
<1>9. Roled(p)'
  BY <1>1, <1>4, <1>6, <1>7, <1>8 DEF Roled, Lasting, Early, Before, Ended, LiveSteps, Retaining
<1>10. ControlsPassed(p)'
  BY <1>1, <1>3, <1>4, <1>6, <1>7, <1>8 DEF ControlsPassed, Lasting, SameRecords, LiveSteps, Judges, Passed
<1>11. SnapSeen(p)' /\ Frozen(p)'
  BY <1>6, <1>8 DEF SnapSeen, Frozen
<1>12. Reached(p, q)
  BY <1>1, <1>4, <1>6 DEF EarnedInv, Retained, Reached, Before, Retaining, After, Judges, LiveSteps
<1> QED
  BY <1>1, <1>4, <1>5, <1>6, <1>7, <1>9, <1>10, <1>11, <1>12, MoveKeeps DEF Early

\* As MoveKeeps, with a compilation.
LEMMA JudgedKeeps ==
  ASSUME EarnedInv, NEW p \in Procs, NEW q \in Processes, proc' = [proc EXCEPT ![p] = q],
         UNCHANGED Lasting, DiskTyped', faults' \in Nat,
         q.rows = proc[p].rows, q.trials = proc[p].trials, q.own = proc[p].own, q.stage = proc[p].stage,
         Grows(proc[p].cache, q.cache),
         Roled(p)', SnapSeen(p)', ControlsPassed(p)', p \in Runners => Frozen(p)',
         q.pc \notin Early \cup {"owner"},
         p \in Runners /\ q.pc = "write" /\ ~undone => Earned(q.rows, q.trials),
         Reached(p, q), p \in Runners => proc[p].pc # "done"
  PROVE  EarnedInv'
<1>1. proc'[p] = q /\ (p \in Runners => Campaigning(p))
  BY DEF EarnedInv, EvidenceTyped
<1>2. Caching(p)'
  BY <1>1, GrownCache DEF Caching, Lasting
<1>3. ASSUME p \in Runners PROVE Campaigning(p)'
  <2>1. Future(p)'
    BY <1>1 DEF Future
  <2>2. Chron(p)'
    BY <1>1, <1>3 DEF Campaigning, Chron, Captured, AllAre, Lasting
  <2>3. RanRight(q.rows, q.trials, q.cache) /\ Browsed(q.rows, q.cache)
    <3>1. \A b \in Trees : proc[p].cache[b] # None => q.cache[b] = proc[p].cache[b]
      BY GrownCache
    <3> QED
      BY <1>1, <1>3, <3>1 DEF Campaigning, RanRight, Browsed
  <2> QED
    BY <1>1, <1>3, <2>1, <2>2, <2>3 DEF Campaigning, RanRight, Browsed, Earned, Lasting
<1> QED
  BY <1>2, <1>3, StepKeeps

\* What the verification of a record tells, for each owner alike.
LEMMA Verified ==
  ASSUME NEW p, NEW d, NEW o \in OwnerSet, VerifyExecuted(p, d, o), Rows(p)[o].status = "PASS"
  PROVE  /\ Rows(p)[o].bound = d.snap
         /\ o \in TypeScript => Rows(p)[o].mods = Compiled(d, d.snap)
<1>1. CASE o = "SQL"
  BY <1>1 DEF VerifyExecuted, VerifySql, BoundAndIntact, TypeScript
<1>2. CASE o = "BROWSER"
  BY <1>2 DEF VerifyExecuted, VerifyBrowser, BoundAndIntact, CompiledFrom
<1>3. CASE o = "GAP"
  BY <1>3 DEF VerifyExecuted, VerifyGap, BoundAndIntact, TypeScript
<1>4. CASE o = "DESTRUCTION"
  BY <1>4 DEF VerifyExecuted, VerifyDestruction, BoundAndIntact, CompiledFrom
<1>5. CASE o = "CLOCK"
  BY <1>5 DEF VerifyExecuted, VerifyClock, CompiledFrom
<1> QED
  BY <1>1, <1>2, <1>3, <1>4, <1>5, FiveOwners

LEMMA AllPassed ==
  ASSUME NEW p, NEW d, AllPass(p, d), d.snap \in Trees, d.cache[d.snap] # None
  PROVE  Passed(Rows(p), d.cache) /\ Rows(p)["SQL"].bound = d.snap
<1>1. ASSUME NEW o \in OwnerSet
      PROVE  /\ Rows(p)[o].status = "PASS" /\ Rows(p)[o].bound = d.snap
             /\ o \in TypeScript => Rows(p)[o].mods = d.cache[d.snap]
  <2>1. Rows(p)[o].status = "PASS" /\ VerifyExecuted(p, d, o)
    BY DEF AllPass, RecordFine
  <2> QED
    BY <2>1, Verified DEF Compiled
<1> QED
  BY <1>1, FiveOwners DEF Passed

LEMMA TrialsPassed ==
  ASSUME NEW p, NEW d, TrialsFine(p, d), d.snap \in Trees, d.cache[d.snap] # None
  PROVE  /\ Rows(p)["SQL"].bound = d.snap
         /\ \A o \in OwnerSet : /\ Trials(p)[o].bound = d.snap /\ Trials(p)[o].detected
                                /\ o \in TypeScript => Trials(p)[o].mods = d.cache[d.snap]
<1>1. \A o \in OwnerSet : Trials(p)[o].detected
  BY DEF TrialsFine
<1>2. /\ Trials(p)["GAP"].bound = d.snap
      /\ Trials(p)["DESTRUCTION"].bound = d.snap /\ Trials(p)["DESTRUCTION"].mods = d.cache[d.snap]
      /\ Trials(p)["CLOCK"].bound = d.snap /\ Trials(p)["CLOCK"].mods = d.cache[d.snap]
  BY DEF TrialsFine, GapTrialFine, DestructionTrialFine, ClockTrialFine, TrialBound, TrialCompiled,
         Compiled
<1>3. /\ Trials(p)["SQL"].bound = d.snap
      /\ Trials(p)["BROWSER"].bound = d.snap /\ Trials(p)["BROWSER"].mods = d.cache[d.snap]
      /\ Rows(p)["SQL"].status = "PASS" /\ VerifyExecuted(p, d, "SQL")
  BY DEF TrialsFine, OwnerTrialFine, TrialBound, TrialCompiled, Compiled, TypeScript
<1>4. Rows(p)["SQL"].bound = d.snap
  BY <1>3, Verified, FiveOwners
<1> QED
  BY <1>1, <1>2, <1>3, <1>4, FiveOwners DEF TypeScript

\* What four rounds that found nothing prove of the records at hand.
LEMMA FourRounds ==
  ASSUME EarnedInv, NEW r \in Runners, proc[r].pc \in LiveSteps, proc[r].ok, ~undone,
         NEW t \in Trees, proc[r].snap = t, Passed(proc[r].rows, proc[r].cache),
         proc[r].rows["SQL"].bound = t,
         \A o \in OwnerSet : /\ proc[r].trials[o].bound = t /\ proc[r].trials[o].detected
                             /\ o \in TypeScript => proc[r].trials[o].mods = proc[r].cache[t]
  PROVE  Earned(proc[r].rows, proc[r].trials)
<1>1. Campaigning(r) /\ t # None
  BY EvidenceAssumption DEF EarnedInv
<1>2. proc[r].cache[t] = t /\ AllAre(proc[r].rows, proc[r].trials, t)
  <2>1. proc[r].cache[t] # None
    BY FiveOwners DEF Passed, TypeScript
  <2> QED
    BY <1>1, <2>1 DEF Campaigning, Frozen
<1>3. ASSUME NEW o \in OwnerSet
      PROVE  /\ proc[r].rows[o].status = "PASS" /\ proc[r].rows[o].bound = t /\ proc[r].rows[o].ran = t
             /\ proc[r].trials[o].bound = t /\ proc[r].trials[o].ran = t
             /\ o \in TypeScript => proc[r].rows[o].mods = t /\ proc[r].trials[o].mods = t
             /\ <<t, o>> \notin Broken \cup Blind
  <2>1. /\ proc[r].rows[o].status = "PASS" /\ proc[r].rows[o].bound = t
        /\ o \in TypeScript => proc[r].rows[o].mods = t /\ proc[r].trials[o].mods = t
    BY <1>2 DEF Passed
  <2>2. proc[r].rows[o].ran # None /\ <<proc[r].rows[o].ran, o>> \notin Broken
    BY <1>1, <2>1 DEF Campaigning, RanRight
  <2>3. /\ proc[r].trials[o].ran # None
        /\ <<proc[r].trials[o].ran, o>> \notin Blind
             \/ (o = "CLOCK" /\ proc[r].trials[o].mods # proc[r].cache[t])
    BY <1>1 DEF Campaigning, RanRight
  <2>4. proc[r].rows[o].ran = t /\ proc[r].trials[o].ran = t
    BY <1>2, <2>2, <2>3 DEF AllAre, Captured
  <2> QED
    BY <1>2, <2>1, <2>2, <2>3, <2>4 DEF TypeScript
<1> QED
  BY <1>3, FiveOwners DEF Earned

LEMMA JudgeKeeps ==
  ASSUME EarnedInv, NEW p \in Procs, Judge(p)
  PROVE  EarnedInv'
<1> DEFINE x == proc[p]
           c == Compiling(x, x.snap).cache
<1>1. /\ x.pc \in {"judge", "rejudge"} /\ x \in Processes /\ x.snap # None /\ x.snap \in seen
      /\ UNCHANGED <<world, disk, faults>> /\ faults' \in Nat /\ proc \in [Procs -> Processes]
      /\ Roled(p) /\ ControlsPassed(p) /\ (p \in Runners => Campaigning(p))
      /\ (p \in Runners <=> p \notin Verifiers)
  BY EvidenceAssumption DEF Judge, EarnedInv, EvidenceTyped, WorldTyped, SnapSeen, Procs
<1>2. PICK t \in Trees : t = x.snap
  BY <1>1 DEF EarnedInv, EvidenceTyped, WorldTyped
<1>3. PICK d \in Processes : d = Compiling(x, x.snap)
  BY <1>1, CompilingGrows
<1>4. /\ d.cache \in [Trees -> SomeTree] /\ Grows(x.cache, d.cache)
      /\ d.cache[t] # None /\ d.snap = t /\ t # None
      /\ d.pc = x.pc /\ d.own = x.own /\ d.stage = x.stage
      /\ d.rows = x.rows /\ d.trials = x.trials /\ d.round = x.round /\ (d.ok <=> x.ok)
      /\ \A b \in Trees : x.cache[b] # None => d.cache[b] = x.cache[b]
  BY <1>1, <1>2, <1>3, CompilingGrows, GrownCache
<1>5. UNCHANGED Lasting /\ DiskTyped'
  BY <1>1 DEF world, disk, Lasting, EarnedInv, EvidenceTyped, DiskTyped
<1>6. /\ x.pc = "judge" => Rows(p) = x.rows /\ Trials(p) = x.trials
      /\ x.pc = "rejudge" => Rows(p) = aggregate.rows /\ Trials(p) = aggregate.trials
  BY DEF Rows, Trials, Live
\* A round that found nothing follows one that found nothing.
<1>7. ASSUME x.ok, x.round > 1
      PROVE  Passed(Rows(p), x.cache) /\ Passed(Rows(p), d.cache)
  <2>1. Passed(Rows(p), x.cache)
    BY <1>1, <1>6, <1>7 DEF ControlsPassed, LiveSteps, Judges
  <2>2. \A o \in TypeScript : o \in OwnerSet
    BY FiveOwners DEF TypeScript
  <2> QED
    BY <1>4, <2>1, <2>2 DEF Passed
<1>8. CASE Reject(p)
  BY <1>1, <1>8, RejectKeeps DEF Early, Ended
<1> DEFINE Leads(step, round, ok, snap) ==
             \/ /\ step = IF x.pc = "judge" THEN "judged" ELSE "rejudged"
                /\ snap = t /\ round = x.round /\ round \in {1, 3} /\ (ok => AllPass(p, d))
             \/ step = x.pc /\ round = 3 /\ x.round = 2 /\ snap = None
             \/ /\ step = "prove" /\ x.pc = "rejudge" /\ snap = t /\ x.ok /\ x.round = 4
                /\ TrialsFine(p, d)
             \/ /\ step = "write" /\ x.pc = "judge" /\ snap = None /\ round = 1 /\ ok /\ x.round = 4
                /\ TrialsFine(p, d)
           Kept(q) == /\ q.rows = x.rows /\ q.trials = x.trials /\ q.own = x.own /\ q.stage = x.stage
                      /\ q.cache = d.cache
<1>9. ASSUME NEW q \in Processes, proc' = [proc EXCEPT ![p] = q], Kept(q),
             NEW step \in Steps, q.pc = step, NEW round \in 1..4, q.round = round,
             NEW ok \in BOOLEAN, q.ok = ok, ok => x.ok, NEW snap \in {None, t}, q.snap = snap,
             Leads(step, round, ok, snap)
      PROVE  EarnedInv'
  <2>1. proc'[p] = q
    BY <1>1, <1>9
  <2>2. step \notin Early \cup {"owner", "done"} \cup Retaining /\ (step \in LiveSteps \cup Before => x.pc = "judge")
        /\ (step \in Judges => x.pc = "rejudge")
    BY <1>1, <1>9 DEF Early, Retaining, LiveSteps, Before, Judges
  <2>3. p \in Verifiers => x.pc = "rejudge"
    BY <1>1 DEF Roled, Before, LiveSteps
  <2>4. Roled(p)'
    BY <1>1, <1>4, <1>5, <1>9, <2>1, <2>2, <2>3
       DEF Roled, Lasting, Early, Before, Ended, LiveSteps, Retaining
  <2>5. SnapSeen(p)'
    BY <1>1, <1>2, <1>5, <1>9, <2>1 DEF SnapSeen, Lasting
  <2>6. ASSUME ok, step \in LiveSteps \cup Judges, round > 1 \/ step \in {"judged", "rejudged"}
        PROVE  Passed(Rows(p), d.cache)
    BY <1>1, <1>4, <1>7, <1>9, <2>6, AllPassed DEF LiveSteps, Judges
  <2>7. ControlsPassed(p)'
    BY <1>5, <1>6, <1>9, <2>1, <2>2, <2>6 DEF ControlsPassed, Passed, Lasting, LiveSteps, Judges
  <2>8. ASSUME p \in Runners, step \in LiveSteps, snap # None, ~undone, t = x.rows["SQL"].bound
        PROVE  AllAre(x.rows, x.trials, t) /\ (ok => d.cache[t] = t)
    <3>1. Frozen(p) /\ Browsed(x.rows, x.cache) /\ x.pc = "judge"
      BY <1>1, <2>2, <2>8 DEF Campaigning
    <3>2. AllAre(x.rows, x.trials, t) /\ (x.ok /\ x.cache[t] # None => x.cache[t] = t)
      BY <1>2, <1>4, <2>8, <3>1 DEF Frozen, LiveSteps
    <3>3. ASSUME ok PROVE x.cache[t] # None
      <4>1. Passed(x.rows, d.cache) /\ AllPass(p, d)
        BY <1>4, <1>6, <1>9, <2>8, <3>1, <3>3, AllPassed DEF LiveSteps
      <4> QED
        BY <2>8, <3>1, <4>1, FiveOwners DEF Passed, Browsed
    <3> QED
      BY <1>4, <1>9, <3>2, <3>3
  <2>9. p \in Runners => Frozen(p)'
    BY <1>5, <1>9, <2>1, <2>8 DEF Frozen, AllAre, Captured, Lasting
  <2>10. ASSUME p \in Runners, step = "write", ~undone
         PROVE  Earned(q.rows, q.trials)
    <3>1. x.pc = "judge" /\ x.ok /\ TrialsFine(p, d) /\ x.round = 4
      BY <1>1, <1>9, <2>10
    <3>2. /\ x.rows["SQL"].bound = t
          /\ \A o \in OwnerSet : /\ x.trials[o].bound = t /\ x.trials[o].detected
                                 /\ o \in TypeScript => x.trials[o].mods = d.cache[t]
      BY <1>4, <1>6, <3>1, TrialsPassed
    <3>3. Passed(x.rows, x.cache)
      BY <1>6, <1>7, <3>1
    <3>4. d.cache[t] = x.cache[t]
      <4>1. x.cache[t] # None
        BY <3>2, <3>3, FiveOwners DEF Passed, TypeScript
      <4> QED
        BY <1>4, <4>1
    <3> QED
      BY <1>2, <1>9, <2>10, <3>1, <3>2, <3>3, <3>4, FourRounds DEF LiveSteps
  <2>11. Reached(p, q)
    <3>1. p \in Runners /\ step \in Retaining \cup After \cup {"done"} => AggregateTrue
      BY <1>1, <1>9 DEF EarnedInv, Retained, After, Retaining, Judges
    <3>2. step \in Judges \cup {"prove"} => Referenced
      BY <1>1, <1>9 DEF EarnedInv, Retained, Judges
    <3>3. step = "prove" => Bound(snap)
      <4> SUFFICES ASSUME step = "prove" PROVE Bound(t)
        BY <1>1, <1>9
      <4>1. x.pc = "rejudge" /\ x.ok /\ TrialsFine(p, d) /\ x.round = 4
        BY <1>1, <1>9
      <4>2. /\ aggregate.rows["SQL"].bound = t
            /\ \A o \in OwnerSet : aggregate.trials[o].bound = t
        BY <1>4, <1>6, <4>1, TrialsPassed
      <4>3. \A o \in OwnerSet : aggregate.rows[o].bound = t
        BY <1>6, <1>7, <4>1, <4>2 DEF Passed
      <4> QED
        BY <4>2, <4>3 DEF Bound
    <3>4. p \in Runners /\ step \in Before => x.pc \in Before
      BY <2>2 DEF Before, LiveSteps
    <3> QED
      BY <1>9, <3>1, <3>2, <3>3, <3>4 DEF Reached
  <2> QED
    BY <1>1, <1>4, <1>5, <1>9, <2>2, <2>4, <2>5, <2>7, <2>9, <2>10, <2>11, JudgedKeeps
<1>10. ASSUME NEW q \in Processes, Becomes(p, q), Kept(q), q.ok => x.ok, q.snap \in {None, t},
              Leads(q.pc, q.round, q.ok, q.snap)
       PROVE  EarnedInv'
  <2>1. /\ q.pc \in Steps /\ q.round \in 1..4 /\ q.ok \in BOOLEAN
        /\ proc' = [proc EXCEPT ![p] = q]
    BY <1>10 DEF Processes, Becomes
  <2> HIDE DEF Leads, Kept
  <2> QED
    BY <1>9, <1>10, <2>1
<1>11. CASE Controls(p) /\ ~Reject(p)
  <2>1. x.round \in {1, 3}
    <3>1. x.round \in 1..4 /\ x.round % 2 = 1
      BY <1>1, <1>11 DEF Controls, Processes
    <3> QED
      BY <3>1
  <2>2. PICK ok \in BOOLEAN : ok <=> d.ok /\ AllPass(p, d)
    OBVIOUS
  <2>3. PICK step \in Steps : step = IF d.pc = "judge" THEN "judged" ELSE "rejudged"
    BY DEF Steps, Before, LiveSteps, After, Judges
  <2> DEFINE q == [d EXCEPT !.ok = ok, !.pc = step]
  <2>4. Becomes(p, q)
    <3>1. (d.ok /\ AllPass(p, d)) = ok
      BY <2>2
    <3> QED
      BY <1>3, <1>11, <2>3, <3>1 DEF Judge
  <2>5. /\ q \in Processes /\ q.pc = step /\ q.ok = ok /\ q.snap = t /\ q.round = x.round
        /\ Kept(q)
    BY <1>4 DEF Processes
  <2>6. Leads(step, x.round, ok, t) /\ (ok => x.ok)
    BY <1>4, <2>1, <2>2, <2>3
  <2> HIDE DEF q, Leads, Kept
  <2> QED
    BY <2>4, <2>5, <2>6, <1>10
<1>12. CASE ~Controls(p) /\ ~Reject(p)
  <2>1. x.round \in {2, 4}
    <3>1. x.round \in 1..4 /\ x.round % 2 # 1
      BY <1>1, <1>12 DEF Controls, Processes
    <3> QED
      BY <3>1
  <2>2. TrialsFine(p, d) /\ d.ok /\ d.ok = TRUE /\ x.ok
    BY <1>3, <1>4, <1>12 DEF Judge, Processes
  <2>3. \/ d.round = 2 /\ Becomes(p, [d EXCEPT !.round = 3, !.snap = None])
        \/ d.round # 2 /\ d.pc = "rejudge" /\ Becomes(p, [d EXCEPT !.pc = "prove"])
        \/ /\ d.round # 2 /\ d.pc # "rejudge"
           /\ Becomes(p, [d EXCEPT !.snap = None, !.round = 1, !.pc = "write"])
    BY <1>3, <1>12, <2>2 DEF Judge
  <2>4. /\ {"prove", "write", "judge", "rejudge"} \subseteq Steps
        /\ None \in SomeTree /\ 1 \in 1..4 /\ 3 \in 1..4
    BY DEF Steps, Before, LiveSteps, After, Judges, SomeTree
  <2>5. CASE d.round = 2 /\ Becomes(p, [d EXCEPT !.round = 3, !.snap = None])
    <3> DEFINE q == [d EXCEPT !.round = 3, !.snap = None]
    <3>1. q \in Processes
      BY <2>4 DEF Processes
    <3>2. q.pc = x.pc /\ q.ok = TRUE /\ q.snap = None /\ q.round = 3 /\ Kept(q)
      BY <1>4, <2>2 DEF Processes
    <3>3. Leads(x.pc, 3, TRUE, None)
      BY <1>4, <2>5
    <3> HIDE DEF q, Leads, Kept
    <3> QED
      BY <2>2, <2>5, <3>1, <3>2, <3>3, <1>10 DEF q
  <2>6. CASE d.round # 2 /\ d.pc = "rejudge" /\ Becomes(p, [d EXCEPT !.pc = "prove"])
    <3> DEFINE q == [d EXCEPT !.pc = "prove"]
    <3>1. q \in Processes
      BY <2>4 DEF Processes
    <3>2. q.pc = "prove" /\ q.ok = TRUE /\ q.snap = t /\ q.round = 4 /\ Kept(q)
      BY <1>4, <2>1, <2>2, <2>6 DEF Processes
    <3>3. Leads("prove", 4, TRUE, t)
      BY <1>4, <2>1, <2>2, <2>6
    <3> HIDE DEF q, Leads, Kept
    <3> QED
      BY <2>2, <2>6, <3>1, <3>2, <3>3, <1>10 DEF q
  <2>7. CASE /\ d.round # 2 /\ d.pc # "rejudge"
             /\ Becomes(p, [d EXCEPT !.snap = None, !.round = 1, !.pc = "write"])
    <3> DEFINE q == [d EXCEPT !.snap = None, !.round = 1, !.pc = "write"]
    <3>1. q \in Processes
      BY <2>4 DEF Processes
    <3>2. q.pc = "write" /\ q.ok = TRUE /\ q.snap = None /\ q.round = 1 /\ Kept(q)
      BY <1>4, <2>2 DEF Processes
    <3>3. Leads("write", 1, TRUE, None)
      BY <1>1, <1>4, <2>1, <2>2, <2>7
    <3> HIDE DEF q, Leads, Kept
    <3> QED
      BY <2>2, <2>7, <3>1, <3>2, <3>3, <1>10 DEF q
  <2> QED
    BY <2>3, <2>5, <2>6, <2>7
<1> QED
  BY <1>8, <1>11, <1>12

-----------------------------------------------------------------------------
(* What is written for later: the aggregate, the inventory, the proof.     *)

LEMMA WorksAlone ==
  ASSUME EarnedInv, NEW r \in Runners, proc[r].pc \in Before
  PROVE  /\ campaign = r /\ inventory = None /\ proof["P03"] = None /\ proof["P04"] = None
         /\ \A s \in Runners : s # r => proc[s].pc \in Early \cup {"refused", "dead"}
         /\ \A v \in Verifiers : proc[v].pc = "idle"
<1>1. \A p \in Procs : Roled(p)
  BY DEF EarnedInv
<1>2. campaign = r /\ inventory = None
  BY <1>1 DEF Roled, Procs, Before, Early, LiveSteps, Retaining
<1>3. \A k \in {"P03", "P04"} : proof[k] = None
  BY DEF EarnedInv, Proved
<1> QED
  BY <1>1, <1>2, <1>3 DEF Roled, Procs

LEMMA WriteAggregateKeeps ==
  ASSUME EarnedInv, NEW r \in Runners, WriteAggregate(r)
  PROVE  EarnedInv'
<1> DEFINE q == [proc[r] EXCEPT !.pc = "collect"]
<1>1. /\ proc[r].pc = "write" /\ proc[r].pc \in Before /\ r \in Procs /\ proc[r] \in Processes
      /\ aggregate' = [by |-> r, rows |-> proc[r].rows, trials |-> proc[r].trials]
      /\ files' = [files EXCEPT !["AGGREGATE"] = Good(r)]
      /\ proc' = [proc EXCEPT ![r] = q]
      /\ UNCHANGED <<world, campaign, copies, foreign, inventory, proof, faults>>
  BY DEF WriteAggregate, Becomes, Procs, Before, EarnedInv, EvidenceTyped
<1>2. /\ q \in Processes /\ q.pc = "collect" /\ SameRecords(r, q) /\ q.round = proc[r].round
      /\ q.snap = proc[r].snap /\ (q.ok <=> proc[r].ok)
  BY <1>1 DEF Processes, Steps, Before, Retaining, SameRecords
<1> HIDE DEF q
<1>3. /\ campaign = r /\ inventory = None /\ proof["P03"] = None /\ proof["P04"] = None
      /\ \A s \in Runners : s # r => proc[s].pc \in Early \cup {"refused", "dead"}
      /\ \A v \in Verifiers : proc[v].pc = "idle"
  BY <1>1, WorksAlone
<1>4. /\ proc' \in [Procs -> Processes] /\ proc'[r] = q
      /\ \A s \in Procs : s # r => proc'[s] = proc[s] /\ proc[s].pc \in Early \cup {"refused", "dead"}
  BY <1>1, <1>2, <1>3 DEF EarnedInv, EvidenceTyped, Procs, Early
<1>5. Campaigning(r) /\ Roled(r) /\ Caching(r) /\ SnapSeen(r)
  BY <1>1 DEF EarnedInv
<1>6. EvidenceTyped'
  <2>1. proc[r].rows \in AllRows /\ proc[r].trials \in AllTrials /\ Good(r) \in FileSet
    BY <1>1 DEF Processes, Good, FileSet
  <2> QED
    BY <1>1, <1>4, <2>1 DEF EarnedInv, EvidenceTyped, WorldTyped, DiskTyped, world, Files
<1>7. ASSUME NEW s \in Procs
      PROVE  Roled(s)' /\ Caching(s)' /\ SnapSeen(s)' /\ ControlsPassed(s)'
  <2>1. CASE s = r
    <3>1. Roled(s)'
      BY <1>1, <1>2, <1>3, <1>4, <1>5, <2>1, EvidenceAssumption
         DEF Roled, Early, Before, Ended, LiveSteps, Retaining
    <3>2. Caching(s)' /\ SnapSeen(s)' /\ ControlsPassed(s)'
      BY <1>1, <1>2, <1>4, <1>5, <2>1
         DEF Caching, SnapSeen, ControlsPassed, SameRecords, world, LiveSteps, Judges
    <3> QED
      BY <3>1, <3>2
  <2>2. CASE s # r
    <3>1. proc'[s] = proc[s] /\ Roled(s) /\ Caching(s) /\ SnapSeen(s)
          /\ proc[s].pc \notin LiveSteps \cup Judges
      BY <1>4, <2>2 DEF EarnedInv, Early, LiveSteps, Judges
    <3> QED
      BY <1>1, <3>1 DEF Roled, Caching, SnapSeen, ControlsPassed, world
  <2> QED
    BY <2>1, <2>2
<1>8. ASSUME NEW s \in Runners
      PROVE  Campaigning(s)'
  <2>1. Campaigning(s) /\ s \in Procs
    BY DEF EarnedInv, Procs
  <2>2. CASE s = r
    <3>1. Future(s)' /\ Frozen(s)'
      BY <1>2, <1>4, <2>2 DEF Future, Frozen, Early, LiveSteps
    <3>2. Chron(s)'
      BY <1>1, <1>2, <1>4, <1>5, <2>2 DEF Campaigning, Chron, Captured, AllAre, SameRecords, world
    <3>3. RanRight(q.rows, q.trials, q.cache) /\ Browsed(q.rows, q.cache)
      BY <1>2, <1>5 DEF Campaigning, SameRecords
    <3> QED
      BY <1>2, <1>4, <2>2, <3>1, <3>2, <3>3 DEF Campaigning, RanRight, Browsed
  <2>3. CASE s # r
    <3>1. proc'[s] = proc[s]
      BY <1>4, <2>1, <2>3
    <3> QED
      BY <1>1, <2>1, <3>1, CampaignLasts DEF world
  <2> QED
    BY <2>2, <2>3
<1>9. AggregateTrue'
  <2>1. ~undone => Earned(proc[r].rows, proc[r].trials)
    BY <1>1, <1>5 DEF Campaigning
  <2>2. proc[r].rows \in AllRows /\ proc[r].trials \in AllTrials
    BY <1>1 DEF Processes
  <2> QED
    BY <1>1, <1>3, <2>1, <2>2 DEF AggregateTrue, Earned, world
<1>10. Retained' /\ Proved'
  <2>1. \A s \in Procs : proc'[s].pc \notin Judges \cup {"prove"}
    BY <1>2, <1>4 DEF Judges, Early
  <2> QED
    BY <1>1, <1>3, <1>9, <2>1, EvidenceAssumption DEF Retained, Proved
<1> QED
  BY <1>6, <1>7, <1>8, <1>10 DEF EarnedInv

LEMMA WriteInventoryKeeps ==
  ASSUME EarnedInv, NEW r \in Runners, WriteInventory(r)
  PROVE  EarnedInv'
<1> DEFINE q == [proc[r] EXCEPT !.pc = "load"]
<1>1. /\ proc[r].pc = "inventory" /\ proc[r].pc \in Before /\ r \in Procs /\ proc[r] \in Processes
      /\ inventory' = [f \in Files |-> proc[r].read[f]]
      /\ proc' = [proc EXCEPT ![r] = q]
      /\ UNCHANGED <<world, campaign, files, aggregate, copies, foreign, proof, faults>>
  BY DEF WriteInventory, Becomes, Procs, Before, Retaining, EarnedInv, EvidenceTyped
<1>2. /\ q \in Processes /\ q.pc = "load" /\ SameRecords(r, q) /\ q.round = proc[r].round
      /\ q.snap = proc[r].snap /\ (q.ok <=> proc[r].ok)
  BY <1>1 DEF Processes, Steps, After, SameRecords
<1> HIDE DEF q
<1>3. /\ campaign = r /\ proof["P03"] = None /\ proof["P04"] = None
      /\ \A s \in Runners : s # r => proc[s].pc \in Early \cup {"refused", "dead"}
      /\ \A v \in Verifiers : proc[v].pc = "idle"
  BY <1>1, WorksAlone
<1>4. /\ proc' \in [Procs -> Processes] /\ proc'[r] = q
      /\ \A s \in Procs : s # r => proc'[s] = proc[s] /\ proc[s].pc \in Early \cup {"refused", "dead"}
  BY <1>1, <1>2, <1>3 DEF EarnedInv, EvidenceTyped, Procs, Early
<1>5. Campaigning(r) /\ Roled(r) /\ Caching(r) /\ SnapSeen(r)
  BY <1>1 DEF EarnedInv
<1>6. EvidenceTyped'
  <2>1. inventory' \in [Files -> FileSet]
    BY <1>1 DEF Processes
  <2> QED
    BY <1>1, <1>4, <2>1 DEF EarnedInv, EvidenceTyped, WorldTyped, DiskTyped, world
<1>7. ASSUME NEW s \in Procs
      PROVE  Roled(s)' /\ Caching(s)' /\ SnapSeen(s)' /\ ControlsPassed(s)'
  <2>1. CASE s = r
    <3>1. Roled(s)'
      BY <1>1, <1>2, <1>3, <1>4, <1>5, <2>1, EvidenceAssumption
         DEF Roled, Early, Before, Ended, LiveSteps, Retaining
    <3>2. Caching(s)' /\ SnapSeen(s)' /\ ControlsPassed(s)'
      BY <1>1, <1>2, <1>4, <1>5, <2>1
         DEF Caching, SnapSeen, ControlsPassed, SameRecords, world, LiveSteps, Judges
    <3> QED
      BY <3>1, <3>2
  <2>2. CASE s # r
    <3>1. /\ proc'[s] = proc[s] /\ Roled(s) /\ Caching(s) /\ SnapSeen(s)
          /\ proc[s].pc \notin LiveSteps \cup Judges \cup Before
          /\ s \in Verifiers => proc[s].pc = "idle"
      BY <1>3, <1>4, <2>2 DEF EarnedInv, Early, LiveSteps, Judges, Before, Retaining
    <3> QED
      BY <1>1, <3>1 DEF Roled, Caching, SnapSeen, ControlsPassed, world
  <2> QED
    BY <2>1, <2>2
<1>8. ASSUME NEW s \in Runners
      PROVE  Campaigning(s)'
  <2>1. Campaigning(s) /\ s \in Procs
    BY DEF EarnedInv, Procs
  <2>2. CASE s = r
    <3>1. Future(s)' /\ Frozen(s)'
      BY <1>2, <1>4, <2>2 DEF Future, Frozen, Early, LiveSteps
    <3>2. Chron(s)'
      BY <1>1, <1>2, <1>4, <1>5, <2>2 DEF Campaigning, Chron, Captured, AllAre, SameRecords, world
    <3>3. RanRight(q.rows, q.trials, q.cache) /\ Browsed(q.rows, q.cache)
      BY <1>2, <1>5 DEF Campaigning, SameRecords
    <3> QED
      BY <1>2, <1>4, <2>2, <3>1, <3>2, <3>3 DEF Campaigning, RanRight, Browsed
  <2>3. CASE s # r
    <3>1. proc'[s] = proc[s]
      BY <1>4, <2>1, <2>3
    <3> QED
      BY <1>1, <2>1, <3>1, CampaignLasts DEF world
  <2> QED
    BY <2>2, <2>3
<1>9. AggregateTrue'
  <2>1. AggregateTrue
    BY <1>1 DEF EarnedInv, Retained, Retaining
  <2> QED
    BY <1>1, <2>1 DEF AggregateTrue, Earned, world
<1>10. Retained' /\ Proved'
  <2>1. \A s \in Procs : proc'[s].pc \notin Judges \cup {"prove"}
    BY <1>2, <1>4 DEF Judges, Early
  <2>2. campaign # None
    BY <1>3, EvidenceAssumption
  <2> QED
    BY <1>1, <1>3, <1>9, <2>1, <2>2 DEF Retained, Proved
<1> QED
  BY <1>6, <1>7, <1>8, <1>10 DEF EarnedInv

LEMMA ProveKeeps ==
  ASSUME EarnedInv, NEW p \in Procs, Prove(p)
  PROVE  EarnedInv'
<1> DEFINE q == [proc[p] EXCEPT !.pc = "done"]
           kind == Kind(p)
<1>1. /\ proc[p].pc = "prove" /\ proc[p] \in Processes /\ Roled(p) /\ proc[p].snap # None
      /\ UNCHANGED <<world, campaign, aggregate, copies, foreign, inventory, files, faults>>
  BY DEF Prove, EarnedInv, EvidenceTyped, Roled
<1>2. CASE Reject(p) /\ UNCHANGED proof
  BY <1>1, <1>2, RejectKeeps DEF Early, Ended, disk
<1>3. CASE /\ proof' = [proof EXCEPT ![kind] = [by |-> p, snap |-> proc[p].snap]]
           /\ Becomes(p, q)
  <2>1. /\ q \in Processes /\ q.pc = "done" /\ SameRecords(p, q)
    BY <1>1 DEF Processes, Steps, Ended, SameRecords
  <2>2. proc' = [proc EXCEPT ![p] = q]
    BY <1>3 DEF Becomes
  <2> HIDE DEF q
  <2>3. /\ proc' \in [Procs -> Processes] /\ proc'[p] = q
        /\ \A s \in Procs : s # p => proc'[s] = proc[s]
    BY <2>1, <2>2 DEF EarnedInv, EvidenceTyped
  <2>4. PICK k \in {"P03", "P04"} : k = kind /\ (k = "P03" <=> p \in Runners)
    BY DEF Kind
  <2>5. /\ proof \in [{"P03", "P04"} -> {None} \cup [by : Procs, snap : Trees]]
        /\ [by |-> p, snap |-> proc[p].snap] \in [by : Procs, snap : Trees]
    BY <1>1 DEF EarnedInv, EvidenceTyped, DiskTyped, Processes, SomeTree
  <2>6. /\ proof' \in [{"P03", "P04"} -> {None} \cup [by : Procs, snap : Trees]]
        /\ proof'[k].snap = proc[p].snap
        /\ \A m \in {"P03", "P04"} : m # k => proof'[m] = proof[m]
    BY <1>3, <2>4, <2>5
  <2>7. EvidenceTyped'
    BY <1>1, <2>3, <2>6 DEF EarnedInv, EvidenceTyped, WorldTyped, DiskTyped, world
  <2>8. ASSUME NEW s \in Procs
        PROVE  Roled(s)' /\ Caching(s)' /\ SnapSeen(s)' /\ ControlsPassed(s)'
    <3>1. Roled(s) /\ Caching(s) /\ SnapSeen(s) /\ ControlsPassed(s)
      BY DEF EarnedInv
    <3>2. CASE s = p
      <4>1. Roled(s)'
        BY <1>1, <2>1, <2>3, <3>1, <3>2, EvidenceAssumption
           DEF Roled, Early, Before, Ended, LiveSteps, Retaining
      <4>2. Caching(s)' /\ SnapSeen(s)' /\ ControlsPassed(s)'
        <5>1. q.snap = proc[p].snap
          BY <1>1 DEF q, Processes
        <5> QED
          BY <1>1, <2>1, <2>3, <3>1, <3>2, <5>1
             DEF Caching, SnapSeen, ControlsPassed, SameRecords, world, LiveSteps, Judges
      <4> QED
        BY <4>1, <4>2
    <3>3. CASE s # p
      <4>1. proc'[s] = proc[s]
        BY <2>3, <3>3
      <4> QED
        BY <1>1, <3>1, <4>1 DEF Roled, Caching, SnapSeen, ControlsPassed, Passed, world
    <3> QED
      BY <3>2, <3>3
  <2>9. ASSUME NEW s \in Runners
        PROVE  Campaigning(s)'
    <3>1. Campaigning(s) /\ s \in Procs
      BY DEF EarnedInv, Procs
    <3>2. CASE s = p
      <4>1. Future(s)' /\ Frozen(s)'
        BY <2>1, <2>3, <3>2 DEF Future, Frozen, Early, LiveSteps
      <4>2. Chron(s)'
        BY <1>1, <2>1, <2>3, <3>1, <3>2 DEF Campaigning, Chron, Captured, AllAre, SameRecords, world
      <4>3. RanRight(q.rows, q.trials, q.cache) /\ Browsed(q.rows, q.cache)
        BY <2>1, <3>1, <3>2 DEF Campaigning, SameRecords
      <4> QED
        BY <2>1, <2>3, <3>2, <4>1, <4>2, <4>3 DEF Campaigning, RanRight, Browsed
    <3>3. CASE s # p
      <4>1. proc'[s] = proc[s]
        BY <2>3, <3>1, <3>3
      <4> QED
        BY <1>1, <3>1, <4>1, CampaignLasts DEF world
    <3> QED
      BY <3>2, <3>3
  <2>10. AggregateTrue' = AggregateTrue /\ Referenced' = Referenced /\ \A t : Bound(t)' <=> Bound(t)
    BY <1>1 DEF AggregateTrue, Earned, Referenced, Bound, world
  <2>11. AggregateTrue /\ Referenced /\ Bound(proc[p].snap)
    BY <1>1 DEF EarnedInv, Retained, Roled, Procs, After
  <2>12. Retained'
    <3>1. ASSUME NEW s \in Procs, proc'[s].pc = "prove"
          PROVE  Bound(proc[s].snap)'
      <4>1. s # p
        BY <2>1, <2>3, <3>1
      <4> QED
        BY <1>1, <2>3, <3>1, <4>1 DEF EarnedInv, Retained, Bound
    <3> QED
      BY <1>1, <2>10, <2>11, <3>1 DEF EarnedInv, Retained
  <2>13. \A r \in Runners : proc'[r].pc \notin Before
    <3>1. \A r \in Runners : proc[r].pc \in Before => inventory = None /\ campaign = r
      BY WorksAlone
    <3>2. p \in Runners => campaign = p
      BY <1>1 DEF Roled, Early
    <3>3. p \in Verifiers => inventory # None
      BY <1>1 DEF Roled
    <3>4. "done" \notin Before /\ "prove" \notin Before
      BY DEF Before, LiveSteps, Retaining
    <3> QED
      BY <1>1, <2>1, <2>3, <3>1, <3>2, <3>3, <3>4 DEF Procs
  <2>14. ASSUME NEW m \in {"P03", "P04"}, proof'[m] # None
         PROVE  Bound(proof[m].snap)'
    <3>1. CASE m = k
      BY <1>1, <2>6, <2>11, <3>1 DEF Bound
    <3>2. CASE m # k
      BY <1>1, <2>6, <2>14, <3>2 DEF EarnedInv, Proved, Bound
    <3> QED
      BY <3>1, <3>2
  <2>15. proof'["P03"] # None => \E r \in Runners : campaign = r /\ proc'[r].pc = "done"
    <3>1. CASE k = "P03"
      BY <1>1, <2>1, <2>3, <2>4, <3>1 DEF Roled, Early
    <3>2. CASE k # "P03"
      <4>1. p \notin Runners /\ Runners \subseteq Procs
        BY <2>4, <3>2 DEF Procs
      <4> QED
        BY <2>3, <2>6, <3>2, <4>1 DEF EarnedInv, Proved
    <3> QED
      BY <3>1, <3>2
  <2>16. Proved'
    BY <1>1, <2>10, <2>11, <2>13, <2>14, <2>15 DEF Proved
  <2> QED
    BY <2>7, <2>8, <2>9, <2>12, <2>16 DEF EarnedInv
<1> QED
  BY <1>2, <1>3 DEF Prove

-----------------------------------------------------------------------------
(* The world around.                                                       *)

LEMMA DieKeeps ==
  ASSUME EarnedInv, NEW p \in Procs, Die(p)
  PROVE  EarnedInv'
<1>1. faults' \in Nat
  BY DEF Die, Fault, EarnedInv, EvidenceTyped, WorldTyped
<1> QED
  BY <1>1, EndKeeps DEF Die, Becomes, Finished

LEMMA WorldKeeps ==
  ASSUME EarnedInv, EvidenceTyped',
         UNCHANGED <<tree, seen, undone, proc, campaign, aggregate, inventory, proof>>
  PROVE  EarnedInv'
<1>1. \A p \in Procs : Roled(p)' /\ Caching(p)' /\ SnapSeen(p)' /\ ControlsPassed(p)'
  BY DEF EarnedInv, Roled, Caching, SnapSeen, ControlsPassed, Passed
<1>2. \A r \in Runners : Campaigning(r)'
  BY DEF EarnedInv, Campaigning, Future, Chron, Captured, AllAre, Frozen, RanRight, Browsed, Earned
<1>3. Retained' /\ Proved'
  BY DEF EarnedInv, Retained, Proved, AggregateTrue, Earned, Referenced, Bound
<1> QED
  BY <1>1, <1>2, <1>3 DEF EarnedInv

LEMMA SurroundingsKeep ==
  ASSUME EarnedInv,
         \/ Compile \/ AddForeign
         \/ \E x \in {"chrome", "node"} : Outage(x) \/ Return(x)
         \/ \E f \in Files : AlterFile(f) \/ AlterCopy(f)
  PROVE  EarnedInv'
<1>1. UNCHANGED <<tree, seen, undone, proc, campaign, aggregate, inventory, proof>>
  BY DEF Compile, AddForeign, Outage, Return, AlterFile, AlterCopy, world, disk
<1>2. CASE Compile \/ AddForeign \/ \E x \in {"chrome", "node"} : Outage(x) \/ Return(x)
  BY <1>1, <1>2, WorldKeeps
     DEF Compile, AddForeign, Outage, Return, Fault, world, disk, EarnedInv, EvidenceTyped, WorldTyped,
         DiskTyped
<1>3. ASSUME NEW f \in Files, AlterFile(f) \/ AlterCopy(f)
      PROVE  EarnedInv'
  <2>1. \A g \in FileSet : g # None => [g EXCEPT !.ok = FALSE] \in FileSet
    BY DEF FileSet
  <2>2. files[f] \in FileSet /\ copies[f] \in FileSet
    BY DEF EarnedInv, EvidenceTyped, DiskTyped
  <2>3. files' \in [Files -> FileSet] /\ copies' \in [Files -> FileSet]
    BY <1>3, <2>1, <2>2 DEF AlterFile, AlterCopy, EarnedInv, EvidenceTyped, DiskTyped
  <2> QED
    BY <1>1, <1>3, <2>3, WorldKeeps
       DEF AlterFile, AlterCopy, Fault, world, EarnedInv, EvidenceTyped, WorldTyped, DiskTyped
<1> QED
  BY <1>2, <1>3

\* An edit that undoes none brings a tree that nobody captured.
LEMMA EditKeeps ==
  ASSUME EarnedInv, NEW t \in Trees, Edit(t)
  PROVE  EarnedInv'
<1>1. /\ tree' = t /\ seen' = seen \cup {t} /\ undone' = (undone \/ t \in seen)
      /\ UNCHANGED <<fresh, build, up, proc, disk, faults>> /\ edits' = edits + 1
  BY DEF Edit
<1>2. EvidenceTyped' /\ None \notin Trees
  BY <1>1, EvidenceAssumption DEF EarnedInv, EvidenceTyped, WorldTyped, DiskTyped, disk
<1>3. ~undone' => ~undone /\ t \notin seen
  BY <1>1
<1>4. ASSUME NEW p \in Procs
      PROVE  Roled(p)' /\ Caching(p)' /\ SnapSeen(p)' /\ ControlsPassed(p)'
  <2>1. Roled(p) /\ Caching(p) /\ SnapSeen(p) /\ ControlsPassed(p)
    BY DEF EarnedInv
  <2>2. Caching(p)'
    BY <1>1, <1>3, <2>1 DEF Caching
  <2> QED
    BY <1>1, <2>1, <2>2 DEF Roled, SnapSeen, ControlsPassed, Passed, disk
<1>5. ASSUME NEW r \in Runners
      PROVE  Campaigning(r)'
  <2>1. Campaigning(r)
    BY DEF EarnedInv
  <2>2. Chron(r)'
    <3>1. Chron(r) /\ "SQL" \in OwnerSet
      BY <2>1, FiveOwners DEF Campaigning
    <3>2. \A o \in OwnerSet : Captured(proc[r].rows, proc[r].trials, o) \subseteq {None} \cup seen'
      BY <1>1, <3>1 DEF Chron
    <3>3. proc[r].rows["SQL"].bound \in {None} \cup seen
      BY <3>1 DEF Chron, Captured
    <3>4. ~undone' => proc[r].rows["SQL"].bound # t
      BY <1>2, <1>3, <3>3
    <3> QED
      BY <1>1, <3>2, <3>4 DEF Chron, Captured
  <2>3. Frozen(r)'
    BY <1>1, <1>3, <2>1 DEF Campaigning, Frozen, AllAre, Captured
  <2> QED
    BY <1>1, <1>3, <2>1, <2>2, <2>3 DEF Campaigning, Future, RanRight, Browsed, Earned
<1>6. Retained' /\ Proved'
  BY <1>1, <1>3 DEF EarnedInv, Retained, Proved, AggregateTrue, Earned, Referenced, Bound, disk
<1> QED
  BY <1>2, <1>4, <1>5, <1>6 DEF EarnedInv

-----------------------------------------------------------------------------

LEMMA EvidenceStarts == ASSUME Init PROVE EarnedInv
<1>1. /\ proc = [p \in Procs |-> Idle] /\ campaign = None /\ inventory = None /\ aggregate = None
      /\ tree \in Trees /\ seen = {tree} /\ proof = [k \in {"P03", "P04"} |-> None]
      /\ None \notin Trees
  BY EvidenceAssumption DEF Init
<1>2. Idle \in Processes
  <2>1. NoRow \in RowSet /\ NoTrial \in TrialSet
    BY DEF NoRow, NoTrial, RowSet, TrialSet, SomeTree
  <2>2. /\ [o \in OwnerSet |-> NoRow] \in AllRows /\ [o \in OwnerSet |-> NoTrial] \in AllTrials
        /\ [f \in Files |-> None] \in [Files -> FileSet] /\ [t \in Trees |-> None] \in [Trees -> SomeTree]
        /\ None \in SomeTree /\ "idle" \in Steps
    BY <2>1 DEF AllRows, AllTrials, FileSet, SomeTree, Steps, Early
  <2> QED
    BY <2>2 DEF Idle, Processes
<1>3. EvidenceTyped
  <2>1. DiskTyped
    BY DEF Init, DiskTyped, FileSet
  <2>2. WorldTyped
    BY <1>1 DEF Init, WorldTyped
  <2> QED
    BY <1>1, <1>2, <2>1, <2>2 DEF EvidenceTyped
<1>4. ASSUME NEW p \in Procs
      PROVE  /\ proc[p] = Idle /\ Idle.pc = "idle" /\ Idle.own = 1 /\ Idle.stage = 1 /\ Idle.snap = None
             /\ Idle.round = 1 /\ Idle.ok /\ Idle.cache = [t \in Trees |-> None]
             /\ Idle.rows = [o \in OwnerSet |-> NoRow] /\ Idle.trials = [o \in OwnerSet |-> NoTrial]
  BY <1>1 DEF Idle
<1>5. ASSUME NEW p \in Procs
      PROVE  Roled(p) /\ Caching(p) /\ SnapSeen(p) /\ ControlsPassed(p)
  BY <1>1, <1>4
     DEF Roled, Caching, SnapSeen, ControlsPassed, Early, Before, Ended, LiveSteps, Retaining, Judges
<1>6. ASSUME NEW r \in Runners
      PROVE  Campaigning(r)
  <2>1. /\ proc[r].pc = "idle" /\ proc[r].own = 1 /\ proc[r].stage = 1 /\ proc[r].snap = None
        /\ \A o \in OwnerSet : proc[r].rows[o] = NoRow /\ proc[r].trials[o] = NoTrial
    BY <1>4 DEF Procs
  <2>2. Future(r)
    <3>1. 1 <= Len(Stages(Owners[1]))
      BY OwnersStages, FiveOwners
    <3> QED
      BY <2>1, <3>1, FiveOwners DEF Future, Early
  <2>3. Chron(r)
    BY <1>1, <2>1, FiveOwners DEF Chron, Captured, AllAre, NoRow, NoTrial
  <2>4. RanRight(proc[r].rows, proc[r].trials, proc[r].cache) /\ Browsed(proc[r].rows, proc[r].cache)
    BY <2>1, FiveOwners, EvidenceAssumption DEF RanRight, Browsed, NoRow, NoTrial
  <2> QED
    BY <2>1, <2>2, <2>3, <2>4 DEF Campaigning, Frozen
<1>7. Retained /\ Proved
  BY <1>1, <1>4 DEF Retained, Proved, Procs, Retaining, After, Judges
<1> QED
  BY <1>3, <1>5, <1>6, <1>7 DEF EarnedInv

LEMMA EvidenceSteps == ASSUME EarnedInv, [Next]_vars PROVE EarnedInv'
<1>1. ASSUME NEW r \in Runners, Campaign(r) PROVE EarnedInv'
  BY <1>1, BeginKeeps, ClaimKeeps, CaptureKeeps, RunCaseKeeps, RunTrialKeeps, RecapturesKeep,
     DriftKeeps, WriteAggregateKeeps, RetainingKeeps, WriteInventoryKeeps DEF Campaign
<1>2. ASSUME NEW p \in Procs, Validation(p) PROVE EarnedInv'
  BY <1>2, SnapKeeps, JudgeKeeps, DriftCheckKeeps, LoadKeeps, ProveKeeps DEF Validation
<1>3. ASSUME NEW v \in Verifiers, StartVerify(v) PROVE EarnedInv'
  BY <1>3, LoadKeeps DEF Procs
<1>4. CASE UNCHANGED vars
  BY <1>4, WorldKeeps DEF vars, world, disk, EarnedInv, EvidenceTyped, WorldTyped, DiskTyped
<1> QED
  BY <1>1, <1>2, <1>3, <1>4, DieKeeps, EditKeeps, SurroundingsKeep DEF Next

LEMMA EarnedProof == ASSUME EarnedInv PROVE ProofEarned
<1>1. EarnedOnOneTree
  <2>1. SUFFICES ASSUME NEW k \in {"P03", "P04"}, proof[k] # None, ~undone, NEW o \in OwnerSet
                 PROVE  LET t == proof[k].snap IN
                        /\ aggregate.rows[o].status = "PASS"
                        /\ aggregate.rows[o].bound = t /\ aggregate.rows[o].ran = t
                        /\ aggregate.trials[o].bound = t /\ aggregate.trials[o].ran = t
                        /\ o \in TypeScript => {aggregate.rows[o].mods, aggregate.trials[o].mods} = {t}
                        /\ <<t, o>> \notin Broken \cup Blind
    BY DEF EarnedOnOneTree
  <2>2. Earned(aggregate.rows, aggregate.trials) /\ Bound(proof[k].snap)
    BY <2>1 DEF EarnedInv, Proved, AggregateTrue
  <2>3. aggregate.rows["SQL"].bound = proof[k].snap
    BY <2>2, FiveOwners DEF Bound
  <2> QED
    BY <2>1, <2>2, <2>3 DEF Earned
<1>2. OneCampaign
  <2>1. \A r \in Runners : proc[r].pc \notin {"idle", "claim", "refused", "dead"} => campaign = r
    BY DEF EarnedInv, Roled, Procs, Early
  <2>2. proof["P03"] # None => proc[campaign].pc = "done"
    BY DEF EarnedInv, Proved
  <2>3. ASSUME NEW k \in {"P03", "P04"}, proof[k] # None
        PROVE  /\ aggregate.by = campaign
               /\ \A o \in OwnerSet : /\ inventory[o] = Good(campaign)
                                      /\ aggregate.rows[o].bound = proof[k].snap
                                      /\ aggregate.trials[o].bound = proof[k].snap
    BY <2>3 DEF EarnedInv, Proved, AggregateTrue, Referenced, Bound
  <2> QED
    BY <2>1, <2>2, <2>3 DEF OneCampaign
<1> QED
  BY <1>1, <1>2 DEF ProofEarned

(* A qualification proof was earned: as long as no edit was undone, one     *)
(* tree is what every owner recorded and what every case and trial ran on,  *)
(* and that tree passes them all; and the proof is of the one campaign of   *)
(* the evidence directory, whoever altered files or died meanwhile.         *)
THEOREM ProofsAreEarned == Spec => []ProofEarned
<1>1. Init => EarnedInv
  BY EvidenceStarts
<1>2. EarnedInv /\ [Next]_vars => EarnedInv'
  BY EvidenceSteps
<1>3. EarnedInv => ProofEarned
  BY EarnedProof
<1> QED
  BY <1>1, <1>2, <1>3, PTL DEF Spec

-----------------------------------------------------------------------------
(* An undisturbed campaign: every record is the one a sound tree gives.    *)

Calm == edits = 0 /\ faults = 0 /\ fresh /\ Sound(tree)

ModsOf(o) == IF o \in TypeScript THEN tree ELSE None
FullRow(o) == [status |-> "PASS", bound |-> tree, ran |-> tree, mods |-> ModsOf(o)]
FullTrial(o) == [bound |-> tree, ran |-> tree, mods |-> ModsOf(o), detected |-> TRUE]
FullAt(r, o) == proc[r].rows[o] = FullRow(o) /\ proc[r].trials[o] = FullTrial(o) /\ files[o] = Good(r)
FullAggregate == \A o \in OwnerSet : aggregate.rows[o] = FullRow(o) /\ aggregate.trials[o] = FullTrial(o)

\* The stages before the k-th have left what they leave.
Past(o, stage, k) == \E j \in 1..4 : j < k /\ Stages(o)[j] = stage
Left(r, row, trial, file, o, k) ==
  /\ Past(o, "capture", k) => row.bound = tree
  /\ Past(o, "case", k) => /\ row.status = "PASS" /\ row.ran = tree /\ row.mods = ModsOf(o)
                           /\ file = Good(r)
  /\ Past(o, "recapture", k) => trial.bound = tree
  /\ Past(o, "trial", k) => /\ trial.ran = tree /\ trial.mods = ModsOf(o) /\ trial.detected
                            /\ o \in {"GAP", "CLOCK"} => trial.bound = tree

Settled ==
  /\ FullAggregate
  /\ \A f \in Files : files[f] = Good(campaign) /\ copies[f] = Good(campaign)
                      /\ inventory[f] = Good(campaign)

CalmWorld == seen = {tree} /\ build = tree /\ up = {"chrome", "node"} /\ ~foreign
CalmProcess(p) ==
  LET x == proc[p] IN
  /\ \A b \in Trees : x.cache[b] \in {None, tree}
  /\ x.snap \in {None, tree} /\ x.ok /\ x.pc # "dead"
  /\ x.pc = "rejected" => ProvedByOther(p)

CalmRunner(r) ==
  LET x == proc[r] IN
  /\ x.pc = "owner" =>
       /\ \A i \in 1..5 : i < x.own => FullAt(r, Owners[i])
       /\ Left(r, x.rows[Owner(r)], x.trials[Owner(r)], files[Owner(r)], Owner(r), x.stage)
  /\ x.pc \in LiveSteps \cup {"write"} \cup Retaining => \A o \in OwnerSet : FullAt(r, o)
  /\ x.pc \in LiveSteps \cup {"owner", "write", "collect"} => \A f \in Files : copies[f] = None
  /\ x.pc \in Retaining => files["AGGREGATE"] = Good(r) /\ FullAggregate
  /\ x.pc = "copy" =>
       \A f \in Files : copies[f] \in {None, Good(r)} /\ (copies[f] # None => x.read[f] = Good(r))
  /\ x.pc = "inventory" => \A f \in Files : copies[f] = Good(r) /\ x.read[f] = Good(r)
  /\ x.pc \in After \cup {"done"} => Settled

CalmDisk ==
  /\ campaign = None => \A f \in Files : copies[f] = None
  /\ inventory # None => Settled
  /\ proof["P04"] # None => proof["P04"].by \in Verifiers /\ proc[proof["P04"].by].pc = "done"

CalmState ==
  /\ CalmWorld /\ CalmDisk
  /\ \A p \in Procs : CalmProcess(p)
  /\ \A r \in Runners : CalmRunner(r)

CalmInv == Calm => CalmState

\* What holds of a calm runner that did not move, when its files are the same.
LEMMA RunnerLasts ==
  ASSUME NEW r \in Runners, CalmRunner(r), proc'[r] = proc[r], tree' = tree,
         files' = files, copies' = copies, aggregate' = aggregate, Settled => Settled'
  PROVE  CalmRunner(r)'
<1>1. \A o : FullAt(r, o) => FullAt(r, o)'
  BY DEF FullAt, FullRow, FullTrial, ModsOf
<1>2. \A row, trial, file, o, k : Left(r, row, trial, file, o, k) => Left(r, row, trial, file, o, k)'
  BY DEF Left, ModsOf
<1>3. FullAggregate => FullAggregate'
  BY DEF FullAggregate, FullRow, FullTrial, ModsOf
<1>4. Owner(r)' = Owner(r)
  BY DEF Owner
<1>5. (proc[r].pc = "owner" =>
         /\ \A i \in 1..5 : i < proc[r].own => FullAt(r, Owners[i])
         /\ Left(r, proc[r].rows[Owner(r)], proc[r].trials[Owner(r)], files[Owner(r)], Owner(r),
                 proc[r].stage))'
  BY <1>1, <1>4 DEF CalmRunner, Left, ModsOf
<1> QED
  BY <1>1, <1>3, <1>5 DEF CalmRunner

LEMMA CalmFacts ==
  ASSUME EarnedInv, Calm, CalmState
  PROVE  /\ tree \in Trees /\ None \notin Trees /\ tree # None
         /\ \A o \in OwnerSet : Right(o) /\ ~Blocked(o) /\ Caught(o)
         /\ build = tree /\ seen = {tree} /\ ~foreign
         /\ \A p \in Procs : Compiled(proc[p], tree) = tree
<1>1. tree \in Trees /\ None \notin Trees
  BY EvidenceAssumption DEF EarnedInv, EvidenceTyped, WorldTyped
<1>2. /\ build = tree /\ seen = {tree} /\ ~foreign /\ up = {"chrome", "node"}
      /\ \A o \in OwnerSet : <<tree, o>> \notin Broken \cup Blind
  BY DEF CalmState, CalmWorld, Calm, Sound
<1>3. \A o \in OwnerSet : Right(o) /\ ~Blocked(o) /\ Caught(o)
  BY <1>2 DEF Right, Blocked, Caught
<1>4. \A p \in Procs : Compiled(proc[p], tree) = tree
  BY <1>1 DEF CalmState, CalmProcess, Compiled
<1> QED
  BY <1>1, <1>2, <1>3, <1>4

LEMMA PastStages ==
  ASSUME NEW o \in OwnerSet, NEW stage
  PROVE  /\ ~Past(o, stage, 1)
         /\ \A k \in 1..4 : Past(o, stage, k + 1) <=> Past(o, stage, k) \/ Stages(o)[k] = stage
<1>1. \A j \in 1..4 : ~(j < 1)
  OBVIOUS
<1>2. \A k, j \in 1..4 : j < k + 1 <=> j < k \/ j = k
  OBVIOUS
<1> QED
  BY <1>1, <1>2 DEF Past

\* What is past when a stage comes.
LEMMA PastWhen ==
  ASSUME NEW o \in OwnerSet, NEW k \in 1..4, k <= Len(Stages(o))
  PROVE  /\ Stages(o)[k] = "case" /\ o # "DESTRUCTION" => Past(o, "capture", k)
         /\ Stages(o)[k] = "recapture" /\ o = "DESTRUCTION" =>
              Past(o, "capture", k) /\ Past(o, "case", k) /\ Past(o, "trial", k)
         /\ Stages(o)[k] = "trial" /\ o \in {"SQL", "BROWSER"} =>
              Past(o, "capture", k) /\ Past(o, "case", k) /\ Past(o, "recapture", k)
         /\ Stages(o)[k] = "trial" /\ o \in {"GAP", "CLOCK"} => Past(o, "capture", k)
         /\ Stages(o)[k] = "drift" => Past(o, "capture", k)
<1>1. 1 < 2 /\ 1 < 3 /\ 1 < 4 /\ 2 < 3 /\ 2 < 4 /\ 3 < 4 /\ {1, 2, 3, 4} = 1..4
  OBVIOUS
<1>2. \A n \in 1..3 : n = 1 \/ n = 2 \/ n = 3
  OBVIOUS
<1>3. k = 1 \/ k = 2 \/ k = 3 \/ k = 4
  OBVIOUS
<1>4. CASE o \in {"SQL", "BROWSER"}
  <2>1. /\ Stages(o)[1] = "capture" /\ Stages(o)[2] = "case"
        /\ Stages(o)[3] = "recapture" /\ Stages(o)[4] = "trial"
    BY <1>4, OwnersStages
  <2> QED
    BY <1>1, <1>3, <1>4, <2>1 DEF Past
<1>5. CASE o = "GAP"
  <2>1. Len(Stages(o)) = 3 /\ Stages(o)[1] = "capture" /\ Stages(o)[2] = "case" /\ Stages(o)[3] = "trial"
    BY <1>5, OwnersStages
  <2>2. k = 1 \/ k = 2 \/ k = 3
    <3>1. \A n \in 1..4 : n <= 3 => n = 1 \/ n = 2 \/ n = 3
      OBVIOUS
    <3>2. k <= 3
      BY <2>1
    <3> QED
      BY <3>1, <3>2
  <2> QED
    BY <1>1, <1>5, <2>1, <2>2 DEF Past
<1>6. CASE o = "DESTRUCTION"
  <2>1. /\ Stages(o)[1] = "case" /\ Stages(o)[2] = "capture"
        /\ Stages(o)[3] = "trial" /\ Stages(o)[4] = "recapture"
    BY <1>6, OwnersStages
  <2> QED
    BY <1>1, <1>3, <1>6, <2>1 DEF Past
<1>7. CASE o = "CLOCK"
  <2>1. /\ Stages(o)[1] = "capture" /\ Stages(o)[2] = "case"
        /\ Stages(o)[3] = "trial" /\ Stages(o)[4] = "drift"
    BY <1>7, OwnersStages
  <2> QED
    BY <1>1, <1>3, <1>7, <2>1 DEF Past
<1> QED
  BY <1>4, <1>5, <1>6, <1>7, FiveOwners

LEMMA PastAll ==
  ASSUME NEW o \in OwnerSet, NEW k \in 1..4, k = Len(Stages(o))
  PROVE  /\ Past(o, "capture", k + 1) /\ Past(o, "case", k + 1) /\ Past(o, "trial", k + 1)
         /\ o \in {"SQL", "BROWSER", "DESTRUCTION"} => Past(o, "recapture", k + 1)
<1>1. /\ 1 < 4 /\ 2 < 4 /\ 3 < 4 /\ 1 < 5 /\ 2 < 5 /\ 3 < 5 /\ 4 < 5 /\ {1, 2, 3, 4} = 1..4
      /\ 3 + 1 = 4 /\ 4 + 1 = 5
  OBVIOUS
<1>2. CASE o \in {"SQL", "BROWSER"}
  <2>1. /\ Len(Stages(o)) = 4 /\ Stages(o)[1] = "capture" /\ Stages(o)[2] = "case"
        /\ Stages(o)[3] = "recapture" /\ Stages(o)[4] = "trial"
    <3>1. Stages(o) = <<"capture", "case", "recapture", "trial">>
      BY <1>2, OwnersStages
    <3> QED
      BY <3>1
  <2>2. k = 4 /\ k + 1 = 5
    BY <1>1, <2>1
  <2> QED
    BY <1>1, <2>1, <2>2 DEF Past
<1>3. CASE o = "GAP"
  <2>1. Len(Stages(o)) = 3 /\ Stages(o)[1] = "capture" /\ Stages(o)[2] = "case" /\ Stages(o)[3] = "trial"
    BY <1>3, OwnersStages
  <2> QED
    BY <1>1, <1>3, <2>1 DEF Past
<1>4. CASE o = "DESTRUCTION"
  <2>1. /\ Len(Stages(o)) = 4 /\ Stages(o)[1] = "case" /\ Stages(o)[2] = "capture"
        /\ Stages(o)[3] = "trial" /\ Stages(o)[4] = "recapture"
    BY <1>4, OwnersStages
  <2> QED
    BY <1>1, <2>1 DEF Past
<1>5. CASE o = "CLOCK"
  <2>1. /\ Len(Stages(o)) = 4 /\ Stages(o)[1] = "capture" /\ Stages(o)[2] = "case"
        /\ Stages(o)[3] = "trial" /\ Stages(o)[4] = "drift"
    BY <1>5, OwnersStages
  <2> QED
    BY <1>1, <1>5, <2>1 DEF Past
<1> QED
  BY <1>2, <1>3, <1>4, <1>5, FiveOwners

LEMMA LeftFull ==
  ASSUME NEW r, NEW row \in RowSet, NEW trial \in TrialSet, NEW file, NEW o \in OwnerSet,
         NEW k \in 1..4, k = Len(Stages(o)), Left(r, row, trial, file, o, k + 1)
  PROVE  row = FullRow(o) /\ trial = FullTrial(o) /\ file = Good(r)
<1>1. /\ row.bound = tree /\ row.status = "PASS" /\ row.ran = tree /\ row.mods = ModsOf(o)
      /\ file = Good(r) /\ trial.ran = tree /\ trial.mods = ModsOf(o) /\ trial.detected
      /\ o \in {"GAP", "CLOCK", "SQL", "BROWSER", "DESTRUCTION"} => trial.bound = tree
  BY PastAll DEF Left
<1>2. trial.bound = tree
  BY <1>1, FiveOwners
<1>3. trial.detected = TRUE
  BY <1>1 DEF TrialSet
<1> QED
  BY <1>1, <1>2, <1>3 DEF RowSet, TrialSet, FullRow, FullTrial

\* One stage, in a calm world.
LEMMA CalmWork ==
  ASSUME EarnedInv, Calm, CalmState, NEW r \in Runners, proc[r].pc = "owner",
         NEW row \in RowSet, NEW trial \in TrialSet, NEW c \in [Trees -> SomeTree],
         NEW d \in Processes, Works(r, row, trial, c, d), NEW file,
         Left(r, row, trial, file, Owner(r), proc[r].stage + 1),
         proc' = [proc EXCEPT ![r] = Next1(d)],
         \/ files' = files /\ file = files[Owner(r)]
         \/ files' = [files EXCEPT ![Owner(r)] = Good(r)] /\ file = Good(r),
         UNCHANGED <<world, campaign, aggregate, copies, foreign, inventory, proof>>
  PROVE  CalmState'
<1> DEFINE q == Next1(d)
<1>1. PICK own \in 1..5 : own = proc[r].own
  BY DEF EarnedInv, EvidenceTyped, Processes, Procs
<1>2. PICK o \in OwnerSet : o = Owner(r) /\ o = Owners[own]
  BY <1>1, FiveOwners DEF Owner
<1>3. PICK stage \in 1..4 : stage = proc[r].stage
  BY DEF EarnedInv, EvidenceTyped, Processes, Procs
<1>4. r \in Procs /\ Campaigning(r) /\ CalmProcess(r) /\ CalmRunner(r) /\ Roled(r)
      /\ proc \in [Procs -> Processes] /\ files \in [Files -> FileSet]
  BY DEF EarnedInv, CalmState, Procs, EvidenceTyped, DiskTyped
<1>5. /\ d.pc = "owner" /\ d.own = own /\ d.stage = stage /\ Keeps(d, q) /\ q \in Processes
      /\ \/ q.pc = "owner" /\ q.own = own /\ q.stage = stage + 1 /\ stage < Len(Stages(o))
         \/ q.pc = "owner" /\ q.own = own + 1 /\ q.stage = 1 /\ stage >= Len(Stages(o))
         \/ q.pc = "judge" /\ own = 5 /\ stage >= Len(Stages(o))
  BY <1>1, <1>2, <1>3, NextStage DEF Works
<1>6. stage <= Len(Stages(o))
  BY <1>1, <1>2, <1>3, <1>4 DEF Campaigning, Future
<1>7. proc'[r] = q /\ \A s \in Procs : s # r => proc'[s] = proc[s]
  BY <1>4
<1> HIDE DEF q
<1>8. /\ proc[r].rows \in AllRows /\ proc[r].trials \in AllTrials
      /\ q.rows = [proc[r].rows EXCEPT ![o] = row] /\ q.trials = [proc[r].trials EXCEPT ![o] = trial]
      /\ q.cache = c /\ Grows(proc[r].cache, c) /\ q.snap = proc[r].snap /\ (q.ok <=> proc[r].ok)
  BY <1>2, <1>4, <1>5 DEF Works, Keeps, Processes
<1>9. /\ q.rows[o] = row /\ q.trials[o] = trial
      /\ \A x \in OwnerSet : x # o => q.rows[x] = proc[r].rows[x] /\ q.trials[x] = proc[r].trials[x]
  BY <1>8 DEF AllRows, AllTrials
<1>10. files'[o] = file /\ \A f \in Files : f # o => files'[f] = files[f]
  BY <1>2, <1>4 DEF Files
<1>11. /\ proc[r].pc \in Before /\ inventory = None /\ campaign = r /\ proof["P04"] = None
       /\ \A s \in Runners : s # r => proc[s].pc \in Early \cup {"refused", "dead"}
       /\ q.pc \in {"owner", "judge"}
  BY <1>5, WorksAlone DEF Before
<1>12. \A t, x : (FullRow(x) = FullRow(x)' /\ FullTrial(x) = FullTrial(x)')
  BY DEF FullRow, FullTrial, ModsOf, world
<1>13. ASSUME NEW i \in 1..5, i < own
       PROVE  FullAt(r, Owners[i])'
  <2>1. Owners[i] # o /\ Owners[i] \in OwnerSet /\ Owners[i] \in Files
    BY <1>2, <1>13, FiveOwners DEF Files
  <2>2. FullAt(r, Owners[i])
    BY <1>1, <1>4, <1>13 DEF CalmRunner
  <2> QED
    BY <1>7, <1>9, <1>10, <2>1, <2>2 DEF FullAt, FullRow, FullTrial, ModsOf, world
<1>14. ASSUME stage >= Len(Stages(o))
       PROVE  FullAt(r, o)'
  <2>1. stage = Len(Stages(o))
    <3>1. PICK n \in 3..4 : n = Len(Stages(o))
      BY StageLengths
    <3> QED
      BY <1>6, <1>14, <3>1
  <2>2. row = FullRow(o) /\ trial = FullTrial(o) /\ file = Good(r)
    BY <1>2, <1>3, <2>1, LeftFull
  <2> QED
    BY <1>7, <1>9, <1>10, <2>2 DEF FullAt, FullRow, FullTrial, ModsOf, world
<1>15. CalmRunner(r)'
  <2>1. ASSUME q.pc = "owner", NEW i \in 1..5, i < q.own
        PROVE  FullAt(r, Owners[i])'
    <3>1. CASE i < own
      BY <1>13, <3>1
    <3>2. CASE ~(i < own)
      <4>1. i = own /\ stage >= Len(Stages(o))
        BY <1>5, <2>1, <3>2
      <4> QED
        BY <1>2, <1>14, <4>1
    <3> QED
      BY <3>1, <3>2
  <2>2. ASSUME q.pc = "owner"
        PROVE  Left(r, q.rows[Owner(r)], q.trials[Owner(r)], files[Owner(r)], Owner(r), q.stage)'
    <3>1. CASE q.own = own /\ q.stage = stage + 1
      <4>1. Owner(r)' = o
        BY <1>2, <1>7, <3>1 DEF Owner
      <4>2. Left(r, row, trial, file, o, stage + 1)
        BY <1>2, <1>3
      <4> QED
        BY <1>7, <1>9, <1>10, <3>1, <4>1, <4>2 DEF Left, ModsOf, world
    <3>2. CASE q.stage = 1
      <4>1. PICK y \in OwnerSet : y = Owner(r)'
        BY <1>5, <1>7, FiveOwners DEF Owner, Processes
      <4> QED
        BY <1>7, <3>2, <4>1, PastStages DEF Left
    <3> QED
      BY <1>5, <2>2, <3>1, <3>2
  <2>3. ASSUME q.pc = "judge", NEW x \in OwnerSet
        PROVE  FullAt(r, x)'
    <3>1. own = 5 /\ stage >= Len(Stages(o))
      BY <1>5, <2>3
    <3>2. PICK i \in 1..5 : x = Owners[i]
      BY FiveOwners
    <3>3. i < own \/ i = own
      BY <3>1
    <3> QED
      BY <1>2, <1>13, <1>14, <3>1, <3>2, <3>3
  <2>4. \A f \in Files : copies[f] = None
    BY <1>4 DEF CalmRunner
  <2> QED
    BY <1>7, <1>11, <2>1, <2>2, <2>3, <2>4 DEF CalmRunner, LiveSteps, Retaining, After, Judges
<1>16. ASSUME NEW s \in Runners, s # r
       PROVE  CalmRunner(s)'
  <2>1. proc'[s] = proc[s] /\ proc[s].pc \in Early \cup {"refused", "dead"}
    BY <1>7, <1>11, <1>16 DEF Procs
  <2> QED
    BY <2>1 DEF CalmRunner, LiveSteps, Retaining, After, Judges, Early
<1>17. ASSUME NEW s \in Procs
       PROVE  CalmProcess(s)'
  <2>1. CalmProcess(s)
    BY DEF CalmState
  <2>2. CASE s = r
    <3>1. \A b \in Trees : c[b] \in {None, tree}
      BY <1>4, <1>8 DEF CalmProcess, Grows
    <3> QED
      BY <1>4, <1>7, <1>8, <1>11, <2>2, <3>1 DEF CalmProcess, world
  <2>3. CASE s # r
    <3>1. proc'[s] = proc[s]
      BY <1>7, <2>3
    <3> QED
      BY <2>1, <3>1 DEF CalmProcess, ProvedByOther, world
  <2> QED
    BY <2>2, <2>3
<1>18. CalmWorld' /\ CalmDisk'
  <2>1. campaign # None
    BY <1>11, EvidenceAssumption
  <2> QED
    BY <1>11, <2>1 DEF CalmState, CalmWorld, CalmDisk, world
<1> QED
  BY <1>15, <1>16, <1>17, <1>18 DEF CalmState

-----------------------------------------------------------------------------
(* The stages of the owners, in a calm world.                              *)

\* What an owner's records are when a stage comes.
LEMMA CalmAt ==
  ASSUME EarnedInv, Calm, CalmState, NEW r \in Runners, NEW stage, At(r, stage)
  PROVE  LET o == Owner(r)
             k == proc[r].stage
             row == proc[r].rows[o]
             trial == proc[r].trials[o]
         IN /\ Left(r, row, trial, files[o], o, k)
            /\ \A x : Past(o, x, k + 1) <=> Past(o, x, k) \/ stage = x
            /\ stage = "case" /\ o # "DESTRUCTION" => row.bound = tree
            /\ stage = "recapture" /\ o = "DESTRUCTION" =>
                 row.bound = tree /\ row.mods = tree /\ trial.mods = tree
            /\ stage = "trial" /\ o \in {"SQL", "BROWSER"} =>
                 row.bound = tree /\ row.status = "PASS" /\ trial.bound = tree /\ files[o] = Good(r)
            /\ stage = "trial" /\ o \in {"GAP", "CLOCK"} => row.bound = tree
            /\ stage = "drift" => row.bound = tree
<1>1. PICK o \in OwnerSet : o = Owner(r)
  BY AtStage
<1>2. PICK k \in 1..4 : k = proc[r].stage /\ k <= Len(Stages(o)) /\ Stages(o)[k] = stage
  BY <1>1, AtStage DEF Processes, At, Campaigning, Future, Owner
<1>3. Left(r, proc[r].rows[o], proc[r].trials[o], files[o], o, k)
  BY <1>1, <1>2, AtStage DEF CalmState, CalmRunner
<1>4. \A x : Past(o, x, k + 1) <=> Past(o, x, k) \/ stage = x
  BY <1>2, PastStages
<1>5. o = "DESTRUCTION" => ModsOf(o) = tree
  BY DEF ModsOf, TypeScript
<1>6. /\ stage = "case" /\ o # "DESTRUCTION" => Past(o, "capture", k)
      /\ stage = "recapture" /\ o = "DESTRUCTION" =>
           Past(o, "capture", k) /\ Past(o, "case", k) /\ Past(o, "trial", k)
      /\ stage = "trial" /\ o \in {"SQL", "BROWSER"} =>
           Past(o, "capture", k) /\ Past(o, "case", k) /\ Past(o, "recapture", k)
      /\ stage = "trial" /\ o \in {"GAP", "CLOCK"} => Past(o, "capture", k)
      /\ stage = "drift" => Past(o, "capture", k)
  BY <1>2, PastWhen
<1> QED
  BY <1>1, <1>2, <1>3, <1>4, <1>5, <1>6 DEF Left

\* A process that writes one row and one trial.
LEMMA Written ==
  ASSUME EarnedInv, NEW r \in Runners, NEW d \in Processes, NEW c,
         Works(r, proc[r].rows[Owner(r)], proc[r].trials[Owner(r)], c, d), proc[r].pc = "owner",
         NEW row \in RowSet, NEW trial \in TrialSet, NEW e,
         \/ /\ e = [d EXCEPT !.rows = [d.rows EXCEPT ![Owner(r)] = row]]
            /\ trial = proc[r].trials[Owner(r)]
         \/ /\ e = [d EXCEPT !.trials = [d.trials EXCEPT ![Owner(r)] = trial]]
            /\ row = proc[r].rows[Owner(r)]
  PROVE  e \in Processes /\ Works(r, row, trial, c, e)
<1>1. PICK o \in OwnerSet : o = Owner(r)
  BY FiveOwners DEF EarnedInv, EvidenceTyped, Processes, Procs, Owner
<1>2. proc[r].rows \in AllRows /\ proc[r].trials \in AllTrials
  BY DEF EarnedInv, EvidenceTyped, Processes, Procs
<1>3. d.rows = proc[r].rows /\ d.trials = proc[r].trials
  BY <1>1, <1>2 DEF Works, AllRows, AllTrials
<1>4. PICK rows \in AllRows : rows = [proc[r].rows EXCEPT ![o] = row]
  BY <1>2 DEF AllRows
<1>5. PICK trials \in AllTrials : trials = [proc[r].trials EXCEPT ![o] = trial]
  BY <1>2 DEF AllTrials
<1>6. \/ e = [d EXCEPT !.rows = rows] /\ trials = d.trials
      \/ e = [d EXCEPT !.trials = trials] /\ rows = d.rows
  <2>1. trial = proc[r].trials[o] => trials = d.trials
    BY <1>2, <1>3, <1>5 DEF AllTrials
  <2>2. row = proc[r].rows[o] => rows = d.rows
    BY <1>2, <1>3, <1>4 DEF AllRows
  <2> QED
    BY <1>1, <1>3, <1>4, <1>5, <2>1, <2>2
<1>7. /\ e \in Processes /\ e.rows = rows /\ e.trials = trials /\ e.pc = d.pc /\ e.own = d.own
      /\ e.stage = d.stage /\ e.cache = d.cache /\ e.snap = d.snap /\ e.round = d.round /\ e.ok = d.ok
  BY <1>6 DEF Processes
<1> QED
  BY <1>1, <1>4, <1>5, <1>7 DEF Works

LEMMA CalmCapture ==
  ASSUME EarnedInv, Calm, CalmState, NEW r \in Runners, Capture(r)
  PROVE  CalmState'
<1> DEFINE x == proc[r]
           o == Owner(r)
           d == [x EXCEPT !.rows[o].bound = tree]
           row == [x.rows[o] EXCEPT !.bound = tree]
           trial == x.trials[o]
<1>1. /\ x.pc = "owner" /\ o \in OwnerSet /\ x \in Processes /\ x.rows \in AllRows
      /\ x.cache \in [Trees -> SomeTree]
  BY AtStage DEF Capture
<1>2. x.rows[o] \in RowSet /\ trial \in TrialSet /\ tree \in SomeTree
  BY <1>1, Bindings
<1>3. row \in RowSet /\ row.bound = tree /\ row.status = x.rows[o].status /\ row.ran = x.rows[o].ran
      /\ row.mods = x.rows[o].mods
  BY <1>2 DEF RowSet
<1>4. d = [x EXCEPT !.rows = [x.rows EXCEPT ![o] = row]]
  BY <1>1 DEF Processes, AllRows
<1>5. Works(r, x.rows[o], trial, x.cache, x)
  <2>1. None \in seen \cup {None}
    OBVIOUS
  <2> QED
    BY <1>1, <2>1, Compiles DEF Capture
<1>6. d \in Processes /\ Works(r, row, trial, x.cache, d)
  BY <1>1, <1>2, <1>3, <1>4, <1>5, Written
<1>7. Left(r, row, trial, files[o], o, x.stage + 1)
  BY <1>3, CalmAt DEF Left, Capture
<1>8. proc' = [proc EXCEPT ![r] = Next1(d)] /\ UNCHANGED <<world, disk>>
  BY DEF Capture, Becomes
<1> HIDE DEF d, row, trial
<1> QED
  BY <1>1, <1>2, <1>3, <1>6, <1>7, <1>8, CalmWork DEF trial, disk

\* A case that passes.
LEMMA CalmKeep ==
  ASSUME EarnedInv, Calm, CalmState, NEW r \in Runners, CaseOf(r, Owner(r)), NEW d \in Processes,
         NEW key \in seen \cup {None}, d = Compiling(proc[r], key) \/ d = proc[r],
         Keep(r, d, "PASS"),
         UNCHANGED <<world, campaign, aggregate, copies, foreign, inventory, proof, faults>>
  PROVE  CalmState'
<1> DEFINE o == Owner(r)
           c == d.cache
           mods == IF o \in TypeScript THEN build ELSE None
           row == [proc[r].rows[o] EXCEPT !.status = "PASS", !.ran = tree, !.mods = mods]
           trial == proc[r].trials[o]
           e == [d EXCEPT !.rows[o].status = "PASS", !.rows[o].ran = tree, !.rows[o].mods = mods]
<1>1. At(r, "case")
  BY DEF CaseOf
<1>2. proc[r].pc = "owner" /\ o \in OwnerSet /\ proc[r].rows \in AllRows
  BY <1>1, AtStage
<1>3. /\ proc[r].rows[o] \in RowSet /\ trial \in TrialSet /\ mods \in SomeTree /\ tree \in SomeTree
      /\ mods = ModsOf(o)
  BY <1>2, Bindings, CalmFacts DEF ModsOf
<1>4. Works(r, proc[r].rows[o], trial, c, d) /\ c \in [Trees -> SomeTree]
  BY <1>1, Compiles
<1>5. /\ row \in RowSet /\ row.bound = proc[r].rows[o].bound /\ row.status = "PASS"
      /\ row.ran = tree /\ row.mods = ModsOf(o)
  BY <1>3 DEF RowSet
<1>6. d.rows = proc[r].rows
  BY <1>2, <1>4 DEF Works, AllRows
<1>7. e = [d EXCEPT !.rows = [d.rows EXCEPT ![o] = row]]
  BY <1>2, <1>3, <1>6 DEF Processes, AllRows, RowSet
<1> HIDE DEF e, row, mods
<1>8. e \in Processes /\ Works(r, row, trial, c, e)
  BY <1>2, <1>3, <1>4, <1>5, <1>7, Written
<1>9. Left(r, row, trial, Good(r), o, proc[r].stage + 1)
  BY <1>1, <1>5, CalmAt DEF Left
<1>10. proc' = [proc EXCEPT ![r] = Next1(e)] /\ files' = [files EXCEPT ![o] = Good(r)]
  BY DEF Keep, Becomes, e, mods
<1> QED
  BY <1>2, <1>3, <1>4, <1>5, <1>8, <1>9, <1>10, CalmWork

\* A trial that is detected.
LEMMA CalmTrial ==
  ASSUME EarnedInv, Calm, CalmState, NEW r \in Runners, TrialOf(r, Owner(r)), NEW d \in Processes,
         NEW key \in seen \cup {None}, d = Compiling(proc[r], key) \/ d = proc[r],
         NEW bound \in SomeTree, KeepTrial(r, d, bound, TRUE), UNCHANGED <<world, disk, faults>>,
         bound = tree \/ (Owner(r) = "DESTRUCTION" /\ bound = proc[r].trials[Owner(r)].bound)
  PROVE  CalmState'
<1> DEFINE o == Owner(r)
           c == d.cache
           mods == IF o \in TypeScript THEN build ELSE None
           row == proc[r].rows[o]
           trial == [bound |-> bound, ran |-> tree, mods |-> mods, detected |-> TRUE]
           e == [d EXCEPT !.trials[o] = trial]
<1>1. At(r, "trial")
  BY DEF TrialOf
<1>2. proc[r].pc = "owner" /\ o \in OwnerSet /\ proc[r].trials \in AllTrials
  BY <1>1, AtStage
<1>3. /\ row \in RowSet /\ mods \in SomeTree /\ tree \in SomeTree /\ mods = ModsOf(o)
  BY <1>2, Bindings, CalmFacts DEF ModsOf
<1>4. Works(r, row, proc[r].trials[o], c, d) /\ c \in [Trees -> SomeTree]
  BY <1>1, Compiles
<1>5. /\ trial \in TrialSet /\ trial.bound = bound /\ trial.ran = tree /\ trial.mods = ModsOf(o)
      /\ trial.detected = TRUE
  BY <1>3 DEF TrialSet
<1>6. e = [d EXCEPT !.trials = [d.trials EXCEPT ![o] = trial]]
  BY DEF Processes
<1> HIDE DEF e, trial, mods
<1>8. e \in Processes /\ Works(r, row, trial, c, e)
  BY <1>2, <1>3, <1>4, <1>5, <1>6, Written
<1>9. Left(r, row, trial, files[o], o, proc[r].stage + 1)
  <2>1. Past(o, "recapture", proc[r].stage) => bound = tree
    BY <1>1, CalmAt DEF Left
  <2> QED
    BY <1>1, <1>5, <2>1, CalmAt DEF Left
<1>10. proc' = [proc EXCEPT ![r] = Next1(e)] /\ UNCHANGED <<world, disk>>
  BY DEF KeepTrial, Becomes, e, trial, mods
<1> QED
  BY <1>2, <1>3, <1>4, <1>5, <1>8, <1>9, <1>10, CalmWork DEF disk, row

\* A binding for the trials.
LEMMA CalmRecapture ==
  ASSUME EarnedInv, Calm, CalmState, NEW r \in Runners, At(r, "recapture"), NEW d \in Processes,
         NEW key \in seen \cup {None}, d = Compiling(proc[r], key) \/ d = proc[r],
         Becomes(r, Next1([d EXCEPT !.trials[Owner(r)].bound = tree])),
         UNCHANGED <<world, disk, faults>>
  PROVE  CalmState'
<1> DEFINE o == Owner(r)
           c == d.cache
           row == proc[r].rows[o]
           trial == [proc[r].trials[o] EXCEPT !.bound = tree]
           e == [d EXCEPT !.trials[o].bound = tree]
<1>2. proc[r].pc = "owner" /\ o \in OwnerSet /\ proc[r].trials \in AllTrials
  BY AtStage
<1>3. row \in RowSet /\ proc[r].trials[o] \in TrialSet /\ tree \in SomeTree
  BY <1>2, Bindings
<1>4. Works(r, row, proc[r].trials[o], c, d) /\ c \in [Trees -> SomeTree]
  BY Compiles
<1>5. /\ trial \in TrialSet /\ trial.bound = tree /\ trial.ran = proc[r].trials[o].ran
      /\ trial.detected = proc[r].trials[o].detected /\ trial.mods = proc[r].trials[o].mods
  BY <1>3 DEF TrialSet
<1>6. d.trials = proc[r].trials
  BY <1>2, <1>4 DEF Works, AllTrials
<1>7. e = [d EXCEPT !.trials = [d.trials EXCEPT ![o] = trial]]
  BY <1>2, <1>6 DEF Processes, AllTrials, TrialSet
<1> HIDE DEF e, trial
<1>8. e \in Processes /\ Works(r, row, trial, c, e)
  BY <1>2, <1>3, <1>4, <1>5, <1>7, Written
<1>9. Left(r, row, trial, files[o], o, proc[r].stage + 1)
  BY <1>5, CalmAt DEF Left
<1>10. proc' = [proc EXCEPT ![r] = Next1(e)] /\ UNCHANGED <<world, disk>>
  BY DEF Becomes, e
<1> QED
  BY <1>2, <1>3, <1>4, <1>5, <1>8, <1>9, <1>10, CalmWork DEF disk, row

LEMMA CalmDrift ==
  ASSUME EarnedInv, Calm, CalmState, NEW r \in Runners, Drift(r)
  PROVE  CalmState'
<1> DEFINE x == proc[r]
           o == Owner(r)
<1>1. At(r, "drift") /\ UNCHANGED <<world, disk>> /\ None \in seen \cup {None}
  BY DEF Drift
<1>2. x.pc = "owner" /\ o \in OwnerSet /\ x \in Processes
  BY <1>1, AtStage
<1>3. o = "CLOCK"
  <2>1. Stages(o)[x.stage] = "drift" /\ x.stage \in 1..4
    BY <1>1, <1>2 DEF At, Processes
  <2>2. x.stage <= Len(Stages(o))
    BY <1>1, AtStage DEF Campaigning, Future, Owner
  <2>3. x.stage = 1 \/ x.stage = 2 \/ x.stage = 3 \/ x.stage = 4
    BY <2>1
  <2>4. Stages("GAP")[4] # "drift" \/ ~(4 <= Len(Stages("GAP")))
    BY OwnersStages
  <2> QED
    BY <1>2, <2>1, <2>2, <2>3, <2>4, OwnersStages, FiveOwners
<1>4. proc' = [proc EXCEPT ![r] = Next1(x)]
  BY <1>1, <1>3, CalmAt DEF Drift, Becomes
<1>5. /\ Works(r, x.rows[o], x.trials[o], x.cache, x) /\ x.rows[o] \in RowSet
      /\ x.trials[o] \in TrialSet /\ x.cache \in [Trees -> SomeTree]
  BY <1>1, <1>2, Compiles, Bindings
<1>6. Left(r, x.rows[o], x.trials[o], files[o], o, x.stage + 1)
  BY <1>1, CalmAt DEF Left
<1> QED
  BY <1>1, <1>2, <1>4, <1>5, <1>6, CalmWork DEF disk

LEMMA CalmCase ==
  ASSUME EarnedInv, Calm, CalmState, NEW r \in Runners, RunCase(r)
  PROVE  CalmState'
<1>1. At(r, "case") /\ CaseOf(r, Owner(r))
  BY DEF RunCase, SqlCase, BrowserCase, GapCase, DestructionCase, ClockCase, CaseOf
<1>2. /\ Owner(r) \in OwnerSet /\ proc[r] \in Processes /\ r \in Procs /\ None \in seen \cup {None}
  BY <1>1, AtStage DEF Procs
<1>3. UNCHANGED <<world, campaign, aggregate, copies, foreign, inventory, proof, faults>>
  BY DEF RunCase
<1>4. Right(Owner(r)) /\ ~Blocked(Owner(r)) /\ build = tree
  BY <1>2, CalmFacts
<1>5. CASE BrowserCase(r)
  <2> DEFINE bound == proc[r].rows["BROWSER"].bound
             d == Compiling(proc[r], bound)
  <2>1. Owner(r) = "BROWSER"
    BY <1>5 DEF BrowserCase, CaseOf
  <2>2. bound = tree /\ bound \in seen \cup {None}
    BY <1>1, <2>1, CalmAt, CalmFacts
  <2>3. d \in Processes /\ Compiled(d, bound) = tree
    BY <1>2, <2>2, CompilingGrows, CalmFacts DEF Compiled
  <2>4. Keep(r, d, "PASS")
    BY <1>4, <1>5, <2>1, <2>3 DEF BrowserCase
  <2> HIDE DEF d
  <2> QED
    BY <1>1, <1>3, <2>2, <2>3, <2>4, CalmKeep DEF d
<1>6. CASE SqlCase(r) \/ GapCase(r) \/ DestructionCase(r) \/ ClockCase(r)
  <2>1. Keep(r, proc[r], "PASS")
    BY <1>4, <1>6 DEF SqlCase, GapCase, DestructionCase, ClockCase, CaseOf
  <2> QED
    BY <1>1, <1>2, <1>3, <2>1, CalmKeep
<1> QED
  BY <1>5, <1>6 DEF RunCase

LEMMA CalmTrials ==
  ASSUME EarnedInv, Calm, CalmState, NEW r \in Runners, RunTrial(r)
  PROVE  CalmState'
<1>1. At(r, "trial") /\ TrialOf(r, Owner(r))
  BY DEF RunTrial, SqlTrial, BrowserTrial, GapTrial, DestructionTrial, ClockTrial, TrialOf
<1>2. /\ Owner(r) \in OwnerSet /\ proc[r] \in Processes /\ r \in Procs /\ None \in seen \cup {None}
      /\ proc[r].trials[Owner(r)].bound \in SomeTree
  BY <1>1, AtStage, Bindings DEF Procs, SomeTree
<1>3. UNCHANGED <<world, disk, faults>>
  BY DEF RunTrial
<1>4. /\ Right(Owner(r)) /\ ~Blocked(Owner(r)) /\ Caught(Owner(r)) /\ build = tree
      /\ tree \in seen \cup {None} /\ tree \in SomeTree
  BY <1>2, CalmFacts DEF SomeTree
<1> DEFINE d == Compiling(proc[r], tree)
<1>5. d \in Processes /\ Compiled(d, tree) = tree
  BY <1>2, <1>4, CompilingGrows, CalmFacts DEF Compiled
<1>6. CASE SqlTrial(r) \/ GapTrial(r)
  <2>1. KeepTrial(r, proc[r], tree, TRUE)
    BY <1>1, <1>4, <1>6, CalmAt DEF SqlTrial, GapTrial, TrialOf, Controlled
  <2>2. Owner(r) # "DESTRUCTION"
    BY <1>6 DEF SqlTrial, GapTrial, TrialOf
  <2> QED
    BY <1>1, <1>2, <1>3, <1>4, <2>1, <2>2, CalmTrial
<1>7. CASE BrowserTrial(r)
  <2>1. Owner(r) = "BROWSER"
    BY <1>7 DEF BrowserTrial, TrialOf
  <2>2. Controlled(r, "BROWSER") /\ proc[r].trials["BROWSER"].bound = tree
    BY <1>1, <2>1, CalmAt DEF Controlled
  <2>3. KeepTrial(r, d, tree, TRUE)
    BY <1>4, <1>5, <1>7, <2>1, <2>2 DEF BrowserTrial
  <2> HIDE DEF d
  <2> QED
    BY <1>1, <1>3, <1>4, <1>5, <2>3, CalmTrial DEF d
<1>8. CASE DestructionTrial(r)
  <2>1. Owner(r) = "DESTRUCTION" /\ KeepTrial(r, proc[r], proc[r].trials["DESTRUCTION"].bound, TRUE)
    BY <1>4, <1>8 DEF DestructionTrial, TrialOf
  <2> QED
    BY <1>1, <1>2, <1>3, <2>1, CalmTrial
<1>9. CASE ClockTrial(r)
  <2>1. Owner(r) = "CLOCK"
    BY <1>9 DEF ClockTrial, TrialOf
  <2>2. proc[r].rows["CLOCK"].bound = tree
    BY <1>1, <2>1, CalmAt
  <2>3. (/\ ~Blocked("CLOCK") /\ Right("CLOCK")
         /\ Caught("CLOCK") \/ build # Compiled(d, tree)) = TRUE
    BY <1>4, <2>1
  <2>4. KeepTrial(r, d, tree, TRUE)
    BY <1>9, <2>2, <2>3 DEF ClockTrial
  <2> HIDE DEF d
  <2> QED
    BY <1>1, <1>3, <1>4, <1>5, <2>4, CalmTrial DEF d
<1> QED
  BY <1>6, <1>7, <1>8, <1>9 DEF RunTrial

LEMMA CalmRecaptures ==
  ASSUME EarnedInv, Calm, CalmState, NEW r \in Runners, RecaptureTrials(r) \/ RecaptureDestruction(r)
  PROVE  CalmState'
<1>1. At(r, "recapture") /\ UNCHANGED <<world, disk, faults>>
  BY DEF RecaptureTrials, RecaptureDestruction
<1>2. /\ proc[r] \in Processes /\ r \in Procs /\ None \in seen \cup {None}
      /\ tree \in seen \cup {None}
  BY <1>1, AtStage, CalmFacts DEF Procs
<1>3. CASE RecaptureTrials(r)
  BY <1>1, <1>2, <1>3, CalmRecapture DEF RecaptureTrials
<1>4. CASE RecaptureDestruction(r)
  <2> DEFINE d == Compiling(proc[r], tree)
  <2>1. Owner(r) = "DESTRUCTION"
    BY <1>4 DEF RecaptureDestruction
  <2>2. /\ proc[r].rows["DESTRUCTION"].bound = tree /\ proc[r].rows["DESTRUCTION"].mods = tree
        /\ proc[r].trials["DESTRUCTION"].mods = tree
    BY <1>1, <2>1, CalmAt
  <2>3. d \in Processes /\ Compiled(d, tree) = tree
    BY <1>2, CompilingGrows, CalmFacts DEF Compiled
  <2>4. Becomes(r, Next1([d EXCEPT !.trials[Owner(r)].bound = tree]))
    BY <1>4, <2>1, <2>2, <2>3 DEF RecaptureDestruction
  <2> HIDE DEF d
  <2> QED
    BY <1>1, <1>2, <2>3, <2>4, CalmRecapture DEF d
<1> QED
  BY <1>3, <1>4

-----------------------------------------------------------------------------
(* The other steps, in a calm world.                                       *)

LEMMA CalmOthers ==
  ASSUME EarnedInv, CalmState, NEW p \in Procs, NEW q \in Processes, proc' = [proc EXCEPT ![p] = q],
         UNCHANGED <<world, proof>>, CalmWorld', CalmDisk', CalmProcess(p)',
         \A s \in Runners : CalmRunner(s)'
  PROVE  CalmState'
<1>1. ASSUME NEW s \in Procs PROVE CalmProcess(s)'
  <2>1. CASE s # p
    <3>1. proc'[s] = proc[s] /\ CalmProcess(s)
      BY <2>1 DEF EarnedInv, EvidenceTyped, CalmState
    <3> QED
      BY <3>1 DEF CalmProcess, ProvedByOther, world
  <2> QED
    BY <2>1
<1> QED
  BY <1>1 DEF CalmState

\* A step that leaves the disk alone.
LEMMA CalmMove ==
  ASSUME EarnedInv, CalmState, NEW p \in Procs, NEW q \in Processes, proc' = [proc EXCEPT ![p] = q],
         UNCHANGED <<world, disk>>, proc[p].pc # "done", CalmProcess(p)',
         p \in Runners => CalmRunner(p)'
  PROVE  CalmState'
<1>1. /\ proc'[p] = q /\ \A s \in Procs : s # p => proc'[s] = proc[s]
  BY DEF EarnedInv, EvidenceTyped
<1>2. ASSUME NEW s \in Runners PROVE CalmRunner(s)'
  <2>1. CASE s # p
    <3>1. proc'[s] = proc[s] /\ CalmRunner(s)
      BY <1>1, <2>1 DEF CalmState, Procs
    <3> QED
      <4>1. Settled => Settled'
        BY DEF Settled, FullAggregate, FullRow, FullTrial, ModsOf, world, disk
      <4> QED
        BY <3>1, <4>1, RunnerLasts DEF world, disk
  <2> QED
    BY <2>1
<1>3. CalmWorld' /\ CalmDisk'
  <2>1. CalmWorld /\ CalmDisk
    BY DEF CalmState
  <2>2. Settled => Settled'
    BY DEF Settled, FullAggregate, FullRow, FullTrial, ModsOf, world, disk
  <2>3. proof["P04"] # None => proc'[proof["P04"].by] = proc[proof["P04"].by]
    BY <1>1, <2>1 DEF CalmDisk, Procs
  <2> QED
    BY <2>1, <2>2, <2>3 DEF CalmWorld, CalmDisk, world, disk
<1> QED
  BY <1>2, <1>3, CalmOthers DEF disk

\* A runner that goes on with the records it has.
LEMMA CalmSame ==
  ASSUME CalmState, NEW r \in Runners, NEW q, proc'[r] = q, UNCHANGED <<world, disk>>,
         q.rows = proc[r].rows, q.trials = proc[r].trials, q.read = proc[r].read,
         \/ q.pc \in {"refused", "claim", "rejected"}
         \/ proc[r].pc \in LiveSteps /\ q.pc \in LiveSteps \cup {"write"}
         \/ proc[r].pc \in After /\ q.pc \in After \cup {"done"}
         \/ proc[r].pc = "collect" /\ q.pc = "copy"
  PROVE  CalmRunner(r)'
<1>1. CalmRunner(r)
  BY DEF CalmState
<1>2. \A o \in OwnerSet : FullAt(r, o) => FullAt(r, o)'
  BY DEF FullAt, FullRow, FullTrial, ModsOf, world, disk
<1>3. (FullAggregate => FullAggregate') /\ (Settled => Settled')
  BY DEF Settled, FullAggregate, FullRow, FullTrial, ModsOf, world, disk
<1>4. CASE q.pc \in {"refused", "claim", "rejected"}
  BY <1>4 DEF CalmRunner, LiveSteps, Retaining, After, Judges
<1>5. CASE proc[r].pc \in LiveSteps /\ q.pc \in LiveSteps \cup {"write"}
  BY <1>1, <1>2, <1>5 DEF CalmRunner, LiveSteps, Retaining, After, Judges, disk
<1>6. CASE proc[r].pc \in After /\ q.pc \in After \cup {"done"}
  BY <1>1, <1>3, <1>6 DEF CalmRunner, LiveSteps, Retaining, After, Judges
<1>7. CASE proc[r].pc = "collect" /\ q.pc = "copy"
  BY <1>1, <1>2, <1>3, <1>7 DEF CalmRunner, LiveSteps, Retaining, After, Judges, disk
<1> QED
  BY <1>4, <1>5, <1>6, <1>7

LEMMA CalmBegin ==
  ASSUME EarnedInv, Calm, CalmState, NEW r \in Runners, Begin(r)
  PROVE  CalmState'
<1>1. PICK step \in {"refused", "claim"} : Becomes(r, [proc[r] EXCEPT !.pc = step])
  BY DEF Begin
<1> DEFINE q == [proc[r] EXCEPT !.pc = step]
<1>2. /\ proc[r].pc = "idle" /\ UNCHANGED <<world, disk>> /\ r \in Procs /\ proc[r] \in Processes
      /\ CalmProcess(r) /\ proc \in [Procs -> Processes]
  BY DEF Begin, Procs, EarnedInv, EvidenceTyped, CalmState
<1>3. /\ q \in Processes /\ q.pc = step /\ SameRecords(r, q) /\ q.read = proc[r].read
      /\ q.snap = proc[r].snap /\ (q.ok <=> proc[r].ok)
  BY <1>2 DEF Processes, Steps, Early, SameRecords
<1>4. proc' = [proc EXCEPT ![r] = q]
  BY <1>1 DEF Becomes
<1> HIDE DEF q
<1>5. proc'[r] = q
  BY <1>2, <1>4
<1>6. CalmProcess(r)'
  BY <1>2, <1>3, <1>5 DEF CalmProcess, SameRecords, world
<1>7. CalmRunner(r)'
  BY <1>2, <1>3, <1>5, CalmSame DEF SameRecords
<1> QED
  BY <1>2, <1>3, <1>4, <1>6, <1>7, CalmMove

LEMMA CalmClaim ==
  ASSUME EarnedInv, Calm, CalmState, NEW r \in Runners, Claim(r)
  PROVE  CalmState'
<1>1. PICK step \in {"refused", "owner"} :
        /\ Becomes(r, [proc[r] EXCEPT !.pc = step])
        /\ \/ step = "refused" /\ UNCHANGED disk
           \/ step = "owner" /\ campaign = None /\ campaign' = r
        /\ UNCHANGED <<world, files, aggregate, copies, foreign, inventory, proof>>
  BY DEF Claim, ClaimAny, disk
<1> DEFINE q == [proc[r] EXCEPT !.pc = step]
<1>2. /\ proc[r].pc = "claim" /\ r \in Procs /\ proc[r] \in Processes
      /\ CalmProcess(r) /\ proc \in [Procs -> Processes] /\ Campaigning(r)
  BY DEF Claim, ClaimAny, Procs, EarnedInv, EvidenceTyped, CalmState
<1>3. /\ q \in Processes /\ q.pc = step /\ SameRecords(r, q) /\ q.read = proc[r].read
      /\ q.snap = proc[r].snap /\ (q.ok <=> proc[r].ok)
  BY <1>2 DEF Processes, Steps, Before, SameRecords
<1>4. proc' = [proc EXCEPT ![r] = q]
  BY <1>1 DEF Becomes
<1> HIDE DEF q
<1>5. proc'[r] = q /\ \A s \in Procs : s # r => proc'[s] = proc[s]
  BY <1>2, <1>4
<1>6. CalmProcess(r)'
  BY <1>1, <1>2, <1>3, <1>5 DEF CalmProcess, SameRecords, world
<1>7. CASE step = "refused"
  <2>1. CalmRunner(r)'
    BY <1>1, <1>3, <1>5, <1>7, CalmSame DEF SameRecords
  <2> QED
    BY <1>1, <1>2, <1>3, <1>4, <1>6, <1>7, <2>1, CalmMove
<1>8. CASE step = "owner"
  <2>1. /\ inventory = None /\ proof["P04"] = None /\ None \notin Runners
        /\ \A s \in Runners : proc[s].pc \in Early \cup {"refused", "dead"}
        /\ \A f \in Files : copies[f] = None
    BY <1>1, <1>8, NobodyBegan, EvidenceAssumption DEF CalmState, CalmDisk
  <2>2. ASSUME NEW s \in Runners
        PROVE  CalmRunner(s)'
    <3>1. CASE s = r
      <4>1. q.own = 1 /\ q.stage = 1 /\ \A i \in 1..5 : ~(i < 1)
        BY <1>2, <1>3 DEF Campaigning, Future, Early, SameRecords
      <4>2. PICK o \in OwnerSet : o = Owner(r)'
        BY <1>5, <4>1, FiveOwners DEF Owner
      <4> QED
        BY <1>1, <1>3, <1>5, <1>8, <2>1, <3>1, <4>1, <4>2, PastStages
           DEF CalmRunner, Left, LiveSteps, Retaining, After, Judges
    <3>2. CASE s # r
      BY <1>5, <2>1, <3>2 DEF Procs, Early, CalmRunner, LiveSteps, Retaining, After, Judges
    <3> QED
      BY <3>1, <3>2
  <2>3. CalmWorld' /\ CalmDisk'
    BY <1>1, <1>8, <2>1 DEF CalmState, CalmWorld, CalmDisk, world
  <2> QED
    BY <1>1, <1>2, <1>3, <1>4, <1>6, <2>2, <2>3, CalmOthers
<1> QED
  BY <1>7, <1>8

\* What a process judges it finds in order.
LEMMA CalmVerdict ==
  ASSUME EarnedInv, Calm, CalmState, NEW p \in Procs, Judging(p), proc[p].snap = tree,
         NEW d, d = Compiling(proc[p], tree)
  PROVE  AllPass(p, d) /\ TrialsFine(p, d)
<1>1. /\ tree \in Trees /\ tree \in seen /\ Roled(p) /\ proc[p].pc \in {"judge", "rejudge"}
      /\ p \in Runners => CalmRunner(p)
      /\ CalmDisk
  BY CalmFacts DEF EarnedInv, CalmState, Judging
<1>2. d.snap = tree /\ Compiled(d, tree) = tree
  <2>1. tree \in seen \cup {None}
    BY <1>1
  <2> QED
    BY <1>1, <2>1, CompilingGrows, CalmFacts DEF Compiled
<1>3. ASSUME NEW o \in OwnerSet
      PROVE  Rows(p)[o] = FullRow(o) /\ Trials(p)[o] = FullTrial(o) /\ Intact(p, o)
  <2>1. CASE proc[p].pc = "judge"
    <3>1. p \in Runners
      BY <1>1, <2>1 DEF Roled, Before, LiveSteps, Procs
    <3>2. FullAt(p, o)
      BY <1>1, <2>1, <3>1 DEF CalmRunner, LiveSteps
    <3> QED
      BY <2>1, <3>2 DEF FullAt, Rows, Trials, Intact, Live
  <2>2. CASE proc[p].pc = "rejudge"
    <3>1. Settled /\ AggregateTrue
      BY <1>1, <2>2 DEF Roled, CalmRunner, CalmDisk, EarnedInv, Retained, After, Judges, Procs
    <3>2. o \in Files
      BY DEF Files
    <3> QED
      BY <2>2, <3>1, <3>2
         DEF Settled, AggregateTrue, FullAggregate, Rows, Trials, Intact, Live
  <2> QED
    BY <1>1, <2>1, <2>2
<1>4. ASSUME NEW o \in OwnerSet
      PROVE  /\ Rows(p)[o].status = "PASS" /\ Rows(p)[o].bound = tree
             /\ Trials(p)[o].bound = tree /\ Trials(p)[o].detected
             /\ o \in TypeScript => Rows(p)[o].mods = tree /\ Trials(p)[o].mods = tree
             /\ Intact(p, o)
  <2>1. /\ FullRow(o).status = "PASS" /\ FullRow(o).bound = tree /\ FullTrial(o).bound = tree
        /\ FullTrial(o).detected = TRUE
        /\ o \in TypeScript => FullRow(o).mods = tree /\ FullTrial(o).mods = tree
    BY DEF FullRow, FullTrial, ModsOf
  <2> QED
    BY <1>3, <2>1
<1>5. ASSUME NEW o \in OwnerSet
      PROVE  VerifyExecuted(p, d, o)
  <2>1. CASE o = "SQL"
    BY <1>2, <1>4, <2>1 DEF VerifyExecuted, VerifySql, BoundAndIntact
  <2>2. CASE o = "BROWSER"
    BY <1>2, <1>4, <2>2 DEF VerifyExecuted, VerifyBrowser, BoundAndIntact, CompiledFrom, TypeScript
  <2>3. CASE o = "GAP"
    BY <1>2, <1>4, <2>3 DEF VerifyExecuted, VerifyGap, BoundAndIntact
  <2>4. CASE o = "DESTRUCTION"
    BY <1>2, <1>4, <2>4 DEF VerifyExecuted, VerifyDestruction, BoundAndIntact, CompiledFrom, TypeScript
  <2>5. CASE o = "CLOCK"
    BY <1>2, <1>4, <2>5 DEF VerifyExecuted, VerifyClock, CompiledFrom, TypeScript
  <2> QED
    BY <2>1, <2>2, <2>3, <2>4, <2>5, FiveOwners
<1>6. AllPass(p, d)
  BY <1>4, <1>5 DEF AllPass, RecordFine
<1>7. \A o \in OwnerSet : TrialBound(p, d, o) /\ (o \in TypeScript => TrialCompiled(p, d, o))
  BY <1>2, <1>4 DEF TrialBound, TrialCompiled
<1>8. GapTrialFine(p, d) /\ DestructionTrialFine(p, d) /\ ClockTrialFine(p, d)
  BY <1>2, <1>7, FiveOwners DEF GapTrialFine, DestructionTrialFine, ClockTrialFine, TypeScript
<1>9. \A o \in {"SQL", "BROWSER"} : OwnerTrialFine(p, d, o)
  BY <1>4, <1>5, <1>7, FiveOwners DEF OwnerTrialFine
<1> QED
  BY <1>4, <1>6, <1>8, <1>9 DEF TrialsFine

\* A judging process that goes on.
LEMMA CalmJudging ==
  ASSUME EarnedInv, Calm, CalmState, NEW p \in Procs, NEW q \in Processes,
         proc' = [proc EXCEPT ![p] = q], UNCHANGED <<world, disk>>,
         q.rows = proc[p].rows, q.trials = proc[p].trials, q.read = proc[p].read,
         \A b \in Trees : q.cache[b] \in {None, tree}, q.snap \in {None, tree}, q.ok = TRUE,
         \/ proc[p].pc \in LiveSteps /\ q.pc \in LiveSteps \cup {"write"}
         \/ proc[p].pc \in Judges /\ q.pc \in Judges \cup {"prove"}
  PROVE  CalmState'
<1>1. proc'[p] = q /\ q.pc # "dead" /\ q.pc # "rejected" /\ proc[p].pc # "done"
  BY DEF EarnedInv, EvidenceTyped, LiveSteps, Judges
<1>2. CalmProcess(p)'
  BY <1>1 DEF CalmProcess, world
<1>3. p \in Runners => CalmRunner(p)'
  BY <1>1, CalmSame DEF After
<1> QED
  BY <1>1, <1>2, <1>3, CalmMove

LEMMA CalmSnap ==
  ASSUME EarnedInv, Calm, CalmState, NEW p \in Procs, Snap(p)
  PROVE  CalmState'
<1> DEFINE q == [proc[p] EXCEPT !.snap = tree]
<1>1. /\ proc[p].pc \in {"judge", "rejudge"} /\ proc[p] \in Processes /\ CalmProcess(p)
      /\ UNCHANGED <<world, disk>> /\ proc' = [proc EXCEPT ![p] = q] /\ tree \in Trees
  BY DEF Snap, Judging, Becomes, EarnedInv, EvidenceTyped, WorldTyped, CalmState
<1>2. q \in Processes /\ q.pc = proc[p].pc /\ q.snap = tree /\ (q.ok <=> proc[p].ok)
      /\ SameRecords(p, q) /\ q.read = proc[p].read
  BY <1>1 DEF Processes, SomeTree, SameRecords
<1>3. q.ok = TRUE
  BY <1>1, <1>2 DEF CalmProcess, Processes
<1> HIDE DEF q
<1> QED
  BY <1>1, <1>2, <1>3, CalmJudging DEF CalmProcess, SameRecords, LiveSteps, Judges

LEMMA CalmDriftCheck ==
  ASSUME EarnedInv, Calm, CalmState, NEW p \in Procs, DriftCheck(p)
  PROVE  CalmState'
<1>1. /\ proc[p].pc \in {"judged", "rejudged"} /\ proc[p] \in Processes
      /\ UNCHANGED <<world, disk>> /\ Roled(p) /\ CalmProcess(p)
  BY DEF DriftCheck, EarnedInv, EvidenceTyped, CalmState
<1>2. PICK round \in {2, 4} : round = proc[p].round + 1
  BY <1>1 DEF Roled
<1>3. (proc[p].ok /\ tree = proc[p].snap) = TRUE
  BY <1>1 DEF Roled, CalmProcess
<1>4. PICK step \in {"judge", "rejudge"} : step = IF proc[p].pc = "judged" THEN "judge" ELSE "rejudge"
  OBVIOUS
<1> DEFINE q == [proc[p] EXCEPT !.ok = TRUE, !.pc = step, !.snap = None, !.round = round]
<1>5. proc' = [proc EXCEPT ![p] = q]
  BY <1>2, <1>3, <1>4 DEF DriftCheck, Becomes
<1>6. /\ q \in Processes /\ q.pc = step /\ q.snap = None /\ q.ok = TRUE /\ SameRecords(p, q)
      /\ q.read = proc[p].read
  <2>1. step \in Steps /\ round \in 1..4
    BY DEF Steps, After, Before, Judges, LiveSteps
  <2> QED
    BY <1>1, <2>1 DEF Processes, SomeTree, SameRecords
<1> HIDE DEF q
<1> QED
  BY <1>1, <1>4, <1>5, <1>6, CalmJudging DEF CalmProcess, SameRecords, LiveSteps, Judges

LEMMA CalmJudge ==
  ASSUME EarnedInv, Calm, CalmState, NEW p \in Procs, Judge(p)
  PROVE  CalmState'
<1>1. /\ proc[p].pc \in {"judge", "rejudge"} /\ proc[p].snap # None /\ proc[p] \in Processes
      /\ UNCHANGED <<world, disk>> /\ CalmProcess(p) /\ tree \in seen \cup {None} /\ tree \in Trees
  BY CalmFacts DEF Judge, EarnedInv, EvidenceTyped, CalmState
<1>2. proc[p].snap = tree
  BY <1>1 DEF CalmProcess
<1>3. PICK d \in Processes : d = Compiling(proc[p], tree)
  BY <1>1, CompilingGrows
<1>4. /\ d.pc = proc[p].pc /\ d.rows = proc[p].rows /\ d.trials = proc[p].trials
      /\ d.read = proc[p].read /\ d.snap = tree /\ (d.ok <=> proc[p].ok) /\ Grows(proc[p].cache, d.cache)
  BY <1>1, <1>2, <1>3, CompilingGrows
<1>5. d.ok = TRUE /\ \A b \in Trees : d.cache[b] \in {None, tree}
  BY <1>1, <1>4 DEF CalmProcess, Grows, Processes
<1>6. AllPass(p, d) /\ TrialsFine(p, d)
  BY <1>1, <1>2, <1>3, CalmVerdict DEF Judging
<1>7. ASSUME NEW q \in Processes, Becomes(p, q), q.rows = d.rows, q.trials = d.trials, q.read = d.read,
             q.cache = d.cache, q.ok = TRUE, q.snap \in {None, tree},
             \/ q.pc = IF proc[p].pc = "judge" THEN "judged" ELSE "rejudged"
             \/ q.pc = proc[p].pc
             \/ proc[p].pc = "rejudge" /\ q.pc = "prove"
             \/ proc[p].pc = "judge" /\ q.pc = "write"
      PROVE  CalmState'
  <2>1. \/ proc[p].pc \in LiveSteps /\ q.pc \in LiveSteps \cup {"write"}
        \/ proc[p].pc \in Judges /\ q.pc \in Judges \cup {"prove"}
    BY <1>1, <1>7 DEF LiveSteps, Judges
  <2> QED
    BY <1>1, <1>4, <1>5, <1>7, <2>1, CalmJudging DEF Becomes
<1>8. CASE Controls(p)
  <2>1. PICK step \in Steps : step = IF proc[p].pc = "judge" THEN "judged" ELSE "rejudged"
    BY DEF Steps, After, Before, Judges, LiveSteps
  <2> DEFINE q == [d EXCEPT !.ok = TRUE, !.pc = step]
  <2>2. (d.ok /\ AllPass(p, d)) = TRUE
    BY <1>5, <1>6
  <2>3. Becomes(p, q)
    BY <1>2, <1>3, <1>4, <1>8, <2>1, <2>2 DEF Judge
  <2>4. /\ q \in Processes /\ q.rows = d.rows /\ q.trials = d.trials /\ q.read = d.read
        /\ q.cache = d.cache /\ q.ok = TRUE /\ q.snap = d.snap /\ q.pc = step
    BY DEF Processes
  <2> HIDE DEF q
  <2> QED
    BY <1>4, <1>7, <2>1, <2>3, <2>4
<1>9. CASE ~Controls(p)
  <2>1. \/ Becomes(p, [d EXCEPT !.round = 3, !.snap = None])
        \/ d.pc = "rejudge" /\ Becomes(p, [d EXCEPT !.pc = "prove"])
        \/ d.pc # "rejudge" /\ Becomes(p, [d EXCEPT !.snap = None, !.round = 1, !.pc = "write"])
    BY <1>2, <1>3, <1>5, <1>6, <1>9 DEF Judge
  <2>2. "prove" \in Steps /\ "write" \in Steps /\ 1 \in 1..4 /\ 3 \in 1..4 /\ None \in SomeTree
    BY DEF Steps, After, Before, SomeTree
  <2>3. CASE Becomes(p, [d EXCEPT !.round = 3, !.snap = None])
    <3> DEFINE q == [d EXCEPT !.round = 3, !.snap = None]
    <3>1. /\ q \in Processes /\ q.rows = d.rows /\ q.trials = d.trials /\ q.read = d.read
          /\ q.cache = d.cache /\ q.ok = d.ok /\ q.snap = None /\ q.pc = d.pc
      BY <2>2 DEF Processes
    <3> HIDE DEF q
    <3> QED
      BY <1>4, <1>5, <1>7, <2>3, <3>1 DEF q
  <2>4. CASE d.pc = "rejudge" /\ Becomes(p, [d EXCEPT !.pc = "prove"])
    <3> DEFINE q == [d EXCEPT !.pc = "prove"]
    <3>1. /\ q \in Processes /\ q.rows = d.rows /\ q.trials = d.trials /\ q.read = d.read
          /\ q.cache = d.cache /\ q.ok = d.ok /\ q.snap = d.snap /\ q.pc = "prove"
      BY <2>2 DEF Processes
    <3> HIDE DEF q
    <3> QED
      BY <1>4, <1>5, <1>7, <2>4, <3>1 DEF q
  <2>5. CASE d.pc # "rejudge" /\ Becomes(p, [d EXCEPT !.snap = None, !.round = 1, !.pc = "write"])
    <3> DEFINE q == [d EXCEPT !.snap = None, !.round = 1, !.pc = "write"]
    <3>1. /\ q \in Processes /\ q.rows = d.rows /\ q.trials = d.trials /\ q.read = d.read
          /\ q.cache = d.cache /\ q.ok = d.ok /\ q.snap = None /\ q.pc = "write"
      BY <2>2 DEF Processes
    <3> HIDE DEF q
    <3> QED
      BY <1>1, <1>4, <1>5, <1>7, <2>5, <3>1 DEF q
  <2> QED
    BY <2>1, <2>3, <2>4, <2>5
<1> QED
  BY <1>8, <1>9

LEMMA CalmWriteAggregate ==
  ASSUME EarnedInv, Calm, CalmState, NEW r \in Runners, WriteAggregate(r)
  PROVE  CalmState'
<1> DEFINE q == [proc[r] EXCEPT !.pc = "collect"]
<1>1. /\ proc[r].pc = "write" /\ proc[r].pc \in Before /\ r \in Procs /\ proc[r] \in Processes
      /\ aggregate' = [by |-> r, rows |-> proc[r].rows, trials |-> proc[r].trials]
      /\ files' = [files EXCEPT !["AGGREGATE"] = Good(r)]
      /\ proc' = [proc EXCEPT ![r] = q]
      /\ UNCHANGED <<world, campaign, copies, foreign, inventory, proof, faults>>
  BY DEF WriteAggregate, Becomes, Procs, Before, EarnedInv, EvidenceTyped
<1>2. /\ q \in Processes /\ q.pc = "collect" /\ SameRecords(r, q) /\ q.snap = proc[r].snap
      /\ (q.ok <=> proc[r].ok)
  BY <1>1 DEF Processes, Steps, Before, Retaining, SameRecords
<1> HIDE DEF q
<1>3. /\ campaign = r /\ inventory = None /\ proof["P04"] = None /\ None \notin Runners
      /\ \A s \in Runners : s # r => proc[s].pc \in Early \cup {"refused", "dead"}
  BY <1>1, WorksAlone, EvidenceAssumption
<1>4. /\ proc'[r] = q /\ \A s \in Procs : s # r => proc'[s] = proc[s]
      /\ files'["AGGREGATE"] = Good(r) /\ \A o \in OwnerSet : files'[o] = files[o]
  <2>1. "AGGREGATE" \notin OwnerSet
    BY FiveOwners
  <2> QED
    BY <1>1, <2>1 DEF EarnedInv, EvidenceTyped, DiskTyped, Files
<1>5. CalmRunner(r) /\ CalmProcess(r)
  BY <1>1 DEF CalmState
<1>6. \A o \in OwnerSet : FullAt(r, o)
  BY <1>1, <1>5 DEF CalmRunner
<1>7. \A o \in OwnerSet : FullAt(r, o)'
  BY <1>1, <1>2, <1>4, <1>6 DEF FullAt, FullRow, FullTrial, ModsOf, SameRecords, world
<1>8. FullAggregate'
  BY <1>1, <1>6 DEF FullAggregate, FullAt, FullRow, FullTrial, ModsOf, world
<1>9. CalmRunner(r)'
  BY <1>1, <1>2, <1>4, <1>5, <1>7, <1>8 DEF CalmRunner, LiveSteps, Retaining, After, Judges
<1>10. ASSUME NEW s \in Runners, s # r
       PROVE  CalmRunner(s)'
  <2>1. proc'[s] = proc[s] /\ proc[s].pc \in Early \cup {"refused", "dead"}
    BY <1>3, <1>4, <1>10 DEF Procs
  <2> QED
    BY <2>1 DEF CalmRunner, LiveSteps, Retaining, After, Judges, Early
<1>11. CalmWorld' /\ CalmDisk' /\ CalmProcess(r)'
  BY <1>1, <1>2, <1>3, <1>4, <1>5
     DEF CalmState, CalmWorld, CalmDisk, CalmProcess, SameRecords, world
<1> QED
  BY <1>1, <1>2, <1>9, <1>10, <1>11, CalmOthers

LEMMA CalmCollect ==
  ASSUME EarnedInv, Calm, CalmState, NEW r \in Runners, Collect(r)
  PROVE  CalmState'
<1> DEFINE q == [proc[r] EXCEPT !.pc = "copy"]
<1>1. /\ proc[r].pc = "collect" /\ r \in Procs /\ proc[r] \in Processes
      /\ proc \in [Procs -> Processes] /\ UNCHANGED <<world, disk>> /\ CalmRunner(r) /\ CalmProcess(r)
  BY DEF Collect, Procs, EarnedInv, EvidenceTyped, CalmState
<1>2. proc' = [proc EXCEPT ![r] = q]
  BY <1>1 DEF Collect, Becomes, CalmRunner, Retaining, FullAt
<1>3. /\ q \in Processes /\ q.pc = "copy" /\ SameRecords(r, q) /\ q.read = proc[r].read
      /\ q.snap = proc[r].snap /\ (q.ok <=> proc[r].ok)
  BY <1>1 DEF Processes, Steps, Before, Retaining, SameRecords
<1> HIDE DEF q
<1>4. proc'[r] = q
  BY <1>1, <1>2
<1>5. CalmProcess(r)' /\ CalmRunner(r)'
  BY <1>1, <1>3, <1>4, CalmSame DEF CalmProcess, SameRecords, world
<1> QED
  BY <1>1, <1>2, <1>3, <1>5, CalmMove

LEMMA AllCopied ==
  ASSUME NEW f \in Files
  PROVE  \E i \in 1..6 : f = CopyOrder[i]
<1>1. CopyOrder[1] = "AGGREGATE" /\ \A i \in 1..5 : CopyOrder[i + 1] = Owners[i]
  BY DEF CopyOrder, Owners
<1>2. \A i \in 1..5 : i + 1 \in 1..6
  OBVIOUS
<1>3. CASE f \in OwnerSet
  <2>1. PICK i \in 1..5 : f = Owners[i]
    BY <1>3, FiveOwners
  <2> QED
    BY <1>1, <1>2, <2>1
<1> QED
  BY <1>1, <1>3 DEF Files

LEMMA CalmCopy ==
  ASSUME EarnedInv, Calm, CalmState, NEW r \in Runners, Copy(r)
  PROVE  CalmState'
<1>1. /\ proc[r].pc = "copy" /\ proc[r].pc \in Before /\ r \in Procs /\ proc[r] \in Processes
      /\ proc \in [Procs -> Processes] /\ CalmRunner(r) /\ CalmProcess(r)
      /\ copies \in [Files -> FileSet] /\ files \in [Files -> FileSet]
      /\ UNCHANGED <<world, campaign, files, aggregate, foreign, inventory, proof, faults>>
  BY DEF Copy, Before, Retaining, Procs, EarnedInv, EvidenceTyped, DiskTyped, CalmState
<1>2. PICK i \in DOMAIN CopyOrder :
        /\ \A j \in 1..(i - 1) : copies[CopyOrder[j]] # None
        /\ copies' = [copies EXCEPT ![CopyOrder[i]] = files[CopyOrder[i]]]
        /\ Becomes(r, [proc[r] EXCEPT !.read[CopyOrder[i]] = files[CopyOrder[i]],
                           !.pc = IF i < Len(CopyOrder) THEN @ ELSE "inventory"])
  BY DEF Copy
<1>3. PICK f \in Files : f = CopyOrder[i]
  BY CopiedFiles
<1>4. Len(CopyOrder) = 6 /\ i \in 1..6
  BY DEF CopyOrder, Owners
<1>5. PICK step \in {"copy", "inventory"} : step = IF i < 6 THEN "copy" ELSE "inventory"
  OBVIOUS
<1>6. PICK read \in [Files -> FileSet] : read = [proc[r].read EXCEPT ![f] = files[f]]
  BY <1>1, <1>3 DEF Processes
<1> DEFINE q == [proc[r] EXCEPT !.read = read, !.pc = step]
<1>7. /\ q \in Processes /\ q.pc = step /\ SameRecords(r, q) /\ q.read = read
      /\ q.snap = proc[r].snap /\ (q.ok <=> proc[r].ok)
  BY <1>1 DEF Processes, Steps, Before, Retaining, SameRecords
<1>8. proc' = [proc EXCEPT ![r] = q]
  BY <1>1, <1>2, <1>3, <1>4, <1>5, <1>6 DEF Becomes
<1> HIDE DEF q
<1>9. proc'[r] = q /\ \A s \in Procs : s # r => proc'[s] = proc[s]
  BY <1>1, <1>8
<1>10. files[f] = Good(r)
  BY <1>1 DEF CalmRunner, Retaining, FullAt, Files
<1>11. ASSUME NEW g \in Files
       PROVE  /\ copies'[g] \in {None, Good(r)} /\ (copies'[g] # None => read[g] = Good(r))
              /\ step = "inventory" => copies'[g] = Good(r) /\ read[g] = Good(r)
  <2>1. copies[g] \in {None, Good(r)} /\ (copies[g] # None => proc[r].read[g] = Good(r))
    BY <1>1 DEF CalmRunner
  <2>2. proc[r].read \in [Files -> FileSet]
    BY <1>1 DEF Processes
  <2>3. CASE g = f
    BY <1>1, <1>2, <1>3, <1>6, <1>10, <2>2, <2>3
  <2>4. CASE g # f
    <3>1. copies'[g] = copies[g] /\ read[g] = proc[r].read[g]
      BY <1>1, <1>2, <1>3, <1>6, <2>2, <2>4
    <3>2. ASSUME step = "inventory" PROVE copies[g] # None
      <4>1. PICK j \in 1..6 : g = CopyOrder[j]
        BY AllCopied
      <4>2. i = 6 /\ j # 6
        BY <1>3, <1>4, <1>5, <2>4, <3>2, <4>1
      <4>3. j \in 1..(i - 1)
        BY <4>2
      <4> QED
        BY <1>2, <4>1, <4>3
    <3> QED
      BY <2>1, <3>1, <3>2
  <2> QED
    BY <2>3, <2>4
<1>12. /\ \A o \in OwnerSet : FullAt(r, o)'
       /\ FullAggregate'
  <2>1. FullAggregate /\ \A o \in OwnerSet : FullAt(r, o)
    BY <1>1 DEF CalmRunner, Retaining
  <2> QED
    BY <1>1, <1>7, <1>9, <2>1 DEF FullAggregate, FullAt, FullRow, FullTrial, ModsOf, SameRecords, world
<1>13. CalmRunner(r)'
  <2>1. files'["AGGREGATE"] = Good(r)
    BY <1>1 DEF CalmRunner, Retaining
  <2> QED
    BY <1>7, <1>9, <1>11, <1>12, <2>1 DEF CalmRunner, LiveSteps, Retaining, After, Judges
<1>14. /\ campaign = r /\ inventory = None /\ proof["P04"] = None /\ None \notin Runners
       /\ \A s \in Runners : s # r => proc[s].pc \in Early \cup {"refused", "dead"}
  BY <1>1, WorksAlone, EvidenceAssumption
<1>15. ASSUME NEW s \in Runners, s # r
       PROVE  CalmRunner(s)'
  <2>1. proc'[s] = proc[s] /\ proc[s].pc \in Early \cup {"refused", "dead"}
    BY <1>9, <1>14, <1>15 DEF Procs
  <2> QED
    BY <2>1 DEF CalmRunner, LiveSteps, Retaining, After, Judges, Early
<1>16. CalmWorld' /\ CalmDisk' /\ CalmProcess(r)'
  BY <1>1, <1>7, <1>9, <1>14 DEF CalmState, CalmWorld, CalmDisk, CalmProcess, SameRecords, world
<1> QED
  BY <1>1, <1>7, <1>8, <1>13, <1>15, <1>16, CalmOthers

LEMMA CalmWriteInventory ==
  ASSUME EarnedInv, Calm, CalmState, NEW r \in Runners, WriteInventory(r)
  PROVE  CalmState'
<1> DEFINE q == [proc[r] EXCEPT !.pc = "load"]
<1>1. /\ proc[r].pc = "inventory" /\ proc[r].pc \in Before /\ r \in Procs /\ proc[r] \in Processes
      /\ inventory' = [f \in Files |-> proc[r].read[f]]
      /\ proc' = [proc EXCEPT ![r] = q]
      /\ UNCHANGED <<world, campaign, files, aggregate, copies, foreign, proof, faults>>
      /\ CalmRunner(r) /\ CalmProcess(r)
  BY DEF WriteInventory, Becomes, Procs, Before, Retaining, EarnedInv, EvidenceTyped, CalmState
<1>2. /\ q \in Processes /\ q.pc = "load" /\ SameRecords(r, q) /\ q.snap = proc[r].snap
      /\ (q.ok <=> proc[r].ok)
  BY <1>1 DEF Processes, Steps, After, SameRecords
<1> HIDE DEF q
<1>3. /\ campaign = r /\ proof["P04"] = None /\ None \notin Runners
      /\ \A s \in Runners : s # r => proc[s].pc \in Early \cup {"refused", "dead"}
  BY <1>1, WorksAlone, EvidenceAssumption
<1>4. proc'[r] = q /\ \A s \in Procs : s # r => proc'[s] = proc[s]
  BY <1>1 DEF EarnedInv, EvidenceTyped
<1>5. Settled'
  <2>1. FullAggregate'
    BY <1>1 DEF CalmRunner, Retaining, FullAggregate, FullRow, FullTrial, ModsOf, world
  <2>2. \A f \in Files : files[f] = Good(r) /\ copies[f] = Good(r) /\ proc[r].read[f] = Good(r)
    BY <1>1 DEF CalmRunner, Retaining, FullAt, Files
  <2> QED
    BY <1>1, <1>3, <2>1, <2>2 DEF Settled
<1>6. CalmRunner(r)'
  BY <1>2, <1>4, <1>5 DEF CalmRunner, LiveSteps, Retaining, After, Judges
<1>7. ASSUME NEW s \in Runners, s # r
      PROVE  CalmRunner(s)'
  <2>1. proc'[s] = proc[s] /\ proc[s].pc \in Early \cup {"refused", "dead"}
    BY <1>3, <1>4, <1>7 DEF Procs
  <2> QED
    BY <2>1 DEF CalmRunner, LiveSteps, Retaining, After, Judges, Early
<1>8. CalmWorld' /\ CalmDisk' /\ CalmProcess(r)'
  BY <1>1, <1>2, <1>3, <1>4, <1>5
     DEF CalmState, CalmWorld, CalmDisk, CalmProcess, SameRecords, world
<1> QED
  BY <1>1, <1>2, <1>6, <1>7, <1>8, CalmOthers

LEMMA CalmLoad ==
  ASSUME EarnedInv, Calm, CalmState, NEW p \in Procs,
         (p \in Verifiers /\ StartVerify(p)) \/ LoadInventory(p)
  PROVE  CalmState'
<1>1. /\ proc[p].pc \in {"idle", "load"} /\ proc[p] \in Processes /\ UNCHANGED <<world, disk>>
      /\ proc \in [Procs -> Processes] /\ Roled(p) /\ CalmProcess(p) /\ CalmDisk
      /\ p \in Runners => CalmRunner(p)
      /\ p \in Runners => p \notin Verifiers
  BY EvidenceAssumption DEF StartVerify, LoadInventory, EarnedInv, EvidenceTyped, CalmState
<1>2. PICK step \in {"load", "rejudge"} :
        /\ Becomes(p, [proc[p] EXCEPT !.pc = step])
        /\ p \in Runners => step = "rejudge" /\ proc[p].pc = "load"
  <2>1. CASE p \in Verifiers /\ StartVerify(p)
    BY <1>1, <2>1 DEF StartVerify
  <2>2. CASE LoadInventory(p)
    <3>1. Settled /\ AggregateTrue
      BY <1>1, <2>2 DEF LoadInventory, Roled, CalmRunner, CalmDisk, EarnedInv, Retained, After, Procs
    <3>2. /\ ~foreign /\ "AGGREGATE" \in Files /\ OwnerSet \subseteq Files
          /\ copies["AGGREGATE"].ok = TRUE
      BY <3>1 DEF CalmState, CalmWorld, Settled, Files, Good
    <3>3. ExactSet /\ Closed /\ copies["AGGREGATE"] = files["AGGREGATE"]
      BY <3>1, <3>2 DEF ExactSet, Closed, Settled, AggregateTrue
    <3> QED
      BY <2>2, <3>2, <3>3 DEF LoadInventory
  <2> QED
    BY <2>1, <2>2
<1> DEFINE q == [proc[p] EXCEPT !.pc = step]
<1>3. /\ q \in Processes /\ q.pc = step /\ SameRecords(p, q) /\ q.read = proc[p].read
      /\ q.snap = proc[p].snap /\ (q.ok <=> proc[p].ok)
  BY <1>1 DEF Processes, Steps, After, Judges, SameRecords
<1>4. proc' = [proc EXCEPT ![p] = q]
  BY <1>2 DEF Becomes
<1> HIDE DEF q
<1>5. proc'[p] = q
  BY <1>1, <1>4
<1>6. CalmProcess(p)'
  BY <1>1, <1>3, <1>5 DEF CalmProcess, SameRecords, world
<1>7. p \in Runners => CalmRunner(p)'
  BY <1>2, <1>1, <1>3, <1>5, CalmSame DEF SameRecords, After, Judges
<1> QED
  BY <1>1, <1>3, <1>4, <1>6, <1>7, CalmMove

LEMMA CalmProve ==
  ASSUME EarnedInv, Calm, CalmState, NEW p \in Procs, Prove(p)
  PROVE  CalmState'
<1>1. PICK k \in {"P03", "P04"} : k = Kind(p) /\ (k = "P03" <=> p \in Runners)
  BY DEF Kind
<1>2. /\ proc[p].pc = "prove" /\ proc[p] \in Processes /\ proc \in [Procs -> Processes]
      /\ UNCHANGED <<world, campaign, aggregate, copies, foreign, inventory, files, faults>>
      /\ Roled(p) /\ CalmProcess(p) /\ CalmDisk /\ CalmWorld
      /\ p \in Runners => CalmRunner(p)
      /\ p \in Runners <=> p \notin Verifiers
      /\ proof \in [{"P03", "P04"} -> {None} \cup [by : Procs, snap : Trees]]
  BY EvidenceAssumption DEF Prove, EarnedInv, EvidenceTyped, DiskTyped, CalmState, Procs
<1>3. PICK step \in {"rejected", "done"} :
        /\ Becomes(p, [proc[p] EXCEPT !.pc = step])
        /\ \/ step = "rejected" /\ proof[k] # None /\ UNCHANGED proof
           \/ /\ step = "done" /\ proof[k] = None
              /\ proof' = [proof EXCEPT ![k] = [by |-> p, snap |-> proc[p].snap]]
  BY <1>1 DEF Prove, Reject
<1> DEFINE q == [proc[p] EXCEPT !.pc = step]
<1>4. /\ q \in Processes /\ q.pc = step /\ SameRecords(p, q) /\ q.read = proc[p].read
      /\ q.snap = proc[p].snap /\ (q.ok <=> proc[p].ok)
  BY <1>2 DEF Processes, Steps, Ended, SameRecords
<1>5. proc' = [proc EXCEPT ![p] = q]
  BY <1>3 DEF Becomes
<1> HIDE DEF q
<1>6. proc'[p] = q /\ \A s \in Procs : s # p => proc'[s] = proc[s]
  BY <1>2, <1>5
<1>7. CASE step = "rejected"
  <2>1. proof[k] # None /\ UNCHANGED proof
    BY <1>3, <1>7
  \* A runner finds no proof: it would be the campaign's, and that is its own.
  <2>2. k = "P04"
    <3>1. ASSUME k = "P03" PROVE FALSE
      <4>1. p \in Runners /\ campaign = p
        BY <1>1, <1>2, <3>1 DEF Roled, Early
      <4>2. proc[campaign].pc = "done"
        BY <2>1, <3>1 DEF EarnedInv, Proved
      <4> QED
        BY <1>2, <4>1, <4>2
    <3> QED
      BY <3>1
  <2>3. ProvedByOther(p)'
    BY <1>1, <1>2, <2>1, <2>2 DEF CalmDisk, ProvedByOther
  <2>4. CalmProcess(p)'
    BY <1>2, <1>4, <1>6, <1>7, <2>3 DEF CalmProcess, SameRecords, world
  <2>5. p \notin Runners
    BY <1>1, <2>2
  <2> QED
    BY <1>2, <1>4, <1>5, <2>1, <2>4, <2>5, CalmMove DEF disk
<1>8. CASE step = "done"
  <2>1. proof[k] = None /\ proof' = [proof EXCEPT ![k] = [by |-> p, snap |-> proc[p].snap]]
    BY <1>3, <1>8
  <2>2. /\ k = "P04" => proof["P04"] = None /\ proof'["P04"].by = p
        /\ k = "P03" => proof'["P04"] = proof["P04"]
    BY <1>2, <2>1
  <2>3. ASSUME NEW s \in Procs PROVE CalmProcess(s)'
    <3>1. CASE s = p
      BY <1>2, <1>4, <1>6, <1>8, <3>1 DEF CalmProcess, SameRecords, world
    <3>2. CASE s # p
      <4>1. proc'[s] = proc[s] /\ CalmProcess(s)
        BY <1>6, <3>2 DEF CalmState
      <4>2. ProvedByOther(s) => ProvedByOther(s)'
        BY <1>1, <2>2 DEF ProvedByOther
      <4> QED
        BY <1>2, <4>1, <4>2 DEF CalmProcess, world
    <3> QED
      BY <3>1, <3>2
  <2>4. Settled => Settled'
    BY <1>2 DEF Settled, FullAggregate, FullRow, FullTrial, ModsOf, world
  <2>5. ASSUME NEW s \in Runners PROVE CalmRunner(s)'
    <3>1. CASE s = p
      BY <1>2, <1>4, <1>6, <1>8, <2>4, <3>1 DEF CalmRunner, LiveSteps, Retaining, After, Judges
    <3>2. CASE s # p
      <4>1. proc'[s] = proc[s] /\ CalmRunner(s)
        BY <1>6, <3>2 DEF CalmState, Procs
      <4> QED
        BY <1>2, <2>4, <4>1, RunnerLasts DEF world
    <3> QED
      BY <3>1, <3>2
  <2>6. CalmDisk'
    <3>1. proof'["P04"] # None => proof'["P04"].by \in Verifiers /\ proc'[proof'["P04"].by].pc = "done"
      BY <1>1, <1>2, <1>4, <1>6, <1>8, <2>2 DEF CalmDisk, Procs
    <3> QED
      BY <1>2, <2>4, <3>1 DEF CalmDisk
  <2> QED
    BY <1>2, <2>3, <2>5, <2>6 DEF CalmState, CalmWorld, world
<1> QED
  BY <1>7, <1>8

\* Nothing else happens in a calm world that stays calm.
LEMMA CalmSteps ==
  ASSUME EarnedInv, CalmInv, [Next]_vars
  PROVE  CalmInv'
<1> SUFFICES ASSUME Calm' PROVE CalmState'
  BY DEF CalmInv
<1>1. edits \in Nat /\ faults \in Nat
  BY DEF EarnedInv, EvidenceTyped, WorldTyped
<1>2. ASSUME UNCHANGED <<tree, edits, faults, fresh>> PROVE Calm /\ CalmState
  BY <1>2 DEF Calm, Sound, CalmInv
<1>3. ASSUME NEW r \in Runners, Campaign(r) PROVE CalmState'
  <2>1. UNCHANGED <<world, faults>>
    BY <1>3 DEF Campaign, Begin, Claim, ClaimAny, Capture, RunCase, RunTrial, RecaptureTrials,
                RecaptureDestruction, Drift, WriteAggregate, Collect, Copy, WriteInventory
  <2>2. Calm /\ CalmState
    BY <1>2, <2>1 DEF world
  <2> QED
    BY <1>3, <2>2, CalmBegin, CalmClaim, CalmCapture, CalmCase, CalmTrials, CalmRecaptures, CalmDrift,
       CalmWriteAggregate, CalmCollect, CalmCopy, CalmWriteInventory DEF Campaign
<1>4. ASSUME NEW p \in Procs, Validation(p) PROVE CalmState'
  <2>1. UNCHANGED <<world, faults>>
    BY <1>4 DEF Validation, Snap, Judge, DriftCheck, LoadInventory, Prove
  <2>2. Calm /\ CalmState
    BY <1>2, <2>1 DEF world
  <2> QED
    BY <1>4, <2>2, CalmSnap, CalmJudge, CalmDriftCheck, CalmLoad, CalmProve DEF Validation
<1>5. ASSUME NEW v \in Verifiers, StartVerify(v) PROVE CalmState'
  <2>1. UNCHANGED <<world, faults>>
    BY <1>5 DEF StartVerify
  <2>2. Calm /\ CalmState
    BY <1>2, <2>1 DEF world
  <2> QED
    BY <1>5, <2>2, CalmLoad DEF Procs
<1>6. ~Fault
  BY <1>1 DEF Fault, Calm
<1>7. ASSUME NEW t \in Trees, Edit(t) PROVE FALSE
  BY <1>1, <1>7 DEF Edit, Calm
<1>8. ASSUME Compile \/ \E x \in {"chrome", "node"} : Return(x) PROVE FALSE
  <2>1. Calm /\ CalmState
    BY <1>2, <1>8 DEF Compile, Return
  <2> QED
    BY <1>8, <2>1 DEF CalmState, CalmWorld, Compile, Return
<1>9. ASSUME AddForeign \/ (\E p \in Procs : Die(p)) \/ (\E x \in {"chrome", "node"} : Outage(x))
                \/ (\E f \in Files : AlterFile(f) \/ AlterCopy(f))
      PROVE  FALSE
  BY <1>6, <1>9 DEF AddForeign, Die, Outage, AlterFile, AlterCopy
<1>10. CASE UNCHANGED vars
  <2>1. Calm /\ CalmState
    BY <1>2, <1>10 DEF vars, world
  <2>2. ASSUME NEW r \in Runners PROVE CalmRunner(r)'
    <3>1. CalmRunner(r)
      BY <2>1 DEF CalmState
    <3> QED
      <4>1. Settled => Settled'
        BY <1>10 DEF Settled, FullAggregate, FullRow, FullTrial, ModsOf, vars, world, disk
      <4> QED
        BY <1>10, <3>1, <4>1, RunnerLasts DEF vars, world, disk
  <2>3. ASSUME NEW p \in Procs PROVE CalmProcess(p)'
    <3>1. CalmProcess(p)
      BY <2>1 DEF CalmState
    <3> QED
      BY <1>10, <3>1 DEF CalmProcess, ProvedByOther, vars, world, disk
  <2>4. CalmWorld' /\ CalmDisk'
    BY <1>10, <2>1 DEF CalmState, CalmWorld, CalmDisk, FullRow, FullTrial, ModsOf, FullAggregate, Settled,
                       vars, world, disk
  <2> QED
    BY <2>2, <2>3, <2>4 DEF CalmState
<1> QED
  BY <1>3, <1>4, <1>5, <1>7, <1>8, <1>9, <1>10 DEF Next

LEMMA CalmStarts == ASSUME Init PROVE CalmInv
<1> SUFFICES ASSUME Calm PROVE CalmState
  BY DEF CalmInv
<1>1. /\ campaign = None /\ inventory = None /\ proof["P04"] = None
      /\ \A f \in Files : copies[f] = None
  BY DEF Init
<1>2. CalmWorld
  BY DEF Init, Calm, CalmWorld
<1>3. ASSUME NEW p \in Procs
      PROVE  /\ proc[p] = Idle /\ Idle.pc = "idle" /\ Idle.snap = None /\ Idle.ok
             /\ Idle.cache = [t \in Trees |-> None]
  BY DEF Init, Idle
<1>4. \A p \in Procs : CalmProcess(p)
  BY <1>3 DEF CalmProcess
<1>5. \A r \in Runners : CalmRunner(r)
  BY <1>3 DEF CalmRunner, Procs, LiveSteps, Retaining, After, Judges
<1> QED
  BY <1>1, <1>2, <1>4, <1>5 DEF CalmState, CalmDisk

(* A campaign is rejected for a reason: without an edit or a fault, of      *)
(* sources that pass and a build of these sources, nobody is rejected,      *)
(* except a verification when another one wrote the proof first.            *)
THEOREM NobodyIsRejectedForNothing == Spec => []RejectedForReason
<1>1. Init => EarnedInv /\ CalmInv
  BY EvidenceStarts, CalmStarts
<1>2. EarnedInv /\ CalmInv /\ [Next]_vars => EarnedInv' /\ CalmInv'
  BY EvidenceSteps, CalmSteps
<1>3. ASSUME EarnedInv, CalmInv PROVE RejectedForReason
  <2>1. SUFFICES ASSUME NEW p \in Procs, proc[p].pc = "rejected", ~ProvedByOther(p),
                        ~(edits > 0), ~(faults > 0), Sound(tree), fresh
                 PROVE  FALSE
    BY DEF RejectedForReason
  <2>2. edits = 0 /\ faults = 0
    BY <1>3, <2>1 DEF EarnedInv, EvidenceTyped, WorldTyped
  <2>3. CalmProcess(p)
    BY <1>3, <2>1, <2>2 DEF CalmInv, Calm, CalmState
  <2> QED
    BY <2>1, <2>3 DEF CalmProcess
<1>4. EarnedInv /\ CalmInv => RejectedForReason
  BY <1>3
<1> QED
  BY <1>1, <1>2, <1>4, PTL DEF Spec
===============================================================================
