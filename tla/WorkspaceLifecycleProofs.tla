----------------------- MODULE WorkspaceLifecycleProofs -----------------------
(***************************************************************************)
(* The invariants of a workspace's life, for any requests, deletions,      *)
(* launches and restarts.  DoorInv is about who is inside: the setup       *)
(* admission, the status of the row and the record of active deletions     *)
(* agree on it.  SessionInv, under DoorInv, follows each process from its  *)
(* launch to its end: somebody still has it in hand when it must stop.     *)
(***************************************************************************)
EXTENDS WorkspaceLifecycle, FiniteSetTheorems, TLAPS

-----------------------------------------------------------------------------
(* The two doors: setup admission and deletion admission. *)

Statuses == {"creating", "ready", "error", "deleting", "deletion_failed", "gone"}

WorkerPlaces == {"idle", "begin", "awaitDeletion", "awaitSetup", "setup", "after", "retire",
                 "restart", "restarted", "finish", "conflict", "queue", "again"}

DeleterPlaces == {"idle", "mark", "lookup", "hold", "preflight", "admit", "stop", "drain", "kill",
                  "clean", "drop", "persist", "succeeded", "failed", "returned"}

DeleterStates == [pc : DeleterPlaces, queued : BOOLEAN, admitted : BOOLEAN, waits : BOOLEAN]

DoorTypes ==
    /\ status \in Statuses
    /\ setupDone \in Workers \union {Nobody, Recovery}
    /\ deletion \in [active : Int, succeeded : BOOLEAN]
    /\ retryQueued \in BOOLEAN /\ retryMu \in Workers \union {Nobody}
    /\ worker \in [Workers -> WorkerPlaces]
    /\ deleter \in [Deleters -> DeleterStates]
    /\ recovery \in Launches \union {Nobody}

Inside == {"setup", "after", "retire", "restart", "restarted"}

\* The setup admission is held by the one worker that is inside, or by recovery.
AdmissionHeld ==
    /\ recovery # Nobody <=> setupDone = Recovery
    /\ \A w \in Workers :
        worker[w] \in Inside \union {"finish"} <=> setupDone = w

\* A workspace is being created exactly while one worker has it to set up, but
\* for one that a setup left behind; nobody is inside once a setup has given up.
Building(w) == worker[w] \in {"begin", "awaitDeletion", "awaitSetup", "setup", "restarted"}
OneBuilder ==
    /\ \A w \in Workers : Building(w) => status = "creating"
    /\ status = "creating" => leftBy = "restarted" \/ \E w \in Workers : Building(w)
    /\ \A v, w \in Workers : Building(v) /\ Building(w) => v = w
GivenUpIsOut == leftBy # Nobody => \A w \in Workers : worker[w] \notin Inside

\* A deletion that took the row's status to "deleting" keeps it, alone.
Admitted(d) ==
    \/ deleter[d].pc \in {"mark", "stop", "drain", "kill", "clean", "drop", "persist"}
    \/ deleter[d].pc \in {"hold", "preflight"} /\ deleter[d].queued
OneAdmitted ==
    /\ \A d \in Deleters : Admitted(d) => status = "deleting"
    /\ \A d, e \in Deleters : Admitted(d) /\ Admitted(e) => d = e

\* A queued deletion is admitted from the start, a direct one from its mark on
\* the row, and the retirement is always queued.
FlagsAgree(d) ==
    /\ deleter[d].pc = "mark" => deleter[d].queued /\ deleter[d].admitted
    /\ deleter[d].pc \in {"hold", "preflight"} => (deleter[d].queued <=> deleter[d].admitted)
    /\ deleter[d].pc \in {"idle", "lookup", "admit"} => ~deleter[d].queued /\ ~deleter[d].admitted
    /\ deleter[d].pc \in {"stop", "drain", "kill", "clean", "drop"} => deleter[d].admitted
DeletersAgree ==
    /\ \A d \in Deleters : FlagsAgree(d)
    /\ \A d \in Deleters : deleter[d].pc = "succeeded" => status = "gone"
    /\ deletion.succeeded => status = "gone"
    /\ deleter[Retirement].pc # "idle" => status \in {"deleting", "deletion_failed", "gone"}

\* The record of active deletions counts those between their mark and finish.
Marked(d) == deleter[d].pc \in {"lookup", "hold", "preflight", "admit", "stop", "drain", "kill",
                                "clean", "drop", "persist", "succeeded", "failed"}
MarkedSet == {d \in Deleters : Marked(d)}
CountIsExact == deletion.active = Cardinality(MarkedSet)

\* Past its wait a deletion has no setup beside it; before, it knows of it.
WaitsForSetup ==
    \A d \in Deleters :
        /\ deleter[d].pc \in {"lookup", "hold", "preflight"} /\ setupDone # Nobody =>
              deleter[d].waits
        /\ deleter[d].pc \in {"admit", "stop", "drain", "kill", "clean", "drop"} =>
              setupDone = Nobody

\* A queued retry is one that a setup has yet to consume, or never will need to,
\* or one that a setup left when it gave up.
RetriesAreSeen ==
    /\ \A w \in Workers : worker[w] = "queue" <=> retryMu = w
    /\ retryQueued \/ retryMu # Nobody =>
        \/ status \in {"creating", "deleting", "deletion_failed", "gone"}
        \/ leftBy \in {"after", "retire"}
        \/ \E w \in Workers : worker[w] \in {"after", "retire"}

DoorInv ==
    /\ DoorTypes /\ AdmissionHeld /\ OneBuilder /\ GivenUpIsOut /\ OneAdmitted /\ DeletersAgree
    /\ CountIsExact /\ WaitsForSetup /\ RetriesAreSeen

-----------------------------------------------------------------------------
(* What each operation does to the deleters. *)

\* Deleter d comes to be as given, and the others stay as they are.
BecomesOne(d, p, queued, admitted, waits) ==
    /\ deleter' \in [Deleters -> DeleterStates]
    /\ deleter'[d].pc = p /\ (deleter'[d].queued <=> queued)
    /\ (deleter'[d].admitted <=> admitted) /\ (deleter'[d].waits <=> waits)
    /\ \A e \in Deleters \ {d} : deleter'[e] = deleter[e]

\* A deletion with one of its fields updated.
WithPc(x, p) == [x EXCEPT !.pc = p]
WithAdmitted(x, yes) == [x EXCEPT !.admitted = yes]
WithWaits(x, yes) == [x EXCEPT !.waits = yes]

LEMMA PcFields ==
    ASSUME NEW x \in DeleterStates, NEW p \in DeleterPlaces
    PROVE  /\ WithPc(x, p) \in DeleterStates
           /\ WithPc(x, p).pc = p /\ WithPc(x, p).queued = x.queued
           /\ WithPc(x, p).admitted = x.admitted /\ WithPc(x, p).waits = x.waits
  BY DEF DeleterStates, WithPc

LEMMA FlagFields ==
    ASSUME NEW x \in DeleterStates, NEW yes \in BOOLEAN
    PROVE  /\ WithWaits(x, yes) \in DeleterStates
           /\ WithWaits(x, yes).pc = x.pc /\ WithWaits(x, yes).queued = x.queued
           /\ WithWaits(x, yes).admitted = x.admitted /\ WithWaits(x, yes).waits = yes
           /\ WithAdmitted(x, yes) \in DeleterStates
           /\ WithAdmitted(x, yes).pc = x.pc /\ WithAdmitted(x, yes).queued = x.queued
           /\ WithAdmitted(x, yes).admitted = yes /\ WithAdmitted(x, yes).waits = x.waits
  BY DEF DeleterStates, WithWaits, WithAdmitted

LEMMA SetOne ==
    ASSUME DoorTypes, NEW d \in Deleters, NEW x \in DeleterStates,
           deleter' = [deleter EXCEPT ![d] = x]
    PROVE  /\ deleter' \in [Deleters -> DeleterStates] /\ deleter'[d] = x
           /\ \A e \in Deleters \ {d} : deleter'[e] = deleter[e]
  BY DEF DoorTypes

LEMMA MoveSets ==
    ASSUME DoorTypes, NEW d \in Deleters, NEW p \in DeleterPlaces, MoveDeleter(d, p)
    PROVE  BecomesOne(d, p, deleter[d].queued, deleter[d].admitted, deleter[d].waits)
<1> PICK x \in DeleterStates : x = deleter[d]
  BY DEF DoorTypes
<1> DEFINE y == WithPc(x, p)
<1>1. deleter' = [deleter EXCEPT ![d] = y]
  BY DEF MoveDeleter, WithPc
<1>2. y \in DeleterStates /\ y.pc = p /\ y.queued = x.queued /\ y.admitted = x.admitted
        /\ y.waits = x.waits
  BY PcFields
<1> HIDE DEF y
<1>3. /\ deleter' \in [Deleters -> DeleterStates] /\ deleter'[d] = y
      /\ \A e \in Deleters \ {d} : deleter'[e] = deleter[e]
  BY <1>1, <1>2, SetOne
<1> QED
  BY <1>2, <1>3 DEF BecomesOne

LEMMA BeginSets ==
    ASSUME DoorTypes, NEW d \in Deleters, BeginWorkspaceDeletion(d)
    PROVE  BecomesOne(d, "stop", deleter[d].queued, TRUE, deleter[d].waits)
<1> PICK x \in DeleterStates : x = deleter[d]
  BY DEF DoorTypes
<1> DEFINE yes == TRUE
           y == WithPc(x, "stop")
           z == WithAdmitted(y, yes)
<1>1. deleter' = [deleter EXCEPT ![d].pc = "stop", ![d].admitted = yes]
  BY DEF BeginWorkspaceDeletion
<1>2. yes \in BOOLEAN /\ yes /\ "stop" \in DeleterPlaces
  BY DEF DeleterPlaces
<1> HIDE DEF yes
<1>3. deleter' = [deleter EXCEPT ![d] = z]
  BY <1>1 DEF DoorTypes, WithPc, WithAdmitted, WithWaits
<1>4. y \in DeleterStates /\ y.pc = "stop" /\ y.queued = x.queued /\ y.waits = x.waits
  BY <1>2, PcFields
<1> HIDE DEF y
<1>5. z \in DeleterStates /\ z.pc = "stop" /\ z.queued = x.queued /\ z.waits = x.waits /\ z.admitted
  BY <1>2, <1>4, FlagFields
<1> HIDE DEF z
<1>6. /\ deleter' \in [Deleters -> DeleterStates] /\ deleter'[d] = z
      /\ \A e \in Deleters \ {d} : deleter'[e] = deleter[e]
  BY <1>3, <1>5, SetOne
<1> QED
  BY <1>5, <1>6 DEF BecomesOne

LEMMA MarkSets ==
    ASSUME DoorTypes, NEW d \in Deleters, MarkWorkspaceDeleting(d)
    PROVE  BecomesOne(d, IF deleter[d].pc = "mark" THEN "hold" ELSE "lookup",
                      deleter[d].queued, deleter[d].admitted, setupDone # Nobody)
<1> PICK x \in DeleterStates : x = deleter[d]
  BY DEF DoorTypes
<1> DEFINE yes == setupDone # Nobody
           p == IF deleter[d].pc = "mark" THEN "hold" ELSE "lookup"
           y == WithPc(x, p)
           z == WithWaits(y, yes)
<1>1. deleter' = [deleter EXCEPT ![d].pc = p, ![d].waits = yes]
  BY DEF MarkWorkspaceDeleting, At
<1>2. yes \in BOOLEAN /\ p \in DeleterPlaces
  BY DEF DeleterPlaces
<1> HIDE DEF yes, p
<1>3. deleter' = [deleter EXCEPT ![d] = z]
  BY <1>1 DEF DoorTypes, WithPc, WithAdmitted, WithWaits
<1>4. y \in DeleterStates /\ y.pc = p /\ y.queued = x.queued /\ y.admitted = x.admitted
  BY <1>2, PcFields
<1> HIDE DEF y
<1>5. z \in DeleterStates /\ z.pc = p /\ z.queued = x.queued /\ z.admitted = x.admitted
        /\ z.waits = yes
  BY <1>2, <1>4, FlagFields
<1> HIDE DEF z
<1>6. /\ deleter' \in [Deleters -> DeleterStates] /\ deleter'[d] = z
      /\ \A e \in Deleters \ {d} : deleter'[e] = deleter[e]
  BY <1>3, <1>5, SetOne
<1>7. BecomesOne(d, p, deleter[d].queued, deleter[d].admitted, yes)
  BY <1>5, <1>6 DEF BecomesOne
<1> QED
  BY <1>7 DEF p, yes

\* A queued deletion, the retirement included, starts with its flags set.
LEMMA QueueSets ==
    ASSUME DoorTypes, NEW d \in Deleters,
           deleter' = [deleter EXCEPT ![d] =
               [pc |-> "mark", queued |-> TRUE, admitted |-> TRUE, waits |-> FALSE]]
    PROVE  BecomesOne(d, "mark", TRUE, TRUE, FALSE)
<1> DEFINE x == [pc |-> "mark", queued |-> TRUE, admitted |-> TRUE, waits |-> FALSE]
<1>1. x \in DeleterStates /\ x.pc = "mark" /\ x.queued = TRUE /\ x.admitted = TRUE
        /\ x.waits = FALSE
  BY DEF DeleterStates, DeleterPlaces
<1>2. deleter' = [deleter EXCEPT ![d] = x]
  OBVIOUS
<1> HIDE DEF x
<1>3. /\ deleter' \in [Deleters -> DeleterStates] /\ deleter'[d] = x
      /\ \A e \in Deleters \ {d} : deleter'[e] = deleter[e]
  BY <1>1, <1>2, SetOne
<1> QED
  BY <1>1, <1>3 DEF BecomesOne

LEMMA IdleFields ==
    /\ IdleDeleter \in DeleterStates /\ IdleDeleter.pc = "idle"
    /\ ~IdleDeleter.queued /\ ~IdleDeleter.admitted /\ ~IdleDeleter.waits
    /\ \A d \in Deleters :
        /\ Returned(d) \in DeleterStates
        /\ Returned(d).pc = IF d = Retirement THEN "idle" ELSE "returned"
        /\ ~Returned(d).queued /\ ~Returned(d).admitted /\ ~Returned(d).waits
<1>1. /\ IdleDeleter \in DeleterStates /\ IdleDeleter.pc = "idle"
      /\ IdleDeleter.queued = FALSE /\ IdleDeleter.admitted = FALSE /\ IdleDeleter.waits = FALSE
  BY DEF IdleDeleter, DeleterStates, DeleterPlaces
<1>2. "returned" \in DeleterPlaces
  BY DEF DeleterPlaces
<1> DEFINE y == WithPc(IdleDeleter, "returned")
<1> PICK x : x = IdleDeleter
  OBVIOUS
<1>3. y \in DeleterStates /\ y.pc = "returned"
        /\ y.queued = x.queued /\ y.admitted = x.admitted /\ y.waits = x.waits
  BY <1>1, <1>2, PcFields
<1> HIDE DEF y
<1>4. \A d \in Deleters : Returned(d) = IF d = Retirement THEN IdleDeleter ELSE y
  BY DEF Returned, y, WithPc
<1> QED
  BY <1>1, <1>3, <1>4

LEMMA FinishSets ==
    ASSUME DoorTypes, NEW d \in Deleters, FinishWorkspaceDeleting(d)
    PROVE  BecomesOne(d, IF d = Retirement THEN "idle" ELSE "returned", FALSE, FALSE, FALSE)
<1>1. deleter' = [deleter EXCEPT ![d] = Returned(d)] /\ Returned(d) \in DeleterStates
  BY IdleFields DEF FinishWorkspaceDeleting
<1>2. /\ deleter' \in [Deleters -> DeleterStates] /\ deleter'[d] = Returned(d)
      /\ \A e \in Deleters \ {d} : deleter'[e] = deleter[e]
  BY <1>1, SetOne
<1> QED
  BY <1>2, IdleFields DEF BecomesOne

\* Closing the admission frees every deletion that waits, and moves none.
LEMMA CloseFields ==
    ASSUME DoorTypes, CloseSetup
    PROVE  /\ deleter' \in [Deleters -> DeleterStates]
           /\ \A d \in Deleters : /\ deleter'[d].pc = deleter[d].pc
                                  /\ deleter'[d].queued = deleter[d].queued
                                  /\ deleter'[d].admitted = deleter[d].admitted
                                  /\ ~deleter'[d].waits
<1> DEFINE no == FALSE
           y(d) == WithWaits(deleter[d], no)
<1>1. deleter' = [d \in Deleters |-> y(d)]
  BY DEF CloseSetup, WithWaits
<1>2. no \in BOOLEAN /\ ~no
  OBVIOUS
<1> HIDE DEF no
<1>3. ASSUME NEW d \in Deleters
      PROVE  /\ y(d) \in DeleterStates /\ y(d).pc = deleter[d].pc /\ y(d).queued = deleter[d].queued
             /\ y(d).admitted = deleter[d].admitted /\ y(d).waits = no
  <2> PICK x \in DeleterStates : x = deleter[d]
    BY DEF DoorTypes
  <2>1. WithWaits(x, no) \in DeleterStates /\ WithWaits(x, no).pc = x.pc
        /\ WithWaits(x, no).queued = x.queued /\ WithWaits(x, no).admitted = x.admitted
        /\ WithWaits(x, no).waits = no
    BY <1>2, FlagFields
  <2> QED
    BY <2>1
<1> HIDE DEF y
<1> QED
  BY <1>1, <1>2, <1>3

-----------------------------------------------------------------------------
(* Counting the deletions. *)

LEMMA DeletersAreFinite == IsFiniteSet(Deleters) /\ IsFiniteSet(MarkedSet)
<1>1. IsFiniteSet(Deleters)
  BY LifecycleAssumption, FS_AddElement, FS_EmptySet, FS_Singleton, FS_Union DEF Deleters
<1> QED
  BY <1>1, FS_Subset DEF MarkedSet

LEMMA NoneIsMarked ==
    ASSUME DoorInv, ~Deleting
    PROVE  \A d \in Deleters : ~Marked(d)
<1>1. Cardinality(MarkedSet) \in Nat /\ deletion.active = Cardinality(MarkedSet)
  BY DeletersAreFinite, FS_CardinalityType DEF DoorInv, CountIsExact
<1>2. Cardinality(MarkedSet) = 0
  BY <1>1 DEF Deleting
<1>3. MarkedSet = {}
  BY <1>2, DeletersAreFinite, FS_EmptySet
<1> QED
  BY <1>3 DEF MarkedSet

\* A step that neither marks a deletion nor returns from one keeps the count.
LEMMA CountStays ==
    ASSUME DoorInv, UNCHANGED deletion,
           \A d \in Deleters : Marked(d)' <=> Marked(d)
    PROVE  CountIsExact'
<1>1. MarkedSet' = MarkedSet
  BY DEF MarkedSet
<1> QED
  BY <1>1 DEF DoorInv, CountIsExact

-----------------------------------------------------------------------------
(* The steps of the requests that create or retry. *)

LEMMA BeginKeepsDoor ==
    ASSUME DoorInv, NEW w \in Workers, BeginWorkspaceSetup(w)
    PROVE  DoorInv'
<1> USE LifecycleAssumption
<1>1. DoorTypes'
  BY DEF DoorInv, DoorTypes, BeginWorkspaceSetup, WorkerPlaces
<1>2. AdmissionHeld'
  BY DEF DoorInv, DoorTypes, AdmissionHeld, Inside, BeginWorkspaceSetup, Nobody, Recovery
<1>3. OneBuilder'
  <2>1. status = "creating" /\ Building(w) /\ ~deletion.succeeded
    BY DEF DoorInv, OneBuilder, Building, DeletersAgree, FlagsAgree, BeginWorkspaceSetup
  <2>2. worker'[w] \in {"awaitDeletion", "awaitSetup", "setup"} /\ UNCHANGED status
        /\ \A v \in Workers \ {w} : worker'[v] = worker[v]
    BY <2>1 DEF DoorInv, DoorTypes, BeginWorkspaceSetup
  <2> QED
    BY <2>1, <2>2 DEF DoorInv, OneBuilder, Building
<1>4. OneAdmitted' /\ DeletersAgree'
  BY DEF DoorInv, OneAdmitted, DeletersAgree, FlagsAgree, Admitted, BeginWorkspaceSetup
<1>5. CountIsExact'
  BY CountStays DEF Marked, BeginWorkspaceSetup
<1>6. WaitsForSetup'
  BY NoneIsMarked DEF DoorInv, WaitsForSetup, Marked, BeginWorkspaceSetup
<1>7. RetriesAreSeen'
  <2>1. status = "creating"
    BY DEF DoorInv, OneBuilder, Building, BeginWorkspaceSetup
  <2> QED
    BY <2>1 DEF DoorInv, DoorTypes, RetriesAreSeen, BeginWorkspaceSetup
<1>8. GivenUpIsOut'
  BY DEF DoorInv, DoorTypes, GivenUpIsOut, Inside, BeginWorkspaceSetup
<1> QED
  BY <1>1, <1>2, <1>3, <1>4, <1>5, <1>6, <1>7, <1>8 DEF DoorInv

LEMMA SetupEndKeepsDoor ==
    ASSUME DoorInv, NEW w \in Workers,
           SetupSucceeds(w) \/ SetupFails(w) \/ SetupUnresolved(w)
    PROVE  DoorInv'
<1> USE LifecycleAssumption
<1>1. /\ worker[w] = "setup" /\ status = "creating" /\ status' \in {"ready", "error"}
      /\ worker' = [worker EXCEPT ![w] = worker'[w]] /\ worker'[w] \in {"after", "retire"}
      /\ UNCHANGED << setupDone, deletion, retryQueued, retryMu, deleter, recovery, leftBy >>
  BY DEF DoorInv, DoorTypes, OneBuilder, Building, SetupSucceeds, SetupFails, SetupUnresolved,
         SetupEndsAs, SetStatus, OnWorker
<1>2. \A v \in Workers \ {w} : worker'[v] = worker[v]
  BY <1>1 DEF DoorInv, DoorTypes
<1>3. DoorTypes'
  BY <1>1 DEF DoorInv, DoorTypes, WorkerPlaces, Statuses
<1>4. AdmissionHeld'
  BY <1>1, <1>2 DEF DoorInv, AdmissionHeld, Inside
<1>5. OneBuilder' /\ GivenUpIsOut'
  BY <1>1, <1>2 DEF DoorInv, OneBuilder, Building, GivenUpIsOut, Inside
<1>6. OneAdmitted'
  BY <1>1 DEF DoorInv, OneAdmitted, Admitted
<1>7. DeletersAgree'
  BY <1>1 DEF DoorInv, DeletersAgree, FlagsAgree
<1>8. CountIsExact'
  BY <1>1, CountStays DEF Marked
<1>9. WaitsForSetup' /\ RetriesAreSeen'
  BY <1>1, <1>2 DEF DoorInv, WaitsForSetup, RetriesAreSeen
<1> QED
  BY <1>3, <1>4, <1>5, <1>6, <1>7, <1>8, <1>9 DEF DoorInv

LEMMA RetirementKeepsDoor ==
    ASSUME DoorInv, NEW w \in Workers, QueueRetirement(w)
    PROVE  DoorInv'
<1> USE LifecycleAssumption
<1>1. /\ worker[w] = "retire" /\ worker' = [worker EXCEPT ![w] = "finish"] /\ worker'[w] = "finish"
      /\ \A v \in Workers \ {w} : worker'[v] = worker[v]
      /\ UNCHANGED << setupDone, deletion, retryQueued, retryMu, recovery, leftBy >>
  BY DEF DoorInv, DoorTypes, QueueRetirement, OnWorker
<1>2. Retirement \in Deleters
  BY DEF Deleters
<1>3. CASE status \in {"ready", "error"}
  <2>1. status' = "deleting" /\ BecomesOne(Retirement, "mark", TRUE, TRUE, FALSE)
    BY <1>2, <1>3, QueueSets DEF QueueRetirement, DoorInv
  <2>2. deleter[Retirement].pc = "idle" /\ \A v \in Workers : ~Building(v)
    BY <1>3 DEF DoorInv, DeletersAgree, FlagsAgree, OneBuilder
  <2>3. DoorTypes'
    BY <1>1, <2>1 DEF DoorInv, DoorTypes, WorkerPlaces, Statuses, BecomesOne
  <2>4. AdmissionHeld' /\ GivenUpIsOut'
    BY <1>1 DEF DoorInv, AdmissionHeld, GivenUpIsOut, Inside
  <2>5. OneBuilder'
    BY <1>1, <2>1, <2>2 DEF DoorInv, OneBuilder, Building
  <2>6. OneAdmitted'
    BY <1>2, <1>3, <2>1 DEF DoorInv, OneAdmitted, Admitted, BecomesOne
  <2>7. DeletersAgree'
    BY <1>1, <1>2, <1>3, <2>1 DEF DoorInv, DeletersAgree, FlagsAgree, BecomesOne
  <2>8. CountIsExact'
    BY <1>1, <1>2, <2>1, <2>2, CountStays DEF Marked, BecomesOne
  <2>9. WaitsForSetup' /\ RetriesAreSeen'
    BY <1>1, <1>2, <2>1 DEF DoorInv, WaitsForSetup, RetriesAreSeen, BecomesOne
  <2> QED
    BY <2>3, <2>4, <2>5, <2>6, <2>7, <2>8, <2>9 DEF DoorInv
<1>4. CASE status \notin {"ready", "error"}
  <2>1. UNCHANGED << status, deleter >>
    BY <1>4 DEF QueueRetirement
  <2>2. DoorTypes'
    BY <1>1, <2>1 DEF DoorInv, DoorTypes, WorkerPlaces
  <2>3. AdmissionHeld' /\ OneBuilder' /\ GivenUpIsOut'
    BY <1>1, <2>1 DEF DoorInv, AdmissionHeld, OneBuilder, Building, GivenUpIsOut, Inside
  <2>4. OneAdmitted' /\ DeletersAgree'
    BY <1>1, <2>1 DEF DoorInv, OneAdmitted, Admitted, DeletersAgree, FlagsAgree
  <2>5. CountIsExact'
    BY <1>1, <2>1, CountStays DEF Marked
  <2>6. WaitsForSetup' /\ RetriesAreSeen'
    BY <1>1, <1>4, <2>1 DEF DoorInv, DoorTypes, Statuses, WaitsForSetup, RetriesAreSeen
  <2> QED
    BY <2>2, <2>3, <2>4, <2>5, <2>6 DEF DoorInv
<1> QED
  BY <1>3, <1>4

LEMMA ConsumeKeepsDoor ==
    ASSUME DoorInv, NEW w \in Workers, ConsumeQueuedRetry(w)
    PROVE  DoorInv'
<1> USE LifecycleAssumption
<1>1. /\ worker[w] = "after" /\ worker'[w] \in {"restart", "finish"}
      /\ worker' = [worker EXCEPT ![w] = worker'[w]]
      /\ retryMu = Nobody /\ ~retryQueued'
      /\ UNCHANGED << status, setupDone, deletion, retryMu, deleter, recovery, leftBy >>
  BY DEF DoorInv, DoorTypes, ConsumeQueuedRetry, OnWorker
<1>2. \A v \in Workers \ {w} : worker'[v] = worker[v]
  BY <1>1 DEF DoorInv, DoorTypes
<1>3. retryQueued' \in BOOLEAN
  BY DEF ConsumeQueuedRetry
<1>4. DoorTypes'
  BY <1>1, <1>3 DEF DoorInv, DoorTypes, WorkerPlaces
<1>5. AdmissionHeld' /\ OneBuilder' /\ GivenUpIsOut'
  BY <1>1, <1>2 DEF DoorInv, AdmissionHeld, OneBuilder, Building, GivenUpIsOut, Inside
<1>6. OneAdmitted' /\ DeletersAgree'
  BY <1>1 DEF DoorInv, OneAdmitted, Admitted, DeletersAgree, FlagsAgree
<1>7. CountIsExact'
  BY <1>1, CountStays DEF Marked
<1>8. WaitsForSetup' /\ RetriesAreSeen'
  BY <1>1, <1>2 DEF DoorInv, WaitsForSetup, RetriesAreSeen
<1> QED
  BY <1>4, <1>5, <1>6, <1>7, <1>8 DEF DoorInv

\* A setup goes on with the retry it started, or gives up: then it leaves.
LEMMA GiveUpKeepsDoor ==
    ASSUME DoorInv, NEW w \in Workers, ResumeSetup(w) \/ SetupGivesUp(w)
    PROVE  DoorInv'
<1> USE LifecycleAssumption
<1>1. /\ UNCHANGED << status, setupDone, deletion, retryQueued, retryMu, deleter, recovery >>
      /\ worker' = [worker EXCEPT ![w] = worker'[w]]
      /\ \A v \in Workers \ {w} : worker'[v] = worker[v]
  BY DEF DoorInv, DoorTypes, ResumeSetup, SetupGivesUp, OnWorker
<1>2. \/ worker[w] = "restarted" /\ worker'[w] = "setup" /\ leftBy' = leftBy
      \/ /\ worker[w] \in {"after", "retire", "restart", "restarted"} /\ worker'[w] = "finish"
         /\ leftBy' = worker[w]
  BY DEF DoorInv, DoorTypes, ResumeSetup, SetupGivesUp, OnWorker
<1>3. leftBy = Nobody /\ \A v \in Workers \ {w} : worker[v] \notin Inside
  BY <1>2 DEF DoorInv, GivenUpIsOut, AdmissionHeld, Inside
<1>4. DoorTypes'
  BY <1>1, <1>2 DEF DoorInv, DoorTypes, WorkerPlaces
<1>5. AdmissionHeld'
  BY <1>1, <1>2 DEF DoorInv, AdmissionHeld, Inside
<1>6. OneBuilder'
  BY <1>1, <1>2, <1>3 DEF DoorInv, OneBuilder, Building, Nobody
<1>7. GivenUpIsOut'
  BY <1>1, <1>2, <1>3 DEF GivenUpIsOut, Inside
<1>8. OneAdmitted' /\ DeletersAgree'
  BY <1>1 DEF DoorInv, OneAdmitted, Admitted, DeletersAgree, FlagsAgree
<1>9. CountIsExact'
  BY <1>1, CountStays DEF Marked
<1>10. WaitsForSetup' /\ RetriesAreSeen'
  BY <1>1, <1>2, <1>3 DEF DoorInv, WaitsForSetup, RetriesAreSeen, Inside, Nobody
<1> QED
  BY <1>4, <1>5, <1>6, <1>7, <1>8, <1>9, <1>10 DEF DoorInv

\* A request that finds the status "error" takes the workspace to build it.
LEMMA RetryKeepsDoor ==
    ASSUME DoorInv, NEW w \in Workers,
           StartQueuedRetry(w) \/ StartWorkspaceRetry(w)
    PROVE  DoorInv'
<1> USE LifecycleAssumption
<1>1. /\ UNCHANGED << setupDone, deletion, retryQueued, retryMu, deleter, recovery, leftBy >>
      /\ worker' = [worker EXCEPT ![w] = worker'[w]] /\ worker'[w] \in WorkerPlaces
      /\ \A v \in Workers \ {w} : worker'[v] = worker[v]
  BY DEF DoorInv, DoorTypes, WorkerPlaces, StartQueuedRetry, StartWorkspaceRetry, OnWorker
<1>2. \/ worker[w] = "restart" /\ worker'[w] \in {"restarted", "finish"}
      \/ worker[w] \in {"idle", "again"} /\ worker'[w] \in {"begin", "conflict"}
  BY DEF DoorInv, DoorTypes, StartQueuedRetry, StartWorkspaceRetry
<1>3. \/ /\ status = "error" /\ status' = "creating" /\ worker'[w] \in {"restarted", "begin"}
         /\ \A v \in Workers : ~Building(v)
         /\ \A d \in Deleters : ~Admitted(d)
      \/ status' = status /\ worker'[w] \in {"finish", "conflict"}
  BY DEF DoorInv, DoorTypes, OneBuilder, OneAdmitted, StartQueuedRetry, StartWorkspaceRetry
<1>4. DoorTypes'
  BY <1>1, <1>3 DEF DoorInv, DoorTypes, Statuses
<1>5. AdmissionHeld' /\ GivenUpIsOut'
  BY <1>1, <1>2 DEF DoorInv, AdmissionHeld, GivenUpIsOut, Inside
<1>6. OneBuilder'
  BY <1>1, <1>2, <1>3 DEF DoorInv, OneBuilder, Building
<1>7. OneAdmitted'
  BY <1>1, <1>3 DEF DoorInv, OneAdmitted, Admitted
<1>8. DeletersAgree'
  BY <1>1, <1>3 DEF DoorInv, DeletersAgree, FlagsAgree
<1>9. CountIsExact'
  BY <1>1, CountStays DEF Marked
<1>10. WaitsForSetup' /\ RetriesAreSeen'
  BY <1>1, <1>2, <1>3 DEF DoorInv, WaitsForSetup, RetriesAreSeen
<1> QED
  BY <1>4, <1>5, <1>6, <1>7, <1>8, <1>9, <1>10 DEF DoorInv

LEMMA QueueingKeepsDoor ==
    ASSUME DoorInv, NEW w \in Workers,
           RereadStatus(w) \/ QueueRetry(w) \/ RetryGivesUp(w)
    PROVE  DoorInv'
<1> USE LifecycleAssumption
<1>1. UNCHANGED << status, setupDone, deletion, deleter, recovery, leftBy >>
  BY DEF RereadStatus, QueueRetry, RetryGivesUp, OnWorker
<1>2. \/ /\ worker[w] = "conflict" /\ worker'[w] = "queue" /\ status = "creating"
         /\ retryMu = Nobody /\ retryMu' = w /\ retryQueued' = retryQueued
      \/ /\ worker[w] = "conflict" /\ worker'[w] = "again"
         /\ retryMu = Nobody /\ retryMu' = Nobody /\ retryQueued' = FALSE
      \/ /\ worker[w] \in {"conflict", "again"} /\ worker'[w] = "idle"
         /\ retryMu' = retryMu /\ retryQueued' = retryQueued
      \/ /\ worker[w] = "queue" /\ worker'[w] = "idle"
         /\ retryMu' = Nobody /\ retryQueued' = TRUE
  BY DEF DoorInv, DoorTypes, RereadStatus, QueueRetry, RetryGivesUp, OnWorker
<1>3. /\ worker' = [worker EXCEPT ![w] = worker'[w]]
      /\ \A v \in Workers \ {w} : worker'[v] = worker[v]
  BY DEF DoorInv, DoorTypes, RereadStatus, QueueRetry, RetryGivesUp, OnWorker
<1>4. DoorTypes'
  <2>1. retryQueued' \in BOOLEAN /\ retryMu' \in Workers \union {Nobody}
    BY <1>2 DEF DoorInv, DoorTypes
  <2>2. worker'[w] \in WorkerPlaces
    BY <1>2 DEF WorkerPlaces
  <2> QED
    BY <1>1, <1>3, <2>1, <2>2 DEF DoorInv, DoorTypes
<1>5. AdmissionHeld' /\ OneBuilder' /\ GivenUpIsOut'
  BY <1>1, <1>2, <1>3 DEF DoorInv, AdmissionHeld, OneBuilder, Building, GivenUpIsOut, Inside
<1>6. OneAdmitted' /\ DeletersAgree'
  BY <1>1 DEF DoorInv, OneAdmitted, Admitted, DeletersAgree, FlagsAgree
<1>7. CountIsExact'
  BY <1>1, CountStays DEF Marked
<1>8. WaitsForSetup'
  BY <1>1 DEF DoorInv, WaitsForSetup
<1>9. RetriesAreSeen'
  BY <1>1, <1>2, <1>3 DEF DoorInv, RetriesAreSeen
<1> QED
  BY <1>4, <1>5, <1>6, <1>7, <1>8, <1>9 DEF DoorInv

-----------------------------------------------------------------------------
(* Closing and opening the setup admission. *)

\* Whoever waited for the channel is back at the beginning.
LEMMA WokenWorkers ==
    ASSUME DoorTypes, NEW channel \in {"awaitSetup", "awaitDeletion"}
    PROVE  /\ Woken(channel) \in [Workers -> WorkerPlaces]
           /\ \A w \in Workers :
                Woken(channel)[w] = IF worker[w] = channel THEN "begin" ELSE worker[w]
  BY DEF DoorTypes, WorkerPlaces, Woken

\* Setup or recovery lets the admission go: nobody is inside, nobody waits.
LEMMA CloseKeepsDoor ==
    ASSUME DoorInv, CloseSetup, UNCHANGED << status, deletion, retryQueued, retryMu, leftBy >>,
           \/ /\ recovery # Nobody /\ recovery' = Nobody
              /\ worker' = Woken("awaitSetup")
           \/ /\ recovery' = recovery
              /\ \E w \in Workers : /\ worker[w] = "finish"
                                    /\ worker' = [Woken("awaitSetup") EXCEPT ![w] = "idle"]
    PROVE  DoorInv'
<1> USE LifecycleAssumption
<1>1. /\ deleter' \in [Deleters -> DeleterStates]
      /\ \A d \in Deleters : /\ deleter'[d].pc = deleter[d].pc
                             /\ deleter'[d].queued = deleter[d].queued
                             /\ deleter'[d].admitted = deleter[d].admitted
  BY CloseFields DEF DoorInv
<1>2. setupDone' = Nobody
  BY DEF CloseSetup
<1>3. /\ worker' \in [Workers -> WorkerPlaces]
      /\ \A w \in Workers : \/ worker'[w] = worker[w] /\ worker[w] # "awaitSetup"
                            \/ worker'[w] = "begin" /\ worker[w] = "awaitSetup"
                            \/ worker'[w] = "idle" /\ worker[w] = "finish"
  BY WokenWorkers DEF DoorInv, WorkerPlaces
<1>4. /\ recovery' = Nobody
      /\ \A w \in Workers : worker'[w] \notin Inside \union {"finish"}
  BY <1>3, WokenWorkers DEF DoorInv, DoorTypes, AdmissionHeld, Inside, Nobody, Recovery
<1>5. DoorTypes'
  BY <1>1, <1>2, <1>3, <1>4 DEF DoorInv, DoorTypes
<1>6. AdmissionHeld' /\ GivenUpIsOut'
  BY <1>2, <1>4 DEF AdmissionHeld, GivenUpIsOut, Nobody, Recovery
<1>7. OneBuilder'
  <2>1. \A w \in Workers : Building(w)' <=> Building(w)
    BY <1>3 DEF Building
  <2> QED
    BY <2>1 DEF DoorInv, OneBuilder
<1>8. OneAdmitted' /\ DeletersAgree'
  BY <1>1 DEF DoorInv, OneAdmitted, Admitted, DeletersAgree, FlagsAgree, Deleters
<1>9. CountIsExact'
  BY <1>1, CountStays DEF Marked
<1>10. WaitsForSetup'
  BY <1>1, <1>2 DEF DoorInv, WaitsForSetup
<1>11. RetriesAreSeen'
  BY <1>3, <1>4, WokenWorkers DEF DoorInv, RetriesAreSeen
<1> QED
  BY <1>5, <1>6, <1>7, <1>8, <1>9, <1>10, <1>11 DEF DoorInv

LEMMA RecoveryKeepsDoor ==
    ASSUME DoorInv, NEW l \in Launches, BeginRecovery(l)
    PROVE  DoorInv'
<1> USE LifecycleAssumption
<1>1. /\ recovery = Nobody /\ setupDone = Nobody /\ recovery' = l /\ setupDone' = Recovery
      /\ UNCHANGED << status, deletion, retryQueued, retryMu, worker, deleter, leftBy >>
  BY DEF BeginRecovery, OnRecovery
<1>2. DoorTypes'
  BY <1>1 DEF DoorInv, DoorTypes
<1>3. AdmissionHeld' /\ OneBuilder' /\ GivenUpIsOut'
  BY <1>1 DEF DoorInv, AdmissionHeld, OneBuilder, Building, GivenUpIsOut, Nobody, Recovery
<1>4. OneAdmitted' /\ DeletersAgree'
  BY <1>1 DEF DoorInv, OneAdmitted, Admitted, DeletersAgree, FlagsAgree
<1>5. CountIsExact'
  BY <1>1, CountStays DEF Marked
<1>6. WaitsForSetup'
  BY <1>1, NoneIsMarked DEF WaitsForSetup, Marked, BeginRecovery
<1>7. RetriesAreSeen'
  BY <1>1 DEF DoorInv, RetriesAreSeen
<1> QED
  BY <1>2, <1>3, <1>4, <1>5, <1>6, <1>7 DEF DoorInv

-----------------------------------------------------------------------------
(* The steps of the deletions. *)

\* A deletion that moves on, between its mark and the settling of its outcome.
LEMMA MoveKeepsDoor ==
    ASSUME DoorInv, NEW d \in Deleters,
           \/ LookUp(d) \/ HoldStopMarker(d) \/ Preflight(d) \/ StopWorkspace(d)
           \/ TakeSessions(d) \/ StopTaken(d) \/ CleanUp(d) \/ DeleteRow(d)
           \/ DeletionFails(d) \/ FailWorkspaceDeletion(d)
    PROVE  DoorInv'
<1> USE LifecycleAssumption
<1> DEFINE from == deleter[d].pc
           to == deleter'[d].pc
<1>1. UNCHANGED << setupDone, deletion, worker, retryQueued, retryMu, recovery, leftBy >>
  BY DEF LookUp, HoldStopMarker, Preflight, StopWorkspace, TakeSessions, StopTaken, CleanUp,
         DeleteRow, DeletionFails, FailWorkspaceDeletion, OnDeleter, KeepsAdmission
<1>2. \E p \in DeleterPlaces :
        /\ MoveDeleter(d, p)
        /\ \/ /\ from = "lookup" /\ ~deleter[d].waits /\ status' = status
              /\ p \in {"failed", "hold"} \/ (p = "succeeded" /\ status = "gone")
           \/ from = "hold" /\ p = "preflight" /\ status' = status
           \/ /\ from = "preflight" /\ ~deleter[d].waits /\ status' = status
              /\ p = IF deleter[d].queued THEN "stop" ELSE "admit"
           \/ from = "stop" /\ p = "drain" /\ status' = status
           \/ from = "drain" /\ p = "kill" /\ status' = status
           \/ from = "kill" /\ p = "clean" /\ status' = status
           \/ from = "clean" /\ p = "drop" /\ status' = status
           \/ from = "drop" /\ p = "succeeded" /\ status' = "gone"
           \/ /\ from \in {"preflight", "admit", "clean", "drop", "drain", "lookup"}
              /\ status' = status /\ p = IF deleter[d].admitted THEN "persist" ELSE "failed"
           \/ /\ from = "persist" /\ p = "failed"
              /\ status' = IF status = "deleting" THEN "deletion_failed" ELSE status
  <2>1. CASE LookUp(d)
    <3> PICK p \in {"succeeded", "failed", "hold"} :
            MoveDeleter(d, p) /\ (p = "succeeded" => status = "gone")
      BY <2>1 DEF LookUp
    <3> QED
      BY <2>1 DEF LookUp, At, DeletesNothing, DeleterPlaces
  <2>2. CASE HoldStopMarker(d) \/ StopWorkspace(d)
    BY <2>2 DEF HoldStopMarker, StopWorkspace, At, DeletesNothing, DeleterPlaces
  <2>3. CASE Preflight(d)
    BY <2>3 DEF Preflight, At, DeletesNothing, DeleterPlaces
  <2>4. CASE TakeSessions(d) \/ StopTaken(d) \/ CleanUp(d)
    BY <2>4 DEF TakeSessions, StopTaken, CleanUp, At, DeleterPlaces
  <2>5. CASE DeleteRow(d)
    BY <2>5 DEF DeleteRow, At, DeleterPlaces
  <2>6. CASE DeletionFails(d)
    BY <2>6 DEF DeletionFails, At, DeletesNothing, DeleterPlaces
  <2>7. CASE FailWorkspaceDeletion(d)
    BY <2>7 DEF FailWorkspaceDeletion, At, DeleterPlaces
  <2> QED
    BY <2>1, <2>2, <2>3, <2>4, <2>5, <2>6, <2>7
<1>3. /\ BecomesOne(d, to, deleter[d].queued, deleter[d].admitted, deleter[d].waits)
      /\ \/ /\ from = "lookup" /\ ~deleter[d].waits /\ status' = status
            /\ to \in {"failed", "hold"} \/ (to = "succeeded" /\ status = "gone")
         \/ from = "hold" /\ to = "preflight" /\ status' = status
         \/ /\ from = "preflight" /\ ~deleter[d].waits /\ status' = status
            /\ to = IF deleter[d].queued THEN "stop" ELSE "admit"
         \/ from = "stop" /\ to = "drain" /\ status' = status
         \/ from = "drain" /\ to = "kill" /\ status' = status
         \/ from = "kill" /\ to = "clean" /\ status' = status
         \/ from = "clean" /\ to = "drop" /\ status' = status
         \/ from = "drop" /\ to = "succeeded" /\ status' = "gone"
         \/ /\ from \in {"preflight", "admit", "clean", "drop", "drain", "lookup"}
            /\ status' = status /\ to = IF deleter[d].admitted THEN "persist" ELSE "failed"
         \/ /\ from = "persist" /\ to = "failed"
            /\ status' = IF status = "deleting" THEN "deletion_failed" ELSE status
  <2> PICK p \in DeleterPlaces : <1>2!(p)
    BY <1>2
  <2>1. BecomesOne(d, p, deleter[d].queued, deleter[d].admitted, deleter[d].waits)
    BY MoveSets DEF DoorInv
  <2>2. to = p
    BY <2>1 DEF BecomesOne
  <2> QED
    BY <2>1, <2>2
<1> HIDE DEF from, to
<1>4. DoorTypes'
  BY <1>1, <1>3 DEF DoorInv, DoorTypes, Statuses, BecomesOne
<1>5. AdmissionHeld' /\ GivenUpIsOut'
  BY <1>1 DEF DoorInv, AdmissionHeld, GivenUpIsOut
<1>6. status = "creating" <=> status' = "creating"
  BY <1>3 DEF DoorInv, OneAdmitted, Admitted, from
<1>7. OneBuilder'
  BY <1>1, <1>6 DEF DoorInv, OneBuilder, Building
<1>8. OneAdmitted'
  <2>1. \A e \in Deleters \ {d} : Admitted(e)' <=> Admitted(e)
    BY <1>3 DEF Admitted, BecomesOne
  <2>2. Admitted(d)' => Admitted(d)
    BY <1>3 DEF DoorInv, DeletersAgree, FlagsAgree, Admitted, BecomesOne, from, to
  <2>3. Admitted(d)' => status' = status
    BY <1>3 DEF Admitted, BecomesOne, from, to
  <2>4. status' = status \/ Admitted(d)
    BY <1>3 DEF Admitted, from, to
  <2> QED
    BY <2>1, <2>2, <2>3, <2>4 DEF DoorInv, OneAdmitted
<1>9. DeletersAgree'
  <2>1. \A e \in Deleters \ {d} : FlagsAgree(e)' <=> FlagsAgree(e)
    BY <1>3 DEF FlagsAgree, BecomesOne
  <2>2. FlagsAgree(d)'
    BY <1>3 DEF DoorInv, DeletersAgree, FlagsAgree, BecomesOne, from, to
  <2>3. (status = "gone" => status' = "gone") /\ (to = "succeeded" => status' = "gone")
    BY <1>3 DEF DoorInv, OneAdmitted, Admitted, from
  <2>4. \A e \in Deleters : deleter'[e].pc = "succeeded" => status' = "gone"
    BY <1>3, <2>3 DEF DoorInv, DeletersAgree, BecomesOne, to
  <2>5. deleter'[Retirement].pc # "idle" => status' \in {"deleting", "deletion_failed", "gone"}
    BY <1>3 DEF DoorInv, DeletersAgree, OneAdmitted, Admitted, Deleters, BecomesOne, from
  <2>6. \A e \in Deleters : FlagsAgree(e)'
    BY <2>1, <2>2 DEF DoorInv, DeletersAgree
  <2>7. (deletion.succeeded)' => status' = "gone"
    BY <1>1, <2>3 DEF DoorInv, DeletersAgree
  <2> QED
    BY <2>4, <2>5, <2>6, <2>7 DEF DeletersAgree
<1>10. CountIsExact'
  <2>1. \A e \in Deleters : Marked(e)' <=> Marked(e)
    BY <1>3 DEF Marked, BecomesOne, from, to
  <2> QED
    BY <1>1, <2>1, CountStays
<1>11. WaitsForSetup'
  BY <1>1, <1>3 DEF DoorInv, WaitsForSetup, BecomesOne, from, to
<1>12. RetriesAreSeen'
  BY <1>1, <1>3 DEF DoorInv, RetriesAreSeen
<1> QED
  BY <1>4, <1>5, <1>7, <1>8, <1>9, <1>10, <1>11, <1>12 DEF DoorInv

\* A deletion takes the status for itself, on the way or ahead of its mark.
LEMMA AdmitKeepsDoor ==
    ASSUME DoorInv, NEW d \in Deleters,
           BeginWorkspaceDeletion(d) \/ (d \in Requests /\ QueueDeletion(d))
    PROVE  DoorInv'
<1> USE LifecycleAssumption
<1>1. /\ UNCHANGED << setupDone, deletion, worker, retryQueued, retryMu, recovery, leftBy >>
      /\ status \in {"ready", "error", "deletion_failed"} /\ status' = "deleting"
  BY DEF BeginWorkspaceDeletion, QueueDeletion, OnDeleter, KeepsAdmission, Admissible
<1>2. \/ /\ deleter[d].pc = "admit"
         /\ BecomesOne(d, "stop", deleter[d].queued, TRUE, deleter[d].waits)
      \/ /\ deleter[d].pc = "idle" /\ d # Retirement /\ BecomesOne(d, "mark", TRUE, TRUE, FALSE)
  BY BeginSets, QueueSets DEF DoorInv, BeginWorkspaceDeletion, QueueDeletion, At
<1>3. \A w \in Workers : ~Building(w)
  BY <1>1 DEF DoorInv, OneBuilder
<1>4. \A e \in Deleters : ~Admitted(e)
  BY <1>1 DEF DoorInv, OneAdmitted
<1>5. DoorTypes'
  BY <1>1, <1>2 DEF DoorInv, DoorTypes, Statuses, BecomesOne
<1>6. AdmissionHeld' /\ OneBuilder' /\ GivenUpIsOut'
  BY <1>1, <1>3 DEF DoorInv, AdmissionHeld, OneBuilder, Building, GivenUpIsOut
<1>7. OneAdmitted'
  BY <1>1, <1>2, <1>4 DEF OneAdmitted, Admitted, BecomesOne
<1>8. DeletersAgree'
  BY <1>1, <1>2 DEF DoorInv, DeletersAgree, FlagsAgree, BecomesOne
<1>9. CountIsExact'
  <2>1. \A e \in Deleters : Marked(e)' <=> Marked(e)
    BY <1>2 DEF Marked, BecomesOne
  <2> QED
    BY <1>1, <2>1, CountStays
<1>10. WaitsForSetup'
  BY <1>1, <1>2 DEF DoorInv, WaitsForSetup, BecomesOne
<1>11. RetriesAreSeen'
  BY <1>1 DEF DoorInv, RetriesAreSeen
<1> QED
  BY <1>5, <1>6, <1>7, <1>8, <1>9, <1>10, <1>11 DEF DoorInv

LEMMA MarkKeepsDoor ==
    ASSUME DoorInv, NEW d \in Deleters, MarkWorkspaceDeleting(d)
    PROVE  DoorInv'
<1> USE LifecycleAssumption
<1> DEFINE p == IF deleter[d].pc = "mark" THEN "hold" ELSE "lookup"
<1>1. /\ UNCHANGED << status, setupDone, worker, retryQueued, retryMu, recovery, leftBy >>
      /\ deletion' = [deletion EXCEPT !.active = @ + 1]
      /\ deleter[d].pc = "mark" \/ (deleter[d].pc = "idle" /\ d # Retirement)
  BY DEF MarkWorkspaceDeleting, OnDeleter, DeletesNothing, At
<1>2. /\ deletion' \in [active : Int, succeeded : BOOLEAN]
      /\ deletion'.active = deletion.active + 1 /\ deletion'.succeeded = deletion.succeeded
  BY <1>1 DEF DoorInv, DoorTypes
<1>3. BecomesOne(d, p, deleter[d].queued, deleter[d].admitted, setupDone # Nobody)
  BY MarkSets DEF DoorInv
<1>4. DoorTypes'
  BY <1>1, <1>2, <1>3 DEF DoorInv, DoorTypes, BecomesOne
<1>5. AdmissionHeld' /\ OneBuilder' /\ GivenUpIsOut'
  BY <1>1 DEF DoorInv, AdmissionHeld, OneBuilder, Building, GivenUpIsOut
<1>6. OneAdmitted'
  <2>1. \A e \in Deleters \ {d} : Admitted(e)' <=> Admitted(e)
    BY <1>3 DEF Admitted, BecomesOne
  <2>2. Admitted(d)' => Admitted(d)
    BY <1>1, <1>3 DEF DoorInv, DeletersAgree, FlagsAgree, Admitted, BecomesOne
  <2> QED
    BY <1>1, <2>1, <2>2 DEF DoorInv, OneAdmitted
<1>7. DeletersAgree'
  <2>1. \A e \in Deleters \ {d} : FlagsAgree(e)' <=> FlagsAgree(e)
    BY <1>3 DEF FlagsAgree, BecomesOne
  <2>2. FlagsAgree(d)'
    BY <1>1, <1>3 DEF DoorInv, DeletersAgree, FlagsAgree, BecomesOne
  <2>3. \A e \in Deleters : deleter'[e].pc = "succeeded" => status' = "gone"
    BY <1>1, <1>3 DEF DoorInv, DeletersAgree, BecomesOne
  <2>4. deleter'[Retirement].pc # "idle" => status' \in {"deleting", "deletion_failed", "gone"}
    BY <1>1, <1>3 DEF DoorInv, DeletersAgree, OneAdmitted, Admitted, Deleters, BecomesOne
  <2>5. deletion'.succeeded => status' = "gone"
    BY <1>1, <1>2 DEF DoorInv, DeletersAgree
  <2>6. \A e \in Deleters : FlagsAgree(e)'
    BY <2>1, <2>2 DEF DoorInv, DeletersAgree
  <2> QED
    BY <2>3, <2>4, <2>5, <2>6 DEF DeletersAgree
<1>8. CountIsExact'
  <2>1. MarkedSet' = MarkedSet \union {d} /\ d \notin MarkedSet
    BY <1>1, <1>3 DEF MarkedSet, Marked, BecomesOne
  <2>2. Cardinality(MarkedSet') = Cardinality(MarkedSet) + 1
    BY <2>1, DeletersAreFinite, FS_AddElement
  <2> QED
    BY <1>2, <2>2 DEF DoorInv, CountIsExact
<1>9. WaitsForSetup'
  BY <1>1, <1>3 DEF DoorInv, WaitsForSetup, BecomesOne
<1>10. RetriesAreSeen'
  BY <1>1 DEF DoorInv, RetriesAreSeen
<1> QED
  BY <1>4, <1>5, <1>6, <1>7, <1>8, <1>9, <1>10 DEF DoorInv

LEMMA FinishKeepsDoor ==
    ASSUME DoorInv, NEW d \in Deleters, FinishWorkspaceDeleting(d)
    PROVE  DoorInv'
<1> USE LifecycleAssumption
<1> DEFINE p == IF d = Retirement THEN "idle" ELSE "returned"
           ok == deletion.succeeded \/ deleter[d].pc = "succeeded"
<1>1. /\ UNCHANGED << status, setupDone, retryQueued, retryMu, recovery, leftBy >>
      /\ deletion' = [active |-> deletion.active - 1, succeeded |-> ok]
      /\ worker' = worker \/ worker' = Woken("awaitDeletion")
      /\ deleter[d].pc \in {"succeeded", "failed"}
  BY DEF FinishWorkspaceDeleting, OnDeleter, DeletesNothing, At
<1>2. ok \in BOOLEAN /\ (ok => status = "gone")
  BY DEF DoorInv, DeletersAgree, FlagsAgree
<1> HIDE DEF ok
<1>3. /\ deletion' \in [active : Int, succeeded : BOOLEAN]
      /\ deletion'.active = deletion.active - 1 /\ deletion'.succeeded = ok
  BY <1>1, <1>2 DEF DoorInv, DoorTypes
<1>4. BecomesOne(d, p, FALSE, FALSE, FALSE)
  BY FinishSets DEF DoorInv
<1>5. /\ worker' \in [Workers -> WorkerPlaces]
      /\ \A w \in Workers : \/ worker'[w] = worker[w]
                            \/ worker'[w] = "begin" /\ worker[w] = "awaitDeletion"
  BY <1>1, WokenWorkers DEF DoorInv, DoorTypes
<1>6. DoorTypes'
  BY <1>1, <1>3, <1>4, <1>5 DEF DoorInv, DoorTypes, BecomesOne
<1>7. AdmissionHeld' /\ GivenUpIsOut'
  BY <1>1, <1>5 DEF DoorInv, AdmissionHeld, GivenUpIsOut, Inside
<1>8. OneBuilder'
  <2>1. \A w \in Workers : Building(w)' <=> Building(w)
    BY <1>5 DEF Building
  <2> QED
    BY <1>1, <2>1 DEF DoorInv, OneBuilder
<1>9. OneAdmitted'
  <2>1. \A e \in Deleters \ {d} : Admitted(e)' <=> Admitted(e)
    BY <1>4 DEF Admitted, BecomesOne
  <2>2. ~Admitted(d)'
    BY <1>4 DEF Admitted, BecomesOne
  <2> QED
    BY <1>1, <2>1, <2>2 DEF DoorInv, OneAdmitted
<1>10. DeletersAgree'
  <2>1. \A e \in Deleters \ {d} : FlagsAgree(e)' <=> FlagsAgree(e)
    BY <1>4 DEF FlagsAgree, BecomesOne
  <2>2. FlagsAgree(d)'
    BY <1>4 DEF FlagsAgree, BecomesOne
  <2>3. \A e \in Deleters : deleter'[e].pc = "succeeded" => status' = "gone"
    BY <1>1, <1>4 DEF DoorInv, DeletersAgree, BecomesOne
  <2>4. deleter'[Retirement].pc # "idle" => status' \in {"deleting", "deletion_failed", "gone"}
    BY <1>1, <1>4 DEF DoorInv, DeletersAgree, OneAdmitted, Admitted, Deleters, BecomesOne
  <2>5. deletion'.succeeded => status' = "gone"
    BY <1>1, <1>2, <1>3
  <2>6. \A e \in Deleters : FlagsAgree(e)'
    BY <2>1, <2>2 DEF DoorInv, DeletersAgree
  <2> QED
    BY <2>3, <2>4, <2>5, <2>6 DEF DeletersAgree
<1>11. CountIsExact'
  <2>1. MarkedSet' = MarkedSet \ {d} /\ d \in MarkedSet
    BY <1>1, <1>4 DEF MarkedSet, Marked, BecomesOne
  <2>2. Cardinality(MarkedSet') = Cardinality(MarkedSet) - 1
    BY <2>1, DeletersAreFinite, FS_RemoveElement
  <2> QED
    BY <1>3, <2>2 DEF DoorInv, CountIsExact
<1>12. WaitsForSetup'
  BY <1>1, <1>4 DEF DoorInv, WaitsForSetup, BecomesOne
<1>13. RetriesAreSeen'
  BY <1>1, <1>5 DEF DoorInv, RetriesAreSeen
<1> QED
  BY <1>6, <1>7, <1>8, <1>9, <1>10, <1>11, <1>12, <1>13 DEF DoorInv

-----------------------------------------------------------------------------
(* Restart, and the whole. *)

LEMMA RestartKeepsDoor ==
    ASSUME DoorInv, Restart
    PROVE  DoorInv'
<1> USE LifecycleAssumption
<1>1. /\ setupDone' = Nobody /\ deletion' = NoDeletion /\ retryQueued' = FALSE
      /\ retryMu' = Nobody /\ recovery' = Nobody /\ leftBy' = Nobody
      /\ worker' = [w \in Workers |-> "idle"]
      /\ status' \in Statuses \ {"creating", "deleting"}
      /\ status \in {"deleting", "deletion_failed", "gone"}
           => status' \in {"deletion_failed", "gone"}
  BY DEF DoorInv, DoorTypes, Statuses, Restart
<1>2. /\ NoDeletion \in [active : Int, succeeded : BOOLEAN]
      /\ NoDeletion.active = 0 /\ NoDeletion.succeeded = FALSE
  BY DEF NoDeletion
<1>3. /\ deleter' \in [Deleters -> DeleterStates]
      /\ \A d \in Deleters : /\ deleter'[d].pc \in {"idle", "returned"}
                             /\ ~deleter'[d].queued /\ ~deleter'[d].admitted
      /\ deleter'[Retirement].pc = "idle"
  <2>1. deleter' = [d \in Deleters |-> IF At(d, "idle") THEN IdleDeleter ELSE Returned(d)]
    BY DEF Restart
  <2> QED
    BY <2>1, IdleFields DEF Deleters
<1>4. DoorTypes'
  <2>1. worker' \in [Workers -> WorkerPlaces]
    BY <1>1 DEF WorkerPlaces
  <2>2. retryQueued' \in BOOLEAN
    BY <1>1
  <2> QED
    BY <1>1, <1>2, <1>3, <2>1, <2>2 DEF DoorTypes
<1>5. AdmissionHeld' /\ GivenUpIsOut'
  BY <1>1 DEF AdmissionHeld, GivenUpIsOut, Inside, Nobody, Recovery
<1>6. OneBuilder'
  BY <1>1 DEF OneBuilder, Building
<1>7. OneAdmitted'
  BY <1>3 DEF OneAdmitted, Admitted
<1>8. DeletersAgree'
  BY <1>1, <1>2, <1>3 DEF DeletersAgree, FlagsAgree
<1>9. CountIsExact'
  <2>1. MarkedSet' = {}
    BY <1>3 DEF MarkedSet, Marked
  <2> QED
    BY <1>1, <1>2, <2>1, FS_EmptySet DEF CountIsExact
<1>10. WaitsForSetup'
  BY <1>3 DEF WaitsForSetup
<1>11. RetriesAreSeen'
  BY <1>1 DEF RetriesAreSeen
<1> QED
  BY <1>4, <1>5, <1>6, <1>7, <1>8, <1>9, <1>10, <1>11 DEF DoorInv

LEMMA InitIsDoorInv == Init => DoorInv
<1> SUFFICES ASSUME Init PROVE DoorInv
  OBVIOUS
<1> USE LifecycleAssumption
<1>1. \A d \in Deleters : deleter[d] = IdleDeleter
  BY DEF Init
<1>2. \A d \in Deleters : deleter[d].pc = "idle" /\ ~deleter[d].queued /\ ~deleter[d].admitted
  BY <1>1, IdleFields
<1>3. Retirement \in Deleters
  BY DEF Deleters
<1>4. NoDeletion \in [active : Int, succeeded : BOOLEAN]
        /\ NoDeletion.active = 0 /\ NoDeletion.succeeded = FALSE
  BY DEF NoDeletion
<1>5. DoorTypes
  <2>1. worker \in [Workers -> WorkerPlaces] /\ deleter \in [Deleters -> DeleterStates]
    BY IdleFields DEF Init, WorkerPlaces
  <2>2. retryQueued \in BOOLEAN
    BY DEF Init
  <2> QED
    BY <1>4, <2>1, <2>2 DEF Init, DoorTypes, Statuses
<1>6. AdmissionHeld /\ OneBuilder /\ GivenUpIsOut
  BY DEF Init, AdmissionHeld, OneBuilder, Building, GivenUpIsOut, Inside, Nobody, Recovery
<1>7. OneAdmitted /\ DeletersAgree /\ WaitsForSetup
  BY <1>2, <1>3, <1>4 DEF Init, OneAdmitted, Admitted, DeletersAgree, FlagsAgree, WaitsForSetup
<1>8. CountIsExact
  <2>1. MarkedSet = {}
    BY <1>2 DEF MarkedSet, Marked
  <2> QED
    BY <1>4, <2>1, FS_EmptySet DEF Init, CountIsExact
<1>9. RetriesAreSeen
  BY DEF Init, RetriesAreSeen
<1> QED
  BY <1>5, <1>6, <1>7, <1>8, <1>9 DEF DoorInv

\* The steps that leave both doors alone, and those that pass no door.
LEMMA OthersKeepDoor ==
    ASSUME DoorInv,
           UNCHANGED << status, setupDone, deletion, retryQueued, retryMu, worker, deleter,
             recovery, leftBy >>
    PROVE  DoorInv'
<1>1. DoorTypes' /\ AdmissionHeld' /\ OneBuilder' /\ GivenUpIsOut'
  BY DEF DoorInv, DoorTypes, AdmissionHeld, OneBuilder, Building, GivenUpIsOut
<1>2. OneAdmitted' /\ DeletersAgree'
  BY DEF DoorInv, OneAdmitted, Admitted, DeletersAgree, FlagsAgree
<1>3. CountIsExact'
  BY CountStays DEF Marked
<1>4. WaitsForSetup' /\ RetriesAreSeen'
  BY DEF DoorInv, WaitsForSetup, RetriesAreSeen
<1> QED
  BY <1>1, <1>2, <1>3, <1>4 DEF DoorInv

LEMMA PruneKeepsDoor ==
    ASSUME DoorInv, MarkReadyWorkspaceError
    PROVE  DoorInv'
<1> USE DEF MarkReadyWorkspaceError, handler
<1>1. DoorTypes' /\ AdmissionHeld' /\ OneBuilder' /\ GivenUpIsOut'
  BY DEF DoorInv, DoorTypes, Statuses, AdmissionHeld, OneBuilder, Building, GivenUpIsOut
<1>2. OneAdmitted' /\ DeletersAgree'
  BY DEF DoorInv, OneAdmitted, Admitted, DeletersAgree, FlagsAgree
<1>3. CountIsExact'
  BY CountStays DEF Marked
<1>4. WaitsForSetup' /\ RetriesAreSeen'
  BY DEF DoorInv, WaitsForSetup, RetriesAreSeen
<1> QED
  BY <1>1, <1>2, <1>3, <1>4 DEF DoorInv

LEMMA StepKeepsDoor ==
    ASSUME DoorInv, [Next]_vars
    PROVE  DoorInv'
<1>1. CASE \E w \in Workers : WorkerStep(w) \/ (worker[w] = "idle" /\ StartWorkspaceRetry(w))
  <2> PICK w \in Workers : WorkerStep(w) \/ StartWorkspaceRetry(w)
    BY <1>1
  <2>1. CASE FinishWorkspaceSetup(w)
    BY <2>1, CloseKeepsDoor DEF FinishWorkspaceSetup
  <2>2. CASE ~FinishWorkspaceSetup(w)
    BY <2>2, BeginKeepsDoor, SetupEndKeepsDoor, RetirementKeepsDoor, ConsumeKeepsDoor,
       GiveUpKeepsDoor, RetryKeepsDoor, QueueingKeepsDoor DEF WorkerStep
  <2> QED
    BY <2>1, <2>2
<1>2. CASE \E d \in Deleters : DeleterStep(d)
  BY <1>2, MoveKeepsDoor, AdmitKeepsDoor, MarkKeepsDoor, FinishKeepsDoor DEF DeleterStep
<1>3. CASE \E d \in Requests : QueueDeletion(d) \/ (At(d, "idle") /\ MarkWorkspaceDeleting(d))
  BY <1>3, AdmitKeepsDoor, MarkKeepsDoor DEF Deleters
<1>4. CASE \/ ManagerStep \/ ForgetStopped \/ RestoreRuntimeSession
           \/ \E l \in Launches : \/ CheckReady(l) \/ RecordRuntimeSession(l) \/ RollbackLaunch(l)
                                  \/ ForgetIfExited(l) \/ ForgetAfterExit(l) \/ Stop(l)
  <2>1. UNCHANGED << status, setupDone, deletion, retryQueued, retryMu, worker, deleter, recovery,
               leftBy >>
    BY <1>4 DEF ManagerStep, ForgetStopped, RestoreRuntimeSession, CheckReady,
                RecordRuntimeSession, RollbackLaunch, ForgetIfExited, ForgetAfterExit, Stop,
                OnSessions, OnRecovery, handler
  <2> QED
    BY <2>1, OthersKeepDoor
<1>5. CASE \/ Restart \/ MarkReadyWorkspaceError \/ \E l \in Launches : BeginRecovery(l)
  BY <1>5, RestartKeepsDoor, PruneKeepsDoor, RecoveryKeepsDoor
<1>6. CASE EndRecovery
  BY <1>6, CloseKeepsDoor DEF EndRecovery, OnRecovery
<1>7. CASE UNCHANGED vars
  BY <1>7, OthersKeepDoor DEF vars, handler
<1> QED
  BY <1>1, <1>2, <1>3, <1>4, <1>5, <1>6, <1>7 DEF Next

LEMMA DoorInvHolds == Spec => []DoorInv
<1>1. DoorInv /\ [Next]_vars => DoorInv'
  BY StepKeepsDoor
<1> QED
  BY InitIsDoorInv, <1>1, PTL DEF Spec

-----------------------------------------------------------------------------

\* While a deletion tears the workspace down no setup builds it, no recovery
\* pass touches its terminals and no second deletion works on it, whatever
\* requests overlap and however often the daemon restarts.
THEOREM TeardownAlone == Spec => []TeardownIsAlone
<1>1. DoorInv => TeardownIsAlone
  <2> SUFFICES ASSUME DoorInv, NEW d \in Tearing PROVE TeardownIsAlone!2
    BY DEF TeardownIsAlone
  <2>1. /\ d \in Deleters /\ Admitted(d) /\ setupDone = Nobody
        /\ \A e \in Tearing : e = d
    BY DEF DoorInv, OneAdmitted, Admitted, WaitsForSetup, Tearing
  <2>2. Cardinality(Tearing) = 1
    <3>1. Tearing = {d}
      BY <2>1
    <3> QED
      BY <3>1, FS_Singleton
  <2>3. recovery = Nobody /\ \A w \in Workers : worker[w] # "setup"
    BY <2>1, LifecycleAssumption DEF DoorInv, AdmissionHeld, Inside, Nobody, Recovery
  <2> QED
    BY <2>1, <2>2, <2>3 DEF DoorInv, OneAdmitted
<1> QED
  BY DoorInvHolds, <1>1, PTL

\* A retry accepted for a setup under way is not left behind by its failure:
\* whenever one is queued and the status is "error", a setup is still to consume
\* it, unless one gave up before it came to that and none has started since.
THEOREM QueuedRetryServed == Spec => []QueuedRetryIsServed
<1>1. DoorInv => QueuedRetryIsServed
  BY DEF DoorInv, RetriesAreSeen, QueuedRetryIsServed
<1> QED
  BY DoorInvHolds, <1>1, PTL

\* The row goes through its life in order, whatever requests overlap and however
\* often the daemon restarts: a setup ends in a row it created or retried, and a
\* deletion removes one that is still being deleted.
THEOREM StatusIsOrderly == Spec => StatusFollows
<1> DEFINE Follows ==
      \/ status = "creating" /\ status' \in {"ready", "error"}
      \/ status = "ready" /\ status' \in {"error", "deleting"}
      \/ status = "error" /\ status' \in {"creating", "deleting"}
      \/ status = "deleting" /\ status' \in {"gone", "deletion_failed"}
      \/ status = "deletion_failed" /\ status' = "deleting"
<1>1. ASSUME DoorInv, [Next]_vars, status' # status
      PROVE  Follows
  <2>1. ASSUME NEW w \in Workers, WorkerStep(w) \/ (worker[w] = "idle" /\ StartWorkspaceRetry(w))
        PROVE  Follows
    <3>1. ASSUME NEW s \in {"ready", "error"}, NEW next, SetupEndsAs(w, s, next)
          PROVE  Follows
      <4>1. status = "creating"
        BY <1>1, <3>1 DEF SetupEndsAs, DoorInv, OneBuilder, Building
      <4> QED
        BY <3>1, <4>1 DEF SetupEndsAs, SetStatus
    <3>2. CASE SetupSucceeds(w) \/ SetupFails(w) \/ SetupUnresolved(w)
      BY <3>1, <3>2 DEF SetupSucceeds, SetupFails, SetupUnresolved
    <3>3. CASE ~(SetupSucceeds(w) \/ SetupFails(w) \/ SetupUnresolved(w))
      BY <1>1, <2>1, <3>3
         DEF WorkerStep, BeginWorkspaceSetup, QueueRetirement, ConsumeQueuedRetry,
             StartQueuedRetry, ResumeSetup, SetupGivesUp, FinishWorkspaceSetup,
             StartWorkspaceRetry, RereadStatus, QueueRetry, RetryGivesUp
    <3> QED
      BY <3>2, <3>3
  <2>2. ASSUME NEW d \in Deleters, DeleterStep(d) \/ QueueDeletion(d) \/ MarkWorkspaceDeleting(d)
        PROVE  Follows
    <3>1. CASE DeleteRow(d)
      <4>1. status = "deleting"
        BY <1>1, <3>1 DEF DeleteRow, At, DoorInv, OneAdmitted, Admitted
      <4> QED
        BY <3>1, <4>1 DEF DeleteRow
    <3>2. CASE ~DeleteRow(d)
      BY <1>1, <2>2, <3>2
         DEF DeleterStep, QueueDeletion, MarkWorkspaceDeleting, LookUp, HoldStopMarker, Preflight,
             BeginWorkspaceDeletion, StopWorkspace, TakeSessions, StopTaken, CleanUp,
             DeletionFails, FailWorkspaceDeletion, FinishWorkspaceDeleting, Admissible,
             DeletesNothing
    <3> QED
      BY <3>1, <3>2
  <2>3. CASE Restart \/ MarkReadyWorkspaceError
    BY <1>1, <2>3 DEF Restart, MarkReadyWorkspaceError
  <2>4. ASSUME \/ ManagerStep \/ ForgetStopped \/ RestoreRuntimeSession \/ EndRecovery
               \/ UNCHANGED vars
               \/ \E l \in Launches : \/ CheckReady(l) \/ RecordRuntimeSession(l)
                                      \/ RollbackLaunch(l) \/ ForgetIfExited(l)
                                      \/ ForgetAfterExit(l) \/ Stop(l) \/ BeginRecovery(l)
        PROVE  FALSE
    BY <1>1, <2>4
       DEF ManagerStep, ForgetStopped, RestoreRuntimeSession, EndRecovery, BeginRecovery,
           CheckReady, RecordRuntimeSession, RollbackLaunch, ForgetIfExited, ForgetAfterExit,
           Stop, OnSessions, OnRecovery, vars
  <2> QED
    BY <1>1, <2>1, <2>2, <2>3, <2>4 DEF Next, Deleters
<1>2. DoorInv /\ [Next]_vars => [status' # status => Follows]_vars
  BY <1>1
<1> QED
  BY DoorInvHolds, <1>2, PTL DEF Spec, StatusFollows

-----------------------------------------------------------------------------
(* The sessions. *)

Stages == {"idle", "checked", "claimed", "running", "stored", "launched", "recorded", "rollback",
           "done", "left"}

SessionTypes ==
    /\ stopping \in Int
    /\ inflight \subseteq Launches /\ sessions \subseteq Launches /\ exited \subseteq Launches
    /\ alive \subseteq Launches /\ rows \subseteq Launches /\ pending \subseteq Launches
    /\ taken \subseteq Launches
    /\ launch \in [Launches -> Stages]
    /\ watch \in [Launches -> {"none", "exited", "forget"}]
    /\ stopper \in Launches \union {Nobody}

\* Each deletion holds the stop marker while it runs, and once more while
\* StopWorkspace waits for the launches and stops what it took.
Outer == {d \in Deleters :
            deleter[d].pc \in {"preflight", "admit", "stop", "drain", "kill", "clean", "drop"}}
Inner == {d \in Deleters : deleter[d].pc \in {"drain", "kill"}}
MarkersAreHeld == stopping = Cardinality(Outer) + Cardinality(Inner)

\* A process that runs is under way, held by the manager or about to be stopped
\* with those it held, unless an earlier daemon left it: then a row names it.
ProcessesAreHeld ==
    /\ \A l \in Launches : launch[l] \in {"claimed", "running", "stored"} => l \in inflight
    /\ \A l \in alive :
        /\ launch[l] \notin {"idle", "checked", "claimed"}
        /\ launch[l] \in {"stored", "launched", "recorded", "rollback", "done"} =>
              l \in sessions \union taken
        /\ launch[l] = "left" => l \in rows

\* What is watched, stopped, held or recorded was started; the first two ended.
EndedIsDead ==
    /\ \A l \in Launches : watch[l] # "none" =>
        l \notin alive /\ launch[l] \notin {"idle", "checked", "claimed"}
    /\ stopper # Nobody =>
        stopper \notin alive /\ launch[stopper] \notin {"idle", "checked", "claimed"}
    /\ \A l \in sessions \union rows : launch[l] \notin {"idle", "checked", "claimed"}

\* What the deletion in its last steps has seen to.
TornDown ==
    /\ taken # {} => \E d \in Deleters : deleter[d].pc = "kill"
    /\ \A d \in Deleters :
        /\ deleter[d].pc \in {"kill", "clean", "drop"} => inflight = {} /\ sessions = {}
        /\ deleter[d].pc = "drop" => alive = {}

GoneIsEmpty == status = "gone" => rows = {}

\* A session that is held has not exited, and recovery minds what was left.
ExitsAgree ==
    /\ sessions \intersect exited = {}
    /\ \A l \in pending : launch[l] = "left"

SessionInv ==
    /\ SessionTypes /\ MarkersAreHeld /\ ProcessesAreHeld /\ EndedIsDead /\ TornDown
    /\ GoneIsEmpty /\ ExitsAgree
    /\ NoProcessOutlivesWorkspace /\ ExitedIsForgotten

-----------------------------------------------------------------------------
(* Launches, exits and the requests that record and stop sessions. *)

\* While the deletions stay where they are so do their markers.
LEMMA MarkersStay ==
    ASSUME SessionInv, UNCHANGED << stopping, deleter >>
    PROVE  MarkersAreHeld'
  BY DEF SessionInv, MarkersAreHeld, Outer, Inner

\* No launch claims the workspace while a deletion holds it.
LEMMA MarkersBarLaunches ==
    ASSUME SessionInv, NEW d \in Deleters, deleter[d].pc \in {"kill", "clean", "drop"}
    PROVE  stopping > 0
<1>1. IsFiniteSet(Outer) /\ IsFiniteSet(Inner) /\ d \in Outer
  BY DeletersAreFinite, FS_Subset DEF Outer, Inner
<1>2. Cardinality(Outer) \in Nat /\ Cardinality(Inner) \in Nat /\ Cardinality(Outer) # 0
  BY <1>1, FS_CardinalityType, FS_EmptySet
<1> QED
  BY <1>2 DEF SessionInv, MarkersAreHeld

LEMMA LaunchKeepsSessions ==
    ASSUME SessionInv, NEW l \in Launches, LaunchStep(l), UNCHANGED << status, rows, handler >>
    PROVE  SessionInv'
<1> USE DEF handler, LaunchStep, MoveLaunch, ClaimInflight, StartProcess, StartFails,
            StoreSession, ReleaseInflight
<1>1. SessionTypes'
  BY DEF SessionInv, SessionTypes, Stages
<1>2. MarkersAreHeld'
  BY MarkersStay
<1>3. ProcessesAreHeld'
  BY DEF SessionInv, SessionTypes, ProcessesAreHeld
<1>4. EndedIsDead'
  BY DEF SessionInv, SessionTypes, EndedIsDead
<1>5. TornDown'
  BY MarkersBarLaunches DEF SessionInv, ProcessesAreHeld, TornDown
<1>6. GoneIsEmpty' /\ ExitsAgree'
  BY DEF SessionInv, SessionTypes, GoneIsEmpty, ExitsAgree
<1>7. NoProcessOutlivesWorkspace' /\ ExitedIsForgotten'
  BY DEF SessionInv, SessionTypes, ProcessesAreHeld, NoProcessOutlivesWorkspace, ExitedIsForgotten
<1> QED
  BY <1>1, <1>2, <1>3, <1>4, <1>5, <1>6, <1>7 DEF SessionInv

\* A process ends, and its watcher comes to see it.
LEMMA ExitKeepsSessions ==
    ASSUME SessionInv, NEW l \in Launches, Exit(l) \/ RemoveExitedSession(l),
           UNCHANGED << status, rows, handler >>
    PROVE  SessionInv'
<1> USE DEF handler, Exit, RemoveExitedSession
<1>1. SessionTypes'
  BY DEF SessionInv, SessionTypes
<1>2. MarkersAreHeld'
  BY MarkersStay
<1>3. ProcessesAreHeld' /\ EndedIsDead'
  BY DEF SessionInv, SessionTypes, ProcessesAreHeld, EndedIsDead
<1>4. TornDown'
  BY DEF SessionInv, TornDown
<1>5. GoneIsEmpty' /\ ExitsAgree'
  BY DEF SessionInv, SessionTypes, GoneIsEmpty, ExitsAgree
<1>6. NoProcessOutlivesWorkspace' /\ ExitedIsForgotten'
  BY DEF SessionInv, SessionTypes, EndedIsDead, NoProcessOutlivesWorkspace, ExitedIsForgotten
<1> QED
  BY <1>1, <1>2, <1>3, <1>4, <1>5, <1>6 DEF SessionInv

\* The request after the launch: it records the session, rolls the launch back
\* or forgets what has exited meanwhile.
LEMMA RecordKeepsSessions ==
    ASSUME SessionInv, NEW l \in Launches,
           \/ CheckReady(l) \/ RecordRuntimeSession(l) \/ RollbackLaunch(l)
           \/ ForgetIfExited(l) \/ ForgetAfterExit(l)
    PROVE  SessionInv'
<1> USE DEF OnSessions, MoveLaunch, CheckReady, RecordRuntimeSession, RollbackLaunch,
            ForgetIfExited, ForgetAfterExit
<1>1. SessionTypes'
  BY DEF SessionInv, SessionTypes, Stages
<1>2. MarkersAreHeld'
  BY MarkersStay
<1>3. ProcessesAreHeld'
  BY DEF SessionInv, SessionTypes, ProcessesAreHeld, EndedIsDead
<1>4. EndedIsDead'
  BY DEF SessionInv, SessionTypes, EndedIsDead
<1>5. TornDown'
  BY DEF SessionInv, TornDown
<1>6. GoneIsEmpty' /\ ExitsAgree'
  BY DEF SessionInv, SessionTypes, GoneIsEmpty, ExitsAgree
<1>7. NoProcessOutlivesWorkspace'
  BY DEF SessionInv, SessionTypes, NoProcessOutlivesWorkspace
<1>8. ExitedIsForgotten'
  BY DEF SessionInv, SessionTypes, ExitsAgree, ExitedIsForgotten
<1> QED
  BY <1>1, <1>2, <1>3, <1>4, <1>5, <1>6, <1>7, <1>8 DEF SessionInv

LEMMA StopKeepsSessions ==
    ASSUME SessionInv, ForgetStopped \/ \E l \in Launches : Stop(l)
    PROVE  SessionInv'
<1> USE LifecycleAssumption DEF OnSessions, manager, ForgetStopped, Stop
<1>1. SessionTypes'
  BY DEF SessionInv, SessionTypes
<1>2. MarkersAreHeld'
  BY MarkersStay
<1>3. ProcessesAreHeld'
  BY DEF SessionInv, SessionTypes, ProcessesAreHeld, EndedIsDead
<1>4. EndedIsDead'
  BY DEF SessionInv, SessionTypes, EndedIsDead
<1>5. TornDown'
  BY DEF SessionInv, TornDown
<1>6. GoneIsEmpty' /\ ExitsAgree'
  BY DEF SessionInv, SessionTypes, GoneIsEmpty, ExitsAgree
<1>7. NoProcessOutlivesWorkspace' /\ ExitedIsForgotten'
  BY DEF SessionInv, SessionTypes, NoProcessOutlivesWorkspace, ExitedIsForgotten
<1> QED
  BY <1>1, <1>2, <1>3, <1>4, <1>5, <1>6, <1>7 DEF SessionInv

-----------------------------------------------------------------------------
(* Recovery, deletions and restart. *)

\* A deletion in its last steps is the only one there, and no recovery runs.
LEMMA OneTearsDown ==
    ASSUME DoorInv, NEW d \in Deleters, deleter[d].pc \in {"drain", "kill", "clean", "drop"}
    PROVE  /\ recovery = Nobody /\ status = "deleting"
           /\ \A e \in Deleters : deleter[e].pc \in {"drain", "kill", "clean", "drop"} => e = d
  BY LifecycleAssumption
     DEF DoorInv, OneAdmitted, Admitted, WaitsForSetup, AdmissionHeld, Nobody, Recovery

LEMMA RestoreKeepsSessions ==
    ASSUME DoorInv, SessionInv, RestoreRuntimeSession
    PROVE  SessionInv'
<1> USE DEF OnRecovery, RestoreRuntimeSession
<1>1. SessionTypes'
  BY DEF SessionInv, SessionTypes
<1>2. MarkersAreHeld'
  BY MarkersStay
<1>3. ProcessesAreHeld' /\ EndedIsDead'
  BY DEF SessionInv, SessionTypes, ProcessesAreHeld, EndedIsDead
<1>4. TornDown'
  <2>1. recovery # Nobody
    BY LifecycleAssumption DEF SessionInv, SessionTypes
  <2> QED
    BY <2>1, OneTearsDown DEF SessionInv, TornDown
<1>5. GoneIsEmpty' /\ ExitsAgree'
  BY DEF SessionInv, GoneIsEmpty, ExitsAgree
<1>6. NoProcessOutlivesWorkspace' /\ ExitedIsForgotten'
  BY DEF SessionInv, NoProcessOutlivesWorkspace, ExitedIsForgotten
<1> QED
  BY <1>1, <1>2, <1>3, <1>4, <1>5, <1>6 DEF SessionInv

\* What the deletions that stay in place, or move without touching a session,
\* leave as it was.
Untouched == UNCHANGED << inflight, sessions, exited, alive, launch, watch, taken, stopper >>
LEMMA UntouchedKeepsSessions ==
    ASSUME SessionInv, Untouched, status' = "gone" => status = "gone",
           rows' \subseteq rows, pending' \subseteq pending,
           \A l \in rows \ rows' : l \notin alive,
           MarkersAreHeld', stopping' \in Int,
           \A d \in Deleters :
               /\ deleter'[d].pc \in {"kill", "clean", "drop"} => deleter'[d].pc = deleter[d].pc
               /\ deleter[d].pc = "kill" => deleter'[d].pc = "kill"
    PROVE  SessionInv'
<1> USE DEF Untouched
<1>1. SessionTypes'
  BY DEF SessionInv, SessionTypes
<1>2. MarkersAreHeld'
  OBVIOUS
<1>3. ProcessesAreHeld' /\ EndedIsDead'
  BY DEF SessionInv, ProcessesAreHeld, EndedIsDead
<1>4. TornDown'
  BY DEF SessionInv, TornDown
<1>5. GoneIsEmpty' /\ ExitsAgree'
  BY DEF SessionInv, GoneIsEmpty, ExitsAgree
<1>6. NoProcessOutlivesWorkspace' /\ ExitedIsForgotten'
  BY DEF SessionInv, NoProcessOutlivesWorkspace, ExitedIsForgotten
<1> QED
  BY <1>1, <1>2, <1>3, <1>4, <1>5, <1>6 DEF SessionInv

LEMMA RestartKeepsSessions ==
    ASSUME DoorInv, SessionInv, Restart
    PROVE  SessionInv'
<1> USE LifecycleAssumption
<1>1. /\ stopping' = 0 /\ inflight' = {} /\ sessions' = {} /\ exited' = {} /\ taken' = {}
      /\ alive' = alive \intersect rows /\ stopper' = Nobody /\ pending' = rows /\ rows' = rows
      /\ launch' = [l \in Launches |-> IF launch[l] = "idle" THEN "idle" ELSE "left"]
      /\ watch' = [l \in Launches |-> "none"]
      /\ status' = "gone" => status = "gone"
  BY DEF Restart
<1>2. \A d \in Deleters : deleter'[d].pc \in {"idle", "returned"}
  <2>1. deleter' = [d \in Deleters |-> IF At(d, "idle") THEN IdleDeleter ELSE Returned(d)]
    BY DEF Restart
  <2> QED
    BY <2>1, IdleFields
<1>3. \A l \in rows : launch'[l] = "left"
  BY <1>1 DEF SessionInv, SessionTypes, EndedIsDead
<1>4. SessionTypes'
  BY <1>1 DEF SessionInv, SessionTypes, Stages
<1>5. MarkersAreHeld'
  <2>1. Outer' = {} /\ Inner' = {}
    BY <1>2 DEF Outer, Inner
  <2> QED
    BY <1>1, <2>1, FS_EmptySet DEF MarkersAreHeld
<1>6. ProcessesAreHeld' /\ EndedIsDead'
  BY <1>1, <1>3 DEF ProcessesAreHeld, EndedIsDead
<1>7. TornDown'
  BY <1>1, <1>2 DEF TornDown
<1>8. GoneIsEmpty' /\ ExitsAgree'
  BY <1>1, <1>3 DEF SessionInv, GoneIsEmpty, ExitsAgree
<1>9. NoProcessOutlivesWorkspace' /\ ExitedIsForgotten'
  BY <1>1 DEF SessionInv, GoneIsEmpty, NoProcessOutlivesWorkspace, ExitedIsForgotten
<1> QED
  BY <1>4, <1>5, <1>6, <1>7, <1>8, <1>9 DEF SessionInv

\* A deletion that moves carries its markers with it.
LEMMA MarkersMove ==
    ASSUME NEW d \in Deleters, NEW p, NEW queued, NEW admitted, NEW waits,
           BecomesOne(d, p, queued, admitted, waits)
    PROVE  /\ p \in {"preflight", "admit", "stop", "drain", "kill", "clean", "drop"} =>
                Outer' = Outer \union {d}
           /\ p \notin {"preflight", "admit", "stop", "drain", "kill", "clean", "drop"} =>
                Outer' = Outer \ {d}
           /\ p \in {"drain", "kill"} => Inner' = Inner \union {d}
           /\ p \notin {"drain", "kill"} => Inner' = Inner \ {d}
           /\ d \in Outer <=> deleter[d].pc \in
                {"preflight", "admit", "stop", "drain", "kill", "clean", "drop"}
           /\ d \in Inner <=> deleter[d].pc \in {"drain", "kill"}
  BY DEF BecomesOne, Outer, Inner

LEMMA MarkersAreNatural ==
    /\ IsFiniteSet(Outer) /\ IsFiniteSet(Inner)
    /\ Cardinality(Outer) \in Nat /\ Cardinality(Inner) \in Nat
<1>1. IsFiniteSet(Outer) /\ IsFiniteSet(Inner)
  BY DeletersAreFinite, FS_Subset DEF Outer, Inner
<1> QED
  BY <1>1, FS_CardinalityType

LEMMA MarkersCount ==
    ASSUME NEW d \in Deleters
    PROVE  /\ d \notin Outer => Cardinality(Outer \union {d}) = Cardinality(Outer) + 1
           /\ d \in Outer => /\ Cardinality(Outer \ {d}) = Cardinality(Outer) - 1
                             /\ Cardinality(Outer) > 0
           /\ d \notin Inner => Cardinality(Inner \union {d}) = Cardinality(Inner) + 1
           /\ d \in Inner => /\ Cardinality(Inner \ {d}) = Cardinality(Inner) - 1
                             /\ Cardinality(Inner) > 0
<1>1. /\ d \notin Outer => Cardinality(Outer \union {d}) = Cardinality(Outer) + 1
      /\ d \notin Inner => Cardinality(Inner \union {d}) = Cardinality(Inner) + 1
  BY MarkersAreNatural, FS_AddElement
<1>2. /\ d \in Outer => Cardinality(Outer \ {d}) = Cardinality(Outer) - 1
      /\ d \in Inner => Cardinality(Inner \ {d}) = Cardinality(Inner) - 1
  BY MarkersAreNatural, FS_RemoveElement
<1>3. /\ d \in Outer => Cardinality(Outer) # 0
      /\ d \in Inner => Cardinality(Inner) # 0
  BY MarkersAreNatural, FS_EmptySet
<1> QED
  BY <1>1, <1>2, <1>3, MarkersAreNatural

LEMMA BeginMarkerKeepsSessions ==
    ASSUME DoorInv, SessionInv, NEW d \in Deleters, HoldStopMarker(d) \/ StopWorkspace(d)
    PROVE  SessionInv'
<1>1. PICK p \in {"preflight", "drain"} :
        /\ MoveDeleter(d, p) /\ stopping' = stopping + 1
        /\ p = "preflight" => deleter[d].pc = "hold"
        /\ p = "drain" => deleter[d].pc = "stop"
  BY DEF HoldStopMarker, StopWorkspace, BeginStopping, At
<1>2. BecomesOne(d, p, deleter[d].queued, deleter[d].admitted, deleter[d].waits)
  BY <1>1, MoveSets DEF DoorInv, DeleterPlaces
<1>3. MarkersAreHeld' /\ stopping' \in Int
  <2>1. stopping = Cardinality(Outer) + Cardinality(Inner) /\ stopping \in Int
    BY DEF SessionInv, SessionTypes, MarkersAreHeld
  <2>2. Cardinality(Outer') + Cardinality(Inner') = Cardinality(Outer) + Cardinality(Inner) + 1
    <3>1. CASE p = "preflight"
      <4>1. Outer' = Outer \union {d} /\ Inner' = Inner /\ d \notin Outer
        BY <1>1, <1>2, <3>1, MarkersMove
      <4>2. Cardinality(Outer \union {d}) = Cardinality(Outer) + 1
        BY <4>1, MarkersCount
      <4> QED
        BY <4>1, <4>2, MarkersAreNatural
    <3>2. CASE p = "drain"
      <4>1. Outer' = Outer /\ Inner' = Inner \union {d} /\ d \notin Inner
        BY <1>1, <1>2, <3>2, MarkersMove
      <4>2. Cardinality(Inner \union {d}) = Cardinality(Inner) + 1
        BY <4>1, MarkersCount
      <4> QED
        BY <4>1, <4>2, MarkersAreNatural
    <3> QED
      BY <3>1, <3>2
  <2> QED
    BY <1>1, <2>1, <2>2 DEF MarkersAreHeld
<1>4. Untouched /\ UNCHANGED << status, rows, pending >>
  BY DEF HoldStopMarker, StopWorkspace, OnDeleter, DeletesNothing, KeepsAdmission, Untouched
<1>5. \A e \in Deleters :
        /\ deleter'[e].pc \in {"kill", "clean", "drop"} => deleter'[e].pc = deleter[e].pc
        /\ deleter[e].pc = "kill" => deleter'[e].pc = "kill"
  BY <1>1, <1>2 DEF BecomesOne
<1> QED
  BY <1>3, <1>4, <1>5, UntouchedKeepsSessions

LEMMA FailureKeepsSessions ==
    ASSUME DoorInv, SessionInv, NEW d \in Deleters, DeletionFails(d)
    PROVE  SessionInv'
<1>1. PICK p \in {"persist", "failed"} : MoveDeleter(d, p)
  BY DEF DeletionFails
<1>2. BecomesOne(d, p, deleter[d].queued, deleter[d].admitted, deleter[d].waits)
  BY <1>1, MoveSets DEF DoorInv, DeleterPlaces
<1>3. Outer' = Outer \ {d} /\ Inner' = Inner \ {d}
  BY <1>2, MarkersMove
<1>4. MarkersAreHeld' /\ stopping' \in Int
  <2>1. stopping = Cardinality(Outer) + Cardinality(Inner)
    BY DEF SessionInv, MarkersAreHeld
  <2>2. CASE deleter[d].pc \in {"preflight", "admit", "clean", "drop"}
    <3>1. d \in Outer /\ Inner' = Inner
      BY <1>2, <1>3, <2>2, MarkersMove
    <3>2. stopping' = IF stopping > 0 THEN stopping - 1 ELSE 0
      BY <2>2 DEF DeletionFails, EndStopping, At
    <3>3. Cardinality(Outer \ {d}) = Cardinality(Outer) - 1 /\ Cardinality(Outer) > 0
      BY <3>1, MarkersCount
    <3>4. Cardinality(Outer') = Cardinality(Outer) - 1
      BY <1>3, <3>3
    <3>5. Cardinality(Inner') = Cardinality(Inner)
      BY <3>1
    <3>6. stopping' = stopping - 1 /\ stopping \in Int
      BY <2>1, <3>2, <3>3, MarkersAreNatural
    <3>7. stopping' = Cardinality(Outer') + Cardinality(Inner') /\ stopping' \in Int
      BY <2>1, <3>4, <3>5, <3>6, MarkersAreNatural
    <3> QED
      BY <3>7 DEF MarkersAreHeld
  <2>3. CASE deleter[d].pc = "drain"
    <3>1. d \in Outer /\ d \in Inner
      BY <1>2, <2>3, MarkersMove
    <3>2. stopping' = IF stopping > 1 THEN stopping - 2 ELSE 0
      BY <2>3 DEF DeletionFails, At
    <3>3. /\ Cardinality(Outer \ {d}) = Cardinality(Outer) - 1 /\ Cardinality(Outer) > 0
          /\ Cardinality(Inner \ {d}) = Cardinality(Inner) - 1 /\ Cardinality(Inner) > 0
      BY <3>1, MarkersCount
    <3>4. /\ Cardinality(Outer') = Cardinality(Outer) - 1
          /\ Cardinality(Inner') = Cardinality(Inner) - 1
      BY <1>3, <3>3
    <3>5. stopping > 1 /\ stopping \in Int
      BY <2>1, <3>3, MarkersAreNatural
    <3>6. stopping' = stopping - 2
      BY <3>2, <3>5
    <3>7. stopping' = Cardinality(Outer') + Cardinality(Inner') /\ stopping' \in Int
      BY <2>1, <3>4, <3>5, <3>6, MarkersAreNatural
    <3> QED
      BY <3>7 DEF MarkersAreHeld
  <2>4. CASE deleter[d].pc = "lookup"
    <3>1. Outer' = Outer /\ Inner' = Inner
      BY <1>2, <1>3, <2>4, MarkersMove
    <3>2. stopping' = stopping
      BY <2>4 DEF DeletionFails, At
    <3> QED
      BY <2>1, <3>1, <3>2, MarkersAreNatural DEF MarkersAreHeld
  <2> QED
    BY <2>2, <2>3, <2>4 DEF DeletionFails, At
<1>5. Untouched /\ UNCHANGED << status, rows, pending >>
  BY DEF DeletionFails, OnDeleter, DeletesNothing, KeepsAdmission, Untouched
<1>6. \A e \in Deleters :
        /\ deleter'[e].pc \in {"kill", "clean", "drop"} => deleter'[e].pc = deleter[e].pc
        /\ deleter[e].pc = "kill" => deleter'[e].pc = "kill"
  BY <1>2 DEF BecomesOne, DeletionFails, At
<1> QED
  BY <1>4, <1>5, <1>6, UntouchedKeepsSessions

\* The steps that take the sessions, stop what they took and what the rows
\* name, and drop the rows.
LEMMA TakeKeepsSessions ==
    ASSUME DoorInv, SessionInv, NEW d \in Deleters, TakeSessions(d)
    PROVE  SessionInv'
<1> USE DEF TakeSessions, OnDeleter, KeepsAdmission, InflightDrained, At
<1>1. BecomesOne(d, "kill", deleter[d].queued, deleter[d].admitted, deleter[d].waits)
  BY MoveSets DEF DoorInv, DeleterPlaces
<1>2. \A e \in Deleters \ {d} : deleter[e].pc \notin {"drain", "kill", "clean", "drop"}
  BY OneTearsDown
<1>3. taken = {} /\ inflight = {}
  BY <1>2 DEF SessionInv, TornDown
<1>4. SessionTypes'
  BY DEF SessionInv, SessionTypes
<1>5. MarkersAreHeld'
  <2>1. Outer' = Outer /\ Inner' = Inner
    BY <1>1, MarkersMove
  <2> QED
    BY <2>1 DEF SessionInv, MarkersAreHeld
<1>6. ProcessesAreHeld' /\ EndedIsDead'
  BY <1>3 DEF SessionInv, ProcessesAreHeld, EndedIsDead
<1>7. TornDown'
  BY <1>1, <1>2, <1>3 DEF TornDown, BecomesOne
<1>8. GoneIsEmpty' /\ ExitsAgree'
  BY DEF SessionInv, GoneIsEmpty, ExitsAgree
<1>9. NoProcessOutlivesWorkspace' /\ ExitedIsForgotten'
  BY DEF SessionInv, NoProcessOutlivesWorkspace, ExitedIsForgotten
<1> QED
  BY <1>4, <1>5, <1>6, <1>7, <1>8, <1>9 DEF SessionInv

LEMMA KillKeepsSessions ==
    ASSUME DoorInv, SessionInv, NEW d \in Deleters, StopTaken(d)
    PROVE  SessionInv'
<1> USE DEF StopTaken, OnDeleter, KeepsAdmission, EndStopping, At
<1>1. BecomesOne(d, "clean", deleter[d].queued, deleter[d].admitted, deleter[d].waits)
  BY MoveSets DEF DoorInv, DeleterPlaces
<1>2. MarkersAreHeld' /\ stopping' \in Int
  <2>1. Outer' = Outer /\ Inner' = Inner \ {d} /\ d \in Inner
    BY <1>1, MarkersMove
  <2>2. Cardinality(Inner \ {d}) = Cardinality(Inner) - 1 /\ Cardinality(Inner) > 0
    BY <2>1, MarkersCount
  <2> QED
    BY <2>1, <2>2, MarkersAreNatural DEF SessionInv, MarkersAreHeld
<1>3. SessionTypes'
  BY <1>2 DEF SessionInv, SessionTypes
<1>4. ProcessesAreHeld' /\ EndedIsDead'
  BY DEF SessionInv, ProcessesAreHeld, EndedIsDead
<1>5. TornDown'
  BY <1>1 DEF SessionInv, TornDown, BecomesOne
<1>6. GoneIsEmpty' /\ ExitsAgree'
  BY DEF SessionInv, GoneIsEmpty, ExitsAgree
<1>7. NoProcessOutlivesWorkspace' /\ ExitedIsForgotten'
  BY DEF SessionInv, NoProcessOutlivesWorkspace, ExitedIsForgotten
<1> QED
  BY <1>2, <1>3, <1>4, <1>5, <1>6, <1>7 DEF SessionInv

LEMMA CleanKeepsSessions ==
    ASSUME DoorInv, SessionInv, NEW d \in Deleters, CleanUp(d)
    PROVE  SessionInv'
<1> USE DEF CleanUp, OnDeleter, KeepsAdmission, At
<1>1. BecomesOne(d, "drop", deleter[d].queued, deleter[d].admitted, deleter[d].waits)
  BY MoveSets DEF DoorInv, DeleterPlaces
<1>2. \A e \in Deleters \ {d} : deleter[e].pc \notin {"drain", "kill", "clean", "drop"}
  BY OneTearsDown
<1>3. taken = {} /\ inflight = {} /\ sessions = {}
  BY <1>2 DEF SessionInv, TornDown
<1>4. \A l \in alive : l \in rows
  BY <1>3 DEF SessionInv, SessionTypes, Stages, ProcessesAreHeld
<1>5. SessionTypes'
  BY DEF SessionInv, SessionTypes
<1>6. MarkersAreHeld'
  <2>1. Outer' = Outer /\ Inner' = Inner
    BY <1>1, MarkersMove
  <2> QED
    BY <2>1 DEF SessionInv, MarkersAreHeld
<1>7. ProcessesAreHeld' /\ EndedIsDead'
  BY DEF SessionInv, ProcessesAreHeld, EndedIsDead
<1>8. TornDown'
  BY <1>1, <1>2, <1>3, <1>4 DEF TornDown, BecomesOne
<1>9. GoneIsEmpty' /\ ExitsAgree'
  BY DEF SessionInv, GoneIsEmpty, ExitsAgree
<1>10. NoProcessOutlivesWorkspace' /\ ExitedIsForgotten'
  BY DEF SessionInv, NoProcessOutlivesWorkspace, ExitedIsForgotten
<1> QED
  BY <1>5, <1>6, <1>7, <1>8, <1>9, <1>10 DEF SessionInv

LEMMA DropKeepsSessions ==
    ASSUME DoorInv, SessionInv, NEW d \in Deleters, DeleteRow(d)
    PROVE  SessionInv'
<1> USE DEF DeleteRow, OnDeleter, KeepsAdmission, EndStopping, At
<1>1. BecomesOne(d, "succeeded", deleter[d].queued, deleter[d].admitted, deleter[d].waits)
  BY MoveSets DEF DoorInv, DeleterPlaces
<1>2. alive = {}
  BY DEF SessionInv, TornDown
<1>3. MarkersAreHeld' /\ stopping' \in Int
  <2>1. Outer' = Outer \ {d} /\ Inner' = Inner /\ d \in Outer
    BY <1>1, MarkersMove
  <2>2. Cardinality(Outer \ {d}) = Cardinality(Outer) - 1 /\ Cardinality(Outer) > 0
    BY <2>1, MarkersCount
  <2> QED
    BY <2>1, <2>2, MarkersAreNatural DEF SessionInv, MarkersAreHeld
<1>4. SessionTypes'
  BY <1>3 DEF SessionInv, SessionTypes
<1>5. ProcessesAreHeld' /\ EndedIsDead'
  BY <1>2 DEF SessionInv, ProcessesAreHeld, EndedIsDead
<1>6. TornDown'
  BY <1>1 DEF SessionInv, TornDown, BecomesOne
<1>7. GoneIsEmpty' /\ ExitsAgree'
  BY DEF SessionInv, GoneIsEmpty, ExitsAgree
<1>8. NoProcessOutlivesWorkspace' /\ ExitedIsForgotten'
  BY <1>2 DEF NoProcessOutlivesWorkspace, ExitedIsForgotten
<1> QED
  BY <1>3, <1>4, <1>5, <1>6, <1>7, <1>8 DEF SessionInv

\* A deletion that waits, looks, admits itself or settles touches no session.
LEMMA OtherDeletionsKeepSessions ==
    ASSUME DoorInv, SessionInv, NEW d \in Deleters,
           \/ LookUp(d) \/ Preflight(d) \/ BeginWorkspaceDeletion(d) \/ FailWorkspaceDeletion(d)
           \/ FinishWorkspaceDeleting(d) \/ MarkWorkspaceDeleting(d) \/ QueueDeletion(d)
    PROVE  SessionInv'
<1> DEFINE Places == {"preflight", "admit", "stop", "drain", "kill", "clean", "drop"}
<1>1. /\ UNCHANGED stopping /\ Untouched /\ UNCHANGED << rows, pending >>
      /\ status' = "gone" => status = "gone"
  BY DEF LookUp, Preflight, BeginWorkspaceDeletion, FailWorkspaceDeletion, FinishWorkspaceDeleting,
         MarkWorkspaceDeleting, QueueDeletion, OnDeleter, DeletesNothing, Untouched
<1>2. \E p \in DeleterPlaces, queued, admitted, waits \in BOOLEAN :
        /\ BecomesOne(d, p, queued, admitted, waits)
        /\ \/ p \notin Places /\ deleter[d].pc \notin Places
           \/ p \in {"admit", "stop"} /\ deleter[d].pc \in {"preflight", "admit"}
  <2> PICK queued \in BOOLEAN, admitted \in BOOLEAN, waits \in BOOLEAN :
        queued = deleter[d].queued /\ admitted = deleter[d].admitted /\ waits = deleter[d].waits
    BY DEF DoorInv, DoorTypes, DeleterStates
  <2>1. CASE LookUp(d)
    <3> PICK p \in {"succeeded", "failed", "hold"} : MoveDeleter(d, p)
      BY <2>1 DEF LookUp
    <3>1. BecomesOne(d, p, queued, admitted, waits)
      BY MoveSets DEF DoorInv, DeleterPlaces
    <3> QED
      BY <2>1, <3>1 DEF LookUp, At, DeleterPlaces
  <2>2. CASE Preflight(d)
    <3> PICK p \in {"stop", "admit"} : MoveDeleter(d, p)
      BY <2>2 DEF Preflight
    <3>1. BecomesOne(d, p, queued, admitted, waits)
      BY MoveSets DEF DoorInv, DeleterPlaces
    <3> QED
      BY <2>2, <3>1 DEF Preflight, At, DeleterPlaces
  <2>3. CASE BeginWorkspaceDeletion(d)
    <3>1. BecomesOne(d, "stop", queued, TRUE, waits)
      BY <2>3, BeginSets DEF DoorInv
    <3> QED
      BY <2>3, <3>1 DEF BeginWorkspaceDeletion, At, DeleterPlaces
  <2>4. CASE FailWorkspaceDeletion(d)
    <3>1. BecomesOne(d, "failed", queued, admitted, waits)
      BY <2>4, MoveSets DEF DoorInv, DeleterPlaces, FailWorkspaceDeletion
    <3> QED
      BY <2>4, <3>1 DEF FailWorkspaceDeletion, At, DeleterPlaces
  <2>5. CASE FinishWorkspaceDeleting(d)
    <3>1. BecomesOne(d, IF d = Retirement THEN "idle" ELSE "returned", FALSE, FALSE, FALSE)
      BY <2>5, FinishSets DEF DoorInv
    <3> QED
      BY <2>5, <3>1 DEF FinishWorkspaceDeleting, DeleterPlaces
  <2>6. CASE MarkWorkspaceDeleting(d)
    <3>1. BecomesOne(d, IF deleter[d].pc = "mark" THEN "hold" ELSE "lookup", queued, admitted,
                     setupDone # Nobody)
      BY <2>6, MarkSets DEF DoorInv
    <3> QED
      BY <2>6, <3>1 DEF MarkWorkspaceDeleting, At, DeleterPlaces
  <2>7. CASE QueueDeletion(d)
    <3>1. BecomesOne(d, "mark", TRUE, TRUE, FALSE)
      BY <2>7, QueueSets DEF DoorInv, QueueDeletion
    <3> QED
      BY <2>7, <3>1 DEF QueueDeletion, At, DeleterPlaces
  <2> QED
    BY <2>1, <2>2, <2>3, <2>4, <2>5, <2>6, <2>7
<1> PICK p \in DeleterPlaces, queued \in BOOLEAN, admitted \in BOOLEAN, waits \in BOOLEAN :
        <1>2!(p, queued, admitted, waits)
  BY <1>2
<1>3. Outer' = Outer /\ Inner' = Inner
  BY MarkersMove
<1>4. MarkersAreHeld' /\ stopping' \in Int
  BY <1>1, <1>3 DEF SessionInv, SessionTypes, MarkersAreHeld
<1>5. \A e \in Deleters :
        /\ deleter'[e].pc \in {"kill", "clean", "drop"} => deleter'[e].pc = deleter[e].pc
        /\ deleter[e].pc = "kill" => deleter'[e].pc = "kill"
  BY DEF BecomesOne
<1> QED
  BY <1>1, <1>4, <1>5, UntouchedKeepsSessions

\* The requests, the setups they run and the recovery pass leave the deletions
\* where they are, but for the retirement, which is queued.
LEMMA RequestKeepsSessions ==
    ASSUME DoorInv, SessionInv,
           \/ MarkReadyWorkspaceError \/ EndRecovery
           \/ \E l \in Launches : BeginRecovery(l)
           \/ \E w \in Workers : WorkerStep(w) \/ StartWorkspaceRetry(w)
    PROVE  SessionInv'
<1>1. /\ UNCHANGED stopping /\ Untouched
      /\ status' = "gone" => status = "gone"
      /\ rows' \subseteq rows /\ pending' \subseteq pending
      /\ \A l \in rows \ rows' : l \notin alive
  BY DEF WorkerStep, BeginWorkspaceSetup, SetupSucceeds, SetupFails, SetupUnresolved, SetupEndsAs,
         SetStatus, QueueRetirement, ConsumeQueuedRetry, StartQueuedRetry, ResumeSetup, SetupGivesUp,
         FinishWorkspaceSetup, RereadStatus, QueueRetry, RetryGivesUp, StartWorkspaceRetry,
         MarkReadyWorkspaceError, EndRecovery, BeginRecovery, OnRecovery, OnWorker, manager, handler,
         Untouched
<1>2. \A d \in Deleters :
        \/ deleter'[d].pc = deleter[d].pc
        \/ deleter'[d].pc = "mark" /\ deleter[d].pc = "idle"
  <2>1. CASE CloseSetup
    BY <2>1, CloseFields DEF DoorInv
  <2>2. CASE \E w \in Workers : QueueRetirement(w)
    <3>1. CASE status \in {"ready", "error"}
      <4>1. BecomesOne(Retirement, "mark", TRUE, TRUE, FALSE) /\ deleter[Retirement].pc = "idle"
        BY <2>2, <3>1, QueueSets DEF DoorInv, DeletersAgree, QueueRetirement, Deleters
      <4> QED
        BY <4>1 DEF BecomesOne
    <3>2. CASE status \notin {"ready", "error"}
      BY <2>2, <3>2 DEF QueueRetirement
    <3> QED
      BY <3>1, <3>2
  <2>3. CASE UNCHANGED deleter
    BY <2>3
  <2> QED
    BY <2>1, <2>2, <2>3
    DEF WorkerStep, BeginWorkspaceSetup, SetupSucceeds, SetupFails, SetupUnresolved, SetupEndsAs,
        ConsumeQueuedRetry, StartQueuedRetry, ResumeSetup, SetupGivesUp, FinishWorkspaceSetup,
        RereadStatus, QueueRetry, RetryGivesUp, StartWorkspaceRetry, MarkReadyWorkspaceError,
        EndRecovery, BeginRecovery, handler
<1>3. Outer' = Outer /\ Inner' = Inner
  BY <1>2 DEF Outer, Inner
<1>4. MarkersAreHeld' /\ stopping' \in Int
  BY <1>1, <1>3 DEF SessionInv, SessionTypes, MarkersAreHeld
<1> QED
  BY <1>1, <1>2, <1>4, UntouchedKeepsSessions

LEMMA StepKeepsSessions ==
    ASSUME DoorInv, SessionInv, [Next]_vars
    PROVE  SessionInv'
<1>1. CASE \/ MarkReadyWorkspaceError \/ EndRecovery \/ \E l \in Launches : BeginRecovery(l)
           \/ \E w \in Workers : WorkerStep(w) \/ (worker[w] = "idle" /\ StartWorkspaceRetry(w))
  BY <1>1, RequestKeepsSessions
<1>2. CASE \/ \E d \in Deleters : DeleterStep(d)
           \/ \E d \in Requests : QueueDeletion(d) \/ (At(d, "idle") /\ MarkWorkspaceDeleting(d))
  BY <1>2, BeginMarkerKeepsSessions, FailureKeepsSessions, TakeKeepsSessions, KillKeepsSessions,
     CleanKeepsSessions, DropKeepsSessions, OtherDeletionsKeepSessions DEF DeleterStep, Deleters
<1>3. CASE ManagerStep
  BY <1>3, LaunchKeepsSessions, ExitKeepsSessions DEF ManagerStep
<1>4. CASE \E l \in Launches : \/ CheckReady(l) \/ RecordRuntimeSession(l) \/ RollbackLaunch(l)
                               \/ ForgetIfExited(l) \/ ForgetAfterExit(l) \/ Stop(l)
  BY <1>4, RecordKeepsSessions, StopKeepsSessions
<1>5. CASE ForgetStopped \/ Restart \/ RestoreRuntimeSession
  BY <1>5, StopKeepsSessions, RestartKeepsSessions, RestoreKeepsSessions
<1>6. CASE UNCHANGED vars
  BY <1>6, MarkersStay
  DEF vars, manager, handler, SessionInv, SessionTypes, ProcessesAreHeld, EndedIsDead, TornDown,
      GoneIsEmpty, ExitsAgree, NoProcessOutlivesWorkspace, ExitedIsForgotten
<1> QED
  BY <1>1, <1>2, <1>3, <1>4, <1>5, <1>6 DEF Next

LEMMA InitIsSessionInv == Init => SessionInv
<1> SUFFICES ASSUME Init PROVE SessionInv
  OBVIOUS
<1>1. \A d \in Deleters : deleter[d].pc = "idle"
  BY IdleFields DEF Init
<1>2. SessionTypes
  BY DEF Init, ManagerInit, SessionTypes, Stages
<1>3. MarkersAreHeld
  <2>1. Outer = {} /\ Inner = {}
    BY <1>1 DEF Outer, Inner
  <2> QED
    BY <2>1, FS_EmptySet DEF Init, ManagerInit, MarkersAreHeld
<1>4. ProcessesAreHeld /\ EndedIsDead /\ GoneIsEmpty /\ ExitsAgree
  BY DEF Init, ManagerInit, ProcessesAreHeld, EndedIsDead, GoneIsEmpty, ExitsAgree
<1>5. TornDown
  BY <1>1 DEF Init, TornDown
<1>6. NoProcessOutlivesWorkspace /\ ExitedIsForgotten
  BY DEF Init, ManagerInit, NoProcessOutlivesWorkspace, ExitedIsForgotten
<1> QED
  BY <1>2, <1>3, <1>4, <1>5, <1>6 DEF SessionInv

LEMMA SessionInvHolds == Spec => []SessionInv
<1>1. DoorInv /\ SessionInv /\ [Next]_vars => SessionInv'
  BY StepKeepsSessions
<1> QED
  BY DoorInvHolds, InitIsSessionInv, <1>1, PTL DEF Spec

-----------------------------------------------------------------------------

\* Once the workspace is gone, a process that runs belongs to a launch that has
\* yet to find out: every other was under way when the deletion drained the
\* launches, held when it took the sessions, or named by a row it cleaned up.
THEOREM ProcessesDoNotOutlive == Spec => []NoProcessOutlivesWorkspace
<1>1. SessionInv => NoProcessOutlivesWorkspace
  BY DEF SessionInv
<1> QED
  BY SessionInvHolds, <1>1, PTL

\* A recorded session the manager saw exit is about to be forgotten, in either
\* order of the record and the exit, unless an earlier daemon started it.
THEOREM ExitedForgotten == Spec => []ExitedIsForgotten
<1>1. SessionInv => ExitedIsForgotten
  BY DEF SessionInv
<1> QED
  BY SessionInvHolds, <1>1, PTL
=============================================================================
