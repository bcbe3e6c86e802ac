------------------------- MODULE WorkerProcessProofs -------------------------
(***************************************************************************)
(* Theorems about the supervision of processes (WorkerProcess), for any    *)
(* runtimes and definitions, any number of tasks, processes and faults.    *)
(***************************************************************************)
EXTENDS WorkerProcess, SequenceTheorems, TLAPS

-----------------------------------------------------------------------------
(* The inductive invariant.                                                *)

Steps == {"files", "env", "put", "erase", "unlink", "start", "stop", "stopped", "inspect", "check"}

\* What may follow what in a task.
Order == ({"stop", "stopped"} \X {"start", "erase", "files"})
         \union ({"put"} \X {"start", "inspect"})
         \union ({"env"} \X {"put", "inspect", "check"})
         \union {<<"files", "env">>, <<"check", "start">>}

Ordered(steps) == \A k \in 1..(Len(steps) - 1) : <<steps[k], steps[k + 1]>> \in Order

\* The record is going to be replaced or removed.
Dooms(steps) == \E k \in 1..Len(steps) : steps[k] \in {"put", "erase"}
Dooming == Dooms(todo)

\* Where the current task is, and what its secrets are.
StepsInOrder ==
    /\ Ordered(todo)
    /\ stage = "wait" => At("stop", "wait") /\ cand \in Procs
    /\ stage = "update" => ~Idle /\ Head(todo) \in {"stop", "start"} \union Inspections
    /\ At("start", "update") =>
           /\ cand \in Procs /\ cand <= spawned
           /\ waiter[cand] = "none"
           /\ proc[cand].state # "none" /\ proc[cand].runtime = target
    /\ ~Idle /\ Head(todo) \in {"env", "put"} => secrets[target].files = newDef
    /\ ~Idle /\ Head(todo) = "put" => secrets[target].env = newDef

\* A process that has a waiter has been started, and reaped when its waiter knows.
Processes ==
    \A p \in Procs :
        /\ p > spawned => proc[p].state = "none" /\ waiter[p] = "none"
        /\ proc[p].state # "none" => proc[p].runtime \in Runtimes /\ proc[p].def \in Defs
        /\ waiter[p] # "none" => proc[p].state # "none"
        /\ waiter[p] = "reaped" => proc[p].state = "gone"

\* A record that names no process any more says that it has been stopped.
Consistent(record) ==
    /\ record.def = "absent" => record = Absent
    /\ record.def # "blank"
    /\ record.pid # 0 => record.pid = record.started
    /\ record.started # 0 /\ record.pid = 0 => record.status = "stopped"

Records == \A r \in Runtimes : Consistent(file[r])

\* No process of the target runs, except perhaps q.
Alone(q) == \A p \in Procs :
    Present(p) /\ p \notin unaccounted /\ proc[p].runtime = target => p = q

\* Nothing of the target runs when its record is about to lose its process.
TargetIsQuiet ==
    /\ Dooming /\ Head(todo) # "stop" => Alone(0)
    /\ stage = "wait" => Alone(cand)
    /\ stage = "update" => Alone(IF Head(todo) = "start" THEN cand ELSE 0)
    /\ At("start", "update") => Mine.def = proc[cand].def
    /\ stage = "update" /\ Head(todo) # "stop" => Mine.def # "absent"
    /\ ~Idle /\ Head(todo) = "unlink" => Mine.def = "absent"

Sound ==
    /\ Records /\ TargetIsQuiet
    /\ LiveIsRecordedUnlessClobbered
    /\ ExitRecorded
    /\ StartableUnlessClobbered

WorkerInv == TypeOK /\ StepsInOrder /\ Processes /\ (clobbered \/ Sound)

-----------------------------------------------------------------------------
(* The steps of a task.                                                    *)

LEMMA TailInOrder ==
    ASSUME NEW steps \in Seq(Steps), steps # <<>>, Ordered(steps)
    PROVE  /\ Tail(steps) \in Seq(Steps) /\ Ordered(Tail(steps))
           /\ Dooms(Tail(steps)) => Dooms(steps)
           /\ Tail(steps) # <<>> => <<Head(steps), Head(Tail(steps))>> \in Order
  <1>1. /\ Head(steps) = steps[1] /\ Tail(steps) \in Seq(Steps) /\ Len(steps) \in Nat \ {0}
        /\ Len(Tail(steps)) = Len(steps) - 1
        /\ \A k \in 1..Len(Tail(steps)) : Tail(steps)[k] = steps[k + 1]
    BY HeadTailProperties, EmptySeq
  <1> DEFINE rest == Tail(steps)
  <1> HIDE DEF rest
  <1>2. Ordered(rest)
    <2> SUFFICES ASSUME NEW k \in 1..(Len(rest) - 1) PROVE <<rest[k], rest[k + 1]>> \in Order
      BY DEF Ordered
    <2>1. /\ k \in 1..Len(rest) /\ k + 1 \in 1..Len(rest) /\ k + 1 \in 1..(Len(steps) - 1)
      BY <1>1 DEF rest
    <2>2. rest[k] = steps[k + 1] /\ rest[k + 1] = steps[(k + 1) + 1]
      BY <1>1, <2>1 DEF rest
    <2>3. QED
      BY <2>1, <2>2 DEF Ordered
  <1>3. Dooms(rest) => Dooms(steps)
    <2> SUFFICES ASSUME NEW k \in 1..Len(rest), rest[k] \in {"put", "erase"} PROVE Dooms(steps)
      BY DEF Dooms
    <2>1. k + 1 \in 1..Len(steps) /\ steps[k + 1] = rest[k]
      BY <1>1 DEF rest
    <2>2. QED
      BY <2>1 DEF Dooms
  <1>4. ASSUME rest # <<>> PROVE <<Head(steps), Head(rest)>> \in Order
    <2>1. Head(rest) = rest[1] /\ Len(rest) \in Nat \ {0}
      BY <1>1, <1>4, HeadTailProperties, EmptySeq DEF rest
    <2>2. 1 \in 1..(Len(steps) - 1) /\ rest[1] = steps[1 + 1]
      BY <1>1, <2>1 DEF rest
    <2>3. QED
      BY <1>1, <2>1, <2>2 DEF Ordered
  <1>5. QED
    BY <1>1, <1>2, <1>3, <1>4 DEF rest

\* A step takes the place of the first.
LEMMA ReplacedInOrder ==
    ASSUME NEW steps \in Seq(Steps), steps # <<>>, Ordered(steps), NEW step \in Steps,
           step \notin {"put", "erase"},
           \A next \in Steps : <<Head(steps), next>> \in Order => <<step, next>> \in Order
    PROVE  /\ <<step>> \o Tail(steps) \in Seq(Steps) /\ Ordered(<<step>> \o Tail(steps))
           /\ <<step>> \o Tail(steps) # <<>>
           /\ Head(<<step>> \o Tail(steps)) = step
           /\ Dooms(<<step>> \o Tail(steps)) => Dooms(steps)
  <1> DEFINE rest == Tail(steps)
             all == <<step>> \o rest
  <1>1. rest \in Seq(Steps) /\ Len(rest) \in Nat /\ Ordered(rest) /\ (Dooms(rest) => Dooms(steps))
    BY TailInOrder, LenProperties
  <1>2. rest # <<>> => <<step, Head(rest)>> \in Order
    BY <1>1, TailInOrder, HeadTailProperties
  <1> HIDE DEF rest
  <1>3. /\ all \in Seq(Steps) /\ Len(all) = Len(rest) + 1
        /\ all[1] = step /\ \A k \in 1..Len(rest) : all[k + 1] = rest[k]
    <2>1. <<step>> \in Seq(Steps) /\ Len(<<step>>) = 1 /\ <<step>>[1] = step
      OBVIOUS
    <2>2. QED
      BY <1>1, <2>1, ConcatProperties
  <1> HIDE DEF all
  <1>4. all # <<>> /\ Head(all) = step
    BY <1>1, <1>3, HeadTailProperties, EmptySeq
  <1>5. Ordered(all)
    <2> SUFFICES ASSUME NEW k \in 1..(Len(all) - 1) PROVE <<all[k], all[k + 1]>> \in Order
      BY DEF Ordered
    <2>1. CASE k = 1
      <3>1. Head(rest) = rest[1] /\ rest # <<>>
        BY <1>1, <1>3, HeadTailProperties, EmptySeq
      <3>2. all[1 + 1] = rest[1]
        BY <1>1, <1>3
      <3>3. QED
        BY <1>2, <1>3, <2>1, <3>1, <3>2
    <2>2. CASE k # 1
      <3>1. k - 1 \in 1..Len(rest) /\ k \in 1..Len(rest) /\ k - 1 \in 1..(Len(rest) - 1)
        BY <1>1, <1>3, <2>2
      <3>2. all[k] = rest[k - 1] /\ all[k + 1] = rest[k]
        <4>1. all[(k - 1) + 1] = rest[k - 1]
          BY <1>3, <3>1
        <4>2. QED
          BY <1>3, <3>1, <4>1
      <3>3. <<rest[k - 1], rest[(k - 1) + 1]>> \in Order
        BY <1>1, <3>1 DEF Ordered
      <3>4. QED
        BY <3>1, <3>2, <3>3
    <2>3. QED
      BY <2>1, <2>2
  <1>6. Dooms(all) => Dooms(steps)
    <2> SUFFICES ASSUME NEW k \in 1..Len(all), all[k] \in {"put", "erase"} PROVE Dooms(rest)
      BY <1>1 DEF Dooms
    <2>1. k - 1 \in 1..Len(rest) /\ k = (k - 1) + 1
      BY <1>1, <1>3
    <2>2. all[(k - 1) + 1] = rest[k - 1]
      BY <1>3, <2>1
    <2>3. QED
      BY <2>1, <2>2 DEF Dooms
  <1>7. QED
    BY <1>3, <1>4, <1>5, <1>6 DEF all, rest

\* The programs of tasks.
LEMMA ProgramsAreOrdered ==
    \A steps \in Programs \union
           {<<"files", "env", "check", "start">>, <<"files", "env", "inspect">>,
            <<"stop", "files", "env", "put", "start">>, <<"files", "env", "put", "start">>,
            <<"files", "env", "put", "inspect">>} :
        /\ steps \in Seq(Steps) /\ steps # <<>> /\ Ordered(steps)
        /\ Head(steps) \in {"start", "stop", "inspect", "files"}
  <1>1. \A a \in Steps : <<a>> \in Seq(Steps) /\ Ordered(<<a>>) /\ Head(<<a>>) = a /\ <<a>> # <<>>
    BY DEF Ordered
  <1>2. \A a, b \in Steps : <<a, b>> \in Order =>
            <<a, b>> \in Seq(Steps) /\ Ordered(<<a, b>>) /\ Head(<<a, b>>) = a /\ <<a, b>> # <<>>
    BY DEF Ordered
  <1>3. \A a, b, c \in Steps : <<a, b>> \in Order /\ <<b, c>> \in Order =>
            /\ <<a, b, c>> \in Seq(Steps) /\ Ordered(<<a, b, c>>) /\ Head(<<a, b, c>>) = a
            /\ <<a, b, c>> # <<>>
    BY DEF Ordered
  <1>4. \A a, b, c, d \in Steps : <<a, b>> \in Order /\ <<b, c>> \in Order /\ <<c, d>> \in Order =>
            /\ <<a, b, c, d>> \in Seq(Steps) /\ Ordered(<<a, b, c, d>>)
            /\ Head(<<a, b, c, d>>) = a /\ <<a, b, c, d>> # <<>>
    BY DEF Ordered
  <1>5. \A a, b, c, d, e \in Steps :
            <<a, b>> \in Order /\ <<b, c>> \in Order /\ <<c, d>> \in Order /\ <<d, e>> \in Order =>
            /\ <<a, b, c, d, e>> \in Seq(Steps) /\ Ordered(<<a, b, c, d, e>>)
            /\ Head(<<a, b, c, d, e>>) = a /\ <<a, b, c, d, e>> # <<>>
    BY DEF Ordered
  <1>6. /\ <<"stop", "start">> \in Order /\ <<"stop", "erase">> \in Order
        /\ <<"files", "env">> \in Order
        /\ <<"env", "check">> \in Order /\ <<"check", "start">> \in Order
        /\ <<"env", "inspect">> \in Order /\ <<"stop", "files">> \in Order
        /\ <<"env", "put">> \in Order /\ <<"put", "start">> \in Order
        /\ <<"put", "inspect">> \in Order
    BY DEF Order
  <1>7. {"files", "env", "put", "erase", "unlink", "start", "stop", "inspect", "check"} \subseteq Steps
    BY DEF Steps
  <1> DEFINE Good(steps) == /\ steps \in Seq(Steps) /\ steps # <<>> /\ Ordered(steps)
                            /\ Head(steps) \in {"start", "stop", "inspect", "files"}
  <1>8. Good(<<"start">>) /\ Good(<<"stop">>) /\ Good(<<"inspect">>)
    BY <1>1, <1>7
  <1>9. Good(<<"stop", "start">>)
    BY <1>2, <1>6, <1>7
  <1>10. Good(<<"stop", "erase">>)
    BY <1>2, <1>6, <1>7
  <1>11. Good(<<"files", "env", "inspect">>)
    BY <1>3, <1>6, <1>7
  <1>12. Good(<<"files", "env", "check", "start">>)
    BY <1>4, <1>6, <1>7
  <1>13. Good(<<"files", "env", "put", "start">>)
    BY <1>4, <1>6, <1>7
  <1>14. Good(<<"files", "env", "put", "inspect">>)
    BY <1>4, <1>6, <1>7
  <1>15. Good(<<"stop", "files", "env", "put", "start">>)
    BY <1>5, <1>6, <1>7
  <1> HIDE DEF Good
  <1>16. \A steps \in Programs \union
             {<<"files", "env", "check", "start">>, <<"files", "env", "inspect">>,
              <<"stop", "files", "env", "put", "start">>, <<"files", "env", "put", "start">>,
              <<"files", "env", "put", "inspect">>} : Good(steps)
    BY <1>8, <1>9, <1>10, <1>11, <1>12, <1>13, <1>14, <1>15 DEF Programs
  <1>17. QED
    BY <1>16 DEF Good

-----------------------------------------------------------------------------
(* How a task goes on.                                                     *)

LEMMA ContinueShape ==
    ASSUME TypeOK, Ordered(todo), ~Idle, NEW more \in {<<>>, <<"stopped">>, <<"inspect">>, <<"unlink">>},
           Continue(more),
           more = <<"stopped">> => Head(todo) = "stop",
           more = <<"unlink">> => Head(todo) = "erase",
           more = <<"inspect">> => Head(todo) = "start"
    PROVE  /\ todo' \in Seq(Steps) /\ stage' = "begin" /\ cand' = 0
           /\ UNCHANGED <<tasks, target, newDef>>
           /\ Ordered(todo') /\ (Dooms(todo') => Dooms(todo))
           /\ ~Idle' => /\ Head(todo') = "env" => Head(todo) = "files"
                        /\ Head(todo') = "put" => Head(todo) = "env"
                        /\ Head(todo') = "unlink" => Head(todo) = "erase"
                        /\ Head(todo') = "stop" => FALSE
  <1>1. todo \in Seq(Steps) /\ todo # <<>> /\ todo' = more \o Tail(todo)
    BY DEF TypeOK, Steps, Idle, Continue
  <1>2. stage' = "begin" /\ cand' = 0 /\ UNCHANGED <<tasks, target, newDef>>
    BY DEF Continue
  <1>3. CASE more = <<>>
    <2>1. Tail(todo) \in Seq(Steps)
      BY <1>1, TailInOrder
    <2>2. todo' = Tail(todo)
      BY <1>1, <1>3, <2>1, ConcatEmptySeq
    <2>3. /\ todo' \in Seq(Steps) /\ Ordered(todo') /\ (Dooms(todo') => Dooms(todo))
          /\ todo' # <<>> => <<Head(todo), Head(todo')>> \in Order
      BY <1>1, <2>2, TailInOrder
    <2>4. QED
      BY <1>2, <2>3 DEF Order, Idle
  <1>4. ASSUME NEW step \in {"stopped", "inspect", "unlink"}, more = <<step>> PROVE
           /\ todo' \in Seq(Steps) /\ Ordered(todo') /\ (Dooms(todo') => Dooms(todo))
           /\ Head(todo') = step /\ (step = "unlink" => Head(todo) = "erase")
    <2>1. \A next \in Steps : <<Head(todo), next>> \in Order => <<step, next>> \in Order
      <3>1. CASE step = "stopped"
        <4>1. Head(todo) = "stop"
          BY <1>4, <3>1
        <4>2. QED
          BY <3>1, <4>1 DEF Order
      <3>2. CASE step = "inspect"
        <4>1. Head(todo) = "start"
          BY <1>4, <3>2
        <4>2. QED
          BY <4>1 DEF Order
      <3>3. CASE step = "unlink"
        <4>1. Head(todo) = "erase"
          BY <1>4, <3>3
        <4>2. QED
          BY <4>1 DEF Order
      <3>4. QED
        BY <3>1, <3>2, <3>3
    <2>2. step \in Steps /\ step \notin {"put", "erase"}
      BY DEF Steps
    <2>3. step = "unlink" => Head(todo) = "erase"
      BY <1>4
    <2>4. QED
      BY <1>1, <1>4, <2>1, <2>2, <2>3, ReplacedInOrder
  <1>5. QED
    BY <1>2, <1>3, <1>4

LEMMA EndShape ==
    ASSUME EndTask
    PROVE  /\ todo' \in Seq(Steps) /\ stage' = "begin" /\ cand' = 0
           /\ UNCHANGED <<tasks, target, newDef>>
           /\ Idle' /\ ~Dooming' /\ StepsInOrder' /\ TargetIsQuiet'
  <1>1. Idle' /\ stage' = "begin" /\ Len(todo') = 0 /\ todo' \in Seq(Steps)
    BY DEF EndTask, Idle
  <1>2. Ordered(todo') /\ ~Dooming'
    BY <1>1 DEF Ordered, Dooming, Dooms
  <1>3. QED
    BY <1>1, <1>2 DEF EndTask, StepsInOrder, TargetIsQuiet, At

-----------------------------------------------------------------------------
(* Steps that change where the task is, and neither records nor processes. *)

LEMMA TaskMoves ==
    ASSUME WorkerInv, ~At("start", "update"),
           UNCHANGED <<file, procVars, clobbered, secretVars>>,
           unaccounted \subseteq unaccounted',
           TypeOK', StepsInOrder', ~clobbered => TargetIsQuiet'
    PROVE  WorkerInv'
  <1> USE DEF WorkerInv, procVars, secretVars
  <1>1. Processes'
    BY DEF Processes
  <1>2. ASSUME ~clobbered' PROVE Sound'
    <2>1. Records' /\ ExitRecorded'
      BY <1>2 DEF Sound, Records, ExitRecorded
    <2>2. StartableUnlessClobbered'
      BY <1>2 DEF Sound, StartableUnlessClobbered
    <2>3. LiveIsRecordedUnlessClobbered'
      BY <1>2 DEF Sound, LiveIsRecordedUnlessClobbered, Present, BeingRecorded
    <2>4. QED
      BY <1>2, <2>1, <2>2, <2>3 DEF Sound
  <1>3. QED
    BY <1>1, <1>2

\* Where no process is recorded as running, none is.
LEMMA NotRunningIsQuiet ==
    ASSUME WorkerInv, ~clobbered, ~At("start", "update"), NEW r \in Runtimes, ~Running(file[r]),
           NEW p \in Procs, Present(p), p \notin unaccounted, proc[p].runtime = r
    PROVE  FALSE
  <1>1. file[r].pid = p
    BY DEF WorkerInv, Sound, LiveIsRecordedUnlessClobbered, BeingRecorded
  <1>2. p # 0
    BY WorkerAssumption DEF Procs
  <1>3. QED
    BY <1>1, <1>2 DEF Running

LEMMA BeginShape ==
    ASSUME WorkerInv, NEW r \in Runtimes, Begin(r), todo' \in Seq(Steps), todo' # <<>>,
           Ordered(todo'), Head(todo') \in {"start", "stop", "inspect", "files"}, newDef' \in Defs,
           ~clobbered /\ Dooms(todo') => Head(todo') = "stop" \/ ~Running(file[r])
    PROVE  WorkerInv'
  <1> USE DEF WorkerInv
  <1>1. Idle /\ stage' = "begin" /\ cand' = 0 /\ target' = r /\ ~At("start", "update")
    BY DEF Begin, At
  <1>2. TypeOK'
    BY WorkerAssumption DEF Begin, TypeOK, procVars, secretVars, Steps
  <1>3. StepsInOrder'
    BY <1>1 DEF StepsInOrder, At, Inspections, Idle
  <1>4. UNCHANGED <<file, procVars, unaccounted, clobbered, secretVars>>
    BY DEF Begin
  <1>5. ASSUME ~clobbered PROVE TargetIsQuiet'
    <2>1. ASSUME Dooming', Head(todo') # "stop" PROVE Alone(0)'
      <3>1. ~Running(file[r])
        BY <1>5, <2>1 DEF Dooming
      <3>2. \A p \in Procs : Present(p) /\ p \notin unaccounted => proc[p].runtime # r
        BY <1>1, <1>5, <3>1, NotRunningIsQuiet
      <3>3. QED
        BY <1>1, <1>4, <3>2 DEF Alone, Present, procVars
    <2>2. QED
      BY <1>1, <2>1 DEF TargetIsQuiet, At
  <1>6. QED
    BY <1>1, <1>2, <1>3, <1>4, <1>5, TaskMoves

LEMMA BeginCreateKeeps ==
    ASSUME WorkerInv, NEW r \in Runtimes, NEW d \in Defs, NEW auto \in BOOLEAN,
           BeginCreate(r, d, auto)
    PROVE  WorkerInv'
  <1>1. Begin(r) /\ newDef' \in Defs /\ todo' = CreateSteps(r, d, auto)
    BY DEF BeginCreate
  <1>2. /\ todo' \in Seq(Steps) /\ todo' # <<>> /\ Ordered(todo')
        /\ Head(todo') \in {"start", "stop", "inspect", "files"}
    BY <1>1, ProgramsAreOrdered DEF CreateSteps
  <1>3. Dooms(todo') => Head(todo') = "stop" \/ ~Running(file[r])
    <2>1. CASE file[r].def = d
      <3>1. ~Dooms(<<"files", "env", "check", "start">>) /\ ~Dooms(<<"files", "env", "inspect">>)
        BY DEF Dooms
      <3>2. QED
        BY <1>1, <2>1, <3>1 DEF CreateSteps
    <2>2. CASE file[r].def # d /\ Running(file[r])
      <3>1. todo' = <<"stop", "files", "env", "put", "start">>
        BY <1>1, <2>2 DEF CreateSteps
      <3>2. QED
        BY <3>1
    <2>3. QED
      BY <2>1, <2>2
  <1>4. QED
    BY <1>1, <1>2, <1>3, BeginShape

LEMMA BeginOtherKeeps ==
    ASSUME WorkerInv, NEW r \in Runtimes, NEW steps \in Programs, BeginOther(r, steps)
    PROVE  WorkerInv'
  <1>1. Begin(r) /\ newDef' \in Defs /\ todo' = steps
    BY DEF BeginOther, WorkerInv, TypeOK
  <1>2. /\ todo' \in Seq(Steps) /\ todo' # <<>> /\ Ordered(todo')
        /\ Head(todo') \in {"start", "stop", "inspect", "files"}
    BY <1>1, ProgramsAreOrdered
  <1>3. Dooms(todo') => Head(todo') = "stop"
    <2>1. ~Dooms(<<"start">>) /\ ~Dooms(<<"inspect">>)
      BY DEF Dooms
    <2>2. Head(<<"stop">>) = "stop" /\ Head(<<"stop", "start">>) = "stop"
          /\ Head(<<"stop", "erase">>) = "stop"
      OBVIOUS
    <2>3. QED
      BY <1>1, <2>1, <2>2 DEF Programs
  <1>4. QED
    BY <1>1, <1>2, <1>3, BeginShape

LEMMA EndMoves ==
    ASSUME WorkerInv, ~At("start", "update"), EndTask, faults' \in 0..MaxFaults,
           UNCHANGED <<file, procVars, held, snap, clobbered, unaccounted, secretVars>>
    PROVE  WorkerInv'
  <1>1. /\ todo' \in Seq(Steps) /\ stage' = "begin" /\ cand' = 0
        /\ UNCHANGED <<tasks, target, newDef>>
        /\ StepsInOrder' /\ TargetIsQuiet'
    BY EndShape
  <1>2. TypeOK'
    BY <1>1, WorkerAssumption DEF WorkerInv, TypeOK, procVars, secretVars, Steps
  <1>3. QED
    BY <1>1, <1>2, TaskMoves

LEMMA ContinueMoves ==
    ASSUME WorkerInv, ~Idle, ~At("start", "update"), Head(todo) \notin {"files", "env", "erase"},
           NEW more \in {<<>>, <<"inspect">>}, Continue(more),
           more = <<"inspect">> => Head(todo) = "start",
           UNCHANGED <<file, procVars, held, snap, faults, clobbered, unaccounted, secretVars>>,
           ~clobbered /\ Head(todo) = "stop" => Alone(0)
    PROVE  WorkerInv'
  <1> USE DEF WorkerInv
  <1>1. /\ todo' \in Seq(Steps) /\ stage' = "begin" /\ cand' = 0
        /\ UNCHANGED <<tasks, target, newDef>>
        /\ Ordered(todo') /\ (Dooms(todo') => Dooms(todo))
        /\ ~Idle' => Head(todo') \notin {"env", "put", "unlink", "stop"}
    BY ContinueShape DEF StepsInOrder
  <1>2. TypeOK'
    BY <1>1, WorkerAssumption DEF TypeOK, procVars, secretVars, Steps
  <1>3. StepsInOrder'
    BY <1>1 DEF StepsInOrder, At
  <1>4. ASSUME ~clobbered PROVE TargetIsQuiet'
    <2>1. Dooming' => Alone(0)
      BY <1>1, <1>4 DEF Sound, TargetIsQuiet, Dooming
    <2>2. Dooming' => Alone(0)'
      BY <1>1, <2>1 DEF Alone, Present, procVars
    <2>3. QED
      BY <1>1, <2>2 DEF TargetIsQuiet, At
  <1>5. QED
    BY <1>1, <1>2, <1>3, <1>4, TaskMoves

\* The first step goes on to its next stage.
LEMMA StageMoves ==
    ASSUME WorkerInv, ~Idle, ~At("start", "update"),
           NEW st \in {"wait", "update"}, NEW q \in 0..MaxSpawns, Stage(st, q),
           st = "wait" => Head(todo) = "stop" /\ q \in Procs,
           st = "update" => Head(todo) \in {"stop"} \union Inspections,
           faults' \in 0..MaxFaults, unaccounted' \in SUBSET Procs, unaccounted \subseteq unaccounted',
           UNCHANGED <<file, procVars, held, snap, clobbered, secretVars>>,
           ~clobbered => Alone(IF st = "wait" THEN q ELSE 0)',
           ~clobbered /\ st = "update" /\ Head(todo) # "stop" => Mine.def # "absent"
    PROVE  WorkerInv'
  <1> USE DEF WorkerInv
  <1>1. stage' = st /\ cand' = q /\ UNCHANGED <<tasks, target, newDef, todo>>
    BY DEF Stage
  <1>2. TypeOK'
    BY <1>1 DEF TypeOK, procVars, secretVars
  <1>3. StepsInOrder'
    BY <1>1 DEF StepsInOrder, At, Idle, Inspections, secretVars
  <1>4. ASSUME ~clobbered PROVE TargetIsQuiet'
    <2>1. Alone(0) => Alone(0)'
      BY <1>1 DEF Alone, Present, procVars
    <2>2. Dooming' /\ Head(todo') # "stop" => Alone(0)'
      BY <1>1, <1>4, <2>1 DEF Sound, TargetIsQuiet, Dooming
    <2>3. /\ stage' = "wait" => Alone(cand)'
          /\ stage' = "update" => Alone(0)' /\ Head(todo') # "start"
      BY <1>1, <1>4 DEF Inspections
    <2>4. (stage = "update" /\ Head(todo) # "stop" => Mine.def # "absent")'
      BY <1>1, <1>4 DEF Mine
    <2>5. (~Idle /\ Head(todo) = "unlink" => Mine.def = "absent")'
      BY <1>1, <1>4 DEF Sound, TargetIsQuiet, Idle
    <2>6. QED
      BY <2>2, <2>3, <2>4, <2>5 DEF TargetIsQuiet, At
  <1>5. QED
    BY <1>1, <1>2, <1>3, <1>4, TaskMoves

LEMMA AloneWhenNotRunning ==
    ASSUME WorkerInv, ~clobbered, ~At("start", "update"), ~Running(Mine)
    PROVE  Alone(0)
  <1>1. target \in Runtimes /\ Mine = file[target]
    BY DEF WorkerInv, TypeOK, Mine
  <1>2. QED
    BY <1>1, NotRunningIsQuiet DEF Alone

LEMMA AbsentIsNotRunning ==
    ASSUME WorkerInv, ~clobbered, Mine.def = "absent"
    PROVE  Mine.pid = 0 /\ ~Running(Mine)
  <1>1. target \in Runtimes /\ Mine = file[target]
    BY DEF WorkerInv, TypeOK, Mine
  <1>2. Mine = Absent
    BY <1>1 DEF WorkerInv, Sound, Records, Consistent
  <1>3. QED
    BY <1>2 DEF Absent, Running

LEMMA StopLoadKeeps == WorkerInv /\ StopLoad => WorkerInv'
  <1> SUFFICES ASSUME WorkerInv, StopLoad PROVE WorkerInv'
    OBVIOUS
  <1>1. /\ ~Idle /\ Head(todo) = "stop" /\ ~At("start", "update")
        /\ UNCHANGED <<file, procVars, held, snap, faults, clobbered, unaccounted, secretVars>>
        /\ faults' \in 0..MaxFaults /\ unaccounted' \in SUBSET Procs
    BY DEF StopLoad, At, WorkerInv, TypeOK
  <1>2. CASE Mine.def = "absent" /\ Continue(<<>>)
    <2>1. ~clobbered => Alone(0)
      BY <1>1, <1>2, AbsentIsNotRunning, AloneWhenNotRunning
    <2>2. QED
      BY <1>1, <1>2, <2>1, ContinueMoves
  <1>3. CASE Running(Mine) /\ Stage("wait", Mine.pid)
    <2>0. Mine = file[target] /\ target \in Runtimes /\ Mine \in Record
      BY DEF WorkerInv, TypeOK, Mine
    <2>1. Mine.pid \in Procs /\ Mine.pid \in 0..MaxSpawns
      BY <1>3, <2>0, WorkerAssumption DEF Record, Running, Procs
    <2>2. ASSUME ~clobbered PROVE Alone(Mine.pid)
      <3> SUFFICES ASSUME NEW p \in Procs, Present(p), p \notin unaccounted,
                          proc[p].runtime = target
                   PROVE  p = Mine.pid
        BY DEF Alone
      <3>1. QED
        BY <1>1, <2>0, <2>2 DEF WorkerInv, Sound, LiveIsRecordedUnlessClobbered, BeingRecorded
    <2>3. PICK q \in Procs : q = Mine.pid
      BY <2>1
    <2>4. q \in 0..MaxSpawns /\ Stage("wait", q) /\ (~clobbered => Alone(q))
      BY <1>3, <2>1, <2>2, <2>3
    <2>5. ~clobbered => Alone(q)'
      BY <1>1, <2>4 DEF Alone, Present, procVars, Stage
    <2>6. QED
      BY <1>1, <2>4, <2>5, StageMoves
  <1>4. CASE ~Running(Mine) /\ Stage("update", 0)
    <2>1. ~clobbered => Alone(0)
      BY <1>1, <1>4, AloneWhenNotRunning
    <2>2. ~clobbered => Alone(0)'
      BY <1>1, <1>4, <2>1 DEF Alone, Present, procVars, Stage
    <2>3. 0 \in 0..MaxSpawns
      BY WorkerAssumption
    <2>4. QED
      BY <1>1, <1>4, <2>2, <2>3, StageMoves
  <1>5. QED
    BY <1>2, <1>3, <1>4 DEF StopLoad

LEMMA StopWaitKeeps == WorkerInv /\ (StopWait \/ KillTimesOut) => WorkerInv'
  <1> SUFFICES ASSUME WorkerInv, StopWait \/ KillTimesOut PROVE WorkerInv'
    OBVIOUS
  <1>1. /\ ~Idle /\ Head(todo) = "stop" /\ ~At("start", "update") /\ stage = "wait"
        /\ UNCHANGED <<file, procVars, held, snap, clobbered, secretVars>>
        /\ Stage("update", cand) /\ cand \in Procs /\ cand \in 0..MaxSpawns
    BY DEF StopWait, KillTimesOut, At, WorkerInv, TypeOK, StepsInOrder
  <1>2. faults' \in 0..MaxFaults /\ unaccounted \subseteq unaccounted' /\ unaccounted' \in SUBSET Procs
    <2>1. faults \in 0..MaxFaults /\ unaccounted \in SUBSET Procs
      BY DEF WorkerInv, TypeOK
    <2>2. CASE StopWait
      BY <2>1, <2>2 DEF StopWait
    <2>3. CASE KillTimesOut
      BY <1>1, <2>1, <2>3, WorkerAssumption DEF KillTimesOut, Faulty
    <2>4. QED
      BY <2>2, <2>3
  <1>3. ASSUME ~clobbered PROVE Alone(0)'
    <2> SUFFICES ASSUME NEW p \in Procs, Present(p), p \notin unaccounted',
                        proc[p].runtime = target
                 PROVE  FALSE
      BY <1>1 DEF Alone, Present, procVars, Stage
    <2>1. p = cand
      BY <1>1, <1>2, <1>3 DEF WorkerInv, Sound, TargetIsQuiet, Alone
    <2>2. QED
      BY <2>1 DEF StopWait, KillTimesOut
  <1>4. QED
    BY <1>1, <1>2, <1>3, StageMoves

LEMMA StartLoadKeeps == WorkerInv /\ (StartLoad \/ StartFails) => WorkerInv'
  <1> SUFFICES ASSUME WorkerInv, StartLoad \/ StartFails PROVE WorkerInv'
    OBVIOUS
  <1>1. /\ ~Idle /\ Head(todo) = "start" /\ ~At("start", "update")
        /\ UNCHANGED <<file, procVars, held, snap, faults, clobbered, unaccounted, secretVars>>
        /\ faults' \in 0..MaxFaults
    BY DEF StartLoad, StartFails, At, WorkerInv, TypeOK
  <1>2. CASE EndTask
    BY <1>1, <1>2, EndMoves
  <1>3. CASE Continue(<<"inspect">>)
    BY <1>1, <1>3, ContinueMoves
  <1>4. QED
    BY <1>2, <1>3 DEF StartLoad, StartFails

LEMMA InspectLoadKeeps == WorkerInv /\ InspectLoad => WorkerInv'
  <1> SUFFICES ASSUME WorkerInv, InspectLoad PROVE WorkerInv'
    OBVIOUS
  <1>1. /\ ~Idle /\ Head(todo) \in Inspections /\ ~At("start", "update")
        /\ UNCHANGED <<file, procVars, held, snap, faults, clobbered, unaccounted, secretVars>>
        /\ faults' \in 0..MaxFaults /\ unaccounted' \in SUBSET Procs
    BY DEF InspectLoad, Inspecting, At, WorkerInv, TypeOK
  <1>2. CASE EndTask
    BY <1>1, <1>2, EndMoves
  <1>3. CASE Continue(<<>>)
    BY <1>1, <1>3, ContinueMoves DEF Inspections
  <1>4. CASE Mine.pid # 0 /\ ~Running(Mine) /\ Stage("update", 0)
    <2>1. ~clobbered => Alone(0) /\ Mine.def # "absent"
      BY <1>1, <1>4, AloneWhenNotRunning, AbsentIsNotRunning
    <2>2. ~clobbered => Alone(0)'
      BY <1>1, <1>4, <2>1 DEF Alone, Present, procVars, Stage
    <2>3. 0 \in 0..MaxSpawns
      BY WorkerAssumption
    <2>4. QED
      BY <1>1, <1>4, <2>1, <2>2, <2>3, StageMoves
  <1>5. QED
    BY <1>2, <1>3, <1>4 DEF InspectLoad

LEMMA SecretFailsKeeps ==
    ASSUME WorkerInv, NEW part \in {"files", "env"}, SecretFails(part)
    PROVE  WorkerInv'
  <1>1. ~At("start", "update") /\ faults' \in 0..MaxFaults
    BY WorkerAssumption DEF SecretFails, At, Faulty, WorkerInv, TypeOK
  <1>2. QED
    BY <1>1, EndMoves DEF SecretFails

LEMMA StartIsLast ==
    ASSUME NEW steps \in Seq(Steps), steps # <<>>, Ordered(steps), Head(steps) = "start"
    PROVE  ~Dooms(steps)
  <1>1. Len(steps) \in Nat \ {0} /\ steps[1] = "start"
    BY EmptySeq, HeadTailProperties
  <1>2. Len(steps) = 1
    <2> SUFFICES ASSUME Len(steps) # 1 PROVE FALSE
      OBVIOUS
    <2> DEFINE n == Len(steps)
    <2>0. n \in Nat \ {0} /\ n # 1
      BY <1>1
    <2> HIDE DEF n
    <2>1. n \in Nat /\ n > 1
      BY <2>0
    <2>2. 1 \in 1..(n - 1)
      BY <2>1
    <2>3. <<steps[1], steps[1 + 1]>> \in Order
      BY <2>2 DEF Ordered, n
    <2>4. <<"start", steps[1 + 1]>> \notin Order
      BY DEF Order
    <2>5. QED
      BY <1>1, <2>3, <2>4
  <1>3. QED
    BY <1>1, <1>2 DEF Dooms

LEMMA SpawnKeeps == WorkerInv /\ Spawn => WorkerInv'
  <1> SUFFICES ASSUME WorkerInv, Spawn PROVE WorkerInv'
    OBVIOUS
  <1> USE DEF WorkerInv
  <1> DEFINE new == spawned + 1
  <1>1. /\ ~Idle /\ Head(todo) = "start" /\ stage = "begin" /\ ~At("start", "update")
        /\ Mine.def \in Defs /\ ~Running(Mine) /\ spawned' = new
        /\ proc' = [proc EXCEPT ![new] = [state |-> "alive", runtime |-> target, def |-> Mine.def]]
        /\ UNCHANGED <<file, waiter, manager, held, snap, faults, clobbered, unaccounted, secretVars>>
        /\ stage' = "update" /\ cand' = new /\ UNCHANGED <<tasks, target, newDef, todo>>
    BY DEF Spawn, At, Stage
  <1>2. new \in Procs /\ new \in 0..MaxSpawns /\ spawned \in Nat
    BY WorkerAssumption DEF Spawn, TypeOK, Procs
  <1>3. proc[new].state = "none" /\ waiter[new] = "none"
    BY <1>2 DEF Processes
  <1> HIDE DEF new
  <1>4. /\ proc'[new] = [state |-> "alive", runtime |-> target, def |-> Mine.def]
        /\ \A p \in Procs : p # new => proc'[p] = proc[p]
    BY <1>1, <1>2 DEF TypeOK
  <1>5. TypeOK'
    <2>1. [state |-> "alive", runtime |-> target, def |-> Mine.def] \in Process
      BY <1>1 DEF TypeOK, Process
    <2>2. proc' \in [Procs -> Process]
      BY <1>1, <2>1 DEF TypeOK
    <2>3. QED
      BY <1>1, <1>2, <2>2 DEF TypeOK, secretVars
  <1>6. StepsInOrder'
    BY <1>1, <1>2, <1>3, <1>4, WorkerAssumption DEF StepsInOrder, At, Idle, Inspections, Procs
  <1>7. Processes'
    <2> SUFFICES ASSUME NEW p \in Procs
                 PROVE  /\ p > spawned' => proc'[p].state = "none" /\ waiter'[p] = "none"
                        /\ proc'[p].state # "none" => proc'[p].runtime \in Runtimes /\ proc'[p].def \in Defs
                        /\ waiter'[p] # "none" => proc'[p].state # "none"
                        /\ waiter'[p] = "reaped" => proc'[p].state = "gone"
      BY DEF Processes
    <2>1. CASE p = new
      BY <1>1, <1>2, <1>3, <1>4, <2>1 DEF TypeOK, Procs
    <2>2. CASE p # new
      <3>1. p > spawned' => p > spawned
        BY <1>1, <1>2 DEF new, Procs
      <3>2. QED
        BY <1>1, <1>4, <2>2, <3>1 DEF Processes
    <2>3. QED
      BY <2>1, <2>2
  <1>8. ASSUME ~clobbered' PROVE Sound'
    <2>1. ~clobbered /\ Sound
      BY <1>1, <1>8
    <2>2. Records' /\ StartableUnlessClobbered'
      BY <1>1, <2>1 DEF Sound, Records, StartableUnlessClobbered, secretVars
    <2>3. ExitRecorded'
      BY <1>1, <1>3, <1>4, <2>1 DEF Sound, ExitRecorded
    <2>4. LiveIsRecordedUnlessClobbered'
      <3> SUFFICES ASSUME NEW p \in Procs, Present(p)', p \notin unaccounted', ~BeingRecorded(p)'
                   PROVE  /\ file'[proc'[p].runtime].pid = p
                          /\ file'[proc'[p].runtime].def = proc'[p].def
        BY DEF LiveIsRecordedUnlessClobbered
      <3>1. p # new
        BY <1>1 DEF BeingRecorded, At, Idle
      <3>2. proc'[p] = proc[p] /\ Present(p) /\ ~BeingRecorded(p)
        BY <1>1, <1>4, <3>1 DEF Present, BeingRecorded
      <3>3. QED
        BY <1>1, <2>1, <3>2 DEF Sound, LiveIsRecordedUnlessClobbered
    <2>5. TargetIsQuiet'
      <3>1. ~Dooming'
        BY <1>1, StartIsLast DEF Dooming, StepsInOrder, TypeOK, Steps, Idle
      <3>2. Alone(cand)'
        <4> SUFFICES ASSUME NEW p \in Procs, p # cand', Present(p)', p \notin unaccounted',
                            proc'[p].runtime = target'
                     PROVE  FALSE
          BY DEF Alone
        <4>1. Alone(0)
          BY <1>1, <2>1, AloneWhenNotRunning
        <4>2. p = 0
          BY <1>1, <1>4, <4>1 DEF Alone, Present
        <4>3. QED
          BY <4>2, WorkerAssumption DEF Procs
      <3>3. Mine' = Mine /\ Mine.def # "absent" /\ proc'[new].def = Mine.def
        BY <1>1, <1>4, WorkerAssumption DEF Mine
      <3>4. QED
        BY <1>1, <3>1, <3>2, <3>3 DEF TargetIsQuiet, At, Idle
    <2>6. QED
      BY <2>2, <2>3, <2>4, <2>5 DEF Sound
  <1>9. QED
    BY <1>5, <1>6, <1>7, <1>8

-----------------------------------------------------------------------------
(* Secrets.                                                                *)

LEMMA WriteSecretKeeps ==
    ASSUME WorkerInv, NEW part \in {"files", "env"}, WriteSecret(part)
    PROVE  WorkerInv'
  <1> USE DEF WorkerInv
  <1>1. /\ ~Idle /\ Head(todo) = part /\ stage = "begin" /\ ~At("start", "update")
        /\ secrets' = [secrets EXCEPT ![target][part] = newDef]
        /\ torn' = IF part = "env" /\ Mine.def = newDef
                     THEN torn \ {target} ELSE torn \union {target}
        /\ Continue(<<>>)
        /\ UNCHANGED <<file, procVars, held, snap, faults, clobbered, unaccounted>>
    BY DEF WriteSecret, At
  <1>2. /\ todo' \in Seq(Steps) /\ stage' = "begin" /\ cand' = 0
        /\ UNCHANGED <<tasks, target, newDef>>
        /\ Ordered(todo') /\ (Dooms(todo') => Dooms(todo))
        /\ ~Idle' => /\ Head(todo') = "env" => Head(todo) = "files"
                     /\ Head(todo') = "put" => Head(todo) = "env"
                     /\ Head(todo') # "unlink"
    BY <1>1, ContinueShape DEF StepsInOrder
  <1>3. target \in Runtimes /\ newDef \in Defs /\ secrets[target] \in Secrets /\ secrets \in [Runtimes -> Secrets]
    BY DEF TypeOK
  <1> DEFINE its == IF part = "files" THEN [files |-> newDef, env |-> secrets[target].env]
                    ELSE [files |-> secrets[target].files, env |-> newDef]
  <1>10. [secrets[target] EXCEPT ![part] = newDef] = its /\ its \in Secrets
    <2> DEFINE was == [files |-> secrets[target].files, env |-> secrets[target].env]
    <2>1. secrets[target] = was /\ its \in Secrets
      BY <1>3 DEF Secrets
    <2>2. [was EXCEPT !["files"] = newDef] = [files |-> newDef, env |-> secrets[target].env]
      OBVIOUS
    <2>3. [was EXCEPT !["env"] = newDef] = [files |-> secrets[target].files, env |-> newDef]
      OBVIOUS
    <2> HIDE DEF was
    <2>4. QED
      BY <2>1, <2>2, <2>3
  <1>11. secrets' = [secrets EXCEPT ![target] = its]
    BY <1>1, <1>3, <1>10
  <1>4. /\ \A r \in Runtimes : r # target => secrets'[r] = secrets[r]
        /\ secrets'[target] = its
        /\ secrets' \in [Runtimes -> Secrets]
    <2> HIDE DEF its
    <2>1. QED
      BY <1>3, <1>10, <1>11
  <1>5. TypeOK'
    <2>1. torn' \subseteq Runtimes
      BY <1>1, <1>3 DEF TypeOK
    <2>2. QED
      BY <1>1, <1>2, <1>4, <2>1, WorkerAssumption DEF TypeOK, procVars, Steps
  <1>6. StepsInOrder'
    <2>1. /\ part = "files" => its.files = newDef
          /\ part = "env" => its.env = newDef /\ its.files = secrets[target].files
      OBVIOUS
    <2> HIDE DEF its
    <2>2. ~Idle' /\ Head(todo') = "env" => secrets'[target].files = newDef
      BY <1>1, <1>2, <1>4, <2>1
    <2>3. ~Idle' /\ Head(todo') = "put" =>
             secrets'[target].files = newDef /\ secrets'[target].env = newDef
      BY <1>1, <1>2, <1>4, <2>1 DEF StepsInOrder
    <2>4. QED
      BY <1>2, <2>2, <2>3 DEF StepsInOrder, At
  <1>7. Processes'
    BY <1>1 DEF Processes, procVars
  <1>8. ASSUME ~clobbered' PROVE Sound'
    <2>1. ~clobbered /\ Sound
      BY <1>1, <1>8
    <2>2. Records' /\ ExitRecorded'
      BY <1>1, <2>1 DEF Sound, Records, ExitRecorded, procVars
    <2>3. LiveIsRecordedUnlessClobbered'
      BY <1>1, <2>1 DEF Sound, LiveIsRecordedUnlessClobbered, Present, BeingRecorded, procVars
    <2>4. StartableUnlessClobbered'
      <3> SUFFICES ASSUME NEW r \in Runtimes, r \notin torn', file'[r].def # "absent"
                   PROVE  /\ file'[r].def \in Defs
                          /\ secrets'[r] = [files |-> file'[r].def, env |-> file'[r].def]
        BY DEF StartableUnlessClobbered
      <3>1. CASE r = target
        <4>1. part = "env" /\ file[target].def = newDef /\ secrets[target].files = newDef
          BY <1>1, <3>1 DEF StepsInOrder, Mine
        <4>2. QED
          BY <1>1, <1>3, <1>4, <3>1, <4>1
      <3>2. CASE r # target
        BY <1>1, <1>4, <2>1, <3>2 DEF Sound, StartableUnlessClobbered
      <3>3. QED
        BY <3>1, <3>2
    <2>5. TargetIsQuiet'
      <3>1. Dooming' => Alone(0)
        BY <1>1, <1>2, <2>1 DEF Sound, TargetIsQuiet, Dooming
      <3>2. Dooming' => Alone(0)'
        BY <1>1, <1>2, <3>1 DEF Alone, Present, procVars
      <3>3. QED
        BY <1>1, <1>2, <3>2 DEF TargetIsQuiet, At
    <2>6. QED
      BY <2>2, <2>3, <2>4, <2>5 DEF Sound
  <1>9. QED
    BY <1>5, <1>6, <1>7, <1>8

LEMMA UnlinkKeeps == WorkerInv /\ Unlink => WorkerInv'
  <1> SUFFICES ASSUME WorkerInv, Unlink PROVE WorkerInv'
    OBVIOUS
  <1> USE DEF WorkerInv
  <1>1. /\ ~Idle /\ Head(todo) = "unlink" /\ stage = "begin" /\ ~At("start", "update")
        /\ secrets' = [secrets EXCEPT ![target] = NoSecrets]
        /\ Continue(<<>>)
        /\ UNCHANGED <<file, procVars, held, snap, faults, clobbered, unaccounted, torn>>
    BY DEF Unlink, At
  <1>2. /\ todo' \in Seq(Steps) /\ stage' = "begin" /\ cand' = 0
        /\ UNCHANGED <<tasks, target, newDef>>
        /\ Ordered(todo') /\ (Dooms(todo') => Dooms(todo))
        /\ ~Idle' => Head(todo') \notin {"env", "put", "unlink"}
    BY <1>1, ContinueShape DEF StepsInOrder
  <1>3. TypeOK'
    <2>1. NoSecrets \in Secrets
      BY DEF NoSecrets, Secrets
    <2>2. secrets' \in [Runtimes -> Secrets]
      BY <1>1, <2>1 DEF TypeOK
    <2>3. QED
      BY <1>1, <1>2, <2>2, WorkerAssumption DEF TypeOK, procVars, Steps
  <1>4. StepsInOrder'
    BY <1>1, <1>2 DEF StepsInOrder, At
  <1>5. Processes'
    BY <1>1 DEF Processes, procVars
  <1>6. ASSUME ~clobbered' PROVE Sound'
    <2>1. ~clobbered /\ Sound
      BY <1>1, <1>6
    <2>2. Records' /\ ExitRecorded'
      BY <1>1, <2>1 DEF Sound, Records, ExitRecorded, procVars
    <2>3. LiveIsRecordedUnlessClobbered'
      BY <1>1, <2>1 DEF Sound, LiveIsRecordedUnlessClobbered, Present, BeingRecorded, procVars
    <2>4. StartableUnlessClobbered'
      <3>1. file[target].def = "absent"
        BY <1>1, <2>1 DEF Sound, TargetIsQuiet, Mine
      <3>2. \A r \in Runtimes : r # target => secrets'[r] = secrets[r]
        BY <1>1 DEF TypeOK
      <3>3. QED
        BY <1>1, <2>1, <3>1, <3>2 DEF Sound, StartableUnlessClobbered
    <2>5. TargetIsQuiet'
      <3>1. Dooming' => Alone(0)
        BY <1>1, <1>2, <2>1 DEF Sound, TargetIsQuiet, Dooming
      <3>2. Dooming' => Alone(0)'
        BY <1>1, <1>2, <3>1 DEF Alone, Present, procVars
      <3>3. QED
        BY <1>1, <1>2, <3>2 DEF TargetIsQuiet, At
    <2>6. QED
      BY <2>2, <2>3, <2>4, <2>5 DEF Sound
  <1>7. QED
    BY <1>3, <1>4, <1>5, <1>6

-----------------------------------------------------------------------------
(* Steps of processes.                                                     *)

\* The mutexes and what is read under them are outside the invariant.
LEMMA OnlyReads ==
    ASSUME WorkerInv, UNCHANGED <<file, procVars, taskVars, clobbered, unaccounted, secretVars>>,
           TypeOK'
    PROVE  WorkerInv'
  <1> USE DEF WorkerInv, procVars, taskVars, secretVars
  <1>1. StepsInOrder' /\ Processes'
    BY DEF StepsInOrder, Processes, At, Idle
  <1>2. ASSUME ~clobbered' PROVE Sound'
    <2>1. Records' /\ ExitRecorded' /\ StartableUnlessClobbered'
      BY <1>2 DEF Sound, Records, ExitRecorded, StartableUnlessClobbered
    <2>2. TargetIsQuiet'
      BY <1>2 DEF Sound, TargetIsQuiet, Dooming, Alone, Present, At, Idle, Mine
    <2>3. LiveIsRecordedUnlessClobbered'
      BY <1>2 DEF Sound, LiveIsRecordedUnlessClobbered, Present, BeingRecorded, At, Idle
    <2>4. QED
      BY <2>1, <2>2, <2>3 DEF Sound
  <1>3. QED
    BY <1>1, <1>2

LEMMA AcquireKeeps ==
    ASSUME WorkerInv, NEW a \in Actors, Acquire(a),
           UNCHANGED <<file, procVars, taskVars, faults, clobbered, unaccounted, secretVars>>
    PROVE  WorkerInv'
  <1>1. TypeOK'
    BY DEF WorkerInv, TypeOK, Acquire, procVars, taskVars, secretVars
  <1>2. QED
    BY <1>1, OnlyReads

\* Processes end, and their waiters do not finish.
LEMMA ProcessesEnd ==
    ASSUME WorkerInv, TypeOK', UNCHANGED <<file, spawned, clobbered, secretVars>>,
           unaccounted \subseteq unaccounted',
           \A p \in Procs :
               /\ proc'[p].runtime = proc[p].runtime /\ proc'[p].def = proc[p].def
               /\ proc'[p].state = "none" <=> proc[p].state = "none"
               /\ proc[p].state = "gone" => proc'[p].state = "gone"
               /\ Present(p)' => Present(p)
               /\ waiter'[p] = "none" <=> waiter[p] = "none"
               /\ waiter'[p] = "done" => waiter[p] = "done"
               /\ waiter'[p] = "reaped" => waiter[p] = "reaped" \/ proc'[p].state = "gone"
               /\ Present(p)' /\ BeingRecorded(p) => BeingRecorded(p)' \/ p \in unaccounted',
           StepsInOrder', ~clobbered => TargetIsQuiet'
    PROVE  WorkerInv'
  <1> USE DEF WorkerInv
  <1>1. Processes'
    <2> SUFFICES ASSUME NEW p \in Procs
                 PROVE  /\ p > spawned' => proc'[p].state = "none" /\ waiter'[p] = "none"
                        /\ proc'[p].state # "none" => proc'[p].runtime \in Runtimes /\ proc'[p].def \in Defs
                        /\ waiter'[p] # "none" => proc'[p].state # "none"
                        /\ waiter'[p] = "reaped" => proc'[p].state = "gone"
      BY DEF Processes
    <2>1. QED
      BY DEF Processes
  <1>2. ASSUME ~clobbered' PROVE Sound'
    <2>1. Records' /\ StartableUnlessClobbered'
      BY <1>2 DEF Sound, Records, StartableUnlessClobbered, secretVars
    <2>2. ExitRecorded'
      BY <1>2 DEF Sound, ExitRecorded
    <2>3. LiveIsRecordedUnlessClobbered'
      <3> SUFFICES ASSUME NEW p \in Procs, Present(p)', p \notin unaccounted', ~BeingRecorded(p)'
                   PROVE  /\ file'[proc'[p].runtime].pid = p
                          /\ file'[proc'[p].runtime].def = proc'[p].def
        BY DEF LiveIsRecordedUnlessClobbered
      <3>1. Present(p) /\ p \notin unaccounted /\ ~BeingRecorded(p)
        OBVIOUS
      <3>2. QED
        BY <1>2, <3>1 DEF Sound, LiveIsRecordedUnlessClobbered
    <2>4. QED
      BY <1>2, <2>1, <2>2, <2>3 DEF Sound
  <1>3. QED
    BY <1>1, <1>2

\* The task does not move.
LEMMA ProcessEndsMeanwhile ==
    ASSUME WorkerInv, UNCHANGED <<taskVars, unaccounted, secretVars>>,
           \A p \in Procs :
               /\ proc'[p].runtime = proc[p].runtime /\ proc'[p].def = proc[p].def
               /\ proc'[p].state = "none" <=> proc[p].state = "none"
               /\ Present(p)' => Present(p)
               /\ waiter'[p] = "none" <=> waiter[p] = "none",
           UNCHANGED spawned
    PROVE  /\ StepsInOrder'
           /\ ~clobbered /\ Mine'.def = Mine.def => TargetIsQuiet'
           /\ \A p : BeingRecorded(p)' = BeingRecorded(p)
  <1> USE DEF WorkerInv, taskVars, secretVars
  <1>1. StepsInOrder'
    BY DEF StepsInOrder, At, Idle
  <1>2. ASSUME ~clobbered, Mine'.def = Mine.def PROVE TargetIsQuiet'
    <2>1. \A q : Alone(q) => Alone(q)'
      BY DEF Alone
    <2>2. /\ Dooming' /\ Head(todo') # "stop" => Alone(0)'
          /\ stage' = "wait" => Alone(cand)'
          /\ stage' = "update" => Alone(IF Head(todo) = "start" THEN cand ELSE 0)'
      BY <1>2, <2>1 DEF Sound, TargetIsQuiet, Dooming
    <2>3. At("start", "update")' => Mine'.def = proc'[cand'].def
      BY <1>2 DEF Sound, TargetIsQuiet, StepsInOrder, At, Idle
    <2>4. /\ stage' = "update" /\ Head(todo') # "stop" => Mine'.def # "absent"
          /\ ~Idle' /\ Head(todo') = "unlink" => Mine'.def = "absent"
      BY <1>2 DEF Sound, TargetIsQuiet, Idle
    <2>5. QED
      BY <2>2, <2>3, <2>4 DEF TargetIsQuiet
  <1>3. \A p : BeingRecorded(p)' = BeingRecorded(p)
    BY DEF BeingRecorded, At, Idle
  <1>4. QED
    BY <1>1, <1>2, <1>3

\* A process that changes its state remains one.
LEMMA StateChanges ==
    ASSUME NEW f \in [Procs -> Process], NEW q \in Procs, NEW st \in {"zombie", "gone"}
    PROVE  [f EXCEPT ![q].state = st] \in [Procs -> Process]
  <1>1. f[q] \in Process
    OBVIOUS
  <1>2. [f[q] EXCEPT !.state = st] \in Process
    BY <1>1 DEF Process
  <1>3. QED
    BY <1>2

LEMMA ExitKeeps ==
    ASSUME WorkerInv, NEW q \in Procs, Exit(q) \/ Reap(q)
    PROVE  WorkerInv'
  <1> USE DEF WorkerInv
  <1>1. PICK st \in {"zombie", "gone"} : proc' = [proc EXCEPT ![q].state = st]
    BY DEF Exit, Reap
  <1>2. /\ UNCHANGED <<file, spawned, manager, held, snap, taskVars, faults, clobbered, unaccounted, secretVars>>
        /\ waiter' = waiter \/ (waiter' = [waiter EXCEPT ![q] = "reaped"] /\ waiter[q] = "waiting" /\ st = "gone")
        /\ Present(q)
    <2>1. CASE Exit(q)
      BY <2>1 DEF Exit, Present
    <2>2. CASE Reap(q)
      <3>1. proc'[q].state = "gone"
        BY <2>2 DEF Reap, TypeOK, Process
      <3>2. proc'[q].state = st
        BY <1>1 DEF TypeOK, Process
      <3>3. QED
        BY <2>2, <3>1, <3>2 DEF Reap, Present
    <2>3. QED
      BY <2>1, <2>2
  <1>3. \A p \in Procs : /\ proc'[p].runtime = proc[p].runtime /\ proc'[p].def = proc[p].def
                         /\ proc'[p].state = IF p = q THEN st ELSE proc[p].state
    BY <1>1 DEF TypeOK, Process
  <1>4. TypeOK'
    <2>1. proc' \in [Procs -> Process]
      BY <1>1, StateChanges DEF TypeOK
    <2>2. waiter' \in [Procs -> {"none", "waiting", "reaped", "done", "failed"}]
      BY <1>2 DEF TypeOK
    <2>3. QED
      BY <1>2, <2>1, <2>2 DEF TypeOK, taskVars, secretVars
  <1>5. \A p \in Procs : waiter'[p] = waiter[p]
                         \/ (p = q /\ waiter'[p] = "reaped" /\ waiter[p] = "waiting" /\ st = "gone")
    BY <1>2 DEF TypeOK
  <1>6. \A p \in Procs :
               /\ proc'[p].state = "none" <=> proc[p].state = "none"
               /\ proc[p].state = "gone" => proc'[p].state = "gone"
               /\ Present(p)' => Present(p)
               /\ waiter'[p] = "none" <=> waiter[p] = "none"
               /\ waiter'[p] = "done" => waiter[p] = "done"
               /\ waiter'[p] = "reaped" => waiter[p] = "reaped" \/ proc'[p].state = "gone"
    BY <1>2, <1>3, <1>5 DEF Present
  <1>7. StepsInOrder' /\ (~clobbered => TargetIsQuiet') /\ \A p : BeingRecorded(p)' = BeingRecorded(p)
    <2>1. Mine' = Mine
      BY <1>2 DEF Mine, taskVars
    <2>2. QED
      BY <1>2, <1>3, <1>6, <2>1, ProcessEndsMeanwhile
  <1>8. QED
    BY <1>2, <1>3, <1>4, <1>6, <1>7, ProcessesEnd

LEMMA WaiterFailsKeeps ==
    ASSUME WorkerInv, NEW q \in Procs, WaiterFails(q)
    PROVE  WorkerInv'
  <1> USE DEF WorkerInv
  <1>1. /\ waiter[q] = "reaped" /\ waiter' = [waiter EXCEPT ![q] = "failed"]
        /\ UNCHANGED <<file, proc, spawned, manager, taskVars, clobbered, unaccounted, secretVars>>
        /\ Release(q) /\ faults' \in 0..MaxFaults
    BY WorkerAssumption DEF WaiterFails, Faulty, TypeOK
  <1>2. \A p \in Procs : waiter'[p] = IF p = q THEN "failed" ELSE waiter[p]
    BY <1>1 DEF TypeOK
  <1>3. TypeOK'
    <2>1. NoRecords \in [Runtimes -> Record]
      BY WorkerAssumption DEF NoRecords, Absent, Record
    <2>2. held' \subseteq Actors /\ snap' \in [Actors -> [Runtimes -> Record]]
      BY <1>1, <2>1 DEF Release, TypeOK
    <2>3. waiter' \in [Procs -> {"none", "waiting", "reaped", "done", "failed"}]
      BY <1>1 DEF TypeOK
    <2>4. QED
      BY <1>1, <2>2, <2>3 DEF TypeOK, taskVars, secretVars
  <1>4. \A p \in Procs : /\ Present(p)' = Present(p)
                         /\ waiter'[p] = "none" <=> waiter[p] = "none"
                         /\ waiter'[p] = "done" => waiter[p] = "done"
                         /\ waiter'[p] = "reaped" => waiter[p] = "reaped"
    BY <1>1, <1>2 DEF Present
  <1>5. StepsInOrder' /\ (~clobbered => TargetIsQuiet') /\ \A p : BeingRecorded(p)' = BeingRecorded(p)
    <2>1. Mine' = Mine
      BY <1>1 DEF Mine, taskVars
    <2>2. QED
      BY <1>1, <1>4, <2>1, ProcessEndsMeanwhile
  <1>6. QED
    BY <1>1, <1>3, <1>4, <1>5, ProcessesEnd

LEMMA DiesKeeps ==
    ASSUME WorkerInv, Dies, faults' \in 0..MaxFaults
    PROVE  WorkerInv'
  <1> USE DEF WorkerInv
  <1>1. PICK survive \in BOOLEAN :
        /\ proc' = [p \in Procs |->
                       IF proc[p].state = "zombie" \/ (proc[p].state = "alive" /\ ~survive)
                         THEN [proc[p] EXCEPT !.state = "gone"] ELSE proc[p]]
        /\ unaccounted' = unaccounted \union
                             {p \in Procs : survive /\ cand = p /\ At("start", "update")}
    BY DEF Dies
  <1>2. /\ waiter' = [p \in Procs |->
                         IF waiter[p] \in {"waiting", "reaped"} THEN "failed" ELSE waiter[p]]
        /\ held' = {} /\ snap' = [a \in Actors |-> NoRecords]
        /\ EndTask
        /\ UNCHANGED <<file, spawned, manager, clobbered, secretVars>>
    BY DEF Dies
  <1>3. \A p \in Procs :
        /\ proc'[p].runtime = proc[p].runtime /\ proc'[p].def = proc[p].def
        /\ proc'[p].state = IF proc[p].state = "zombie" \/ (proc[p].state = "alive" /\ ~survive)
                              THEN "gone" ELSE proc[p].state
        /\ proc'[p] \in Process
    BY <1>1 DEF TypeOK, Process
  <1>4. /\ todo' \in Seq(Steps) /\ stage' = "begin" /\ cand' = 0
        /\ UNCHANGED <<tasks, target, newDef>>
        /\ StepsInOrder' /\ TargetIsQuiet'
    BY <1>2, EndShape
  <1>5. TypeOK'
    <2>1. NoRecords \in [Runtimes -> Record]
      BY WorkerAssumption DEF NoRecords, Absent, Record
    <2>2. held' \subseteq Actors /\ snap' \in [Actors -> [Runtimes -> Record]]
      BY <1>2, <2>1 DEF TypeOK
    <2>3. waiter' \in [Procs -> {"none", "waiting", "reaped", "done", "failed"}]
      BY <1>2 DEF TypeOK
    <2>4. proc' \in [Procs -> Process]
      <3>1. DOMAIN proc' = Procs /\ proc' = [p \in Procs |-> proc'[p]]
        BY <1>1
      <3>2. QED
        BY <1>3, <3>1
    <2>5. unaccounted' \subseteq Procs
      BY <1>1 DEF TypeOK
    <2>6. QED
      BY <1>2, <1>4, <2>2, <2>3, <2>4, <2>5, WorkerAssumption DEF TypeOK, secretVars, Steps
  <1>6. \A p \in Procs :
               /\ proc'[p].state = "none" <=> proc[p].state = "none"
               /\ proc[p].state = "gone" => proc'[p].state = "gone"
               /\ Present(p)' => Present(p)
    BY <1>3 DEF Present
  <1>7. \A p \in Procs :
               /\ waiter'[p] = "none" <=> waiter[p] = "none"
               /\ waiter'[p] = "done" => waiter[p] = "done"
               /\ waiter'[p] # "reaped"
    BY <1>2
  <1>8. \A p \in Procs : Present(p)' /\ BeingRecorded(p) => p \in unaccounted'
    BY <1>1, <1>3 DEF Present, BeingRecorded
  <1>9. unaccounted \subseteq unaccounted'
    BY <1>1
  <1>10. QED
    BY <1>2, <1>3, <1>4, <1>5, <1>6, <1>7, <1>8, <1>9, ProcessesEnd

LEMMA CrashKeeps == WorkerInv /\ (Crash \/ LoadFails) => WorkerInv'
  <1> SUFFICES ASSUME WorkerInv, Crash \/ LoadFails PROVE WorkerInv'
    OBVIOUS
  <1>1. faults' \in 0..MaxFaults
    BY WorkerAssumption DEF Crash, LoadFails, Faulty, WorkerInv, TypeOK
  <1>2. CASE Dies
    BY <1>1, <1>2, DiesKeeps
  <1>3. CASE LoadFails /\ ~Dies
    BY <1>1, <1>3, EndMoves DEF LoadFails, At
  <1>4. QED
    BY <1>2, <1>3 DEF Crash

-----------------------------------------------------------------------------
(* Updates of the file.                                                    *)

LEMMA RecordTypes ==
    /\ Absent \in Record /\ Absent.pid = 0 /\ Absent.started = 0 /\ Absent.def = "absent"
    /\ \A d \in Defs : Created(d) \in Record
    /\ \A d \in Defs : /\ Created(d).def = d /\ Created(d).pid = 0 /\ Created(d).started = 0
    /\ \A record \in Record :
          /\ Stopped(record) \in Record
          /\ Stopped(record).pid = 0 /\ Stopped(record).status = "stopped"
          /\ Stopped(record).def = record.def /\ Stopped(record).started = record.started
          /\ Stopped(record).exit = record.exit
  <1>1. /\ Absent \in Record /\ Absent.pid = 0 /\ Absent.started = 0 /\ Absent.def = "absent"
    BY WorkerAssumption DEF Absent, Record
  <1>2. ASSUME NEW d \in Defs
        PROVE  /\ Created(d) \in Record
               /\ Created(d).def = d /\ Created(d).pid = 0 /\ Created(d).started = 0
    <2>1. Created(d) \in Record
      BY <1>1 DEF Created, Record
    <2>2. Created(d).def = d /\ Created(d).pid = Absent.pid /\ Created(d).started = Absent.started
      BY <1>1 DEF Created, Record
    <2>3. QED
      BY <1>1, <2>1, <2>2
  <1>3. ASSUME NEW record \in Record
        PROVE  /\ Stopped(record) \in Record
               /\ Stopped(record).pid = 0 /\ Stopped(record).status = "stopped"
               /\ Stopped(record).def = record.def /\ Stopped(record).started = record.started
               /\ Stopped(record).exit = record.exit
    <2>1. 0 \in 0..MaxSpawns
      BY WorkerAssumption
    <2>2. Stopped(record) \in Record
      BY <2>1 DEF Stopped, Record
    <2>3. QED
      BY <2>2 DEF Stopped, Record
  <1>4. QED
    BY <1>1, <1>2, <1>3

LEMMA WriteTypes ==
    ASSUME TypeOK, NEW a \in Actors, NEW r \in Runtimes, NEW record \in Record, Write(a, r, record)
    PROVE  /\ file' \in [Runtimes -> Record] /\ clobbered' \in BOOLEAN
           /\ held' \subseteq Actors /\ snap' \in [Actors -> [Runtimes -> Record]]
           /\ ~clobbered' => /\ ~clobbered /\ snap[a] = file
                             /\ file' = [file EXCEPT ![r] = record]
  <1>1. NoRecords \in [Runtimes -> Record]
    BY RecordTypes DEF NoRecords
  <1>2. file' = [snap[a] EXCEPT ![r] = record] /\ snap[a] \in [Runtimes -> Record]
    BY DEF Write, TypeOK
  <1>3. held' = held \ {a} /\ snap' = [snap EXCEPT ![a] = NoRecords]
    BY DEF Write, Release
  <1>4. clobbered' = (clobbered \/ snap[a] # file)
    BY DEF Write
  <1>5. file' \in [Runtimes -> Record]
    BY <1>2
  <1>6. held' \subseteq Actors /\ snap' \in [Actors -> [Runtimes -> Record]]
    BY <1>1, <1>3 DEF TypeOK
  <1>7. QED
    BY <1>2, <1>4, <1>5, <1>6 DEF TypeOK

\* What the waiter of q makes of a record.
LEMMA WaiterRecord ==
    ASSUME NEW q \in Procs, NEW record \in Record, StillAbout(q, record)
    PROVE  LET new == [Stopped(record) EXCEPT !.exit = TRUE]
           IN /\ new \in Record /\ new.exit /\ new.pid = 0 /\ new.status = "stopped"
              /\ new.def = record.def /\ new.started = record.started
              /\ record.pid \in {q, 0}
  <1> DEFINE stopped == Stopped(record)
             new == [stopped EXCEPT !.exit = TRUE]
  <1>1. /\ stopped \in Record /\ stopped.pid = 0 /\ stopped.status = "stopped"
        /\ stopped.def = record.def /\ stopped.started = record.started
    BY RecordTypes
  <1> HIDE DEF stopped
  <1>2. /\ new \in Record /\ new.exit /\ new.pid = stopped.pid /\ new.status = stopped.status
        /\ new.def = stopped.def /\ new.started = stopped.started
    BY <1>1 DEF Record
  <1>3. record.pid \in {q, 0}
    BY DEF StillAbout
  <1> HIDE DEF new
  <1>4. QED
    BY <1>1, <1>2, <1>3 DEF new, stopped

LEMMA WaiterWriteKeeps ==
    ASSUME WorkerInv, NEW q \in Procs, WaiterWrite(q)
    PROVE  WorkerInv'
  <1> USE DEF WorkerInv
  <1> DEFINE r == proc[q].runtime
             was == snap[q][r]
             record == IF StillAbout(q, was) THEN [Stopped(was) EXCEPT !.exit = TRUE] ELSE was
  <1>1. /\ waiter[q] = "reaped" /\ waiter' = [waiter EXCEPT ![q] = "done"]
        /\ Write(q, r, record)
        /\ UNCHANGED <<proc, spawned, manager, taskVars, faults, unaccounted, secretVars>>
    BY DEF WaiterWrite
  <1>2. r \in Runtimes /\ q \in Actors /\ proc[q].state = "gone"
    BY <1>1 DEF Processes, Actors, Waiters
  <1>3. was \in Record
    BY <1>2 DEF TypeOK
  <1>4. record \in Record
    BY <1>3, WaiterRecord
  <1>5. /\ file' \in [Runtimes -> Record] /\ clobbered' \in BOOLEAN
        /\ held' \subseteq Actors /\ snap' \in [Actors -> [Runtimes -> Record]]
        /\ ~clobbered' => /\ ~clobbered /\ was = file[r]
                          /\ file' = [file EXCEPT ![r] = record]
    <2> HIDE DEF record
    <2>1. QED
      BY <1>1, <1>2, <1>4, WriteTypes
  <1>6. \A p \in Procs : waiter'[p] = IF p = q THEN "done" ELSE waiter[p]
    BY <1>1 DEF TypeOK
  <1>7. TypeOK'
    <2>1. waiter' \in [Procs -> {"none", "waiting", "reaped", "done", "failed"}]
      BY <1>1 DEF TypeOK
    <2> HIDE DEF r, was, record
    <2>2. QED
      BY <1>1, <1>5, <2>1 DEF TypeOK, taskVars, secretVars
  <1>8. Processes'
    BY <1>1, <1>6 DEF Processes
  <1>9. /\ StepsInOrder'
        /\ ~clobbered /\ Mine'.def = Mine.def => TargetIsQuiet'
        /\ \A p : BeingRecorded(p)' = BeingRecorded(p)
    BY <1>1, <1>6, ProcessEndsMeanwhile DEF Present
  <1>10. ASSUME ~clobbered' PROVE Sound'
    <2>1. ~clobbered /\ Sound /\ was = file[r] /\ Consistent(file[r])
      BY <1>2, <1>5, <1>10 DEF Sound, Records
    <2>2. /\ \A x \in Runtimes : x # r => file'[x] = file[x]
          /\ file'[r] = record
      BY <1>2, <1>5, <1>10 DEF TypeOK
    <2>3. StillAbout(q, was) \/ record = was
      OBVIOUS
    <2>4. StillAbout(q, was) =>
             /\ record.exit /\ record.pid = 0 /\ record.status = "stopped"
             /\ record.def = was.def /\ record.started = was.started
             /\ was.pid \in {q, 0} /\ was.def # "absent"
      BY <1>3, WaiterRecord DEF StillAbout
    <2>5. record.def = was.def /\ record.started = was.started
      BY <2>3, <2>4
    <2> HIDE DEF r, was, record
    <2>6. Records'
      <3>1. Consistent(record)
        BY <2>1, <2>3, <2>4 DEF Consistent
      <3>2. QED
        BY <2>1, <2>2, <3>1 DEF Sound, Records, Consistent
    <2>7. \A x \in Runtimes : file'[x].def = file[x].def
      BY <2>1, <2>2, <2>5
    <2>8. LiveIsRecordedUnlessClobbered'
      <3> SUFFICES ASSUME NEW p \in Procs, Present(p), p \notin unaccounted, ~BeingRecorded(p)
                   PROVE  /\ file'[proc[p].runtime].pid = p
                          /\ file'[proc[p].runtime].def = proc[p].def
        BY <1>1, <1>9 DEF LiveIsRecordedUnlessClobbered, Present
      <3>1. file[proc[p].runtime].pid = p /\ file[proc[p].runtime].def = proc[p].def
        BY <2>1 DEF Sound, LiveIsRecordedUnlessClobbered
      <3>2. p # q /\ p # 0 /\ proc[p].runtime \in Runtimes
        BY <1>2, WorkerAssumption DEF Present, Processes, Procs
      <3>3. proc[p].runtime = r => record = was
        BY <2>1, <2>3, <2>4, <3>1, <3>2
      <3>4. QED
        BY <2>1, <2>2, <3>1, <3>2, <3>3
    <2>9. ExitRecorded'
      <3> SUFFICES ASSUME NEW p \in Procs, waiter'[p] = "done", file'[proc[p].runtime].started = p
                   PROVE  /\ file'[proc[p].runtime].exit
                          /\ file'[proc[p].runtime].pid = 0
                          /\ file'[proc[p].runtime].status = "stopped"
        BY <1>1 DEF ExitRecorded
      <3>1. CASE p = q
        <4>1. proc[p].runtime = r /\ record.started = q /\ was.started = q
          BY <2>2, <2>5, <3>1 DEF r
        <4>2. q # 0
          BY WorkerAssumption DEF Procs
        <4>3. was.def # "absent"
          BY <2>1, <4>1, <4>2, RecordTypes DEF Consistent
        <4>4. was.pid = q \/ (was.pid = 0 /\ was.status = "stopped")
          BY <2>1, <4>1, <4>2 DEF Consistent
        <4>5. StillAbout(q, was) \/ (was.pid = 0 /\ was.status = "stopped" /\ was.exit)
          BY <4>1, <4>3, <4>4 DEF StillAbout
        <4>6. QED
          BY <2>1, <2>2, <2>3, <2>4, <4>1, <4>5
      <3>2. CASE p # q
        <4>1. waiter[p] = "done" /\ file[proc[p].runtime].started = p
          <5>1. waiter[p] = "done"
            BY <1>6, <3>2
          <5>2. proc[p].runtime \in Runtimes
            BY <5>1 DEF Processes
          <5>3. QED
            BY <2>1, <2>2, <2>5, <5>1, <5>2
        <4>2. /\ file[proc[p].runtime].exit
              /\ file[proc[p].runtime].pid = 0
              /\ file[proc[p].runtime].status = "stopped"
          BY <2>1, <4>1 DEF Sound, ExitRecorded
        <4>3. QED
          <5>1. proc[p].runtime \in Runtimes
            BY <4>1 DEF Processes
          <5>2. (record.exit /\ record.pid = 0 /\ record.status = "stopped") \/ proc[p].runtime # r
            BY <2>1, <2>3, <2>4, <4>2
          <5>3. QED
            BY <2>2, <4>2, <5>1, <5>2
      <3>3. QED
        BY <3>1, <3>2
    <2>10. StartableUnlessClobbered'
      BY <1>1, <2>1, <2>7 DEF Sound, StartableUnlessClobbered, secretVars
    <2>11. TargetIsQuiet'
      <3>1. Mine'.def = Mine.def
        BY <1>1, <2>7 DEF Mine, taskVars, TypeOK
      <3>2. QED
        BY <1>9, <2>1, <3>1
    <2>12. QED
      BY <2>6, <2>8, <2>9, <2>10, <2>11 DEF Sound
  <1>11. QED
    BY <1>7, <1>8, <1>9, <1>10

\* The record as a step of the task rewrites it, step by step.
LEMMA RewrittenCases ==
    ASSUME NEW record
    PROVE  /\ Rewritten("put", record) = Created(newDef)
           /\ Rewritten("erase", record) = Absent
           /\ Rewritten("stop", record) = IF record.def = "absent" THEN record ELSE Stopped(record)
           /\ \A step \in Inspections :
                 Rewritten(step, record) =
                     IF record.def = "absent" THEN [Stopped(Absent) EXCEPT !.def = "blank"]
                                              ELSE Stopped(record)
           /\ Rewritten("start", record) =
                 [record EXCEPT !.pid = cand, !.started = cand, !.status = "running", !.exit = FALSE]
  <1>1. Rewritten("put", record) = Created(newDef)
    BY DEF Rewritten, Inspections
  <1>2. Rewritten("erase", record) = Absent
    BY DEF Rewritten, Inspections
  <1>3. Rewritten("stop", record) = IF record.def = "absent" THEN record ELSE Stopped(record)
    BY DEF Rewritten, Inspections
  <1>4. \A step \in Inspections :
                 Rewritten(step, record) =
                     IF record.def = "absent" THEN [Stopped(Absent) EXCEPT !.def = "blank"]
                                              ELSE Stopped(record)
    BY DEF Rewritten, Inspections
  <1>5. Rewritten("start", record) =
                 [record EXCEPT !.pid = cand, !.started = cand, !.status = "running", !.exit = FALSE]
    BY DEF Rewritten, Inspections
  <1>6. QED
    BY <1>1, <1>2, <1>3, <1>4, <1>5

\* Every step makes a record.
LEMMA RewrittenTypes ==
    ASSUME TypeOK, StepsInOrder, UpdateStage, NEW record \in Record
    PROVE  /\ Head(todo) \in {"put", "erase", "stop", "start"} \union Inspections
           /\ Rewritten(Head(todo), record) \in Record
  <1>1. Head(todo) \in {"put", "erase", "stop", "start"} \union Inspections
    BY DEF UpdateStage, StepsInOrder
  <1> DEFINE new == Rewritten(Head(todo), record)
  <1> SUFFICES new \in Record
    BY <1>1
  <1>2. newDef \in Defs /\ cand \in 0..MaxSpawns
    BY DEF TypeOK
  <1>3. CASE Head(todo) = "put"
    <2>1. new = Created(newDef)
      BY <1>3, RewrittenCases
    <2>2. QED
      BY <1>2, <2>1, RecordTypes
  <1>4. CASE Head(todo) = "erase"
    <2>1. new = Absent
      BY <1>4, RewrittenCases
    <2>2. QED
      BY <2>1, RecordTypes
  <1>5. CASE Head(todo) = "stop"
    <2>1. new = record \/ new = Stopped(record)
      BY <1>5, RewrittenCases
    <2>2. QED
      BY <2>1, RecordTypes
  <1>6. CASE Head(todo) \in Inspections
    <2>1. Rewritten(Head(todo), record) =
             IF record.def = "absent" THEN [Stopped(Absent) EXCEPT !.def = "blank"] ELSE Stopped(record)
      BY <1>6, RewrittenCases
    <2>2. Stopped(Absent) \in Record /\ Stopped(record) \in Record
      BY RecordTypes
    <2>3. [Stopped(Absent) EXCEPT !.def = "blank"] \in Record
      <3> DEFINE stopped == Stopped(Absent)
      <3>1. stopped \in Record
        BY <2>2
      <3> HIDE DEF stopped
      <3>2. [stopped EXCEPT !.def = "blank"] \in Record
        BY <3>1 DEF Record
      <3>3. QED
        BY <3>2 DEF stopped
    <2> DEFINE blank == [Stopped(Absent) EXCEPT !.def = "blank"]
               stopped == Stopped(record)
    <2>4. /\ blank \in Record /\ stopped \in Record
          /\ Rewritten(Head(todo), record) = IF record.def = "absent" THEN blank ELSE stopped
      BY <2>1, <2>2, <2>3
    <2> HIDE DEF blank, stopped
    <2>5. QED
      BY <2>4
  <1>7. CASE Head(todo) = "start"
    <2>1. Rewritten(Head(todo), record) =
             [record EXCEPT !.pid = cand, !.started = cand, !.status = "running", !.exit = FALSE]
      BY <1>7, RewrittenCases
    <2> DEFINE started == [record EXCEPT !.pid = cand, !.started = cand,
                                         !.status = "running", !.exit = FALSE]
    <2>2. started \in Record
      BY <1>2 DEF Record
    <2> HIDE DEF started
    <2>3. Rewritten(Head(todo), record) = started
      BY <2>1 DEF started
    <2>4. QED
      BY <2>2, <2>3
  <1>8. QED
    BY <1>1, <1>3, <1>4, <1>5, <1>6, <1>7

\* An update of the task, with its types; nothing is lost unless it clobbers.
LEMMA TaskWrites ==
    ASSUME WorkerInv, UpdateStage,
           Write(TaskLoop, target, Rewritten(Head(todo), snap[TaskLoop][target]))
    PROVE  /\ file' \in [Runtimes -> Record] /\ clobbered' \in BOOLEAN
           /\ held' \subseteq Actors /\ snap' \in [Actors -> [Runtimes -> Record]]
           /\ ~clobbered' => /\ ~clobbered
                             /\ file'[target] = Rewritten(Head(todo), Mine)
                             /\ \A r \in Runtimes : r # target => file'[r] = file[r]
  <1> USE DEF WorkerInv
  <1>1. target \in Runtimes /\ TaskLoop \in Actors /\ snap[TaskLoop][target] \in Record
    BY DEF TypeOK, Actors
  <1>2. Rewritten(Head(todo), snap[TaskLoop][target]) \in Record
    BY <1>1, RewrittenTypes
  <1> DEFINE record == Rewritten(Head(todo), snap[TaskLoop][target])
  <1>3. record \in Record /\ Write(TaskLoop, target, record)
    BY <1>2
  <1>4. snap[TaskLoop] = file => record = Rewritten(Head(todo), Mine)
    BY DEF Mine
  <1> HIDE DEF record
  <1>5. /\ file' \in [Runtimes -> Record] /\ clobbered' \in BOOLEAN
        /\ held' \subseteq Actors /\ snap' \in [Actors -> [Runtimes -> Record]]
        /\ ~clobbered' => /\ ~clobbered /\ snap[TaskLoop] = file
                          /\ file' = [file EXCEPT ![target] = record]
    BY <1>1, <1>3, WriteTypes
  <1>6. ~clobbered' => /\ file'[target] = record
                       /\ \A r \in Runtimes : r # target => file'[r] = file[r]
    BY <1>1, <1>5 DEF TypeOK
  <1>7. QED
    BY <1>4, <1>5, <1>6

LEMMA DoomingFirst ==
    ASSUME TypeOK, ~Idle, Head(todo) \in {"put", "erase"}
    PROVE  Dooming
  <1>1. Len(todo) \in Nat \ {0} /\ Head(todo) = todo[1]
    BY EmptySeq, HeadTailProperties DEF TypeOK, Idle
  <1>2. 1 \in 1..Len(todo)
    BY <1>1
  <1>3. QED
    BY <1>1, <1>2 DEF Dooming, Dooms

\* Every step but start makes a record that names no process.
LEMMA RewrittenRecord ==
    ASSUME WorkerInv, Sound, UpdateStage, Head(todo) # "start",
           NEW record, record = Rewritten(Head(todo), Mine)
    PROVE  /\ Consistent(record) /\ record.pid = 0
           /\ record.started # 0 => /\ record.started = Mine.started /\ record.exit = Mine.exit
                                    /\ record.status = "stopped"
           /\ record.def = IF Head(todo) = "put" THEN newDef
                           ELSE IF Head(todo) = "erase" THEN "absent" ELSE Mine.def
  <1> USE DEF WorkerInv
  <1>1. /\ target \in Runtimes /\ Mine = file[target] /\ Mine \in Record /\ newDef \in Defs
        /\ Consistent(Mine)
    BY DEF TypeOK, Mine, Sound, Records
  <1>2. Head(todo) \in {"put", "erase", "stop"} \union Inspections
    BY <1>1, RewrittenTypes
  <1>3. CASE Head(todo) = "put"
    <2>1. record = Created(newDef)
      BY <1>3, RewrittenCases
    <2>2. record.def = newDef /\ record.pid = 0 /\ record.started = 0
      BY <1>1, <2>1, RecordTypes
    <2>3. QED
      BY <1>1, <1>3, <2>2, WorkerAssumption DEF Consistent
  <1>4. CASE Head(todo) = "erase"
    <2>1. record = Absent
      BY <1>4, RewrittenCases
    <2>2. QED
      BY <1>4, <2>1, RecordTypes DEF Consistent
  <1>5. CASE Head(todo) = "stop" /\ Mine.def = "absent"
    <2>1. Mine = Absent
      BY <1>1, <1>5 DEF Consistent
    <2>2. record = Mine
      BY <1>5, RewrittenCases
    <2>3. QED
      BY <1>5, <2>1, <2>2, RecordTypes DEF Consistent
  <1>6. CASE Head(todo) \in {"stop"} \union Inspections /\ Mine.def # "absent"
    <2>1. record = Stopped(Mine)
      BY <1>6, RewrittenCases
    <2>2. /\ record.pid = 0 /\ record.status = "stopped" /\ record.def = Mine.def
          /\ record.started = Mine.started /\ record.exit = Mine.exit
      BY <1>1, <2>1, RecordTypes
    <2>3. QED
      BY <1>1, <1>6, <2>2 DEF Consistent, Inspections
  <1>7. CASE Head(todo) \in Inspections /\ Mine.def = "absent"
    BY <1>7 DEF Sound, TargetIsQuiet, UpdateStage, Inspections
  <1>8. QED
    BY <1>2, <1>3, <1>4, <1>5, <1>6, <1>7

\* None of the target's processes is running when its record is rewritten so.
LEMMA QuietWhenRewritten ==
    ASSUME WorkerInv, Sound, UpdateStage, Head(todo) # "start"
    PROVE  Alone(0)
  <1>1. CASE Head(todo) \in {"put", "erase"}
    BY <1>1, DoomingFirst DEF WorkerInv, Sound, TargetIsQuiet, UpdateStage
  <1>2. CASE stage = "update"
    BY <1>2 DEF Sound, TargetIsQuiet
  <1>3. QED
    BY <1>1, <1>2 DEF UpdateStage

\* Properties of the records when one of them, which names no process, is rewritten.
LEMMA RewriteKeeps ==
    ASSUME WorkerInv, Sound, UpdateStage, Head(todo) # "start", ~clobbered, ~clobbered',
           file'[target] = Rewritten(Head(todo), Mine),
           \A r \in Runtimes : r # target => file'[r] = file[r],
           UNCHANGED <<procVars, unaccounted, secrets>>, torn' = Mended
    PROVE  /\ Records' /\ ExitRecorded' /\ StartableUnlessClobbered'
           /\ LiveIsRecordedUnlessClobbered'
           /\ Mine.def = "absent" /\ Head(todo) # "put" => file'[target].def = "absent"
           /\ Head(todo) = "erase" => file'[target].def = "absent"
  <1> USE DEF WorkerInv, procVars
  <1> DEFINE record == file'[target]
  <1>1. /\ Consistent(record) /\ record.pid = 0
        /\ record.started # 0 => /\ record.started = Mine.started /\ record.exit = Mine.exit
                                 /\ record.status = "stopped"
        /\ record.def = IF Head(todo) = "put" THEN newDef
                        ELSE IF Head(todo) = "erase" THEN "absent" ELSE Mine.def
    BY RewrittenRecord
  <1> HIDE DEF record
  <1>2. file'[target] = record /\ target \in Runtimes /\ Mine = file[target] /\ newDef \in Defs
    BY DEF record, TypeOK, Mine
  <1>3. Records'
    BY <1>1, <1>2 DEF Sound, Records, Consistent
  <1>4. ExitRecorded'
    <2> SUFFICES ASSUME NEW p \in Procs, waiter[p] = "done", file'[proc[p].runtime].started = p
                 PROVE  /\ file'[proc[p].runtime].exit
                        /\ file'[proc[p].runtime].pid = 0
                        /\ file'[proc[p].runtime].status = "stopped"
      BY DEF ExitRecorded
    <2>1. p # 0 /\ proc[p].runtime \in Runtimes
      BY WorkerAssumption DEF Processes, Procs
    <2>2. file[proc[p].runtime].started = p
      BY <1>1, <1>2, <2>1
    <2>3. /\ file[proc[p].runtime].exit
          /\ file[proc[p].runtime].pid = 0
          /\ file[proc[p].runtime].status = "stopped"
      BY <2>2 DEF Sound, ExitRecorded
    <2>4. QED
      BY <1>1, <1>2, <2>1, <2>3
  <1>5. LiveIsRecordedUnlessClobbered'
    <2> SUFFICES ASSUME NEW p \in Procs, Present(p), p \notin unaccounted
                 PROVE  /\ file'[proc[p].runtime].pid = p
                        /\ file'[proc[p].runtime].def = proc[p].def
      BY DEF LiveIsRecordedUnlessClobbered, Present
    <2>1. p # 0 /\ proc[p].runtime \in Runtimes
      BY WorkerAssumption DEF Present, Processes, Procs
    <2>2. proc[p].runtime # target
      BY <2>1, QuietWhenRewritten DEF Alone
    <2>3. file[proc[p].runtime].pid = p /\ file[proc[p].runtime].def = proc[p].def
      BY DEF Sound, LiveIsRecordedUnlessClobbered, BeingRecorded, At
    <2>4. QED
      BY <2>1, <2>2, <2>3
  <1>6. StartableUnlessClobbered'
    <2> SUFFICES ASSUME NEW r \in Runtimes, r \notin torn', file'[r].def # "absent"
                 PROVE  /\ file'[r].def \in Defs
                        /\ secrets[r] = [files |-> file'[r].def, env |-> file'[r].def]
      BY DEF StartableUnlessClobbered
    <2>1. CASE r # target
      <3>1. r \notin torn
        BY <2>1 DEF Mended
      <3>2. QED
        BY <2>1, <3>1 DEF Sound, StartableUnlessClobbered
    <2>2. CASE r = target /\ Head(todo) = "put"
      <3>1. secrets[target].files = newDef /\ secrets[target].env = newDef
        BY <2>2 DEF StepsInOrder, UpdateStage
      <3>2. secrets[target] = [files |-> newDef, env |-> newDef]
        BY <1>2, <3>1 DEF TypeOK, Secrets
      <3>3. QED
        BY <1>1, <1>2, <2>2, <3>2
    <2>3. CASE r = target /\ Head(todo) \notin {"put", "erase"}
      <3>1. record.def = Mine.def /\ torn' = torn
        BY <1>1, <2>3 DEF Mended
      <3>2. QED
        BY <1>2, <2>3, <3>1 DEF Sound, StartableUnlessClobbered
    <2>4. QED
      BY <1>1, <1>2, <2>1, <2>2, <2>3
  <1>7. QED
    BY <1>1, <1>2, <1>3, <1>4, <1>5, <1>6

\* TaskWrite and UpdateFails: the update is made or not, and the task goes on or ends.
LEMMA UpdateKeeps ==
    ASSUME WorkerInv, UpdateStage, Head(todo) # "start", faults' \in 0..MaxFaults,
           UNCHANGED <<procVars, unaccounted, secrets>>,
           NEW wrote \in BOOLEAN, NEW more \in {<<>>, <<"stopped">>, <<"unlink">>},
           more = <<"stopped">> => Head(todo) = "stop",
           more = <<"unlink">> => Head(todo) = "erase",
           wrote => /\ Write(TaskLoop, target, Rewritten(Head(todo), snap[TaskLoop][target]))
                    /\ torn' = Mended,
           ~wrote => Release(TaskLoop) /\ UNCHANGED <<file, clobbered, torn>>,
           Continue(more) \/ EndTask,
           EndTask \/ wrote \/ Head(todo) \in Inspections
    PROVE  WorkerInv'
  <1> USE DEF WorkerInv
  <1>1. ~Idle /\ Head(todo) \in {"put", "erase", "stop"} \union Inspections
    BY DEF UpdateStage, StepsInOrder
  <1>2. /\ todo' \in Seq(Steps) /\ stage' = "begin" /\ cand' = 0
        /\ UNCHANGED <<tasks, target, newDef>>
        /\ Ordered(todo') /\ (Dooming' => Dooming)
        /\ ~Idle' => /\ Head(todo') \notin {"env", "put", "stop"}
                     /\ Head(todo') = "unlink" => Head(todo) = "erase"
                     /\ ~EndTask
    <2>1. CASE EndTask
      BY <2>1, EndShape DEF StepsInOrder
    <2>2. CASE Continue(more) /\ ~EndTask
      BY <1>1, <2>2, ContinueShape DEF StepsInOrder, Dooming, Inspections
    <2>3. QED
      BY <2>1, <2>2
  <1>3. /\ file' \in [Runtimes -> Record] /\ clobbered' \in BOOLEAN
        /\ held' \subseteq Actors /\ snap' \in [Actors -> [Runtimes -> Record]]
        /\ torn' \subseteq Runtimes
    <2>1. CASE wrote
      BY <2>1, TaskWrites DEF TypeOK, Mended
    <2>2. CASE ~wrote
      <3>1. NoRecords \in [Runtimes -> Record]
        BY RecordTypes DEF NoRecords
      <3>2. QED
        BY <2>2, <3>1 DEF TypeOK, Release
    <2>3. QED
      BY <2>1, <2>2
  <1>4. TypeOK'
    BY <1>2, <1>3, WorkerAssumption DEF TypeOK, procVars, Steps
  <1>5. StepsInOrder'
    BY <1>2 DEF StepsInOrder, At
  <1>6. Processes'
    BY DEF Processes, procVars
  <1>7. ASSUME ~clobbered' PROVE Sound'
    <2>1. /\ ~clobbered /\ Sound
          /\ wrote => /\ file'[target] = Rewritten(Head(todo), Mine)
                      /\ \A r \in Runtimes : r # target => file'[r] = file[r]
      BY <1>7, TaskWrites
    <2>2. /\ Records' /\ ExitRecorded' /\ StartableUnlessClobbered'
          /\ LiveIsRecordedUnlessClobbered'
          /\ wrote /\ Head(todo) = "erase" => file'[target].def = "absent"
      <3>1. CASE wrote
        BY <1>7, <2>1, <3>1, RewriteKeeps
      <3>2. CASE ~wrote
        <4>1. Records' /\ ExitRecorded' /\ StartableUnlessClobbered'
          BY <2>1, <3>2 DEF Sound, Records, ExitRecorded, StartableUnlessClobbered, procVars
        <4>2. LiveIsRecordedUnlessClobbered'
          BY <2>1, <3>2 DEF Sound, LiveIsRecordedUnlessClobbered, Present, BeingRecorded, At, procVars
        <4>3. QED
          BY <3>2, <4>1, <4>2
      <3>3. QED
        BY <3>1, <3>2
    <2>3. TargetIsQuiet'
      <3>1. Alone(0)'
        BY <1>2, <2>1, QuietWhenRewritten DEF Alone, Present, procVars
      <3>2. ~Idle' /\ Head(todo') = "unlink" => Mine'.def = "absent"
        BY <1>2, <2>2 DEF Mine, Inspections
      <3>3. QED
        BY <1>2, <3>1, <3>2 DEF TargetIsQuiet, At
    <2>4. QED
      BY <2>2, <2>3 DEF Sound
  <1>8. QED
    BY <1>4, <1>5, <1>6, <1>7

LEMMA TaskWriteKeeps == WorkerInv /\ (TaskWrite \/ UpdateFails) => WorkerInv'
  <1> SUFFICES ASSUME WorkerInv, TaskWrite \/ UpdateFails PROVE WorkerInv'
    OBVIOUS
  <1>1. CASE TaskWrite
    <2>1. faults' \in 0..MaxFaults
      BY <1>1 DEF TaskWrite, WorkerInv, TypeOK
    <2>2. PICK more \in {<<>>, <<"stopped">>, <<"unlink">>} :
             /\ Continue(more)
             /\ more = <<"stopped">> => Head(todo) = "stop"
             /\ more = <<"unlink">> => Head(todo) = "erase"
      BY <1>1 DEF TaskWrite, FollowUp
    <2>3. QED
      BY <1>1, <2>1, <2>2, UpdateKeeps DEF TaskWrite
  <1>2. CASE UpdateFails
    <2>1. faults' \in 0..MaxFaults
      BY <1>2, WorkerAssumption DEF UpdateFails, StoreFails, Faulty, WorkerInv, TypeOK
    <2>2. PICK wrote \in BOOLEAN :
             /\ wrote => /\ Write(TaskLoop, target, Rewritten(Head(todo), snap[TaskLoop][target]))
                         /\ torn' = Mended
             /\ ~wrote => Release(TaskLoop) /\ UNCHANGED <<file, clobbered, torn>>
      BY <1>2 DEF UpdateFails, StoreFails
    <2>3. QED
      BY <1>2, <2>1, <2>2, UpdateKeeps DEF UpdateFails
  <1>3. QED
    BY <1>1, <1>2

\* The record start makes: it names the new process, which alone runs, and its definition.
LEMMA StartedRecord ==
    ASSUME WorkerInv, Sound, At("start", "update"),
           NEW record, record = Rewritten("start", Mine)
    PROVE  /\ Consistent(record) /\ record.pid = cand /\ record.started = cand
           /\ record.def = Mine.def /\ record.def = proc[cand].def /\ Alone(cand)
  <1> USE DEF WorkerInv
  <1>1. /\ target \in Runtimes /\ Mine \in Record /\ Consistent(Mine)
        /\ cand \in Procs /\ cand # 0
    BY WorkerAssumption DEF TypeOK, Mine, Sound, Records, StepsInOrder, Procs
  <1>2. /\ Alone(cand) /\ Mine.def = proc[cand].def /\ Mine.def # "absent"
    BY DEF Sound, TargetIsQuiet, At
  <1>3. record = [Mine EXCEPT !.pid = cand, !.started = cand, !.status = "running", !.exit = FALSE]
    BY RewrittenCases
  <1>4. record.pid = cand /\ record.started = cand /\ record.def = Mine.def
    BY <1>1, <1>3 DEF Record
  <1>5. Consistent(record)
    BY <1>1, <1>2, <1>4 DEF Consistent
  <1>6. QED
    BY <1>2, <1>4, <1>5

\* start is over: neither the secrets nor the record of another runtime have changed,
\* and that of the target, if it has, is the one of StartedRecord.
LEMMA StartEnds ==
    ASSUME WorkerInv, Sound, At("start", "update"), ~clobbered, ~clobbered',
           UNCHANGED <<target, secretVars, unaccounted>>,
           stage' = "begin", TargetIsQuiet',
           \A r \in Runtimes : r # target => file'[r] = file[r],
           file'[target] \in {Mine, Rewritten("start", Mine)},
           \A p \in Procs : /\ proc'[p].runtime = proc[p].runtime /\ proc'[p].def = proc[p].def
                            /\ Present(p)' => Present(p)
                            /\ waiter'[p] = "done" => waiter[p] = "done",
           \A p \in Procs : Present(p)' /\ p = cand => file'[target] = Rewritten("start", Mine)
    PROVE  Sound'
  <1> USE DEF WorkerInv
  <1>1. /\ target \in Runtimes /\ Mine = file[target] /\ Consistent(Mine)
        /\ cand \in Procs /\ cand # 0
        /\ proc[cand].runtime = target /\ waiter[cand] = "none"
    BY WorkerAssumption DEF TypeOK, Mine, Sound, Records, StepsInOrder, Procs
  <1>2. \/ file'[target] = Mine
        \/ /\ Consistent(file'[target])
           /\ file'[target].pid = cand /\ file'[target].started = cand
           /\ file'[target].def = Mine.def /\ file'[target].def = proc[cand].def
    BY StartedRecord
  <1>3. Alone(cand)
    BY DEF Sound, TargetIsQuiet, At
  <1>4. Records'
    BY <1>1, <1>2 DEF Sound, Records, Consistent
  <1>5. LiveIsRecordedUnlessClobbered'
    <2> SUFFICES ASSUME NEW p \in Procs, Present(p)', p \notin unaccounted
                 PROVE  /\ file'[proc'[p].runtime].pid = p
                        /\ file'[proc'[p].runtime].def = proc'[p].def
      BY DEF LiveIsRecordedUnlessClobbered
    <2>1. p # 0 /\ proc[p].runtime \in Runtimes /\ Present(p) /\ proc'[p].runtime = proc[p].runtime
          /\ proc'[p].def = proc[p].def
      BY WorkerAssumption DEF Present, Processes, Procs
    <2>2. CASE p = cand
      <3>1. file'[target].pid = cand /\ file'[target].def = proc[cand].def
        BY <2>2, StartedRecord
      <3>2. QED
        BY <1>1, <2>1, <2>2, <3>1
    <2>3. CASE p # cand
      <3>1. proc[p].runtime # target /\ ~BeingRecorded(p)
        BY <1>3, <2>1, <2>3 DEF Alone, BeingRecorded
      <3>2. file[proc[p].runtime].pid = p /\ file[proc[p].runtime].def = proc[p].def
        BY <2>1, <3>1 DEF Sound, LiveIsRecordedUnlessClobbered
      <3>3. QED
        BY <2>1, <3>1, <3>2
    <2>4. QED
      BY <2>2, <2>3
  <1>6. ExitRecorded'
    <2> SUFFICES ASSUME NEW p \in Procs, waiter'[p] = "done", file'[proc'[p].runtime].started = p
                 PROVE  /\ file'[proc'[p].runtime].exit
                        /\ file'[proc'[p].runtime].pid = 0
                        /\ file'[proc'[p].runtime].status = "stopped"
      BY DEF ExitRecorded
    <2>1. /\ waiter[p] = "done" /\ p # cand /\ proc'[p].runtime = proc[p].runtime
          /\ proc[p].runtime \in Runtimes
      BY <1>1 DEF Processes
    <2>2. file'[proc[p].runtime] = file[proc[p].runtime]
      BY <1>1, <1>2, <2>1
    <2>3. QED
      BY <2>1, <2>2 DEF Sound, ExitRecorded
  <1>7. StartableUnlessClobbered'
    <2>1. \A r \in Runtimes : file'[r].def = file[r].def
      BY <1>1, <1>2
    <2>2. QED
      BY <2>1 DEF Sound, StartableUnlessClobbered, secretVars
  <1>8. QED
    BY <1>4, <1>5, <1>6, <1>7 DEF Sound

LEMMA RecordStartKeeps == WorkerInv /\ RecordStart => WorkerInv'
  <1> SUFFICES ASSUME WorkerInv, RecordStart PROVE WorkerInv'
    OBVIOUS
  <1> USE DEF WorkerInv
  <1>1. /\ ~Idle /\ Head(todo) = "start" /\ stage = "update" /\ At("start", "update") /\ UpdateStage
        /\ cand \in Procs /\ cand <= spawned
        /\ proc[cand].state # "none" /\ todo \in Seq(Steps) /\ todo # <<>>
    BY DEF RecordStart, At, StepsInOrder, UpdateStage, Idle, TypeOK, Steps
  <1>2. /\ Continue(<<"inspect">>)
        /\ UNCHANGED <<proc, spawned, faults, unaccounted, secretVars>>
        /\ waiter' = [waiter EXCEPT ![cand] = "waiting"]
        /\ manager' = [manager EXCEPT ![cand] = tasks]
        /\ Write(TaskLoop, target, Rewritten("start", snap[TaskLoop][target]))
    BY DEF RecordStart
  <1>3. /\ todo' \in Seq(Steps) /\ stage' = "begin" /\ cand' = 0
        /\ UNCHANGED <<tasks, target, newDef>>
        /\ Ordered(todo') /\ (Dooming' => Dooming)
        /\ ~Idle' => Head(todo') \notin {"env", "put", "stop", "unlink"}
    BY <1>1, <1>2, ContinueShape DEF StepsInOrder, Dooming
  <1>4. /\ file' \in [Runtimes -> Record] /\ clobbered' \in BOOLEAN
        /\ held' \subseteq Actors /\ snap' \in [Actors -> [Runtimes -> Record]]
        /\ ~clobbered' => /\ ~clobbered
                          /\ file'[target] = Rewritten("start", Mine)
                          /\ \A r \in Runtimes : r # target => file'[r] = file[r]
    BY <1>1, <1>2, TaskWrites
  <1>5. TypeOK'
    <2>1. /\ waiter' \in [Procs -> {"none", "waiting", "reaped", "done", "failed"}]
          /\ manager' \in [Procs -> 0..MaxTasks]
      BY <1>1, <1>2 DEF TypeOK
    <2>2. QED
      BY <1>2, <1>3, <1>4, <2>1, WorkerAssumption DEF TypeOK, secretVars, Steps
  <1>6. StepsInOrder'
    BY <1>3 DEF StepsInOrder, At
  <1>7. Processes'
    <2> SUFFICES ASSUME NEW p \in Procs
                 PROVE  /\ p > spawned => proc[p].state = "none" /\ waiter'[p] = "none"
                        /\ proc[p].state # "none" => proc[p].runtime \in Runtimes /\ proc[p].def \in Defs
                        /\ waiter'[p] # "none" => proc[p].state # "none"
                        /\ waiter'[p] = "reaped" => proc[p].state = "gone"
      BY <1>2 DEF Processes
    <2>1. CASE p = cand
      BY <1>1, <1>2, <2>1, WorkerAssumption DEF Processes, TypeOK, Procs
    <2>2. CASE p # cand
      BY <1>2, <2>2 DEF Processes, TypeOK
    <2>3. QED
      BY <2>1, <2>2
  <1>8. ASSUME ~clobbered' PROVE Sound'
    <2>1. Sound /\ ~Dooming
      BY <1>1, <1>4, <1>8, StartIsLast DEF Dooming, StepsInOrder
    <2>2. TargetIsQuiet'
      BY <1>3, <2>1 DEF TargetIsQuiet, At
    <2>3. \A p \in Procs : /\ proc'[p].runtime = proc[p].runtime /\ proc'[p].def = proc[p].def
                           /\ Present(p)' => Present(p)
                           /\ waiter'[p] = "done" => waiter[p] = "done"
      BY <1>1, <1>2 DEF Present, TypeOK
    <2>4. QED
      BY <1>1, <1>2, <1>3, <1>4, <1>8, <2>1, <2>2, <2>3, StartEnds
  <1>9. QED
    BY <1>5, <1>6, <1>7, <1>8

LEMMA UndoStartKeeps == WorkerInv /\ UndoStart => WorkerInv'
  <1> SUFFICES ASSUME WorkerInv, UndoStart PROVE WorkerInv'
    OBVIOUS
  <1> USE DEF WorkerInv
  <1>1. /\ ~Idle /\ Head(todo) = "start" /\ stage = "update" /\ At("start", "update") /\ UpdateStage
        /\ cand \in Procs /\ proc[cand].state # "none"
    BY DEF UndoStart, At, StepsInOrder, UpdateStage
  <1>2. /\ EndTask
        /\ UNCHANGED <<spawned, waiter, manager, unaccounted, secrets>>
        /\ proc' = [proc EXCEPT ![cand].state = "gone"]
    BY DEF UndoStart
  <1>3. /\ todo' \in Seq(Steps) /\ stage' = "begin" /\ cand' = 0
        /\ UNCHANGED <<tasks, target, newDef>>
        /\ StepsInOrder' /\ TargetIsQuiet'
    BY <1>2, EndShape
  <1>4. PICK wrote \in BOOLEAN :
           /\ wrote => /\ Write(TaskLoop, target, Rewritten(Head(todo), snap[TaskLoop][target]))
                       /\ torn' = Mended
           /\ ~wrote => Release(TaskLoop) /\ UNCHANGED <<file, clobbered, torn>>
    BY DEF UndoStart, StoreFails
  <1>5. faults' \in 0..MaxFaults
    BY WorkerAssumption DEF UndoStart, StoreFails, Faulty, TypeOK
  <1>6. torn' = torn
    BY <1>1, <1>4 DEF Mended
  <1>7. /\ file' \in [Runtimes -> Record] /\ clobbered' \in BOOLEAN
        /\ held' \subseteq Actors /\ snap' \in [Actors -> [Runtimes -> Record]]
        /\ ~clobbered' => /\ ~clobbered
                          /\ file'[target] \in {Mine, Rewritten("start", Mine)}
                          /\ \A r \in Runtimes : r # target => file'[r] = file[r]
    <2>1. CASE wrote
      BY <1>1, <1>4, <2>1, TaskWrites
    <2>2. CASE ~wrote
      <3>1. NoRecords \in [Runtimes -> Record]
        BY RecordTypes DEF NoRecords
      <3>2. file' = file /\ clobbered' = clobbered /\ held' \subseteq held
        BY <1>4, <2>2 DEF Release
      <3>3. snap' \in [Actors -> [Runtimes -> Record]]
        BY <1>4, <2>2, <3>1 DEF TypeOK, Release
      <3>4. file'[target] = Mine
        BY <3>2 DEF Mine
      <3>5. QED
        BY <3>2, <3>3, <3>4 DEF TypeOK
    <2>3. QED
      BY <2>1, <2>2
  <1>8. \A p \in Procs :
            /\ proc'[p].runtime = proc[p].runtime /\ proc'[p].def = proc[p].def
            /\ Present(p)' => Present(p) /\ p # cand
            /\ IF p = cand THEN proc'[p].state = "gone" ELSE proc'[p].state = proc[p].state
    BY <1>1, <1>2 DEF TypeOK, Process, Present
  <1>9. proc' \in [Procs -> Process]
    BY <1>1, <1>2, StateChanges DEF TypeOK
  <1>10. TypeOK'
    <2>1. /\ spawned' = spawned /\ waiter' = waiter /\ manager' = manager
          /\ unaccounted' = unaccounted /\ secrets' = secrets
      BY <1>2
    <2>2. /\ tasks' = tasks /\ target' = target /\ newDef' = newDef
          /\ stage' = "begin" /\ cand' \in 0..MaxSpawns /\ todo' \in Seq(Steps)
      BY <1>3, WorkerAssumption
    <2>3. QED
      BY <1>5, <1>6, <1>7, <1>9, <2>1, <2>2 DEF TypeOK, Steps
  <1>11. Processes'
    BY <1>1, <1>2, <1>8 DEF Processes
  <1>12. ASSUME ~clobbered' PROVE Sound'
    <2>1. Sound
      BY <1>7, <1>12
    <2>2. QED
      BY <1>1, <1>2, <1>3, <1>6, <1>7, <1>8, <1>12, <2>1, StartEnds DEF secretVars
  <1>13. QED
    BY <1>3, <1>10, <1>11, <1>12

-----------------------------------------------------------------------------
(* The theorems.                                                           *)

LEMMA InitWorker == Init => WorkerInv
  <1> SUFFICES ASSUME Init PROVE WorkerInv
    OBVIOUS
  <1> USE DEF Init
  <1>1. /\ Absent \in Record /\ Absent.pid = 0 /\ Absent.started = 0 /\ Absent.def = "absent"
        /\ NoRecords \in [Runtimes -> Record] /\ \A r \in Runtimes : NoRecords[r] = Absent
    BY RecordTypes DEF NoRecords
  <1>2. NoSecrets \in Secrets
    BY DEF NoSecrets, Secrets
  <1>3. /\ proc \in [Procs -> Process]
        /\ \A p \in Procs : proc[p].state = "none" /\ waiter[p] = "none"
    BY DEF Process
  <1>4. TypeOK
    <2>1. /\ file \in [Runtimes -> Record] /\ secrets \in [Runtimes -> Secrets]
          /\ snap \in [Actors -> [Runtimes -> Record]] /\ held \subseteq Actors
      BY <1>1, <1>2
    <2>2. /\ waiter \in [Procs -> {"none", "waiting", "reaped", "done", "failed"}]
          /\ manager \in [Procs -> 0..MaxTasks]
      BY WorkerAssumption
    <2>3. /\ spawned \in 0..MaxSpawns /\ tasks \in 0..MaxTasks /\ cand \in 0..MaxSpawns
          /\ faults \in 0..MaxFaults
      BY WorkerAssumption
    <2>4. /\ target \in Runtimes /\ newDef \in Defs /\ stage \in {"begin", "wait", "update"}
          /\ clobbered \in BOOLEAN /\ unaccounted \subseteq Procs /\ torn \subseteq Runtimes
      OBVIOUS
    <2>5. todo \in Seq(Steps)
      OBVIOUS
    <2>6. QED
      BY <1>3, <2>1, <2>2, <2>3, <2>4, <2>5 DEF TypeOK, Steps
  <1>5. Idle /\ Len(todo) = 0 /\ stage = "begin" /\ ~Dooming
    BY DEF Idle, Dooming, Dooms
  <1>6. StepsInOrder
    BY <1>5 DEF StepsInOrder, At, Ordered
  <1>7. Processes
    BY <1>3 DEF Processes
  <1>8. Records /\ ExitRecorded /\ StartableUnlessClobbered
    BY <1>1, <1>3, WorkerAssumption DEF Records, Consistent, ExitRecorded, StartableUnlessClobbered
  <1>9. LiveIsRecordedUnlessClobbered
    BY <1>3 DEF LiveIsRecordedUnlessClobbered, Present
  <1>10. TargetIsQuiet
    BY <1>5 DEF TargetIsQuiet, At
  <1>11. QED
    BY <1>4, <1>6, <1>7, <1>8, <1>9, <1>10 DEF WorkerInv, Sound

LEMMA WorkerStep == WorkerInv /\ [Next]_vars => WorkerInv'
  <1> SUFFICES ASSUME WorkerInv, [Next]_vars PROVE WorkerInv'
    OBVIOUS
  <1>1. ASSUME NEW r \in Runtimes, NEW d \in Defs, NEW auto \in BOOLEAN, BeginCreate(r, d, auto)
        PROVE  WorkerInv'
    BY <1>1, BeginCreateKeeps
  <1>2. ASSUME NEW r \in Runtimes, NEW steps \in Programs, BeginOther(r, steps) PROVE WorkerInv'
    BY <1>2, BeginOtherKeeps
  <1>3. CASE TaskStep
    <2>1. CASE StopLoad
      BY <2>1, StopLoadKeeps
    <2>2. CASE StopWait \/ KillTimesOut
      BY <2>2, StopWaitKeeps
    <2>3. CASE StartLoad \/ StartFails
      BY <2>3, StartLoadKeeps
    <2>4. CASE Spawn
      BY <2>4, SpawnKeeps
    <2>5. CASE InspectLoad
      BY <2>5, InspectLoadKeeps
    <2>6. CASE LoadFails
      BY <2>6, CrashKeeps
    <2>7. ASSUME NEW part \in {"files", "env"}, WriteSecret(part) \/ SecretFails(part) PROVE WorkerInv'
      BY <2>7, WriteSecretKeeps, SecretFailsKeeps
    <2>8. CASE Unlink
      BY <2>8, UnlinkKeeps
    <2>9. CASE TaskAcquire
      BY <2>9, AcquireKeeps DEF TaskAcquire, Actors
    <2>10. CASE TaskWrite \/ UpdateFails
      BY <2>10, TaskWriteKeeps
    <2>11. CASE RecordStart
      BY <2>11, RecordStartKeeps
    <2>12. CASE UndoStart
      BY <2>12, UndoStartKeeps
    <2>13. QED
      BY <1>3, <2>1, <2>2, <2>3, <2>4, <2>5, <2>6, <2>7, <2>8, <2>9, <2>10, <2>11, <2>12
      DEF TaskStep
  <1>4. ASSUME NEW p \in Procs,
               Exit(p) \/ Reap(p) \/ WaiterAcquire(p) \/ WaiterWrite(p) \/ WaiterFails(p)
        PROVE  WorkerInv'
    <2>1. CASE Exit(p) \/ Reap(p)
      BY <2>1, ExitKeeps
    <2>2. CASE WaiterAcquire(p)
      BY <2>2, AcquireKeeps DEF WaiterAcquire, Actors, Waiters
    <2>3. CASE WaiterWrite(p)
      BY <2>3, WaiterWriteKeeps
    <2>4. CASE WaiterFails(p)
      BY <2>4, WaiterFailsKeeps
    <2>5. QED
      BY <1>4, <2>1, <2>2, <2>3, <2>4
  <1>5. CASE Crash
    BY <1>5, CrashKeeps
  <1>6. CASE UNCHANGED vars
    <2>1. TypeOK'
      BY <1>6 DEF WorkerInv, TypeOK, vars, procVars, taskVars, secretVars
    <2>2. QED
      BY <1>6, <2>1, OnlyReads DEF vars
  <1>7. QED
    BY <1>1, <1>2, <1>3, <1>4, <1>5, <1>6 DEF Next

\* The inductive invariant: where the task is, that records are consistent, and that
\* nothing of the target runs when its record is about to lose its process.
THEOREM WorkerInvariant == Spec => []WorkerInv
  BY InitWorker, WorkerStep, PTL DEF Spec

\* Types, for any number of runtimes, definitions, tasks, processes and faults.
THEOREM WorkerTypes == Spec => []TypeOK
  <1>1. WorkerInv => TypeOK
    BY DEF WorkerInv
  <1>2. QED
    BY <1>1, WorkerInvariant, PTL

\* As long as no update has overwritten what it has not read, no process runs behind
\* the agent's back: the record of its runtime names it and holds the definition it
\* runs, through stops, starts, creates, failing stores, crashes and waiters that
\* come late (stop, start, update and waitForProcess of worker_process.go).
THEOREM LiveRecorded == Spec => []LiveIsRecordedUnlessClobbered
  <1>1. WorkerInv => LiveIsRecordedUnlessClobbered
    BY DEF WorkerInv, Sound, LiveIsRecordedUnlessClobbered
  <1>2. QED
    BY <1>1, WorkerInvariant, PTL

\* As long as no update has overwritten what it has not read, the exit of a process
\* whose waiter has finished is on record (waitForProcess).
THEOREM ExitsRecorded == Spec => []ExitRecordedUnlessClobbered
  <1>1. WorkerInv => ExitRecordedUnlessClobbered
    BY DEF WorkerInv, Sound, ExitRecordedUnlessClobbered
  <1>2. QED
    BY <1>1, WorkerInvariant, PTL

\* As long as no update has overwritten what it has not read, a runtime on record has
\* the secrets its record names, unless a create was cut off (create, delete).
THEOREM Startable == Spec => []StartableUnlessClobbered
  <1>1. WorkerInv => StartableUnlessClobbered
    BY DEF WorkerInv, Sound, StartableUnlessClobbered
  <1>2. QED
    BY <1>1, WorkerInvariant, PTL
=============================================================================
