------------------------- MODULE WorkerTasksProofs -------------------------
(***************************************************************************)
(* What the tasks of worker mode guarantee: first the logs of processes    *)
(* and the buffers of execs (WorkerOutput), for any limits, any number of  *)
(* starts and execs and any number of faults, then the files of a runtime  *)
(* (WorkerFilesystem), for any names, any depth and any number of errors   *)
(* and deaths, and last the loop that has both (WorkerTasks).              *)
(***************************************************************************)
EXTENDS WorkerTasks, SequenceTheorems, WellFoundedInduction, NaturalsInduction, TLAPS

-----------------------------------------------------------------------------
(***************************************************************************)
(* Logs and buffers.  The argument: a log that no two have had open at     *)
(* once is written by its only opener, whose room and the length of the    *)
(* file add up to the limit.                                               *)
(***************************************************************************)

Opening == {"remove", "rename", "truncate", "open"}
Open == {"spawn", "record", "undo", "watch"}

\* What each place of the task loop may rely on.
Places ==
    /\ pc # "idle" => spawned \in Spawns /\ diagnostic = <<>>
    /\ pc \in {"remove", "rename"} \union Open => current \in Spawns
    /\ pc = "truncate" => backup \in Spawns

\* The room of the only log that has a file open is what the file lacks.
RoomIsTrue ==
    \A i \in Spawns \ shared :
        /\ Len(content[i]) <= Limit
        /\ \A s \in Spawns : writing[s] = i => remaining[s] = Limit - Len(content[i])
        /\ \A s, t \in Spawns : writing[s] = i /\ writing[t] = i => s = t

\* The file, from where the last start found its end, is the start's own.
TailIsOwn ==
    pc \in Open /\ current \notin shared =>
        /\ \A s \in Spawns : writing[s] = current => s = spawned
        /\ offset <= Len(content[current])
        /\ \A k \in offset + 1..Len(content[current]) : content[current][k] = spawned

\* Nobody holds the pipe of what has not been started.
NotYet ==
    \A s \in Spawns :
        s > spawned \/ (s = spawned /\ pc \in Opening \union {"spawn"}) =>
            holders[s] = {} /\ copy[s] = "none"

OutputInv ==
    /\ TypeOK
    /\ Places /\ RoomIsTrue /\ TailIsOwn /\ NotYet
    /\ DiagnosticIsOwn /\ CutIsHarmless

LEMMA InitInv == Init => OutputInv
  <1> SUFFICES ASSUME Init PROVE OutputInv
    OBVIOUS
  <1> USE OutputAssumption DEF Init, Spawns
  <1>1. TypeOK
    BY DEF TypeOK, LogTypes, PipeTypes, LoopTypes, Files, Holders, NoOutput
  <1>2. Places /\ TailIsOwn /\ NotYet
    BY DEF Places, TailIsOwn, NotYet, Open, Opening
  <1>3. RoomIsTrue
    BY DEF RoomIsTrue
  <1>4. DiagnosticIsOwn /\ CutIsHarmless
    BY DEF DiagnosticIsOwn, CutIsHarmless, NoOutput
  <1>5. QED
    BY <1>1, <1>2, <1>3, <1>4 DEF OutputInv

\* Logs that are only closed leave the others' room as it is.
LEMMA ClosingKeepsRoom ==
  ASSUME LogTypes, RoomIsTrue, UNCHANGED <<content, shared>>,
         \A t \in Spawns : writing'[t] # 0 => writing'[t] = writing[t] /\ remaining'[t] = remaining[t]
  PROVE  RoomIsTrue'
  <1> SUFFICES ASSUME NEW i \in Spawns \ shared
               PROVE  /\ Len(content[i]) <= Limit
                      /\ \A s \in Spawns : writing'[s] = i => remaining'[s] = Limit - Len(content[i])
                      /\ \A s, t \in Spawns : writing'[s] = i /\ writing'[t] = i => s = t
    BY DEF RoomIsTrue
  <1>1. i # 0
    BY OutputAssumption DEF Spawns
  <1>2. \A s \in Spawns : writing'[s] = i => writing[s] = i /\ remaining'[s] = remaining[s]
    BY <1>1
  <1>3. QED
    BY <1>2 DEF RoomIsTrue

LEMMA ClosedLog ==
  ASSUME LogTypes, NEW s \in Spawns, Closed(s)
  PROVE  /\ writing' \in [Spawns -> Files] /\ remaining' \in [Spawns -> Int]
         /\ \A t \in Spawns : writing'[t] # 0 =>
               t # s /\ writing'[t] = writing[t] /\ remaining'[t] = remaining[t]
  BY OutputAssumption DEF LogTypes, Closed, Files

\* What n more bytes of s make of its file.
LEMMA AppendedBytes ==
  ASSUME LogTypes, NEW s \in Spawns, writing[s] # 0, NEW n \in Nat, Appended(s, n)
  PROVE  /\ writing[s] \in Spawns
         /\ content' \in [Spawns -> Seq(Spawns)]
         /\ Len(content[writing[s]]) \in Nat
         /\ Len(content'[writing[s]]) = Len(content[writing[s]]) + n
         /\ \A k \in 1..Len(content[writing[s]]) :
               content'[writing[s]][k] = content[writing[s]][k]
         /\ \A k \in Len(content[writing[s]]) + 1..Len(content[writing[s]]) + n :
               content'[writing[s]][k] = s
         /\ \A i \in Spawns \ {writing[s]} : content'[i] = content[i]
  <1> DEFINE f == writing[s]
  <1>1. f \in Spawns
    BY OutputAssumption DEF LogTypes, Files, Spawns
  <1>2. content[f] \in Seq(Spawns)
    BY <1>1 DEF LogTypes
  <1>3. Run(n, s) \in Seq(Spawns) /\ Len(Run(n, s)) = n /\ \A k \in 1..n : Run(n, s)[k] = s
    BY DEF Run
  <1>4. content' = [content EXCEPT ![f] = content[f] \o Run(n, s)]
    BY DEF Appended
  <1>5. content'[f] = content[f] \o Run(n, s)
    BY <1>1, <1>4 DEF LogTypes
  <1>6. content[f] \o Run(n, s) \in Seq(Spawns)
    BY <1>2, <1>3
  <1>7. content' \in [Spawns -> Seq(Spawns)]
    BY <1>1, <1>4, <1>6 DEF LogTypes
  <1>8. Len(content[f]) \in Nat /\ Len(content'[f]) = Len(content[f]) + n
    <2>1. Len(content[f]) \in Nat
      BY <1>2
    <2>2. Len(content[f] \o Run(n, s)) = Len(content[f]) + Len(Run(n, s))
      BY <1>2, <1>3
    <2>3. QED
      BY <1>3, <1>5, <2>1, <2>2
  <1>9. \A k \in 1..Len(content[f]) : content'[f][k] = content[f][k]
    BY <1>2, <1>3, <1>5
  <1>10. \A k \in Len(content[f]) + 1..Len(content[f]) + n : content'[f][k] = s
    <2> SUFFICES ASSUME NEW k \in Len(content[f]) + 1..Len(content[f]) + n
                 PROVE  content'[f][k] = s
      OBVIOUS
    <2>1. k - Len(content[f]) \in 1..n /\ k \in 1..Len(content[f]) + n /\ k > Len(content[f])
      BY <1>8
    <2>2. content'[f][k] = Run(n, s)[k - Len(content[f])]
      BY <1>2, <1>3, <1>5, <1>8, <2>1
    <2>3. QED
      BY <1>3, <2>1, <2>2
  <1>11. \A i \in Spawns \ {f} : content'[i] = content[i]
    BY <1>4 DEF LogTypes
  <1>12. QED
    BY <1>1, <1>7, <1>8, <1>9, <1>10, <1>11

\* A write that respects the room keeps what is known of the files.
LEMMA AppendInv ==
  ASSUME OutputInv, NEW s \in Spawns, writing[s] # 0,
         NEW n \in Nat, n <= Most(remaining[s], 0), Appended(s, n),
         UNCHANGED <<current, backup, pc, spawned, writing, offset, shared, diagnostic>>
  PROVE  LogTypes' /\ RoomIsTrue' /\ TailIsOwn'
  <1> DEFINE f == writing[s]
  <1>1. LogTypes /\ PipeTypes /\ LoopTypes /\ Places /\ RoomIsTrue /\ TailIsOwn
    BY DEF OutputInv, TypeOK
  <1>2. /\ f \in Spawns
        /\ content' \in [Spawns -> Seq(Spawns)]
        /\ Len(content[f]) \in Nat
        /\ Len(content'[f]) = Len(content[f]) + n
        /\ \A k \in 1..Len(content[f]) : content'[f][k] = content[f][k]
        /\ \A k \in Len(content[f]) + 1..Len(content[f]) + n : content'[f][k] = s
        /\ \A i \in Spawns \ {f} : content'[i] = content[i]
    BY <1>1, AppendedBytes
  <1>3. /\ remaining' \in [Spawns -> Int]
        /\ remaining'[s] = remaining[s] - n
        /\ \A t \in Spawns \ {s} : remaining'[t] = remaining[t]
    BY <1>1 DEF LogTypes, Appended
  <1>4. LogTypes'
    BY <1>1, <1>2, <1>3 DEF LogTypes
  <1>5. RoomIsTrue'
    <2> SUFFICES ASSUME NEW i \in Spawns \ shared
                 PROVE  /\ Len(content'[i]) <= Limit
                        /\ \A t \in Spawns : writing[t] = i => remaining'[t] = Limit - Len(content'[i])
                        /\ \A t, u \in Spawns : writing[t] = i /\ writing[u] = i => t = u
      BY DEF RoomIsTrue
    <2>1. /\ Len(content[i]) <= Limit
          /\ \A t \in Spawns : writing[t] = i => remaining[t] = Limit - Len(content[i])
          /\ \A t, u \in Spawns : writing[t] = i /\ writing[u] = i => t = u
      BY <1>1 DEF RoomIsTrue
    <2>2. CASE i = f
      <3>1. remaining[s] = Limit - Len(content[f]) /\ remaining[s] \in Int
        BY <2>1, <2>2, <1>1 DEF LogTypes
      <3>2. n <= remaining[s]
        BY <2>1, <2>2, <3>1, <1>2, OutputAssumption DEF Most
      <3>3. \A t \in Spawns : writing[t] = i => t = s
        BY <2>1, <2>2
      <3>4. Len(content'[i]) <= Limit
        BY <1>2, <2>2, <3>1, <3>2, OutputAssumption
      <3>5. \A t \in Spawns : writing[t] = i => remaining'[t] = Limit - Len(content'[i])
        <4>1. remaining'[s] = Limit - Len(content'[f])
          BY <1>2, <1>3, <3>1, OutputAssumption
        <4>2. QED
          BY <2>2, <3>3, <4>1
      <3>6. QED
        BY <2>1, <3>4, <3>5
    <2>3. CASE i # f
      BY <1>2, <1>3, <2>1, <2>3
    <2>4. QED
      BY <2>2, <2>3
  <1>6. TailIsOwn'
    <2> SUFFICES ASSUME pc \in Open, current \notin shared
                 PROVE  /\ \A t \in Spawns : writing[t] = current => t = spawned
                        /\ offset <= Len(content'[current])
                        /\ \A k \in offset + 1..Len(content'[current]) :
                               content'[current][k] = spawned
      BY DEF TailIsOwn
    <2>1. /\ \A t \in Spawns : writing[t] = current => t = spawned
          /\ offset <= Len(content[current]) /\ offset \in Nat
          /\ \A k \in offset + 1..Len(content[current]) : content[current][k] = spawned
          /\ current \in Spawns
      BY <1>1 DEF TailIsOwn, Places, LogTypes
    <2>2. CASE current = f
      <3>1. s = spawned
        BY <2>1, <2>2
      <3>2. offset <= Len(content'[f])
        BY <1>2, <2>1, <2>2
      <3>3. ASSUME NEW k \in offset + 1..Len(content'[f])
            PROVE  content'[f][k] = spawned
        <4>1. \/ k \in 1..Len(content[f]) /\ k \in offset + 1..Len(content[f])
              \/ k \in Len(content[f]) + 1..Len(content[f]) + n
          BY <1>2, <2>1
        <4>2. QED
          BY <1>2, <2>1, <2>2, <3>1, <4>1
      <3>4. QED
        BY <2>1, <2>2, <3>2, <3>3
    <2>3. CASE current # f
      BY <1>2, <2>1, <2>3
    <2>4. QED
      BY <2>2, <2>3
  <1>7. QED
    BY <1>4, <1>5, <1>6

LEMMA StartLogInv ==
  ASSUME OutputInv, StartLog
  PROVE  OutputInv'
  <1> USE OutputAssumption DEF OutputInv
  <1>1. TypeOK'
    <2>1. LogTypes'
      BY DEF TypeOK, LogTypes, StartLog, fileVars, logVars
    <2>2. PipeTypes'
      BY DEF TypeOK, PipeTypes, Holders, LoopTypes, Spawns, StartLog, pipeVars
    <2>3. LoopTypes'
      BY DEF TypeOK, LoopTypes, StartLog
    <2>4. QED
      BY <2>1, <2>2, <2>3 DEF TypeOK
  <1>2. Places'
    BY DEF TypeOK, Places, Open, LogTypes, LoopTypes, Files, Spawns, StartLog, Full, fileVars
  <1>3. RoomIsTrue'
    BY DEF RoomIsTrue, StartLog, fileVars, logVars
  <1>4. TailIsOwn'
    BY DEF TailIsOwn, Open, StartLog, fileVars, logVars
  <1>5. NotYet'
    <2> SUFFICES ASSUME NEW s \in Spawns, s >= spawned + 1
                 PROVE  holders[s] = {} /\ copy[s] = "none"
      BY DEF TypeOK, LoopTypes, Spawns, NotYet, StartLog, fileVars, logVars, pipeVars
    <2>1. s > spawned
      BY DEF TypeOK, LoopTypes, Spawns
    <2>2. QED
      BY <2>1 DEF NotYet, TypeOK, LoopTypes, Spawns
  <1>6. DiagnosticIsOwn'
    BY DEF DiagnosticIsOwn, StartLog, fileVars, logVars
  <1>7. CutIsHarmless'
    BY DEF CutIsHarmless, StartLog, pipeVars
  <1>8. QED
    BY <1>1, <1>2, <1>3, <1>4, <1>5, <1>6, <1>7

LEMMA RemoveBackupInv ==
  ASSUME OutputInv, RemoveBackup
  PROVE  OutputInv'
  <1> USE OutputAssumption DEF OutputInv
  <1>1. TypeOK'
    <2>1. LogTypes'
      BY DEF TypeOK, LogTypes, Places, Files, Spawns, RemoveBackup, Go, logVars
    <2>2. PipeTypes'
      BY DEF TypeOK, PipeTypes, RemoveBackup, Go, pipeVars
    <2>3. LoopTypes'
      BY DEF TypeOK, LoopTypes, RemoveBackup, Go
    <2>4. QED
      BY <2>1, <2>2, <2>3 DEF TypeOK
  <1>2. Places'
    BY DEF TypeOK, Places, RemoveBackup, Go
  <1>3. RoomIsTrue'
    BY DEF RoomIsTrue, RemoveBackup, Go, logVars
  <1>4. TailIsOwn'
    BY DEF TailIsOwn, Open, RemoveBackup, Go, logVars
  <1>5. NotYet'
    BY DEF NotYet, Opening, RemoveBackup, Go, pipeVars
  <1>6. DiagnosticIsOwn'
    BY DEF DiagnosticIsOwn, RemoveBackup, Go, logVars
  <1>7. CutIsHarmless'
    BY DEF CutIsHarmless, RemoveBackup, Go, pipeVars
  <1>8. QED
    BY <1>1, <1>2, <1>3, <1>4, <1>5, <1>6, <1>7

LEMMA RenameLogInv ==
  ASSUME OutputInv, RenameLog
  PROVE  OutputInv'
  <1> USE OutputAssumption DEF OutputInv
  <1>1. TypeOK'
    <2>1. LogTypes'
      BY DEF TypeOK, LogTypes, Places, Files, Spawns, RenameLog, Go, logVars
    <2>2. PipeTypes'
      BY DEF TypeOK, PipeTypes, RenameLog, Go, pipeVars
    <2>3. LoopTypes'
      BY DEF TypeOK, LoopTypes, RenameLog, Go
    <2>4. QED
      BY <2>1, <2>2, <2>3 DEF TypeOK
  <1>2. Places'
    BY DEF TypeOK, Places, Open, RenameLog, Go
  <1>3. RoomIsTrue'
    BY DEF RoomIsTrue, RenameLog, Go, logVars
  <1>4. TailIsOwn'
    BY DEF TailIsOwn, Open, RenameLog, Go, logVars
  <1>5. NotYet'
    BY DEF NotYet, Opening, RenameLog, Go, pipeVars
  <1>6. DiagnosticIsOwn'
    BY DEF DiagnosticIsOwn, Places, Open, RenameLog, Go, logVars
  <1>7. CutIsHarmless'
    BY DEF CutIsHarmless, RenameLog, Go, pipeVars
  <1>8. QED
    BY <1>1, <1>2, <1>3, <1>4, <1>5, <1>6, <1>7

LEMMA TruncateBackupInv ==
  ASSUME OutputInv, TruncateBackup
  PROVE  OutputInv'
  <1> USE OutputAssumption DEF OutputInv
  <1>1. TypeOK'
    <2>1. LogTypes'
      <3>1. backup \in Spawns /\ content[backup] \in Seq(Spawns)
        BY DEF TypeOK, LogTypes, Places, TruncateBackup, Go
      <3>2. SubSeq(content[backup], 1, Least(Len(content[backup]), Limit)) \in Seq(Spawns)
        BY <3>1 DEF Least
      <3>3. QED
        BY <3>1, <3>2 DEF TypeOK, LogTypes, TruncateBackup, logVars
    <2>2. PipeTypes'
      BY DEF TypeOK, PipeTypes, TruncateBackup, Go, pipeVars
    <2>3. LoopTypes'
      BY DEF TypeOK, LoopTypes, TruncateBackup, Go
    <2>4. QED
      BY <2>1, <2>2, <2>3 DEF TypeOK
  <1>2. Places'
    BY DEF TypeOK, Places, Open, TruncateBackup, Go
  <1>3. RoomIsTrue'
    <2>1. backup \in Spawns /\ content[backup] \in Seq(Spawns) /\ Len(content[backup]) \in Nat
      BY DEF TypeOK, LogTypes, Places, TruncateBackup, Go
    <2>2. \A i \in Spawns \ shared : Len(content'[i]) = Len(content[i])
      <3> SUFFICES ASSUME NEW i \in Spawns \ shared
                   PROVE  Len(content'[i]) = Len(content[i])
        OBVIOUS
      <3>1. CASE i = backup
        <4>1. Len(content[backup]) <= Limit
          BY <3>1 DEF RoomIsTrue
        <4>2. content'[backup] = SubSeq(content[backup], 1, Len(content[backup]))
          BY <2>1, <4>1 DEF TruncateBackup, TypeOK, LogTypes, Least
        <4>3. QED
          BY <2>1, <3>1, <4>2
      <3>2. CASE i # backup
        BY <3>2 DEF TruncateBackup, TypeOK, LogTypes
      <3>3. QED
        BY <3>1, <3>2
    <2>3. QED
      BY <2>2 DEF RoomIsTrue, TruncateBackup, logVars
  <1>4. TailIsOwn'
    BY DEF TailIsOwn, Open, TruncateBackup, Go, logVars
  <1>5. NotYet'
    BY DEF NotYet, Opening, TruncateBackup, Go, pipeVars
  <1>6. DiagnosticIsOwn'
    BY DEF DiagnosticIsOwn, TruncateBackup, Go, logVars
  <1>7. CutIsHarmless'
    BY DEF CutIsHarmless, TruncateBackup, Go, pipeVars
  <1>8. QED
    BY <1>1, <1>2, <1>3, <1>4, <1>5, <1>6, <1>7

LEMMA OpenLogInv ==
  ASSUME OutputInv, OpenLog
  PROVE  OutputInv'
  <1> USE OutputAssumption DEF OutputInv
  <1>1. TypeOK'
    <2>1. LogTypes'
      <3> DEFINE i == IF current = 0 THEN spawned ELSE current
      <3>1. spawned \in Spawns /\ i \in Spawns
        BY DEF TypeOK, LogTypes, Places, OpenLog, Go, Files, Spawns
      <3>2. Len(content[i]) \in Nat
        BY <3>1 DEF TypeOK, LogTypes
      <3>3. /\ current' = i /\ offset' = Len(content[i])
            /\ writing' = [writing EXCEPT ![spawned] = i]
            /\ remaining' = [remaining EXCEPT ![spawned] = Limit - Len(content[i])]
            /\ shared' \subseteq shared \union {i}
            /\ UNCHANGED <<backup, content, diagnostic>>
        BY DEF OpenLog, Room
      <3> HIDE DEF i
      <3>4. i \in Files /\ Limit - Len(content[i]) \in Int
        BY <3>1, <3>2 DEF Spawns, Files
      <3>5. QED
        BY <3>1, <3>2, <3>3, <3>4 DEF TypeOK, LogTypes
    <2>2. PipeTypes'
      BY DEF TypeOK, PipeTypes, OpenLog, Go, pipeVars
    <2>3. LoopTypes'
      BY DEF TypeOK, LoopTypes, OpenLog, Go
    <2>4. QED
      BY <2>1, <2>2, <2>3 DEF TypeOK
  <1>2. Places'
    BY DEF TypeOK, Places, Open, LogTypes, Files, Spawns, OpenLog, Go
  <1>3. RoomIsTrue'
    <2> DEFINE i == IF current = 0 THEN spawned ELSE current
    <2>1. i \in Spawns /\ spawned \in Spawns /\ content' = content /\ Len(content[i]) \in Nat
      BY DEF TypeOK, LogTypes, Places, OpenLog, Go, Files, Spawns
    <2>2. /\ writing' = [writing EXCEPT ![spawned] = i]
          /\ remaining' = [remaining EXCEPT ![spawned] = Limit - Len(content[i])]
      BY DEF OpenLog, Room
    <2>3. /\ writing'[spawned] = i /\ remaining'[spawned] = Limit - Len(content[i])
          /\ \A s \in Spawns \ {spawned} : writing'[s] = writing[s] /\ remaining'[s] = remaining[s]
      BY <2>1, <2>2 DEF TypeOK, LogTypes
    <2>4. shared \subseteq shared' /\ (i \notin shared' => \A s \in Spawns : writing[s] # i)
      BY DEF OpenLog
    <2> SUFFICES ASSUME NEW j \in Spawns \ shared'
                 PROVE  /\ Len(content[j]) <= Limit
                        /\ \A s \in Spawns : writing'[s] = j => remaining'[s] = Limit - Len(content[j])
                        /\ \A s, t \in Spawns : writing'[s] = j /\ writing'[t] = j => s = t
      BY <2>1 DEF RoomIsTrue
    <2>5. /\ Len(content[j]) <= Limit
          /\ \A s \in Spawns : writing[s] = j => remaining[s] = Limit - Len(content[j])
          /\ \A s, t \in Spawns : writing[s] = j /\ writing[t] = j => s = t
      BY <2>4 DEF RoomIsTrue
    <2>6. CASE j = i
      <3>1. \A s \in Spawns : writing'[s] = j => s = spawned
        BY <2>3, <2>4, <2>6
      <3>2. QED
        BY <2>3, <2>5, <2>6, <3>1
    <2>7. CASE j # i
      <3>1. \A s \in Spawns : writing'[s] = j => s # spawned
        BY <2>3, <2>7
      <3>2. QED
        BY <2>3, <2>5, <3>1
    <2>8. QED
      BY <2>6, <2>7
  <1>4. TailIsOwn'
    BY DEF TailIsOwn, OpenLog, Go
  <1>5. NotYet'
    BY DEF NotYet, Opening, OpenLog, Go, pipeVars
  <1>6. DiagnosticIsOwn'
    BY DEF DiagnosticIsOwn, Places, Open, OpenLog, Go
  <1>7. CutIsHarmless'
    BY DEF CutIsHarmless, OpenLog, Go, pipeVars
  <1>8. QED
    BY <1>1, <1>2, <1>3, <1>4, <1>5, <1>6, <1>7

LEMMA OpenFailsInv ==
  ASSUME OutputInv, OpenFails
  PROVE  OutputInv'
  <1> USE OutputAssumption DEF OutputInv
  <1>1. TypeOK'
    <2>1. LogTypes'
      BY DEF TypeOK, LogTypes, OpenFails, fileVars, logVars
    <2>2. PipeTypes'
      BY DEF TypeOK, PipeTypes, OpenFails, pipeVars
    <2>3. LoopTypes'
      BY DEF TypeOK, LoopTypes, OpenFails, Faulty
    <2>4. QED
      BY <2>1, <2>2, <2>3 DEF TypeOK
  <1>2. Places'
    BY DEF TypeOK, Places, Open, OpenFails, fileVars
  <1>3. RoomIsTrue'
    BY DEF RoomIsTrue, OpenFails, fileVars, logVars
  <1>4. TailIsOwn'
    BY DEF TailIsOwn, Open, OpenFails, fileVars, logVars
  <1>5. NotYet'
    BY DEF NotYet, Opening, OpenFails, pipeVars
  <1>6. DiagnosticIsOwn'
    BY DEF DiagnosticIsOwn, OpenFails, fileVars, logVars
  <1>7. CutIsHarmless'
    BY DEF CutIsHarmless, OpenFails, pipeVars
  <1>8. QED
    BY <1>1, <1>2, <1>3, <1>4, <1>5, <1>6, <1>7

LEMMA SpawnInv ==
  ASSUME OutputInv, Spawn
  PROVE  OutputInv'
  <1> USE OutputAssumption DEF OutputInv
  <1>1. TypeOK'
    <2>1. LogTypes'
      BY DEF TypeOK, LogTypes, Spawn, Go, fileVars, logVars
    <2>2. PipeTypes'
      BY DEF TypeOK, PipeTypes, Holders, LoopTypes, Spawns, Spawn, Go
    <2>3. LoopTypes'
      BY DEF TypeOK, LoopTypes, Spawn, Go
    <2>4. QED
      BY <2>1, <2>2, <2>3 DEF TypeOK
  <1>2. Places'
    BY DEF TypeOK, Places, Open, Spawn, Go, fileVars
  <1>3. RoomIsTrue'
    BY DEF RoomIsTrue, Spawn, Go, fileVars, logVars
  <1>4. TailIsOwn'
    BY DEF TailIsOwn, Open, Spawn, Go, fileVars, logVars
  <1>5. NotYet'
    BY DEF NotYet, Opening, TypeOK, LoopTypes, PipeTypes, Spawns, Spawn, Go
  <1>6. DiagnosticIsOwn'
    BY DEF DiagnosticIsOwn, Spawn, Go, fileVars, logVars
  <1>7. CutIsHarmless'
    BY DEF CutIsHarmless, TypeOK, PipeTypes, LoopTypes, Spawn, Go
  <1>8. QED
    BY <1>1, <1>2, <1>3, <1>4, <1>5, <1>6, <1>7

LEMMA SpawnFailsInv ==
  ASSUME OutputInv, SpawnFails
  PROVE  OutputInv'
  <1> USE OutputAssumption DEF OutputInv
  <1>1. TypeOK'
    <2>1. LogTypes'
      BY DEF TypeOK, LogTypes, Places, Files, Spawns, SpawnFails, Go, Closed, fileVars
    <2>2. PipeTypes'
      BY DEF TypeOK, PipeTypes, SpawnFails, Go, Closed
    <2>3. LoopTypes'
      BY DEF TypeOK, LoopTypes, SpawnFails, Faulty, Go
    <2>4. QED
      BY <2>1, <2>2, <2>3 DEF TypeOK
  <1>2. Places'
    BY DEF TypeOK, Places, Open, SpawnFails, Go, fileVars
  <1>3. RoomIsTrue'
    BY DEF RoomIsTrue, TypeOK, LogTypes, Spawns, SpawnFails, Go, Closed, fileVars
  <1>4. TailIsOwn'
    BY DEF TailIsOwn, Open, SpawnFails, Go, Closed, fileVars
  <1>5. NotYet'
    BY DEF NotYet, Opening, TypeOK, LoopTypes, PipeTypes, Spawns, SpawnFails, Go, Closed
  <1>6. DiagnosticIsOwn'
    BY DEF DiagnosticIsOwn, SpawnFails, Go, fileVars
  <1>7. CutIsHarmless'
    BY DEF CutIsHarmless, TypeOK, PipeTypes, LoopTypes, NotYet, Opening, Spawns, Places,
           SpawnFails, Go, Closed
  <1>8. QED
    BY <1>1, <1>2, <1>3, <1>4, <1>5, <1>6, <1>7

LEMMA RecordInv ==
  ASSUME OutputInv, Record
  PROVE  OutputInv'
  <1> USE OutputAssumption DEF OutputInv
  <1>1. TypeOK'
    <2>1. LogTypes'
      BY DEF TypeOK, LogTypes, Record, Go, fileVars, logVars
    <2>2. PipeTypes'
      BY DEF TypeOK, PipeTypes, Record, Go, pipeVars
    <2>3. LoopTypes'
      BY DEF TypeOK, LoopTypes, Record, Go
    <2>4. QED
      BY <2>1, <2>2, <2>3 DEF TypeOK
  <1>2. Places'
    BY DEF TypeOK, Places, Open, Record, Go, fileVars
  <1>3. RoomIsTrue'
    BY DEF RoomIsTrue, Record, Go, fileVars, logVars
  <1>4. TailIsOwn'
    BY DEF TailIsOwn, Open, Record, Go, fileVars, logVars
  <1>5. NotYet'
    BY DEF NotYet, Opening, Record, Go, pipeVars
  <1>6. DiagnosticIsOwn'
    BY DEF DiagnosticIsOwn, Record, Go, fileVars, logVars
  <1>7. CutIsHarmless'
    BY DEF CutIsHarmless, Record, Go, pipeVars
  <1>8. QED
    BY <1>1, <1>2, <1>3, <1>4, <1>5, <1>6, <1>7

LEMMA LostHolders ==
  ASSUME NEW held \in SUBSET Holders
  PROVE  Lost(held) \in SUBSET Holders /\ (held = {} <=> Lost(held) = {})
  BY DEF Lost, Holders

LEMMA SurvivorHolds ==
  ASSUME PipeTypes, NEW s \in Spawns, KillSurvived(s)
  PROVE  /\ holders' \in [Spawns -> SUBSET Holders]
         /\ \A t \in Spawns : holders[t] = {} => holders'[t] = {}
  <1>1. holders \in [Spawns -> SUBSET Holders]
    BY DEF PipeTypes
  <1>2. /\ holders' = [holders EXCEPT ![s] = Lost(holders[s]) \ {"member"}]
        /\ Lost(holders[s]) \in SUBSET Holders
        /\ holders[s] = {} => Lost(holders[s]) = {}
    BY <1>1, LostHolders DEF KillSurvived
  <1>3. QED
    BY <1>1, <1>2

LEMMA RecordFailsInv ==
  ASSUME OutputInv, RecordFails
  PROVE  OutputInv'
  <1> USE OutputAssumption DEF OutputInv
  <1>0. /\ holders' \in [Spawns -> SUBSET Holders]
        /\ \A t \in Spawns : holders[t] = {} => holders'[t] = {}
    <2>1. CASE KillGroup
      BY <2>1 DEF TypeOK, PipeTypes, KillGroup
    <2>2. CASE KillSurvived(spawned)
      <3>1. spawned \in Spawns
        BY DEF RecordFails, Go, TypeOK, LoopTypes, Places, Open, Spawns
      <3>2. QED
        BY <2>2, <3>1, SurvivorHolds DEF TypeOK
    <2>3. QED
      BY <2>1, <2>2 DEF RecordFails
  <1>1. TypeOK'
    <2>1. LogTypes'
      BY DEF TypeOK, LogTypes, RecordFails, Go, fileVars, logVars
    <2>2. PipeTypes'
      BY <1>0 DEF TypeOK, PipeTypes, RecordFails
    <2>3. LoopTypes'
      BY DEF TypeOK, LoopTypes, RecordFails, Faulty, Go
    <2>4. QED
      BY <2>1, <2>2, <2>3 DEF TypeOK
  <1>2. Places'
    BY DEF TypeOK, Places, Open, RecordFails, Go, fileVars
  <1>3. RoomIsTrue'
    BY DEF RoomIsTrue, RecordFails, Go, fileVars, logVars
  <1>4. TailIsOwn'
    BY DEF TailIsOwn, Open, RecordFails, Go, fileVars, logVars
  <1>5. NotYet'
    BY <1>0 DEF NotYet, Opening, RecordFails, Go
  <1>6. DiagnosticIsOwn'
    BY DEF DiagnosticIsOwn, RecordFails, Go, fileVars, logVars
  <1>7. CutIsHarmless'
    BY <1>0 DEF CutIsHarmless, RecordFails, Go
  <1>8. QED
    BY <1>1, <1>2, <1>3, <1>4, <1>5, <1>6, <1>7

LEMMA UndoneInv ==
  ASSUME OutputInv, Undone
  PROVE  OutputInv'
  <1> USE OutputAssumption DEF OutputInv
  <1>1. TypeOK'
    <2>1. LogTypes'
      BY DEF TypeOK, LogTypes, Places, Files, Spawns, Undone, Go, Closed, fileVars
    <2>2. PipeTypes'
      BY DEF TypeOK, PipeTypes, Undone, Go, Closed
    <2>3. LoopTypes'
      BY DEF TypeOK, LoopTypes, Undone, Go
    <2>4. QED
      BY <2>1, <2>2, <2>3 DEF TypeOK
  <1>2. Places'
    BY DEF TypeOK, Places, Open, Undone, Go, fileVars
  <1>3. RoomIsTrue'
    BY DEF RoomIsTrue, TypeOK, LogTypes, Spawns, Undone, Go, Closed, fileVars
  <1>4. TailIsOwn'
    BY DEF TailIsOwn, Open, Undone, Go, Closed, fileVars
  <1>5. NotYet'
    BY DEF NotYet, Opening, TypeOK, LoopTypes, PipeTypes, Spawns, Undone, Go, WaitReturns,
           Closed
  <1>6. DiagnosticIsOwn'
    BY DEF DiagnosticIsOwn, Undone, Go, fileVars
  <1>7. CutIsHarmless'
    BY DEF CutIsHarmless, Undone, Go, WaitReturns, Closed
  <1>8. QED
    BY <1>1, <1>2, <1>3, <1>4, <1>5, <1>6, <1>7

LEMMA ReapInv ==
  ASSUME OutputInv, NEW s \in Spawns, Reap(s)
  PROVE  OutputInv'
  <1> USE OutputAssumption DEF OutputInv
  <1>1. TypeOK'
    <2>1. LogTypes'
      BY ClosedLog DEF TypeOK, LogTypes, Reap, fileVars
    <2>2. PipeTypes'
      BY DEF TypeOK, PipeTypes, Reap, Closed
    <2>3. LoopTypes'
      BY DEF TypeOK, LoopTypes, Reap
    <2>4. QED
      BY <2>1, <2>2, <2>3 DEF TypeOK
  <1>2. Places'
    BY DEF TypeOK, Places, Reap, fileVars
  <1>3. RoomIsTrue'
    BY ClosedLog, ClosingKeepsRoom DEF TypeOK, Reap, fileVars
  <1>4. TailIsOwn'
    <2>1. \A t \in Spawns : writing'[t] # 0 => writing'[t] = writing[t]
      BY ClosedLog DEF TypeOK, Reap
    <2>2. pc \in Open => current # 0
      BY DEF Places, Spawns
    <2>3. QED
      BY <2>1, <2>2 DEF TailIsOwn, Reap, fileVars
  <1>5. NotYet'
    BY DEF NotYet, Reap, WaitReturns, Closed
  <1>6. DiagnosticIsOwn'
    BY DEF DiagnosticIsOwn, Reap, fileVars
  <1>7. CutIsHarmless'
    BY DEF CutIsHarmless, Reap, WaitReturns, Closed
  <1>8. QED
    BY <1>1, <1>2, <1>3, <1>4, <1>5, <1>6, <1>7

\* The tail lies behind the start.
LEMMA TailOfStart ==
  ASSUME NEW bytes \in Seq(Spawns), NEW since \in Nat
  PROVE  /\ TailSince(bytes, since) \in Seq(Spawns)
         /\ \A x : (\A k \in since + 1..Len(bytes) : bytes[k] = x) =>
               \A k \in DOMAIN TailSince(bytes, since) : TailSince(bytes, since)[k] = x
  <1> DEFINE from == Most(Len(bytes) - TailSize, since)
             to == Least(Len(bytes), from + TailSize)
  <1>1. Len(bytes) \in Nat /\ TailSize \in Nat
    BY OutputAssumption
  <1>2. from \in Nat /\ from >= since /\ to \in Nat /\ to <= Len(bytes)
    BY <1>1 DEF Most, Least
  <1> HIDE DEF from, to
  <1>3. TailSince(bytes, since) = SubSeq(bytes, from + 1, to)
    BY DEF TailSince, from, to
  <1>4. SubSeq(bytes, from + 1, to) \in Seq(Spawns)
    BY <1>1, <1>2
  <1>5. \A k \in DOMAIN SubSeq(bytes, from + 1, to) :
           /\ SubSeq(bytes, from + 1, to)[k] = bytes[from + k]
           /\ from + k \in since + 1..Len(bytes)
    BY <1>1, <1>2
  <1>6. QED
    BY <1>3, <1>4, <1>5

LEMMA DiagnoseInv ==
  ASSUME OutputInv, Diagnose
  PROVE  OutputInv'
  <1> USE OutputAssumption DEF OutputInv
  <1>1. TypeOK'
    <2>1. LogTypes'
      <3>1. current \in Spawns /\ content[current] \in Seq(Spawns) /\ offset \in Nat
        BY DEF TypeOK, LogTypes, Places, Open, Diagnose, Go
      <3>2. diagnostic' \in Seq(Spawns)
        BY <3>1, TailOfStart DEF Diagnose
      <3>3. QED
        BY <3>2 DEF TypeOK, LogTypes, Diagnose, fileVars, logVars
    <2>2. PipeTypes'
      BY DEF TypeOK, PipeTypes, Diagnose, Go, pipeVars
    <2>3. LoopTypes'
      BY DEF TypeOK, LoopTypes, Diagnose, Go
    <2>4. QED
      BY <2>1, <2>2, <2>3 DEF TypeOK
  <1>2. Places'
    BY DEF TypeOK, Places, Open, Diagnose, Go, fileVars
  <1>3. RoomIsTrue'
    BY DEF RoomIsTrue, Diagnose, Go, fileVars, logVars
  <1>4. TailIsOwn'
    BY DEF TailIsOwn, Open, Diagnose, Go, fileVars, logVars
  <1>5. NotYet'
    BY DEF NotYet, Opening, Diagnose, Go, pipeVars
  <1>6. DiagnosticIsOwn'
    <2>1. pc = "watch" /\ diagnostic' = TailSince(content[current], offset)
      BY DEF Diagnose, Go
    <2>2. current \in Spawns /\ content[current] \in Seq(Spawns) /\ offset \in Nat
      BY <2>1 DEF TypeOK, LogTypes, Places, Open
    <2>3. CASE current \in shared
      BY <2>3 DEF DiagnosticIsOwn, Diagnose, fileVars, logVars
    <2>4. CASE current \notin shared
      <3>1. \A k \in offset + 1..Len(content[current]) : content[current][k] = spawned
        BY <2>1, <2>4 DEF TailIsOwn, Open
      <3>2. \A k \in DOMAIN diagnostic' : diagnostic'[k] = spawned
        BY <2>1, <2>2, <3>1, TailOfStart
      <3>3. QED
        BY <3>2 DEF DiagnosticIsOwn, Diagnose
    <2>5. QED
      BY <2>3, <2>4
  <1>7. CutIsHarmless'
    BY DEF CutIsHarmless, Diagnose, Go, pipeVars
  <1>8. QED
    BY <1>1, <1>2, <1>3, <1>4, <1>5, <1>6, <1>7

LEMMA StartedInv ==
  ASSUME OutputInv, Started
  PROVE  OutputInv'
  <1> USE OutputAssumption DEF OutputInv
  <1>1. TypeOK'
    <2>1. LogTypes'
      BY DEF TypeOK, LogTypes, Started, Go, fileVars, logVars
    <2>2. PipeTypes'
      BY DEF TypeOK, PipeTypes, Started, Go, pipeVars
    <2>3. LoopTypes'
      BY DEF TypeOK, LoopTypes, Started, Go
    <2>4. QED
      BY <2>1, <2>2, <2>3 DEF TypeOK
  <1>2. Places'
    BY DEF TypeOK, Places, Open, Started, Go, fileVars
  <1>3. RoomIsTrue'
    BY DEF RoomIsTrue, Started, Go, fileVars, logVars
  <1>4. TailIsOwn'
    BY DEF TailIsOwn, Open, Started, Go, fileVars, logVars
  <1>5. NotYet'
    BY DEF NotYet, Opening, Started, Go, pipeVars
  <1>6. DiagnosticIsOwn'
    BY DEF DiagnosticIsOwn, Started, Go, fileVars, logVars
  <1>7. CutIsHarmless'
    BY DEF CutIsHarmless, Started, Go, pipeVars
  <1>8. QED
    BY <1>1, <1>2, <1>3, <1>4, <1>5, <1>6, <1>7

LEMMA ExecInv ==
  ASSUME OutputInv, Exec
  PROVE  OutputInv'
  <1> USE OutputAssumption DEF OutputInv
  <1>1. TypeOK'
    <2>1. LogTypes'
      <3>1. <<>> \in Seq(Spawns)
        OBVIOUS
      <3>2. QED
        BY <3>1 DEF TypeOK, LogTypes, Exec, fileVars, logVars
    <2>2. PipeTypes'
      BY DEF TypeOK, PipeTypes, Holders, LoopTypes, Spawns, Exec, Go
    <2>3. LoopTypes'
      BY DEF TypeOK, LoopTypes, Exec, Go, NoOutput
    <2>4. QED
      BY <2>1, <2>2, <2>3 DEF TypeOK
  <1>2. Places'
    BY DEF TypeOK, Places, Open, LogTypes, LoopTypes, Files, Spawns, Exec, Go, NoOutput,
           fileVars
  <1>3. RoomIsTrue'
    BY DEF RoomIsTrue, Exec, Go, fileVars, logVars
  <1>4. TailIsOwn'
    BY DEF TailIsOwn, Open, Exec, Go, fileVars, logVars
  <1>5. NotYet'
    BY DEF NotYet, Opening, TypeOK, LoopTypes, PipeTypes, Spawns, Exec, Go
  <1>6. DiagnosticIsOwn'
    BY DEF DiagnosticIsOwn, Exec, Go, fileVars, logVars
  <1>7. CutIsHarmless'
    BY DEF CutIsHarmless, TypeOK, PipeTypes, LoopTypes, Exec, Go, NoOutput
  <1>8. QED
    BY <1>1, <1>2, <1>3, <1>4, <1>5, <1>6, <1>7

LEMMA InterruptInv ==
  ASSUME OutputInv, Interrupt
  PROVE  OutputInv'
  <1> USE OutputAssumption DEF OutputInv
  <1>1. TypeOK'
    <2>1. LogTypes'
      BY DEF TypeOK, LogTypes, Interrupt, Go, fileVars, logVars
    <2>2. PipeTypes'
      BY DEF TypeOK, PipeTypes, Interrupt, Go, KillGroup
    <2>3. LoopTypes'
      BY DEF TypeOK, LoopTypes, Interrupt, Go
    <2>4. QED
      BY <2>1, <2>2, <2>3 DEF TypeOK
  <1>2. Places'
    BY DEF TypeOK, Places, Open, Interrupt, Go, fileVars
  <1>3. RoomIsTrue'
    BY DEF RoomIsTrue, Interrupt, Go, fileVars, logVars
  <1>4. TailIsOwn'
    BY DEF TailIsOwn, Open, Interrupt, Go, fileVars, logVars
  <1>5. NotYet'
    BY DEF NotYet, Opening, Interrupt, Go, KillGroup
  <1>6. DiagnosticIsOwn'
    BY DEF DiagnosticIsOwn, Interrupt, Go, fileVars, logVars
  <1>7. CutIsHarmless'
    BY DEF CutIsHarmless, Interrupt, Go, KillGroup
  <1>8. QED
    BY <1>1, <1>2, <1>3, <1>4, <1>5, <1>6, <1>7

LEMMA InterruptFailsInv ==
  ASSUME OutputInv, InterruptFails
  PROVE  OutputInv'
  <1> USE OutputAssumption DEF OutputInv
  <1>0. /\ holders' \in [Spawns -> SUBSET Holders]
        /\ \A t \in Spawns : holders[t] = {} => holders'[t] = {}
    <2>1. spawned \in Spawns /\ KillSurvived(spawned)
      BY DEF InterruptFails, Go, TypeOK, LoopTypes, Places, Spawns
    <2>2. QED
      BY <2>1, SurvivorHolds DEF TypeOK
  <1>1. TypeOK'
    <2>1. LogTypes'
      BY DEF TypeOK, LogTypes, InterruptFails, Go, fileVars, logVars
    <2>2. PipeTypes'
      BY <1>0 DEF TypeOK, PipeTypes, InterruptFails
    <2>3. LoopTypes'
      BY DEF TypeOK, LoopTypes, InterruptFails, Faulty, Go
    <2>4. QED
      BY <2>1, <2>2, <2>3 DEF TypeOK
  <1>2. Places'
    BY DEF TypeOK, Places, Open, InterruptFails, Go, fileVars
  <1>3. RoomIsTrue'
    BY DEF RoomIsTrue, InterruptFails, Go, fileVars, logVars
  <1>4. TailIsOwn'
    BY DEF TailIsOwn, Open, InterruptFails, Go, fileVars, logVars
  <1>5. NotYet'
    BY <1>0 DEF NotYet, Opening, InterruptFails, Go
  <1>6. DiagnosticIsOwn'
    BY DEF DiagnosticIsOwn, InterruptFails, Go, fileVars, logVars
  <1>7. CutIsHarmless'
    BY <1>0 DEF CutIsHarmless, InterruptFails, Go
  <1>8. QED
    BY <1>1, <1>2, <1>3, <1>4, <1>5, <1>6, <1>7

LEMMA GiveUpInv ==
  ASSUME OutputInv, NEW s \in Spawns, GiveUp(s)
  PROVE  OutputInv'
  <1> USE OutputAssumption DEF OutputInv
  <1>0. /\ holders' \in [Spawns -> SUBSET Holders]
        /\ \A t \in Spawns : holders[t] = {} => holders'[t] = {}
    BY SurvivorHolds DEF GiveUp, TypeOK
  <1>1. TypeOK'
    <2>1. LogTypes'
      BY DEF TypeOK, LogTypes, GiveUp, fileVars, logVars
    <2>2. PipeTypes'
      BY <1>0 DEF TypeOK, PipeTypes, GiveUp
    <2>3. LoopTypes'
      BY DEF TypeOK, LoopTypes, GiveUp, Faulty
    <2>4. QED
      BY <2>1, <2>2, <2>3 DEF TypeOK
  <1>2. Places'
    BY DEF TypeOK, Places, Open, GiveUp, fileVars
  <1>3. RoomIsTrue'
    BY DEF RoomIsTrue, GiveUp, fileVars, logVars
  <1>4. TailIsOwn'
    BY DEF TailIsOwn, Open, GiveUp, fileVars, logVars
  <1>5. NotYet'
    BY <1>0 DEF NotYet, Opening, GiveUp
  <1>6. DiagnosticIsOwn'
    BY DEF DiagnosticIsOwn, GiveUp, fileVars, logVars
  <1>7. CutIsHarmless'
    BY <1>0 DEF CutIsHarmless, GiveUp
  <1>8. QED
    BY <1>1, <1>2, <1>3, <1>4, <1>5, <1>6, <1>7

LEMMA ExecReturnsInv ==
  ASSUME OutputInv, ExecReturns
  PROVE  OutputInv'
  <1> USE OutputAssumption DEF OutputInv
  <1>1. TypeOK'
    <2>1. LogTypes'
      BY DEF TypeOK, LogTypes, ExecReturns, fileVars, logVars
    <2>2. PipeTypes'
      BY DEF TypeOK, PipeTypes, ExecReturns
    <2>3. LoopTypes'
      BY DEF TypeOK, LoopTypes, ExecReturns, NoOutput
    <2>4. QED
      BY <2>1, <2>2, <2>3 DEF TypeOK
  <1>2. Places'
    BY DEF TypeOK, Places, Open, ExecReturns, NoOutput, fileVars
  <1>3. RoomIsTrue'
    BY DEF RoomIsTrue, ExecReturns, fileVars, logVars
  <1>4. TailIsOwn'
    BY DEF TailIsOwn, Open, ExecReturns, fileVars, logVars
  <1>5. NotYet'
    BY DEF NotYet, Opening, TypeOK, LoopTypes, PipeTypes, Spawns, ExecReturns, WaitReturns
  <1>6. DiagnosticIsOwn'
    BY DEF DiagnosticIsOwn, ExecReturns, fileVars, logVars
  <1>7. CutIsHarmless'
    BY DEF CutIsHarmless, ExecReturns, WaitReturns, NoOutput
  <1>8. QED
    BY <1>1, <1>2, <1>3, <1>4, <1>5, <1>6, <1>7

LEMMA OutputToLogInv ==
  ASSUME OutputInv, NEW s \in Spawns, OutputToLog(s)
  PROVE  OutputInv'
  <1> USE OutputAssumption DEF OutputInv
  <1>0. LogTypes' /\ RoomIsTrue' /\ TailIsOwn'
    <2>1. PICK n \in 1..MaxChunk : Appended(s, Least(n, Most(remaining[s], 0)))
      BY DEF OutputToLog, WriteLog
    <2>2. remaining[s] \in Int
      BY DEF TypeOK, LogTypes
    <2>3. /\ Least(n, Most(remaining[s], 0)) \in Nat
          /\ Least(n, Most(remaining[s], 0)) <= Most(remaining[s], 0)
      BY <2>2 DEF Least, Most
    <2>4. QED
      BY <2>1, <2>3, AppendInv DEF OutputToLog
  <1>1. TypeOK'
    <2>1. LogTypes'
      BY <1>0
    <2>2. PipeTypes'
      BY DEF TypeOK, PipeTypes, OutputToLog, WriteLog
    <2>3. LoopTypes'
      BY DEF TypeOK, LoopTypes, OutputToLog
    <2>4. QED
      BY <2>1, <2>2, <2>3 DEF TypeOK
  <1>2. Places'
    BY DEF TypeOK, Places, OutputToLog
  <1>3. RoomIsTrue'
    BY <1>0
  <1>4. TailIsOwn'
    BY <1>0
  <1>5. NotYet'
    BY DEF NotYet, OutputToLog, WriteLog
  <1>6. DiagnosticIsOwn'
    BY DEF DiagnosticIsOwn, OutputToLog
  <1>7. CutIsHarmless'
    BY DEF CutIsHarmless, OutputToLog, WriteLog
  <1>8. QED
    BY <1>1, <1>2, <1>3, <1>4, <1>5, <1>6, <1>7

LEMMA WriteFailsInv ==
  ASSUME OutputInv, NEW s \in Spawns, WriteFails(s)
  PROVE  OutputInv'
  <1> USE OutputAssumption DEF OutputInv
  <1>0. LogTypes' /\ RoomIsTrue' /\ TailIsOwn'
    <2>1. PICK n \in 0..Least(MaxChunk, remaining[s]) - 1 : Appended(s, n)
      BY DEF WriteFails
    <2>2. remaining[s] \in Int
      BY DEF TypeOK, LogTypes
    <2>3. n \in Nat /\ n <= Most(remaining[s], 0)
      BY <2>1, <2>2 DEF Least, Most
    <2>4. QED
      BY <2>1, <2>3, AppendInv DEF WriteFails
  <1>1. TypeOK'
    <2>1. LogTypes'
      BY <1>0
    <2>2. PipeTypes'
      BY DEF TypeOK, PipeTypes, WriteFails
    <2>3. LoopTypes'
      BY DEF TypeOK, LoopTypes, WriteFails, Faulty
    <2>4. QED
      BY <2>1, <2>2, <2>3 DEF TypeOK
  <1>2. Places'
    BY DEF TypeOK, Places, WriteFails
  <1>3. RoomIsTrue'
    BY <1>0
  <1>4. TailIsOwn'
    BY <1>0
  <1>5. NotYet'
    BY DEF NotYet, WriteFails
  <1>6. DiagnosticIsOwn'
    BY DEF DiagnosticIsOwn, WriteFails
  <1>7. CutIsHarmless'
    BY DEF CutIsHarmless, WriteFails
  <1>8. QED
    BY <1>1, <1>2, <1>3, <1>4, <1>5, <1>6, <1>7

LEMMA OutputToBufferInv ==
  ASSUME OutputInv, OutputToBuffer
  PROVE  OutputInv'
  <1> USE OutputAssumption DEF OutputInv
  <1>1. TypeOK'
    <2>1. LogTypes'
      BY DEF TypeOK, LogTypes, OutputToBuffer, fileVars, logVars
    <2>2. PipeTypes'
      BY DEF TypeOK, PipeTypes, OutputToBuffer, pipeVars
    <2>3. LoopTypes'
      BY DEF TypeOK, LoopTypes, OutputToBuffer, Buffered, Least
    <2>4. QED
      BY <2>1, <2>2, <2>3 DEF TypeOK
  <1>2. Places'
    BY DEF TypeOK, Places, OutputToBuffer, fileVars
  <1>3. RoomIsTrue'
    BY DEF RoomIsTrue, OutputToBuffer, fileVars, logVars
  <1>4. TailIsOwn'
    BY DEF TailIsOwn, OutputToBuffer, fileVars, logVars
  <1>5. NotYet'
    BY DEF NotYet, OutputToBuffer, pipeVars
  <1>6. DiagnosticIsOwn'
    BY DEF DiagnosticIsOwn, OutputToBuffer, fileVars, logVars
  <1>7. CutIsHarmless'
    BY DEF CutIsHarmless, TypeOK, PipeTypes, LoopTypes, OutputToBuffer, Buffered, Least,
           pipeVars
  <1>8. QED
    BY <1>1, <1>2, <1>3, <1>4, <1>5, <1>6, <1>7

LEMMA ForkInv ==
  ASSUME OutputInv, NEW s \in Spawns, Fork(s)
  PROVE  OutputInv'
  <1> USE OutputAssumption DEF OutputInv
  <1>1. TypeOK'
    <2>1. LogTypes'
      BY DEF TypeOK, LogTypes, Fork, fileVars, logVars
    <2>2. PipeTypes'
      BY DEF TypeOK, PipeTypes, Holders, LoopTypes, Spawns, Fork
    <2>3. LoopTypes'
      BY DEF TypeOK, LoopTypes, Fork
    <2>4. QED
      BY <2>1, <2>2, <2>3 DEF TypeOK
  <1>2. Places'
    BY DEF TypeOK, Places, Fork, fileVars
  <1>3. RoomIsTrue'
    BY DEF RoomIsTrue, Fork, fileVars, logVars
  <1>4. TailIsOwn'
    BY DEF TailIsOwn, Fork, fileVars, logVars
  <1>5. NotYet'
    BY DEF NotYet, Fork
  <1>6. DiagnosticIsOwn'
    BY DEF DiagnosticIsOwn, Fork, fileVars, logVars
  <1>7. CutIsHarmless'
    BY DEF CutIsHarmless, Fork
  <1>8. QED
    BY <1>1, <1>2, <1>3, <1>4, <1>5, <1>6, <1>7

LEMMA ExitInv ==
  ASSUME OutputInv, NEW s \in Spawns, Exit(s)
  PROVE  OutputInv'
  <1> USE OutputAssumption DEF OutputInv
  <1>1. TypeOK'
    <2>1. LogTypes'
      BY DEF TypeOK, LogTypes, Exit, fileVars, logVars
    <2>2. PipeTypes'
      BY DEF TypeOK, PipeTypes, Exit
    <2>3. LoopTypes'
      BY DEF TypeOK, LoopTypes, Exit
    <2>4. QED
      BY <2>1, <2>2, <2>3 DEF TypeOK
  <1>2. Places'
    BY DEF TypeOK, Places, Exit, fileVars
  <1>3. RoomIsTrue'
    BY DEF RoomIsTrue, Exit, fileVars, logVars
  <1>4. TailIsOwn'
    BY DEF TailIsOwn, Exit, fileVars, logVars
  <1>5. NotYet'
    BY DEF NotYet, Exit
  <1>6. DiagnosticIsOwn'
    BY DEF DiagnosticIsOwn, Exit, fileVars, logVars
  <1>7. CutIsHarmless'
    BY DEF CutIsHarmless, Exit
  <1>8. QED
    BY <1>1, <1>2, <1>3, <1>4, <1>5, <1>6, <1>7

LEMMA CrashInv ==
  ASSUME OutputInv, Crash
  PROVE  OutputInv'
  <1> USE OutputAssumption DEF OutputInv
  <1>0. /\ holders' \in [Spawns -> SUBSET Holders]
        /\ \A t \in Spawns : holders[t] = {} => holders'[t] = {}
    <2>1. holders \in [Spawns -> SUBSET Holders]
      BY DEF TypeOK, PipeTypes
    <2>2. \A t \in Spawns : /\ Lost(holders[t]) \in SUBSET Holders
                            /\ holders[t] = {} => Lost(holders[t]) = {}
      BY <2>1, LostHolders
    <2>3. holders' = [t \in Spawns |-> IF pc = "record" /\ t = spawned THEN Lost(holders[t])
                                                                   ELSE holders[t]]
      BY DEF Crash
    <2>4. QED
      BY <2>1, <2>2, <2>3
  <1>1. TypeOK'
    <2>1. LogTypes'
      <3>1. 0 \in Files
        BY DEF Files
      <3>2. writing' \in [Spawns -> Files] /\ remaining' \in [Spawns -> Int]
        BY <3>1 DEF Crash
      <3>3. UNCHANGED <<current, backup, content, offset, shared, diagnostic>>
        BY DEF Crash, fileVars
      <3>4. QED
        BY <3>2, <3>3 DEF TypeOK, LogTypes
    <2>2. PipeTypes'
      BY <1>0 DEF TypeOK, PipeTypes, Crash
    <2>3. LoopTypes'
      BY DEF TypeOK, LoopTypes, Crash, Faulty, NoOutput
    <2>4. QED
      BY <2>1, <2>2, <2>3 DEF TypeOK
  <1>2. Places'
    BY DEF TypeOK, Places, Open, Crash, NoOutput, fileVars
  <1>3. RoomIsTrue'
    <2>1. \A t \in Spawns : writing'[t] = 0
      BY DEF Crash
    <2>2. QED
      BY <2>1, ClosingKeepsRoom DEF TypeOK, Crash, fileVars
  <1>4. TailIsOwn'
    BY DEF TailIsOwn, Open, Crash, fileVars
  <1>5. NotYet'
    BY <1>0 DEF NotYet, Opening, Crash
  <1>6. DiagnosticIsOwn'
    BY DEF DiagnosticIsOwn, Crash, fileVars
  <1>7. CutIsHarmless'
    BY <1>0 DEF CutIsHarmless, TypeOK, PipeTypes, LoopTypes, Crash, NoOutput
  <1>8. QED
    BY <1>1, <1>2, <1>3, <1>4, <1>5, <1>6, <1>7

LEMMA NextInv == OutputInv /\ [Next]_vars => OutputInv'
  <1> SUFFICES ASSUME OutputInv, [Next]_vars PROVE OutputInv'
    OBVIOUS
  <1>1. CASE UNCHANGED vars
    BY <1>1 DEF OutputInv, TypeOK, LogTypes, PipeTypes, LoopTypes, Places, RoomIsTrue,
                TailIsOwn, NotYet, DiagnosticIsOwn, CutIsHarmless, vars, fileVars, logVars, pipeVars
  <1>2. CASE StartLog \/ Exec
    BY <1>2, StartLogInv, ExecInv
  <1>3. CASE TaskLoop
    BY <1>3, RemoveBackupInv, RenameLogInv, TruncateBackupInv, OpenLogInv, SpawnInv, RecordInv,
       UndoneInv, DiagnoseInv, StartedInv, InterruptInv, ExecReturnsInv DEF TaskLoop
  <1>4. CASE \/ OpenFails \/ SpawnFails \/ RecordFails \/ InterruptFails
             \/ OutputToBuffer \/ Crash
    BY <1>4, OpenFailsInv, SpawnFailsInv, RecordFailsInv, InterruptFailsInv, OutputToBufferInv,
       CrashInv
  <1>5. ASSUME NEW s \in Spawns,
               \/ Reap(s) \/ OutputToLog(s) \/ WriteFails(s) \/ Fork(s) \/ Exit(s)
               \/ GiveUp(s)
        PROVE  OutputInv'
    BY <1>5, ReapInv, OutputToLogInv, WriteFailsInv, ForkInv, ExitInv, GiveUpInv
  <1>6. QED
    BY <1>1, <1>2, <1>3, <1>4, <1>5 DEF Next

\* The inductive invariant of the logs, the pipes and the task loop.
THEOREM OutputInvariant == Spec => []OutputInv
  BY InitInv, NextInv, PTL DEF Spec

\* The variables of logs, buffers and pipes keep their types.
THEOREM OutputTypes == Spec => []TypeOK
  <1>1. OutputInv => TypeOK
    BY DEF OutputInv
  <1>2. QED
    BY <1>1, OutputInvariant, PTL

LEMMA OutputKeepsLimits == OutputInv => OvershootIsShared
  <1> SUFFICES ASSUME OutputInv, NEW i \in Spawns, Len(content[i]) > Limit
               PROVE  i \in shared
    BY DEF OvershootIsShared
  <1>1. Len(content[i]) \in Nat
    BY DEF OutputInv, TypeOK, LogTypes
  <1>2. QED
    BY <1>1, OutputAssumption DEF OutputInv, RoomIsTrue

\* openCappedWorkerLog keeps every log within its limit that no two had open at once.
THEOREM LogsAreCapped == Spec => []OvershootIsShared
  BY OutputInvariant, OutputKeepsLimits, PTL

\* workerStartupDiagnostic quotes nobody else, as long as nobody else has the log open.
THEOREM QuotesOwn == Spec => []DiagnosticIsOwn
  <1>1. OutputInv => DiagnosticIsOwn
    BY DEF OutputInv
  <1>2. QED
    BY <1>1, OutputInvariant, PTL

\* A full log does not end the copy, and hence not the process.
THEOREM FullLogsDoNoHarm == Spec => []CutIsHarmless
  <1>1. OutputInv => CutIsHarmless
    BY DEF OutputInv
  <1>2. QED
    BY <1>1, OutputInvariant, PTL

-----------------------------------------------------------------------------
(***************************************************************************)
(* The files of a runtime.  The argument: whatever a task has done to the  *)
(* workspace is determined by what it found, by the request, and by how    *)
(* far it has come, so that executing it again leads to the same end.      *)
(***************************************************************************)

\* Whatever is in a directory has a directory to be in.
Nested(t) == \A p \in Paths : Len(p) > 1 /\ t[p] # None => t[Parent(p)].kind = "directory"

Pieces == Paths \union {Whole, Torn}
Entries == [kind : {"none", "directory", "file"}, bytes : Seq(Pieces)]

FsTypes ==
    /\ request # NoRequest =>
           /\ tree \in [Paths -> Entries]
           /\ before \in [Paths -> Entries] /\ Nested(before)
    /\ request \in Requests \union {NoRequest}
    /\ step \in {"idle", "check", "parents", "act", "write"}
    /\ result \in {"none", "done", "retryable", "permanent"}
    /\ disturbed \in Nat

\* A task under way has no result, and makes parents, or writes, only if it does that.
StepsOfTask ==
    /\ request = NoRequest => step = "idle" /\ result = "none"
    /\ step # "idle" => result = "none"
    /\ step = "parents" => request.op # "delete"
    /\ step = "write" => request.op = "write"

Prepared == WithAllParents(before, Destination(request))

\* Once the task was disturbed, or is done, there may be more than its parents.
MayHaveActed == disturbed > 0 \/ result = "done"

\* A write touches nothing but its file; without append it leaves only its own bytes
\* there, with append it adds one piece each time that it is disturbed.
OthersPrepared == \A p \in Paths \ {request.path} : tree[p] = Prepared[p]

Grown ==
    \E more \in Seq({Whole, Torn}) :
        /\ Len(more) <= disturbed + 1
        /\ result # "done" => Len(more) <= disturbed
        /\ tree[request.path].bytes = before[request.path].bytes \o more

WriteSoFar ==
    request.op = "write" =>
        /\ (PartlyPrepared /\ step # "act") \/ OthersPrepared
        /\ step = "write" =>
               /\ OthersPrepared
               /\ tree[request.path].kind = "file"
               /\ request.append \/ tree[request.path].bytes = <<>>
        /\ PartlyPrepared \/ step = "write" \/ MayHaveActed
        /\ request.append => Grown
        /\ result = "done" => tree = After(before, request) \/ AppendedMore

MkdirSoFar ==
    request.op = "mkdir" =>
        /\ PartlyPrepared \/ (tree = After(before, request) /\ MayHaveActed)
        /\ step = "act" => tree \in {Prepared, After(before, request)}
        /\ result = "done" => tree = After(before, request)

\* A rename that was carried out is refused when it is repeated, or changes nothing.
RenameAllowed ==
    /\ before[request.target] = None \/ request.overwrite
    /\ Below(request.target, request.path) => before[request.target].kind = "directory"

RenameSoFar ==
    request.op = "rename" =>
        /\ \/ PartlyPrepared
           \/ tree = After(before, request) /\ MayHaveActed /\ ~Below(request.target, request.path)
        /\ step \in {"parents", "act"} => PartlyPrepared /\ RenameAllowed
        /\ step = "act" => tree = Prepared
        /\ result = "done" => tree = After(before, request) /\ RenameAllowed

\* A delete takes only what it is to take, and stops half-way only if it must.
DeleteSoFar ==
    request.op = "delete" =>
        /\ \A p \in Paths : tree[p] = before[p] \/ (Within(request.path, p) /\ tree[p] = None)
        /\ tree = before \/ MayHaveActed \/ (step = "act" /\ request.recursive)
        /\ result = "done" => tree = After(before, request)

FilesystemInv ==
    /\ FsTypes /\ StepsOfTask
    /\ request # NoRequest => WriteSoFar /\ MkdirSoFar /\ RenameSoFar /\ DeleteSoFar

-----------------------------------------------------------------------------
(* Paths and workspaces.                                                   *)

LEMMA PathsAreSequences ==
    ASSUME NEW p \in Paths
    PROVE  p \in Seq(Names) /\ Len(p) \in Nat \ {0} /\ Len(p) <= MaxDepth
  <1>1. PICK n \in 1..MaxDepth : p \in [1..n -> Names]
    BY DEF Paths
  <1>2. n \in Nat \ {0} /\ n <= MaxDepth /\ p \in Seq(Names)
    BY <1>1, FilesystemAssumption
  <1>3. Len(p) = n
    BY <1>1, <1>2
  <1>4. QED
    BY <1>2, <1>3

\* The directories that a path leads through are paths.
LEMMA PrefixIsPath ==
    ASSUME NEW p \in Paths, NEW n \in 1..Len(p)
    PROVE  SubSeq(p, 1, n) \in Paths /\ Len(SubSeq(p, 1, n)) = n
  <1>1. PICK m \in 1..MaxDepth : p \in [1..m -> Names]
    BY DEF Paths
  <1>2. m \in Nat /\ Len(p) = m /\ n \in 1..MaxDepth /\ n \in Nat
    BY <1>1, FilesystemAssumption, PathsAreSequences
  <1>3. \A i \in 1..n : p[i] \in Names
    BY <1>1, <1>2
  <1>4. SubSeq(p, 1, n) \in Seq(Names) /\ Len(SubSeq(p, 1, n)) = n
    BY <1>2, <1>3, SubSeqProperties
  <1>5. SubSeq(p, 1, n) \in [1..n -> Names]
    BY <1>4, LenProperties
  <1>6. QED
    BY <1>2, <1>4, <1>5 DEF Paths

LEMMA PrefixOfPrefix ==
    ASSUME NEW p \in Paths, NEW m \in 1..Len(p), m > 1
    PROVE  SubSeq(SubSeq(p, 1, m), 1, m - 1) = SubSeq(p, 1, m - 1)
  <1>1. p \in Seq(Names) /\ Len(p) \in Nat \ {0} /\ 1 \in 1..Len(p) /\ m - 1 \in 1..Len(p)
    BY PathsAreSequences
  <1>2. \A i \in 1..m : p[i] \in Names
    BY <1>1
  <1>3. \A i \in 1..m - 1 : SubSeq(p, 1, m)[i] = p[i] /\ p[i] \in Names
    BY <1>1, <1>2, SubSeqProperties
  <1>4. SubSeq(SubSeq(p, 1, m), 1, m - 1) \in Seq(Names)
        /\ Len(SubSeq(SubSeq(p, 1, m), 1, m - 1)) = m - 1
        /\ \A i \in 1..m - 1 : SubSeq(SubSeq(p, 1, m), 1, m - 1)[i] = p[i]
    BY <1>1, <1>3, SubSeqProperties
  <1>5. SubSeq(p, 1, m - 1) \in Seq(Names) /\ Len(SubSeq(p, 1, m - 1)) = m - 1
        /\ \A i \in 1..m - 1 : SubSeq(p, 1, m - 1)[i] = p[i]
    BY <1>1, <1>3, SubSeqProperties
  <1>6. QED
    BY <1>1, <1>4, <1>5

LEMMA BelowIsStrict ==
    ASSUME NEW p \in Paths, NEW q \in Paths, Below(p, q)
    PROVE  p # q /\ ~Below(q, p)
  BY PathsAreSequences DEF Below

\* What os.MkdirAll makes of the directories above p, however far it comes.
LEMMA SomeParents ==
    ASSUME NEW t \in [Paths -> Entries], NEW p \in Paths, NEW n
    PROVE  /\ WithParents(t, p, n) \in [Paths -> Entries]
           /\ \A q \in Paths : Below(q, p) \/ WithParents(t, p, n)[q] = t[q]
           /\ WithParents(t, p, n)[p] = t[p]
  <1>1. Directory \in Entries
    BY DEF Directory, Entries
  <1>2. ~Below(p, p)
    BY BelowIsStrict
  <1>3. QED
    BY <1>1, <1>2 DEF WithParents

\* When it has made none, nothing has changed.
LEMMA NoParents ==
    ASSUME NEW t \in [Paths -> Entries], NEW p \in Paths
    PROVE  WithParents(t, p, 0) = t
  <1>1. \A q \in Paths : ~(Len(q) <= 0)
    BY PathsAreSequences
  <1>2. QED
    BY <1>1 DEF WithParents

\* It fills them all in and touches nothing else.
LEMMA ParentsMade ==
    ASSUME NEW t \in [Paths -> Entries], NEW p \in Paths
    PROVE  /\ WithAllParents(t, p) \in [Paths -> Entries]
           /\ \A q \in Paths : Below(q, p) \/ WithAllParents(t, p)[q] = t[q]
           /\ \A q \in Paths : Below(q, p) => WithAllParents(t, p)[q] # None
           /\ WithAllParents(t, p)[p] = t[p]
  <1>1. Directory # None
    BY DEF Directory, None
  <1>2. \A q \in Paths : Below(q, p) => Len(q) <= Len(p)
    BY PathsAreSequences DEF Below
  <1>3. \A q \in Paths : Below(q, p) => WithAllParents(t, p)[q] # None
    BY <1>1, <1>2 DEF WithAllParents, WithParents
  <1>4. QED
    BY <1>3, SomeParents DEF WithAllParents

\* Where n of the parents are there, and the next is made, n or more are there.
LEMMA NextParent ==
    ASSUME NEW t \in [Paths -> Entries], NEW p \in Paths, NEW n \in Nat,
           NEW q \in Paths, Below(q, p), WithParents(t, p, n)[q] = None,
           \A o \in Paths : Below(o, p) /\ WithParents(t, p, n)[o] = None => Within(q, o)
    PROVE  [WithParents(t, p, n) EXCEPT ![q] = Directory] = WithParents(t, p, Len(q))
  <1> DEFINE old == WithParents(t, p, n)
             new == WithParents(t, p, Len(q))
  <1>1. old \in [Paths -> Entries] /\ new \in [Paths -> Entries] /\ Directory # None
    BY SomeParents DEF Directory, None
  <1>2. Len(q) \in Nat /\ ~(Len(q) <= n) /\ t[q] = None
    BY <1>1, PathsAreSequences DEF WithParents
  <1>3. ASSUME NEW o \in Paths PROVE [old EXCEPT ![q] = Directory][o] = new[o]
    <2>1. CASE o = q
      BY <1>1, <1>2, <2>1 DEF WithParents
    <2>2. CASE o # q /\ Below(o, p) /\ t[o] = None
      <3>1. Len(o) \in Nat
        BY PathsAreSequences
      <3>2. CASE Len(o) <= n
        BY <1>1, <1>2, <2>2, <3>1, <3>2 DEF WithParents
      <3>3. CASE ~(Len(o) <= n)
        <4>1. old[o] = None
          BY <2>2, <3>3 DEF WithParents
        <4>2. Len(q) < Len(o)
          BY <2>2, <4>1 DEF Within, Below
        <4>3. new[o] = None
          BY <1>2, <2>2, <3>1, <4>2 DEF WithParents
        <4>4. QED
          BY <1>1, <2>2, <4>1, <4>3
      <3>4. QED
        BY <3>2, <3>3
    <2>3. CASE o # q /\ ~(Below(o, p) /\ t[o] = None)
      BY <1>1, <2>3 DEF WithParents
    <2>4. QED
      BY <2>1, <2>2, <2>3
  <1>4. QED
    BY <1>1, <1>3

\* A set of numbers has a least one.
LessThan == {pair \in Nat \X Nat : pair[1] < pair[2]}

LEMMA LeastExists ==
    ASSUME NEW S \in SUBSET Nat, S # {}
    PROVE  \E m \in S : \A n \in S : m <= n
  <1>1. IsWellFoundedOn(LessThan, Nat)
    BY NatLessThanWellFounded DEF LessThan, OpToRel
  <1>2. PICK m \in S : \A n \in S : <<n, m>> \notin LessThan
    BY <1>1, WFMin
  <1>3. \A n \in S : ~(n < m)
    BY <1>2 DEF LessThan
  <1>4. QED
    BY <1>3

\* What is not empty has nothing but directories above it.
LEMMA Ancestors ==
    ASSUME NEW t \in [Paths -> Entries], Nested(t),
           NEW p \in Paths, NEW a \in Paths, Below(a, p), t[p] # None
    PROVE  t[a].kind = "directory"
  <1> DEFINE Filled == {n \in Nat : /\ Len(a) < n /\ n <= Len(p)
                                    /\ t[SubSeq(p, 1, n)] # None}
  <1>1. p \in Seq(Names) /\ Len(p) \in Nat \ {0} /\ Len(a) \in Nat \ {0} /\ Len(a) < Len(p)
    BY PathsAreSequences DEF Below
  <1>2. SubSeq(p, 1, Len(a)) = a /\ SubSeq(p, 1, Len(p)) = p
    BY <1>1, SubSeqFull DEF Below
  <1>3. Len(p) \in Filled
    <2>1. t[SubSeq(p, 1, Len(p))] # None
      BY <1>2
    <2>2. QED
      BY <1>1, <2>1
  <1>4. PICK m \in Filled : \A n \in Filled : m <= n
    BY <1>3, LeastExists
  <1>5. m \in 1..Len(p) /\ m - 1 \in 1..Len(p) /\ m > 1
    BY <1>1, <1>4
  <1>6. SubSeq(p, 1, m) \in Paths /\ Len(SubSeq(p, 1, m)) = m
    BY <1>5, PrefixIsPath
  <1>7. Parent(SubSeq(p, 1, m)) = SubSeq(p, 1, m - 1)
    BY <1>1, <1>5, <1>6, PrefixOfPrefix DEF Parent
  <1>8. t[SubSeq(p, 1, m - 1)].kind = "directory"
    BY <1>4, <1>5, <1>6, <1>7 DEF Nested
  <1>9. m - 1 \notin Filled
    BY <1>4, <1>5
  <1>10. m - 1 = Len(a)
    BY <1>1, <1>4, <1>5, <1>8, <1>9 DEF None
  <1>11. QED
    BY <1>2, <1>8, <1>10

LEMMA MoveTypes ==
    ASSUME NEW t \in [Paths -> Entries], NEW p \in Paths, NEW r \in Paths
    PROVE  Moved(t, p, r) \in [Paths -> Entries]
  BY DEF Moved, Removed, None, Entries

\* What is not moved into itself is not where it was.
LEMMA MovedAway ==
    ASSUME NEW t \in [Paths -> Entries], NEW p \in Paths, NEW r \in Paths,
           p # r, ~Below(r, p)
    PROVE  Moved(t, p, r)[p] = None
  BY DEF Moved, Removed, Within

\* A rename to the same name changes nothing.
LEMMA MovedToItself ==
    ASSUME NEW t \in [Paths -> Entries], NEW p \in Paths
    PROVE  Moved(t, p, p) = t
  <1>1. ASSUME NEW q \in Paths, Within(p, q)
        PROVE  p \o SubSeq(q, Len(p) + 1, Len(q)) = q
    <2>1. /\ p \in Seq(Names) /\ q \in Seq(Names)
          /\ Len(p) \in Nat \ {0} /\ Len(q) \in Nat \ {0} /\ Len(p) <= Len(q)
      BY <1>1, PathsAreSequences DEF Within, Below
    <2>2. SubSeq(q, 1, Len(p)) = p /\ SubSeq(q, 1, Len(q)) = q
      BY <1>1, <2>1, SubSeqFull DEF Within, Below
    <2>3. SubSeq(q, 1, Len(p)) \o SubSeq(q, Len(p) + 1, Len(q)) = SubSeq(q, 1, Len(q))
      <3>1. 1 \in 1..Len(q) + 1 /\ Len(p) \in (1 - 1)..Len(q) /\ Len(q) \in Len(p)..Len(q)
        BY <2>1
      <3>2. QED
        BY <2>1, <3>1, ConcatAdjacentSubSeq
    <2>4. QED
      BY <2>2, <2>3
  <1>2. \A q \in Paths : Moved(t, p, p)[q] = t[q]
    BY <1>1 DEF Moved, Removed
  <1>3. QED
    BY <1>2, MoveTypes

-----------------------------------------------------------------------------
(* Requests, and what they come to.                                        *)

\* A request has the fields of its operation.
LEMMA RequestTypes ==
    ASSUME NEW r \in Requests
    PROVE  /\ r # NoRequest
           /\ r.op \in {"write", "mkdir", "rename", "delete"}
           /\ r.path \in Paths /\ Destination(r) \in Paths
           /\ r.op = "write" => r.append \in BOOLEAN
           /\ r.op = "rename" => r.target \in Paths /\ r.overwrite \in BOOLEAN
  BY DEF Requests, NoRequest, Destination

LEMMA AfterWrite ==
    ASSUME NEW t, NEW r, r.op = "write"
    PROVE  After(t, r) = [WithAllParents(t, r.path) EXCEPT ![r.path] =
                             File((IF r.append THEN t[r.path].bytes ELSE <<>>) \o <<Whole>>)]
  BY DEF After

LEMMA AfterOthers ==
    ASSUME NEW t, NEW r
    PROVE  /\ r.op = "mkdir" =>
                 After(t, r) = [WithAllParents(t, r.path) EXCEPT ![r.path] = Directory]
           /\ r.op = "rename" =>
                 After(t, r) = Moved(WithAllParents(t, r.target), r.path, r.target)
           /\ r.op = "delete" => After(t, r) = Removed(t, r.path)
  BY DEF After

\* What every step may rely on.
LEMMA TaskTypes ==
    ASSUME FsTypes, request # NoRequest
    PROVE  /\ request \in Requests
           /\ request.path \in Paths /\ Destination(request) \in Paths
           /\ request.op \in {"write", "mkdir", "rename", "delete"}
           /\ Prepared \in [Paths -> Entries]
           /\ \A q \in Paths : Below(q, Destination(request)) \/ Prepared[q] = before[q]
           /\ \A q \in Paths : Below(q, Destination(request)) => Prepared[q] # None
           /\ Prepared[Destination(request)] = before[Destination(request)]
  <1>1. request \in Requests
    BY DEF FsTypes
  <1>2. request.path \in Paths /\ Destination(request) \in Paths
        /\ request.op \in {"write", "mkdir", "rename", "delete"}
    BY <1>1, RequestTypes
  <1>3. before \in [Paths -> Entries]
    BY DEF FsTypes
  <1>4. QED
    BY <1>1, <1>2, <1>3, ParentsMade DEF Prepared

\* What there may be before a task has acted.
LEMMA PreparedSoFar ==
    ASSUME FsTypes, request # NoRequest
    PROVE  /\ tree = before => PartlyPrepared
           /\ tree = Prepared => PartlyPrepared
           /\ PartlyPrepared => \A q \in Paths : \/ Below(q, Destination(request))
                                                 \/ tree[q] = before[q]
           /\ PartlyPrepared /\ Missing = {} => tree = Prepared
  <1>1. before \in [Paths -> Entries] /\ Destination(request) \in Paths
    BY TaskTypes DEF FsTypes
  <1>2. Len(Destination(request)) \in 0..MaxDepth /\ 0 \in 0..MaxDepth
    BY <1>1, PathsAreSequences, FilesystemAssumption
  <1>3. WithParents(before, Destination(request), 0) = before
    BY <1>1, NoParents
  <1>4. ASSUME PartlyPrepared, Missing = {}
        PROVE  tree = Prepared
    <2>1. PICK n \in 0..MaxDepth : tree = WithParents(before, Destination(request), n)
      BY <1>4 DEF PartlyPrepared
    <2>2. ASSUME NEW q \in Paths PROVE tree[q] = Prepared[q]
      <3>1. CASE Below(q, Destination(request)) /\ before[q] = None
        <4>1. tree[q] # None
          BY <1>4, <3>1 DEF Missing
        <4>2. tree[q] = Directory
          BY <2>1, <3>1, <4>1 DEF WithParents
        <4>3. Len(q) <= Len(Destination(request))
          BY <1>1, <3>1, PathsAreSequences DEF Below
        <4>4. QED
          BY <3>1, <4>2, <4>3 DEF Prepared, WithAllParents, WithParents
      <3>2. CASE ~(Below(q, Destination(request)) /\ before[q] = None)
        BY <2>1, <3>2 DEF Prepared, WithAllParents, WithParents
      <3>3. QED
        BY <3>1, <3>2
    <2>3. tree \in [Paths -> Entries] /\ Prepared \in [Paths -> Entries]
      BY TaskTypes DEF FsTypes
    <2>4. QED
      BY <2>2, <2>3
  <1>5. PartlyPrepared => \A q \in Paths : Below(q, Destination(request)) \/ tree[q] = before[q]
    BY <1>1, SomeParents DEF PartlyPrepared
  <1>6. QED
    BY <1>2, <1>3, <1>4, <1>5 DEF PartlyPrepared, Prepared, WithAllParents

\* While the task stays the same, so does what it comes to.
LEMMA SameTask ==
    ASSUME UNCHANGED <<before, request>>
    PROVE  Prepared' = Prepared /\ After(before, request)' = After(before, request)
  BY DEF Prepared

\* A step that adds nothing to the file.
LEMMA StaysGrown ==
    ASSUME FsTypes, FsTypes', Grown, UNCHANGED <<before, request>>,
           tree'[request.path].bytes = tree[request.path].bytes,
           result = "done" => disturbed' > disturbed,
           disturbed' >= disturbed
    PROVE  Grown'
  <1>1. PICK more \in Seq({Whole, Torn}) :
            /\ Len(more) <= disturbed + 1
            /\ result # "done" => Len(more) <= disturbed
            /\ tree[request.path].bytes = before[request.path].bytes \o more
    BY DEF Grown
  <1>2. Len(more) \in Nat /\ disturbed \in Nat /\ disturbed' \in Nat
    BY DEF FsTypes
  <1>3. Len(more) <= disturbed' + 1 /\ (result' # "done" => Len(more) <= disturbed')
    BY <1>1, <1>2
  <1>4. tree'[request'.path].bytes = before'[request'.path].bytes \o more
    BY <1>1
  <1>5. QED
    BY <1>3, <1>4 DEF Grown

LEMMA AppendToTail ==
    ASSUME NEW s \in Seq(Pieces), NEW t \in Seq(Pieces), NEW e \in Pieces
    PROVE  Append(s \o t, e) = s \o Append(t, e)
  OBVIOUS

\* A step that adds one piece, and is paid for by a disturbance or by the success.
LEMMA GrowsByOne ==
    ASSUME FsTypes, FsTypes', Grown, UNCHANGED <<before, request>>, request # NoRequest,
           result # "done",
           NEW piece \in {Whole, Torn},
           tree'[request.path].bytes = Append(tree[request.path].bytes, piece),
           disturbed' = disturbed + 1 \/ (disturbed' = disturbed /\ result' = "done")
    PROVE  Grown'
  <1>1. PICK more \in Seq({Whole, Torn}) :
            /\ Len(more) <= disturbed
            /\ tree[request.path].bytes = before[request.path].bytes \o more
    BY DEF Grown
  <1> DEFINE longer == Append(more, piece)
  <1>2. longer \in Seq({Whole, Torn}) /\ Len(longer) = Len(more) + 1 /\ Len(more) \in Nat
    OBVIOUS
  <1>3. before[request.path].bytes \in Seq(Pieces) /\ more \in Seq(Pieces)
    <2>1. request.path \in Paths /\ before \in [Paths -> Entries]
      BY TaskTypes DEF FsTypes
    <2>2. before[request.path].bytes \in Seq(Pieces)
      BY <2>1 DEF Entries
    <2>3. {Whole, Torn} \subseteq Pieces
      BY DEF Pieces
    <2>4. more \in Seq(Pieces)
      BY <2>3, SeqMonotonic
    <2>5. QED
      BY <2>2, <2>4
  <1>4. Append(before[request.path].bytes \o more, piece) = before[request.path].bytes \o longer
    <2>1. piece \in Pieces
      BY DEF Pieces
    <2> DEFINE old == before[request.path].bytes
    <2>2. old \in Seq(Pieces) /\ more \in Seq(Pieces)
      BY <1>3
    <2> HIDE DEF old
    <2>3. Append(old \o more, piece) = old \o Append(more, piece)
      BY <2>1, <2>2, AppendToTail
    <2>4. QED
      BY <2>3 DEF old
  <1>5. Len(longer) <= disturbed' + 1 /\ (result' # "done" => Len(longer) <= disturbed')
    BY <1>1, <1>2 DEF FsTypes
  <1>6. tree'[request'.path].bytes = before'[request'.path].bytes \o longer
    BY <1>1, <1>4
  <1>7. QED
    BY <1>2, <1>5, <1>6 DEF Grown

-----------------------------------------------------------------------------
(* Every step keeps the invariant.                                         *)

LEMMA FsInitInv == FsInit => FilesystemInv
  BY FilesystemAssumption
     DEF FsInit, FilesystemInv, FsTypes, StepsOfTask, NoRequest, Nested, None, Entries

\* The workspaces that a task may find.
LEMMA TreeTypes ==
    ASSUME NEW t \in Trees
    PROVE  t \in [Paths -> Entries] /\ Nested(t)
  <1>1. PICK kinds \in Contents :
            t = [p \in Paths |-> IF p \notin DOMAIN kinds THEN None
                                ELSE IF kinds[p] = "file" THEN File(<<p>>) ELSE Directory]
    BY DEF Trees
  <1>2. \A p \in DOMAIN kinds : Len(p) > 1 =>
            Parent(p) \in DOMAIN kinds /\ kinds[Parent(p)] = "directory"
    BY DEF Contents
  <1>3. ASSUME NEW p \in Paths
        PROVE  t[p] \in Entries
    <2>1. <<p>> \in Seq(Pieces) /\ <<>> \in Seq(Pieces)
      BY DEF Pieces
    <2>2. QED
      BY <1>1, <2>1 DEF File, Directory, None, Entries
  <1>4. t \in [Paths -> Entries]
    BY <1>1, <1>3
  <1>5. ASSUME NEW p \in Paths, Len(p) > 1, t[p] # None
        PROVE  t[Parent(p)].kind = "directory"
    <2>1. p \in DOMAIN kinds
      BY <1>1, <1>5
    <2>2. Parent(p) \in DOMAIN kinds /\ kinds[Parent(p)] = "directory"
      BY <1>2, <1>5, <2>1
    <2>3. Len(p) \in Nat /\ Len(p) - 1 \in 1..Len(p)
      BY <1>5, PathsAreSequences
    <2>4. Parent(p) \in Paths
      BY <2>3, PrefixIsPath DEF Parent
    <2>5. QED
      BY <1>1, <2>2, <2>4 DEF Directory
  <1>6. QED
    BY <1>4, <1>5 DEF Nested

LEMMA DeliverInv == FilesystemInv /\ Deliver => FilesystemInv'
  <1> SUFFICES ASSUME FilesystemInv, Deliver PROVE FilesystemInv'
    OBVIOUS
  <1>1. FsTypes'
    BY TreeTypes DEF Deliver, FilesystemInv, FsTypes
  <1>2. request' \in Requests /\ request' # NoRequest /\ tree' = before' /\ step' = "check"
        /\ result' = "none"
    BY RequestTypes DEF Deliver, FilesystemInv, StepsOfTask
  <1>3. StepsOfTask'
    BY <1>2 DEF StepsOfTask
  <1>4. Grown'
    <2>1. before'[request'.path].bytes \in Seq(Pieces)
      BY <1>1, <1>2, RequestTypes DEF FsTypes, Entries
    <2>2. before'[request'.path].bytes = before'[request'.path].bytes \o <<>>
      BY <2>1, ConcatEmptySeq
    <2>3. <<>> \in Seq({Whole, Torn}) /\ Len(<<>>) = 0
      OBVIOUS
    <2>4. disturbed' \in Nat
      BY <1>1 DEF FsTypes
    <2>5. \A n \in Nat : 0 <= n /\ 0 <= n + 1
      OBVIOUS
    <2>6. tree'[request'.path].bytes = before'[request'.path].bytes \o <<>>
      BY <1>2, <2>2
    <2>7. QED
      BY <2>3, <2>4, <2>5, <2>6 DEF Grown
  <1>5. PartlyPrepared'
    <2>1. /\ before' \in [Paths -> Entries] /\ Destination(request)' \in Paths
          /\ 0 \in 0..MaxDepth
      BY <1>1, <1>2, RequestTypes, FilesystemAssumption DEF FsTypes
    <2>2. tree' = WithParents(before', Destination(request)', 0)
      BY <1>2, <2>1, NoParents
    <2>3. QED
      BY <2>1, <2>2 DEF PartlyPrepared
  <1>6. WriteSoFar'
    BY <1>2, <1>4, <1>5 DEF WriteSoFar
  <1>7. MkdirSoFar' /\ RenameSoFar' /\ DeleteSoFar'
    BY <1>2, <1>5 DEF MkdirSoFar, RenameSoFar, DeleteSoFar
  <1>8. QED
    BY <1>1, <1>3, <1>6, <1>7 DEF FilesystemInv

\* What a step that leaves the workspace alone, and reports no success, has to show.
LEMMA LeavesTree ==
    ASSUME FilesystemInv, request # NoRequest, UNCHANGED <<tree, before, request>>,
           FsTypes', StepsOfTask',
           result' # "done", result = "done" => disturbed' > disturbed,
           disturbed' = disturbed \/ disturbed' > 0, disturbed' >= disturbed,
           step' \in {"idle", "check", "parents"} \/ (step' = "act" /\ request.op = "delete"),
           step = "write" => disturbed' > 0,
           request.op = "rename" /\ step' = "parents" => PartlyPrepared /\ RenameAllowed,
           request.op = "delete" /\ step = "act" /\ step' # "act" => disturbed' > 0 \/ tree = before
    PROVE  FilesystemInv'
  <1>1. FsTypes /\ StepsOfTask /\ WriteSoFar /\ MkdirSoFar /\ RenameSoFar /\ DeleteSoFar
    BY DEF FilesystemInv
  <1>2. /\ Prepared' = Prepared /\ After(before, request)' = After(before, request)
        /\ PartlyPrepared' = PartlyPrepared /\ OthersPrepared' = OthersPrepared
        /\ (request.op = "rename" => RenameAllowed' = RenameAllowed)
    BY SameTask DEF PartlyPrepared, OthersPrepared, RenameAllowed
  <1>3. MayHaveActed => MayHaveActed'
    BY <1>1 DEF MayHaveActed, FsTypes
  <1>4. WriteSoFar'
    <2> SUFFICES ASSUME request.op = "write" PROVE WriteSoFar'
      BY DEF WriteSoFar
    <2>1. request.append => Grown'
      BY <1>1, StaysGrown DEF WriteSoFar
    <2>2. step = "write" => MayHaveActed'
      BY DEF MayHaveActed
    <2>3. QED
      BY <1>1, <1>2, <1>3, <2>1, <2>2 DEF WriteSoFar
  <1>5. MkdirSoFar'
    BY <1>1, <1>2, <1>3 DEF MkdirSoFar
  <1>6. RenameSoFar'
    BY <1>1, <1>2, <1>3 DEF RenameSoFar
  <1>7. DeleteSoFar'
    <2> SUFFICES ASSUME request.op = "delete" PROVE DeleteSoFar'
      BY DEF DeleteSoFar
    <2>1. disturbed' > 0 => MayHaveActed'
      BY DEF MayHaveActed
    <2>2. QED
      BY <1>1, <1>2, <1>3, <2>1 DEF DeleteSoFar
  <1>8. QED
    BY <1>1, <1>4, <1>5, <1>6, <1>7 DEF FilesystemInv

\* A rename gets past its check only where it may replace what it finds, and never
\* after it was carried out, unless it had nothing to do.
LEMMA CheckedRename ==
    ASSUME FilesystemInv, request # NoRequest, request.op = "rename",
           ~RefusedForGood(request), ~RefusedForNow(request)
    PROVE  PartlyPrepared /\ RenameAllowed
  <1>1. /\ FsTypes /\ RenameSoFar
        /\ tree \in [Paths -> Entries] /\ before \in [Paths -> Entries] /\ Nested(before)
    BY DEF FilesystemInv, FsTypes
  <1>2. /\ request \in Requests /\ request.path \in Paths /\ request.target \in Paths
        /\ Destination(request) = request.target
    BY <1>1, TaskTypes, RequestTypes DEF Destination
  <1>3. /\ Prepared = WithAllParents(before, request.target) /\ Prepared \in [Paths -> Entries]
        /\ After(before, request) = Moved(Prepared, request.path, request.target)
    BY <1>1, <1>2, TaskTypes, AfterOthers DEF Prepared
  <1>4. tree[request.path] # None
        /\ (tree[request.target] # None => request.overwrite)
    BY <1>2 DEF RefusedForGood, RefusedForNow
  <1>5. PartlyPrepared
    <2> SUFFICES ASSUME tree = After(before, request), ~Below(request.target, request.path)
                 PROVE  tree = Prepared
      BY <1>1, PreparedSoFar DEF RenameSoFar
    <2>1. request.path = request.target
      BY <1>2, <1>3, <1>4, MovedAway
    <2>2. QED
      BY <1>2, <1>3, <2>1, MovedToItself
  <1>6. before[request.target] = None \/ request.overwrite
    <2>1. tree[request.target] = before[request.target]
      BY <1>1, <1>2, <1>5, PreparedSoFar, BelowIsStrict
    <2>2. QED
      BY <1>4, <2>1
  <1>7. ASSUME Below(request.target, request.path)
        PROVE  before[request.target].kind = "directory"
    <2>1. ~Below(request.path, request.target)
      BY <1>2, <1>7, BelowIsStrict
    <2>2. tree[request.path] = before[request.path]
      BY <1>1, <1>2, <1>5, <2>1, PreparedSoFar
    <2>3. before[request.path] # None
      BY <1>4, <2>2
    <2>4. QED
      BY <1>1, <1>2, <1>7, <2>3, Ancestors
  <1>8. QED
    BY <1>5, <1>6, <1>7 DEF RenameAllowed

LEMMA CheckInv == FilesystemInv /\ Check => FilesystemInv'
  <1> SUFFICES ASSUME FilesystemInv, Check PROVE FilesystemInv'
    OBVIOUS
  <1>1. FsTypes /\ StepsOfTask /\ request # NoRequest /\ disturbed \in Nat
    BY DEF FilesystemInv, FsTypes, StepsOfTask, Check
  <1>2. /\ UNCHANGED <<tree, before, request, disturbed>> /\ step = "check" /\ result = "none"
        /\ result' \in {"none", "permanent", "retryable"}
        /\ step' \in {"idle", "parents", "act"}
        /\ step' # "idle" => /\ result' = "none"
                             /\ step' = (IF request.op = "delete" THEN "act" ELSE "parents")
                             /\ ~RefusedForGood(request) /\ ~RefusedForNow(request)
    BY <1>1 DEF Check, Ends, Goes, NotDisturbed, StepsOfTask
  <1>3. FsTypes'
    BY <1>1, <1>2 DEF FsTypes
  <1>4. StepsOfTask'
    BY <1>1, <1>2 DEF StepsOfTask
  <1>5. request.op = "rename" /\ step' = "parents" => PartlyPrepared /\ RenameAllowed
    BY <1>1, <1>2, CheckedRename
  <1>6. step' = "act" => request.op = "delete"
    BY <1>2
  <1>7. QED
    BY <1>1, <1>2, <1>3, <1>4, <1>5, <1>6, LeavesTree

LEMMA CallFailsInv == FilesystemInv /\ CallFails => FilesystemInv'
  <1> SUFFICES ASSUME FilesystemInv, CallFails PROVE FilesystemInv'
    OBVIOUS
  <1>1. FsTypes /\ StepsOfTask /\ request # NoRequest /\ disturbed \in Nat /\ result = "none"
    BY DEF FilesystemInv, FsTypes, StepsOfTask, CallFails
  <1>2. /\ UNCHANGED <<tree, before, request>> /\ step \in {"check", "parents", "act"}
        /\ disturbed' = disturbed + 1 /\ step' = "idle" /\ result' \in {"permanent", "retryable"}
    BY DEF CallFails, Ends, Disturbed, Classes
  <1>3. disturbed' \in Nat /\ disturbed' > 0 /\ disturbed' >= disturbed
    BY <1>1, <1>2
  <1>4. FsTypes'
    BY <1>1, <1>2, <1>3 DEF FsTypes
  <1>5. StepsOfTask'
    BY <1>1, <1>2 DEF StepsOfTask
  <1>6. QED
    BY <1>1, <1>2, <1>3, <1>4, <1>5, LeavesTree

LEMMA RetryInv == FilesystemInv /\ Retry => FilesystemInv'
  <1> SUFFICES ASSUME FilesystemInv, Retry PROVE FilesystemInv'
    OBVIOUS
  <1>1. FsTypes /\ StepsOfTask /\ request # NoRequest /\ disturbed \in Nat /\ step = "idle"
    BY DEF FilesystemInv, FsTypes, StepsOfTask, Retry
  <1>2. /\ UNCHANGED <<tree, before, request, disturbed>> /\ result = "retryable"
        /\ step' = "check" /\ result' = "none"
    BY DEF Retry, NotDisturbed
  <1>3. FsTypes'
    BY <1>1, <1>2 DEF FsTypes
  <1>4. StepsOfTask'
    BY <1>1, <1>2 DEF StepsOfTask
  <1>5. QED
    BY <1>1, <1>2, <1>3, <1>4, LeavesTree

\* What becomes of the file when something is written to it.
LEMMA FileGrows ==
    ASSUME FsTypes, request # NoRequest, NEW piece \in {Whole, Torn},
           tree' = [tree EXCEPT ![request.path].bytes = Append(@, piece)]
    PROVE  /\ tree' \in [Paths -> Entries]
           /\ tree'[request.path].bytes = Append(tree[request.path].bytes, piece)
           /\ tree'[request.path].kind = tree[request.path].kind
           /\ \A p \in Paths \ {request.path} : tree'[p] = tree[p]
  <1>1. tree \in [Paths -> Entries] /\ request.path \in Paths
    BY TaskTypes DEF FsTypes
  <1>2. piece \in Pieces
    BY DEF Pieces
  <1>3. tree[request.path].bytes \in Seq(Pieces)
    BY <1>1 DEF Entries
  <1>4. Append(tree[request.path].bytes, piece) \in Seq(Pieces)
    BY <1>2, <1>3
  <1>5. QED
    BY <1>1, <1>4 DEF Entries

\* A write that ends without success after it has written something.
LEMMA WriteEndsEarly ==
    ASSUME FilesystemInv, request # NoRequest, step = "write", UNCHANGED <<before, request>>,
           NEW piece \in {Whole, Torn},
           tree' = [tree EXCEPT ![request.path].bytes = Append(@, piece)],
           disturbed' = disturbed + 1, FsTypes', StepsOfTask',
           step' \in {"idle", "check"}, result' # "done"
    PROVE  FilesystemInv'
  <1>1. /\ FsTypes /\ request.op = "write" /\ WriteSoFar /\ disturbed \in Nat
        /\ result # "done"
    BY DEF FilesystemInv, StepsOfTask, FsTypes
  <1>2. Prepared' = Prepared /\ MayHaveActed'
    BY <1>1, SameTask DEF MayHaveActed
  <1>3. OthersPrepared'
    BY <1>1, <1>2, FileGrows DEF WriteSoFar, OthersPrepared
  <1>4. request.append => Grown'
    BY <1>1, FileGrows, GrowsByOne DEF WriteSoFar
  <1>5. WriteSoFar'
    BY <1>2, <1>3, <1>4 DEF WriteSoFar
  <1>6. MkdirSoFar' /\ RenameSoFar' /\ DeleteSoFar'
    BY <1>1 DEF MkdirSoFar, RenameSoFar, DeleteSoFar
  <1>7. QED
    BY <1>5, <1>6 DEF FilesystemInv

LEMMA DieInv == FilesystemInv /\ Die => FilesystemInv'
  <1> SUFFICES ASSUME FilesystemInv, Die PROVE FilesystemInv'
    OBVIOUS
  <1>1. FsTypes /\ StepsOfTask /\ request # NoRequest /\ disturbed \in Nat
    BY DEF FilesystemInv, FsTypes, Die
  <1>2. /\ UNCHANGED <<before, request>> /\ disturbed' = disturbed + 1
        /\ step' = "check" /\ result' = "none"
    BY DEF Die, Disturbed
  <1>3. disturbed' \in Nat /\ disturbed' > 0 /\ disturbed' > disturbed /\ disturbed' >= disturbed
    BY <1>1, <1>2
  <1>4. StepsOfTask'
    BY <1>1, <1>2 DEF StepsOfTask
  <1>5. CASE UNCHANGED tree
    <2>1. FsTypes'
      BY <1>1, <1>2, <1>3, <1>5 DEF FsTypes
    <2>2. QED
      BY <1>1, <1>2, <1>3, <1>4, <1>5, <2>1, LeavesTree
  <1>6. CASE /\ step = "write"
             /\ tree' = [tree EXCEPT ![request.path].bytes = Append(@, Torn)]
    <2>1. FsTypes'
      BY <1>1, <1>2, <1>3, <1>6, FileGrows DEF FsTypes
    <2>2. QED
      BY <1>1, <1>2, <1>4, <1>6, <2>1, WriteEndsEarly
  <1>7. QED
    BY <1>5, <1>6 DEF Die

LEMMA BytesFailInv == FilesystemInv /\ BytesFail => FilesystemInv'
  <1> SUFFICES ASSUME FilesystemInv, BytesFail PROVE FilesystemInv'
    OBVIOUS
  <1>1. /\ FsTypes /\ StepsOfTask /\ request # NoRequest /\ disturbed \in Nat
        /\ step = "write" /\ result = "none"
    BY DEF FilesystemInv, FsTypes, StepsOfTask, BytesFail
  <1>2. /\ UNCHANGED <<before, request>> /\ disturbed' = disturbed + 1
        /\ step' = "idle" /\ result' = "permanent"
    BY DEF BytesFail, Disturbed, Ends
  <1>3. disturbed' \in Nat /\ disturbed' > 0 /\ disturbed' >= disturbed
    BY <1>1, <1>2
  <1>4. StepsOfTask'
    BY <1>1, <1>2 DEF StepsOfTask
  <1>5. CASE UNCHANGED tree
    <2>1. FsTypes'
      BY <1>1, <1>2, <1>3, <1>5 DEF FsTypes
    <2>2. request.op = "write"
      BY <1>1 DEF StepsOfTask
    <2>3. QED
      BY <1>1, <1>2, <1>3, <1>4, <1>5, <2>1, <2>2, LeavesTree
  <1>6. ASSUME NEW piece \in {Whole, Torn},
               tree' = [tree EXCEPT ![request.path].bytes = Append(@, piece)]
        PROVE  FilesystemInv'
    <2>1. FsTypes'
      BY <1>1, <1>2, <1>3, <1>6, FileGrows DEF FsTypes
    <2>2. QED
      BY <1>1, <1>2, <1>4, <1>6, <2>1, WriteEndsEarly
  <1>7. QED
    BY <1>5, <1>6 DEF BytesFail

LEMMA OpenFileInv == FilesystemInv /\ OpenFile => FilesystemInv'
  <1> SUFFICES ASSUME FilesystemInv, OpenFile PROVE FilesystemInv'
    OBVIOUS
  <1>1. /\ FsTypes /\ StepsOfTask /\ WriteSoFar /\ request # NoRequest
        /\ request \in Requests /\ request.path \in Paths /\ request.append \in BOOLEAN
        /\ request.op = "write" /\ step = "act" /\ result = "none"
    BY TaskTypes, RequestTypes DEF FilesystemInv, FsTypes, StepsOfTask, OpenFile
  <1>2. /\ UNCHANGED <<before, request, disturbed, result>> /\ step' = "write"
        /\ tree' = [tree EXCEPT ![request.path] = Opened(@, request.append)]
    BY DEF OpenFile, Goes, NotDisturbed
  <1>3. tree \in [Paths -> Entries] /\ tree[request.path].bytes \in Seq(Pieces)
    BY <1>1 DEF FsTypes, Entries
  <1>4. /\ Opened(tree[request.path], request.append) \in Entries
        /\ Opened(tree[request.path], request.append).kind = "file"
        /\ Opened(tree[request.path], request.append).bytes =
               (IF request.append THEN tree[request.path].bytes ELSE <<>>)
    BY <1>3 DEF Opened, File, Entries
  <1>5. /\ tree' \in [Paths -> Entries]
        /\ tree'[request.path] = Opened(tree[request.path], request.append)
        /\ \A p \in Paths \ {request.path} : tree'[p] = tree[p]
    BY <1>1, <1>2, <1>3, <1>4
  <1>6. FsTypes'
    BY <1>1, <1>2, <1>5 DEF FsTypes
  <1>7. StepsOfTask'
    BY <1>1, <1>2 DEF StepsOfTask
  <1>8. OthersPrepared'
    BY <1>1, <1>2, <1>5, SameTask DEF WriteSoFar, OthersPrepared
  <1>9. request.append => Grown'
    <2>1. disturbed \in Nat /\ disturbed' >= disturbed
      BY <1>1, <1>2 DEF FsTypes
    <2>2. QED
      BY <1>1, <1>2, <1>4, <1>5, <1>6, <2>1, StaysGrown DEF WriteSoFar
  <1>10. WriteSoFar'
    BY <1>1, <1>2, <1>4, <1>5, <1>8, <1>9 DEF WriteSoFar
  <1>11. MkdirSoFar' /\ RenameSoFar' /\ DeleteSoFar'
    BY <1>1, <1>2 DEF MkdirSoFar, RenameSoFar, DeleteSoFar
  <1>12. QED
    BY <1>6, <1>7, <1>10, <1>11 DEF FilesystemInv

LEMMA WriteBytesInv == FilesystemInv /\ WriteBytes => FilesystemInv'
  <1> SUFFICES ASSUME FilesystemInv, WriteBytes PROVE FilesystemInv'
    OBVIOUS
  <1>1. /\ FsTypes /\ StepsOfTask /\ WriteSoFar /\ request # NoRequest
        /\ step = "write" /\ result = "none" /\ request.op = "write"
    BY DEF FilesystemInv, StepsOfTask, WriteBytes
  <1>2. /\ UNCHANGED <<before, request, disturbed>> /\ step' = "idle" /\ result' = "done"
        /\ tree' = [tree EXCEPT ![request.path].bytes = Append(@, Whole)]
    BY DEF WriteBytes, Ends, NotDisturbed
  <1>3. FsTypes'
    BY <1>1, <1>2, FileGrows DEF FsTypes
  <1>4. StepsOfTask'
    BY <1>1, <1>2 DEF StepsOfTask
  <1>5. /\ request \in Requests /\ request.path \in Paths /\ request.append \in BOOLEAN
        /\ Prepared = WithAllParents(before, request.path) /\ Prepared \in [Paths -> Entries]
        /\ tree \in [Paths -> Entries] /\ before \in [Paths -> Entries]
    BY <1>1, TaskTypes, RequestTypes DEF FsTypes, Prepared, Destination
  <1>6. /\ OthersPrepared /\ tree[request.path].kind = "file"
        /\ tree' \in [Paths -> Entries]
        /\ tree'[request.path].bytes = Append(tree[request.path].bytes, Whole)
        /\ tree'[request.path].kind = "file"
        /\ \A p \in Paths \ {request.path} : tree'[p] = Prepared[p]
    BY <1>1, <1>2, FileGrows DEF WriteSoFar, OthersPrepared
  <1>7. tree'[request.path] = File(Append(tree[request.path].bytes, Whole))
    BY <1>5, <1>6 DEF File, Entries
  <1>8. ASSUME ~request.append
        PROVE  tree' = After(before, request)
    <2>1. Append(tree[request.path].bytes, Whole) = <<>> \o <<Whole>>
      <3>1. tree[request.path].bytes = <<>>
        BY <1>1, <1>8 DEF WriteSoFar
      <3>2. Append(<<>>, Whole) = <<>> \o <<Whole>>
        OBVIOUS
      <3>3. QED
        BY <3>1, <3>2
    <2>2. After(before, request) = [Prepared EXCEPT ![request.path] = File(<<>> \o <<Whole>>)]
      BY <1>1, <1>5, <1>8, AfterWrite
    <2>3. QED
      BY <1>5, <1>6, <1>7, <2>1, <2>2
  <1>9. ASSUME request.append
        PROVE  AppendedMore'
    <2>1. PICK more \in Seq({Whole, Torn}) :
              /\ Len(more) <= disturbed
              /\ tree[request.path].bytes = before[request.path].bytes \o more
      BY <1>1, <1>9 DEF WriteSoFar, Grown
    <2>2. Len(more) \in 0..disturbed /\ more \in [1..Len(more) -> {Whole, Torn}]
      BY <1>1, <2>1 DEF FsTypes
    <2> DEFINE all == before[request.path].bytes \o more \o <<Whole>>
    <2>3. Append(tree[request.path].bytes, Whole) = all
      <3>1. tree[request.path].bytes \in Seq(Pieces) /\ Whole \in Pieces
        BY <1>5 DEF Entries, Pieces
      <3>2. Append(tree[request.path].bytes, Whole) = tree[request.path].bytes \o <<Whole>>
        BY <3>1, AppendIsConcat
      <3>3. QED
        BY <2>1, <3>2
    <2>4. tree'[request.path] = File(all)
      BY <1>7, <2>3
    <2>5. PICK bytes : After(before, request) = [Prepared EXCEPT ![request.path] = File(bytes)]
      BY <1>1, <1>5, AfterWrite
    <2> HIDE DEF all
    <2>6. [File(bytes) EXCEPT !.bytes = all] = File(all)
      BY DEF File
    <2>7. After(before, request)[request.path] = File(bytes)
      BY <1>5, <2>5
    <2>8. [After(before, request) EXCEPT ![request.path].bytes = all]
              = [Prepared EXCEPT ![request.path] = File(all)]
      BY <1>5, <2>5, <2>6, <2>7
    <2>9. tree' = [After(before, request) EXCEPT ![request.path].bytes = all]
      BY <1>5, <1>6, <2>4, <2>8
    <2>10. QED
      BY <1>1, <1>2, <1>9, <2>2, <2>9 DEF AppendedMore, all
  <1>10. (tree = After(before, request) \/ AppendedMore)'
    BY <1>2, <1>5, <1>8, <1>9
  <1>11. request.append => Grown'
    BY <1>1, <1>2, <1>3, <1>6, GrowsByOne DEF WriteSoFar
  <1>12. OthersPrepared'
    BY <1>2, <1>6, SameTask DEF OthersPrepared
  <1>13. WriteSoFar'
    BY <1>2, <1>10, <1>11, <1>12 DEF WriteSoFar, MayHaveActed
  <1>14. MkdirSoFar' /\ RenameSoFar' /\ DeleteSoFar'
    BY <1>1, <1>2 DEF MkdirSoFar, RenameSoFar, DeleteSoFar
  <1>15. QED
    BY <1>3, <1>4, <1>13, <1>14 DEF FilesystemInv

\* Until it has changed anything else, a task can make parents only of what has none.
LEMMA MakesParents ==
    ASSUME FilesystemInv, request # NoRequest, step = "parents", Missing # {}
    PROVE  PartlyPrepared
  <1>1. /\ FsTypes /\ StepsOfTask /\ request.op \in {"write", "mkdir", "rename"}
        /\ WriteSoFar /\ MkdirSoFar /\ RenameSoFar
        /\ request \in Requests /\ request.path \in Paths /\ Prepared \in [Paths -> Entries]
    BY TaskTypes DEF FilesystemInv, StepsOfTask
  <1>2. PICK q \in Paths : Below(q, Destination(request)) /\ tree[q] = None
    BY DEF Missing
  <1>3. Prepared[q] # None
    BY <1>1, <1>2, TaskTypes
  <1>4. CASE request.op = "write"
    <2>1. q # request.path
      BY <1>1, <1>2, <1>4, BelowIsStrict DEF Destination
    <2>2. ~OthersPrepared
      BY <1>2, <1>3, <2>1 DEF OthersPrepared
    <2>3. QED
      BY <1>1, <1>4, <2>2 DEF WriteSoFar
  <1>5. CASE request.op = "mkdir"
    <2>1. q # request.path /\ Prepared = WithAllParents(before, request.path)
      BY <1>1, <1>2, <1>5, BelowIsStrict DEF Destination, Prepared
    <2>2. After(before, request) = [Prepared EXCEPT ![request.path] = Directory]
      BY <1>5, <2>1, AfterOthers
    <2>3. tree # After(before, request)
      BY <1>1, <1>2, <1>3, <2>1, <2>2
    <2>4. QED
      BY <1>1, <1>5, <2>3 DEF MkdirSoFar
  <1>6. CASE request.op = "rename"
    BY <1>1, <1>6 DEF RenameSoFar
  <1>7. QED
    BY <1>1, <1>4, <1>5, <1>6

\* os.MkdirAll has made the next directory.
LEMMA ParentMadeInv ==
    ASSUME FilesystemInv, request # NoRequest, step = "parents",
           UNCHANGED <<before, request, step, result, disturbed>>,
           NEW q \in Missing, \A other \in Missing : Within(q, other),
           tree' = [tree EXCEPT ![q] = Directory]
    PROVE  FilesystemInv'
  <1>1. /\ FsTypes /\ StepsOfTask /\ request.op # "delete" /\ result = "none"
        /\ WriteSoFar /\ MkdirSoFar /\ RenameSoFar
        /\ tree \in [Paths -> Entries] /\ before \in [Paths -> Entries]
        /\ request \in Requests /\ Destination(request) \in Paths /\ disturbed \in Nat
    BY TaskTypes DEF FilesystemInv, FsTypes, StepsOfTask
  <1>2. q \in Paths /\ Below(q, Destination(request)) /\ Directory \in Entries
    BY DEF Missing, Directory, Entries
  <1>3. tree' \in [Paths -> Entries]
    BY <1>1, <1>2
  <1>4. FsTypes'
    BY <1>1, <1>3 DEF FsTypes
  <1>5. StepsOfTask'
    BY <1>1 DEF StepsOfTask
  <1>6. PartlyPrepared'
    <2>1. PICK n \in 0..MaxDepth : tree = WithParents(before, Destination(request), n)
      BY MakesParents DEF PartlyPrepared
    <2>2. n \in Nat /\ Len(q) \in 0..MaxDepth
      BY <1>2, PathsAreSequences, FilesystemAssumption
    <2>3. \A o \in Paths : Below(o, Destination(request)) /\ tree[o] = None => Within(q, o)
      BY DEF Missing
    <2>4. tree[q] = None
      BY DEF Missing
    <2>5. tree' = WithParents(before, Destination(request), Len(q))
      BY <1>1, <1>2, <2>1, <2>2, <2>3, <2>4, NextParent
    <2>6. QED
      BY <2>2, <2>5 DEF PartlyPrepared
  <1>7. WriteSoFar'
    <2> SUFFICES ASSUME request.op = "write" PROVE WriteSoFar'
      BY DEF WriteSoFar
    <2>1. q # request.path /\ request.append \in BOOLEAN
      BY <1>1, <1>2, RequestTypes, BelowIsStrict DEF Destination
    <2>2. tree'[request.path].bytes = tree[request.path].bytes
      BY <1>1, <2>1
    <2>3. disturbed' >= disturbed
      BY <1>1
    <2>4. request.append => Grown'
      BY <1>1, <1>4, <2>2, <2>3, StaysGrown DEF WriteSoFar
    <2>5. QED
      BY <1>1, <1>6, <2>4 DEF WriteSoFar
  <1>8. MkdirSoFar'
    BY <1>1, <1>6 DEF MkdirSoFar
  <1>9. RenameSoFar'
    <2>1. request.op = "rename" => RenameAllowed'
      BY <1>1 DEF RenameSoFar, RenameAllowed
    <2>2. QED
      BY <1>1, <1>6, <2>1 DEF RenameSoFar
  <1>10. DeleteSoFar'
    BY <1>1 DEF DeleteSoFar
  <1>11. QED
    BY <1>4, <1>5, <1>7, <1>8, <1>9, <1>10 DEF FilesystemInv

\* os.MkdirAll has no more to make.
LEMMA ParentsReadyInv ==
    ASSUME FilesystemInv, request # NoRequest, step = "parents", Missing = {},
           UNCHANGED <<tree, before, request, result, disturbed>>, step' = "act"
    PROVE  FilesystemInv'
  <1>1. /\ FsTypes /\ StepsOfTask /\ request.op # "delete" /\ result = "none"
        /\ WriteSoFar /\ MkdirSoFar /\ RenameSoFar /\ disturbed \in Nat
        /\ request \in Requests
    BY TaskTypes DEF FilesystemInv, FsTypes, StepsOfTask
  <1>2. FsTypes'
    BY <1>1 DEF FsTypes
  <1>3. StepsOfTask'
    BY <1>1 DEF StepsOfTask
  <1>4. /\ Prepared' = Prepared /\ After(before, request)' = After(before, request)
        /\ MayHaveActed' = MayHaveActed /\ PartlyPrepared' = PartlyPrepared
        /\ OthersPrepared' = OthersPrepared
        /\ (request.op = "rename" => RenameAllowed' = RenameAllowed)
    BY SameTask DEF MayHaveActed, PartlyPrepared, OthersPrepared, RenameAllowed
  <1>5. PartlyPrepared => tree = Prepared
    BY <1>1, PreparedSoFar
  <1>6. WriteSoFar'
    <2> SUFFICES ASSUME request.op = "write" PROVE WriteSoFar'
      BY DEF WriteSoFar
    <2>1. disturbed' >= disturbed /\ request.append \in BOOLEAN
      BY <1>1, RequestTypes
    <2>2. request.append => Grown'
      BY <1>1, <1>2, <2>1, StaysGrown DEF WriteSoFar
    <2>3. OthersPrepared
      BY <1>1, <1>5 DEF WriteSoFar, OthersPrepared
    <2>4. QED
      BY <1>1, <1>4, <2>2, <2>3 DEF WriteSoFar
  <1>7. MkdirSoFar' /\ RenameSoFar' /\ DeleteSoFar'
    BY <1>1, <1>4, <1>5 DEF MkdirSoFar, RenameSoFar, DeleteSoFar
  <1>8. QED
    BY <1>2, <1>3, <1>6, <1>7 DEF FilesystemInv

LEMMA MakeParentsInv == FilesystemInv /\ MakeParents => FilesystemInv'
  <1> SUFFICES ASSUME FilesystemInv, MakeParents PROVE FilesystemInv'
    OBVIOUS
  <1>1. request # NoRequest /\ step = "parents" /\ UNCHANGED <<before, request, disturbed>>
    BY DEF FilesystemInv, StepsOfTask, MakeParents, NotDisturbed
  <1>2. CASE Missing = {} /\ UNCHANGED tree /\ Goes("act")
    BY <1>1, <1>2, ParentsReadyInv DEF Goes
  <1>3. ASSUME NEW q \in Missing, \A other \in Missing : Within(q, other),
               tree' = [tree EXCEPT ![q] = Directory], UNCHANGED <<step, result>>
        PROVE  FilesystemInv'
    BY <1>1, <1>3, ParentMadeInv
  <1>4. QED
    BY <1>2, <1>3 DEF MakeParents

LEMMA MakeDirectoryInv == FilesystemInv /\ MakeDirectory => FilesystemInv'
  <1> SUFFICES ASSUME FilesystemInv, MakeDirectory PROVE FilesystemInv'
    OBVIOUS
  <1>1. /\ FsTypes /\ StepsOfTask /\ request # NoRequest /\ MkdirSoFar
        /\ step = "act" /\ result = "none" /\ request.op = "mkdir"
    BY DEF FilesystemInv, StepsOfTask, MakeDirectory
  <1>2. /\ UNCHANGED <<before, request, disturbed>> /\ step' = "idle" /\ result' = "done"
        /\ tree' = [tree EXCEPT ![request.path] = Directory]
    BY DEF MakeDirectory, Ends, NotDisturbed
  <1>3. /\ request.path \in Paths /\ tree \in [Paths -> Entries] /\ Prepared \in [Paths -> Entries]
        /\ Destination(request) = request.path /\ Directory \in Entries
    BY <1>1, TaskTypes DEF FsTypes, Destination, Directory, Entries
  <1>4. FsTypes'
    BY <1>1, <1>2, <1>3 DEF FsTypes
  <1>5. StepsOfTask'
    BY <1>1, <1>2 DEF StepsOfTask
  <1>6. After(before, request) = [Prepared EXCEPT ![request.path] = Directory]
    BY <1>1, <1>3, AfterOthers DEF Prepared
  <1>7. tree' = After(before, request)
    BY <1>1, <1>2, <1>3, <1>6 DEF MkdirSoFar
  <1>8. MkdirSoFar'
    BY <1>2, <1>7, SameTask DEF MkdirSoFar, MayHaveActed
  <1>9. WriteSoFar' /\ RenameSoFar' /\ DeleteSoFar'
    BY <1>1, <1>2 DEF WriteSoFar, RenameSoFar, DeleteSoFar
  <1>10. QED
    BY <1>4, <1>5, <1>8, <1>9 DEF FilesystemInv

LEMMA RenameEntryInv == FilesystemInv /\ RenameEntry => FilesystemInv'
  <1> SUFFICES ASSUME FilesystemInv, RenameEntry PROVE FilesystemInv'
    OBVIOUS
  <1>1. /\ FsTypes /\ StepsOfTask /\ request # NoRequest /\ RenameSoFar
        /\ step = "act" /\ result = "none" /\ request.op = "rename"
    BY DEF FilesystemInv, StepsOfTask, RenameEntry
  <1>2. /\ UNCHANGED <<before, request, disturbed>> /\ step' = "idle"
        /\ result' \in {"done", "retryable"}
        /\ result' = "done" =>
               /\ Movable(tree, request.path, request.target)
               /\ tree' = Moved(tree, request.path, request.target)
        /\ result' # "done" => tree' = tree
    BY DEF RenameEntry, Ends, NotDisturbed
  <1>3. /\ request.path \in Paths /\ request.target \in Paths
        /\ Destination(request) = request.target
        /\ tree \in [Paths -> Entries] /\ Prepared \in [Paths -> Entries]
    BY <1>1, TaskTypes, RequestTypes DEF FsTypes, Destination
  <1>4. FsTypes'
    BY <1>1, <1>2, <1>3, MoveTypes DEF FsTypes
  <1>5. StepsOfTask'
    BY <1>1, <1>2 DEF StepsOfTask
  <1>6. tree = Prepared /\ RenameAllowed
    BY <1>1 DEF RenameSoFar
  <1>7. /\ Prepared' = Prepared /\ After(before, request)' = After(before, request)
        /\ RenameAllowed'
    BY <1>2, <1>6, SameTask DEF RenameAllowed
  <1>8. RenameSoFar'
    <2>1. CASE result' = "done"
      <3>1. tree' = After(before, request)
        BY <1>1, <1>2, <1>3, <1>6, <2>1, AfterOthers DEF Prepared
      <3>2. ~Below(request.target, request.path)
        <4> SUFFICES ASSUME Below(request.target, request.path) PROVE FALSE
          OBVIOUS
        <4>1. before[request.target].kind = "directory"
          BY <1>6 DEF RenameAllowed
        <4>2. tree[request.target] = before[request.target]
          BY <1>1, <1>3, <1>6, TaskTypes
        <4>3. QED
          BY <1>2, <2>1, <4>1, <4>2 DEF Movable
      <3>3. QED
        BY <1>2, <1>7, <2>1, <3>1, <3>2 DEF RenameSoFar, MayHaveActed
    <2>2. CASE result' # "done"
      <3>1. PartlyPrepared'
        BY <1>1, <1>2, <2>2 DEF RenameSoFar, PartlyPrepared
      <3>2. QED
        BY <1>2, <1>6, <1>7, <2>2, <3>1 DEF RenameSoFar
    <2>3. QED
      BY <2>1, <2>2
  <1>9. WriteSoFar' /\ MkdirSoFar' /\ DeleteSoFar'
    BY <1>1, <1>2 DEF WriteSoFar, MkdirSoFar, DeleteSoFar
  <1>10. QED
    BY <1>4, <1>5, <1>8, <1>9 DEF FilesystemInv

LEMMA RemoveInsideInv == FilesystemInv /\ RemoveInside => FilesystemInv'
  <1> SUFFICES ASSUME FilesystemInv, RemoveInside PROVE FilesystemInv'
    OBVIOUS
  <1>1. /\ FsTypes /\ StepsOfTask /\ request # NoRequest /\ DeleteSoFar
        /\ step = "act" /\ result = "none" /\ request.op = "delete" /\ request.recursive
    BY DEF FilesystemInv, StepsOfTask, RemoveInside
  <1>2. UNCHANGED <<before, request, step, result, disturbed>>
    BY DEF RemoveInside
  <1>3. PICK q \in Inside(request.path) : tree' = [tree EXCEPT ![q] = None]
    BY DEF RemoveInside
  <1>4. q \in Paths /\ Within(request.path, q) /\ tree \in [Paths -> Entries] /\ None \in Entries
    BY <1>1 DEF Inside, Within, FsTypes, None, Entries
  <1>5. FsTypes'
    BY <1>1, <1>2, <1>3, <1>4 DEF FsTypes
  <1>6. StepsOfTask'
    BY <1>1, <1>2 DEF StepsOfTask
  <1>7. \A p \in Paths : tree'[p] = before[p] \/ (Within(request.path, p) /\ tree'[p] = None)
    BY <1>1, <1>3, <1>4 DEF DeleteSoFar
  <1>8. DeleteSoFar'
    BY <1>1, <1>2, <1>7 DEF DeleteSoFar
  <1>9. WriteSoFar' /\ MkdirSoFar' /\ RenameSoFar'
    BY <1>1, <1>2 DEF WriteSoFar, MkdirSoFar, RenameSoFar
  <1>10. QED
    BY <1>5, <1>6, <1>8, <1>9 DEF FilesystemInv

LEMMA RemoveEntryInv == FilesystemInv /\ RemoveEntry => FilesystemInv'
  <1> SUFFICES ASSUME FilesystemInv, RemoveEntry PROVE FilesystemInv'
    OBVIOUS
  <1>1. /\ FsTypes /\ StepsOfTask /\ request # NoRequest /\ DeleteSoFar
        /\ step = "act" /\ result = "none" /\ request.op = "delete"
    BY DEF FilesystemInv, StepsOfTask, RemoveEntry
  <1>2. /\ UNCHANGED <<before, request, disturbed>> /\ step' = "idle"
        /\ result' \in {"done", "retryable"}
        /\ result' = "done" => /\ Inside(request.path) = {}
                               /\ tree' = [tree EXCEPT ![request.path] = None]
        /\ result' # "done" => tree' = tree /\ ~request.recursive
    BY DEF RemoveEntry, Ends, NotDisturbed
  <1>3. /\ request.path \in Paths /\ None \in Entries
        /\ tree \in [Paths -> Entries] /\ before \in [Paths -> Entries]
    BY <1>1, TaskTypes DEF FsTypes, None, Entries
  <1>4. FsTypes'
    BY <1>1, <1>2, <1>3 DEF FsTypes
  <1>5. StepsOfTask'
    BY <1>1, <1>2 DEF StepsOfTask
  <1>6. \A p \in Paths : tree'[p] = before[p] \/ (Within(request.path, p) /\ tree'[p] = None)
    BY <1>1, <1>2, <1>3 DEF DeleteSoFar, Within
  <1>7. ASSUME result' = "done" PROVE tree' = After(before, request)
    <2>1. After(before, request) = Removed(before, request.path)
      BY <1>1, AfterOthers
    <2>2. tree' = [tree EXCEPT ![request.path] = None] /\ Inside(request.path) = {}
      BY <1>2, <1>7
    <2>3. ASSUME NEW p \in Paths PROVE tree'[p] = Removed(before, request.path)[p]
      <3>1. CASE Within(request.path, p)
        <4>1. tree'[p] = None
          BY <1>3, <2>2, <3>1 DEF Inside, Within
        <4>2. QED
          BY <3>1, <4>1 DEF Removed
      <3>2. CASE ~Within(request.path, p)
        BY <1>6, <3>2 DEF Removed
      <3>3. QED
        BY <3>1, <3>2
    <2>4. tree' \in [Paths -> Entries]
      BY <1>1, <1>2, <1>4 DEF FsTypes
    <2>5. QED
      BY <2>1, <2>3, <2>4 DEF Removed
  <1>8. DeleteSoFar'
    <2>1. MayHaveActed => MayHaveActed'
      BY <1>1, <1>2 DEF MayHaveActed
    <2>2. result' = "done" => MayHaveActed'
      BY DEF MayHaveActed
    <2>3. QED
      BY <1>1, <1>2, <1>6, <1>7, <2>1, <2>2, SameTask DEF DeleteSoFar
  <1>9. WriteSoFar' /\ MkdirSoFar' /\ RenameSoFar'
    BY <1>1, <1>2 DEF WriteSoFar, MkdirSoFar, RenameSoFar
  <1>10. QED
    BY <1>4, <1>5, <1>8, <1>9 DEF FilesystemInv

LEMMA FsNextInv == FilesystemInv /\ [FsNext]_fsVars => FilesystemInv'
  <1> SUFFICES ASSUME FilesystemInv, [FsNext]_fsVars PROVE FilesystemInv'
    OBVIOUS
  <1>1. CASE UNCHANGED fsVars
    <2>1. UNCHANGED <<tree, before, request, step, result, disturbed>>
      BY <1>1 DEF fsVars
    <2>2. /\ After(before, request)' = After(before, request) /\ PartlyPrepared' = PartlyPrepared
          /\ Prepared' = Prepared /\ MayHaveActed' = MayHaveActed
      BY <2>1, SameTask DEF PartlyPrepared, MayHaveActed
    <2>3. Grown' = Grown /\ OthersPrepared' = OthersPrepared
      BY <2>1, <2>2 DEF Grown, OthersPrepared
    <2>4. AppendedMore' = AppendedMore
      BY <2>1 DEF AppendedMore
    <2>5. RenameAllowed' = RenameAllowed
      BY <2>1 DEF RenameAllowed
    <2>6. WriteSoFar' = WriteSoFar
      BY <2>1, <2>2, <2>3, <2>4 DEF WriteSoFar
    <2>7. MkdirSoFar' = MkdirSoFar /\ RenameSoFar' = RenameSoFar /\ DeleteSoFar' = DeleteSoFar
      BY <2>1, <2>2, <2>5 DEF MkdirSoFar, RenameSoFar, DeleteSoFar
    <2>8. FsTypes' /\ StepsOfTask'
      BY <2>1 DEF FilesystemInv, FsTypes, StepsOfTask
    <2>9. QED
      BY <2>1, <2>6, <2>7, <2>8 DEF FilesystemInv
  <1>2. CASE FsNext
    BY <1>2, DeliverInv, CheckInv, MakeParentsInv, OpenFileInv, WriteBytesInv, BytesFailInv,
       MakeDirectoryInv, RenameEntryInv, RemoveInsideInv, RemoveEntryInv, CallFailsInv, DieInv,
       RetryInv DEF FsNext
  <1>3. QED
    BY <1>1, <1>2

-----------------------------------------------------------------------------
(* Theorems about the tasks of worker mode.                                *)

\* The task loop is the one of processes and the one of files side by side.
LEMMA LoopOfBoth ==
    [ProcessTask \/ FilesystemTask]_<<vars, fsVars>> => [Next]_vars /\ [FsNext]_fsVars
  BY DEF ProcessTask, FilesystemTask

\* The inductive invariant of a filesystem task: how far it has come, for every request,
\* every workspace and any number of errors and deaths.
THEOREM FilesystemInvariant == TasksSpec => []FilesystemInv
  <1>1. TasksInit => FilesystemInv
    BY FsInitInv DEF TasksInit
  <1>2. FilesystemInv /\ [ProcessTask \/ FilesystemTask]_<<vars, fsVars>> => FilesystemInv'
    BY LoopOfBoth, FsNextInv
  <1>3. QED
    BY <1>1, <1>2, PTL DEF TasksSpec

\* executeWorkerFilesystem reports what became of the files, and does no more than it
\* says, however often the task is executed.
THEOREM FilesystemFaithful == TasksSpec => []FilesystemIsFaithful
  <1>1. FilesystemInv => FilesystemIsFaithful
    <2> SUFFICES ASSUME FilesystemInv PROVE FilesystemIsFaithful
      OBVIOUS
    <2>1. request = NoRequest => result = "none"
      BY DEF FilesystemInv, StepsOfTask
    <2>2. ASSUME request # NoRequest PROVE FilesystemIsFaithful
      <3>1. /\ FsTypes /\ StepsOfTask /\ WriteSoFar /\ MkdirSoFar /\ RenameSoFar /\ DeleteSoFar
            /\ request.op \in {"write", "mkdir", "rename", "delete"}
            /\ disturbed \in Nat
        BY <2>2, TaskTypes DEF FilesystemInv, FsTypes
      <3>2. ASSUME result = "done"
            PROVE  /\ tree = After(before, request) \/ AppendedMore
                   /\ request.op = "rename" => before[request.target] = None \/ request.overwrite
        BY <3>1, <3>2 DEF WriteSoFar, MkdirSoFar, RenameSoFar, DeleteSoFar, RenameAllowed
      <3>3. ASSUME result \in {"retryable", "permanent"}
            PROVE  PartlyPrepared \/ (disturbed > 0 /\ DoneInPart)
        <4>1. step = "idle" /\ (MayHaveActed => disturbed > 0)
          BY <3>1, <3>3 DEF StepsOfTask, MayHaveActed, FsTypes
        <4>2. CASE request.op = "write"
          <5>1. Destination(request) = request.path
            BY <4>2 DEF Destination
          <5>2. OthersPrepared => DoneInPart
            BY <4>2, <5>1 DEF OthersPrepared, DoneInPart, Prepared
          <5>3. QED
            BY <3>1, <4>1, <4>2, <5>2 DEF WriteSoFar
        <4>3. CASE request.op \in {"mkdir", "rename"}
          <5>1. tree = After(before, request) => DoneInPart
            BY <4>3 DEF DoneInPart
          <5>2. QED
            BY <3>1, <4>1, <4>3, <5>1 DEF MkdirSoFar, RenameSoFar
        <4>4. CASE request.op = "delete"
          <5>1. DoneInPart
            BY <3>1, <4>4 DEF DoneInPart, DeleteSoFar
          <5>2. QED
            BY <2>2, <3>1, <4>1, <4>4, <5>1, PreparedSoFar DEF DeleteSoFar
        <4>5. QED
          BY <3>1, <4>2, <4>3, <4>4
      <3>4. QED
        BY <3>2, <3>3 DEF FilesystemIsFaithful
    <2>3. QED
      BY <2>1, <2>2 DEF FilesystemIsFaithful
  <1>2. QED
    BY <1>1, FilesystemInvariant, PTL

\* The loop with filesystem tasks in it keeps what the processes alone have.
THEOREM OutputOfTasks ==
    TasksSpec => [](TypeOK /\ OvershootIsShared /\ DiagnosticIsOwn /\ CutIsHarmless)
  <1>1. TasksInit => OutputInv
    BY InitInv DEF TasksInit
  <1>2. OutputInv /\ [ProcessTask \/ FilesystemTask]_<<vars, fsVars>> => OutputInv'
    BY LoopOfBoth, NextInv
  <1>3. OutputInv => TypeOK /\ OvershootIsShared /\ DiagnosticIsOwn /\ CutIsHarmless
    BY OutputKeepsLimits DEF OutputInv
  <1>4. QED
    BY <1>1, <1>2, <1>3, PTL DEF TasksSpec
=============================================================================
