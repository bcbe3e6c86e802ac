------------------------- MODULE AgentIdentityProofs -------------------------
(***************************************************************************)
(* What AgentIdentity guarantees for any number of register commands, one  *)
(* after the other or at once, and any number of faults.  The argument:    *)
(* the id file is created once, so there is one command at most that may   *)
(* write it, and every other step takes its id from the file.              *)
(***************************************************************************)
EXTENDS AgentIdentity, TLAPS

\* The control plane has only ever seen what the file says.
IssuedToFile == \A i \in 1..Len(issued) : issued[i] = file

\* A command that has an id has it from the file, or is about to put it there.
WriterIsAlone ==
    \A r \in Registrars : pc[r] = "write" =>
        /\ file = Empty /\ id[r] \in Ids
        /\ \A other \in Registrars : pc[other] = "write" => other = r
HasFileId == \A r \in Registrars : pc[r] \in {"sync", "post", "save"} => file \in Ids /\ id[r] = file
HasToken == \A r \in Registrars : pc[r] = "save" => token[r] \in 1..Len(issued)

RegisteredState(s) == s # NoState => s.token \in 1..Len(issued) /\ s.instance = file

\* Why the file may be empty, and that it is there for whoever found it there.
EmptyHasCause ==
    /\ file = Empty => faults > 0 \/ \E r \in Registrars : pc[r] = "write"
    /\ \A r \in Registrars : pc[r] = "reread" => file # Absent

IdentityInv ==
    /\ TypeOK
    /\ IssuedToFile /\ WriterIsAlone /\ HasFileId /\ HasToken
    /\ RegisteredState(state) /\ RegisteredState(running)
    /\ EmptyHasCause

LEMMA InitInv == Init => IdentityInv
  <1> SUFFICES ASSUME Init PROVE IdentityInv
    OBVIOUS
  <1> USE IdentityAssumption DEF Init, Absent, Empty, Ids, NoState
  <1>1. TypeOK
    BY DEF TypeOK, State
  <1>2. IssuedToFile
    BY DEF IssuedToFile
  <1>3. WriterIsAlone /\ HasFileId /\ HasToken
    BY DEF WriterIsAlone, HasFileId, HasToken
  <1>4. RegisteredState(state) /\ RegisteredState(running)
    BY DEF RegisteredState
  <1>5. EmptyHasCause
    BY DEF EmptyHasCause
  <1>6. QED
    BY <1>1, <1>2, <1>3, <1>4, <1>5 DEF IdentityInv

\* What issuing one more token makes of the list.
LEMMA IssueOne ==
  ASSUME TypeOK, HasFileId, NEW r \in Registrars, At(r, "post"), Issue(r)
  PROVE  /\ issued' \in Seq(Ids)
         /\ Len(issued') = Len(issued) + 1
         /\ Len(issued) \in Nat
         /\ \A i \in 1..Len(issued) : issued'[i] = issued[i]
         /\ issued'[Len(issued) + 1] = file
         /\ file \in Ids
  <1>1. issued \in Seq(Ids) /\ Len(issued) \in Nat
    BY DEF TypeOK
  <1>2. file \in Ids /\ id[r] = file
    BY DEF HasFileId, At
  <1>3. issued' = Append(issued, file)
    BY <1>2 DEF Issue
  <1>4. QED
    BY <1>1, <1>2, <1>3

LEMMA BeginInv ==
  ASSUME IdentityInv, NEW r \in Registrars, Begin(r)
  PROVE  IdentityInv'
  <1> USE IdentityAssumption DEF IdentityInv, Absent, Empty, Ids, NoState, State
  <1>1. TypeOK'
    BY DEF TypeOK, own, disk, Begin, At, Goto
  <1>2. IssuedToFile'
    BY DEF TypeOK, IssuedToFile, HasFileId, WriterIsAlone, own, disk, Begin, At, Goto
  <1>3. WriterIsAlone'
    BY DEF TypeOK, WriterIsAlone, own, disk, Begin, At, Goto
  <1>4. HasFileId'
    BY DEF TypeOK, HasFileId, WriterIsAlone, own, disk, Begin, At, Goto
  <1>5. HasToken'
    BY DEF TypeOK, HasToken, own, disk, Begin, At, Goto
  <1>6. RegisteredState(state)' /\ RegisteredState(running)'
    BY DEF TypeOK, RegisteredState, HasToken, HasFileId, WriterIsAlone,
           IssuedToFile, own, disk, Begin, At, Goto
  <1>7. EmptyHasCause'
    BY DEF TypeOK, EmptyHasCause, WriterIsAlone, own, disk, Begin, At, Goto
  <1> QED
    BY <1>1, <1>2, <1>3, <1>4, <1>5, <1>6, <1>7

LEMMA ReadIdInv ==
  ASSUME IdentityInv, NEW r \in Registrars, ReadId(r)
  PROVE  IdentityInv'
  <1> USE IdentityAssumption DEF IdentityInv, Absent, Empty, Ids, NoState, State
  <1>1. TypeOK'
    BY DEF TypeOK, own, disk, ReadId, Adopt, At, Goto
  <1>2. IssuedToFile'
    BY DEF TypeOK, IssuedToFile, HasFileId, WriterIsAlone, own, disk, ReadId, Adopt,
           At, Goto
  <1>3. WriterIsAlone'
    BY DEF TypeOK, WriterIsAlone, own, disk, ReadId, Adopt, At, Goto
  <1>4. HasFileId'
    BY DEF TypeOK, HasFileId, WriterIsAlone, own, disk, ReadId, Adopt, At, Goto
  <1>5. HasToken'
    BY DEF TypeOK, HasToken, own, disk, ReadId, Adopt, At, Goto
  <1>6. RegisteredState(state)' /\ RegisteredState(running)'
    BY DEF TypeOK, RegisteredState, HasToken, HasFileId, WriterIsAlone,
           IssuedToFile, own, disk, ReadId, Adopt, At, Goto
  <1>7. EmptyHasCause'
    BY DEF TypeOK, EmptyHasCause, WriterIsAlone, own, disk, ReadId, Adopt, At, Goto
  <1> QED
    BY <1>1, <1>2, <1>3, <1>4, <1>5, <1>6, <1>7

LEMMA CreateInv ==
  ASSUME IdentityInv, NEW r \in Registrars, Create(r)
  PROVE  IdentityInv'
  <1> USE IdentityAssumption DEF IdentityInv, Absent, Empty, Ids, NoState, State
  <1>1. TypeOK'
    <2>1. CASE file = Absent
      <3>1. /\ ids' = ids + 1 /\ file' = Empty
            /\ id' = [id EXCEPT ![r] = ids + 1] /\ pc' = [pc EXCEPT ![r] = "write"]
            /\ UNCHANGED <<token, state, issued, running, runs, faults>>
        BY <2>1 DEF Create, Goto
      <3>2. QED
        BY <3>1 DEF TypeOK
    <2>2. CASE file # Absent
      <3>1. /\ pc' = [pc EXCEPT ![r] = "reread"]
            /\ UNCHANGED <<file, ids, id, token, state, issued, running, runs, faults>>
        BY <2>2 DEF Create, Goto
      <3>2. QED
        BY <3>1 DEF TypeOK
    <2>3. QED
      BY <2>1, <2>2
  <1>2. IssuedToFile'
    BY DEF TypeOK, IssuedToFile, HasFileId, WriterIsAlone, own, disk, Create, At, Goto
  <1>3. WriterIsAlone'
    BY DEF TypeOK, WriterIsAlone, own, disk, Create, At, Goto
  <1>4. HasFileId'
    BY DEF TypeOK, HasFileId, WriterIsAlone, own, disk, Create, At, Goto
  <1>5. HasToken'
    BY DEF TypeOK, HasToken, own, disk, Create, At, Goto
  <1>6. RegisteredState(state)' /\ RegisteredState(running)'
    BY DEF TypeOK, RegisteredState, HasToken, HasFileId, WriterIsAlone,
           IssuedToFile, own, disk, Create, At, Goto
  <1>7. EmptyHasCause'
    BY DEF TypeOK, EmptyHasCause, WriterIsAlone, own, disk, Create, At, Goto
  <1> QED
    BY <1>1, <1>2, <1>3, <1>4, <1>5, <1>6, <1>7

LEMMA RereadInv ==
  ASSUME IdentityInv, NEW r \in Registrars, Reread(r)
  PROVE  IdentityInv'
  <1> USE IdentityAssumption DEF IdentityInv, Absent, Empty, Ids, NoState, State
  <1>1. TypeOK'
    BY DEF TypeOK, own, disk, Reread, Adopt, At, Goto
  <1>2. IssuedToFile'
    BY DEF TypeOK, IssuedToFile, HasFileId, WriterIsAlone, own, disk, Reread, Adopt,
           At, Goto
  <1>3. WriterIsAlone'
    BY DEF TypeOK, WriterIsAlone, own, disk, Reread, Adopt, At, Goto
  <1>4. HasFileId'
    BY DEF TypeOK, HasFileId, WriterIsAlone, own, disk, Reread, Adopt, At, Goto
  <1>5. HasToken'
    BY DEF TypeOK, HasToken, own, disk, Reread, Adopt, At, Goto
  <1>6. RegisteredState(state)' /\ RegisteredState(running)'
    BY DEF TypeOK, RegisteredState, HasToken, HasFileId, WriterIsAlone,
           IssuedToFile, own, disk, Reread, Adopt, At, Goto
  <1>7. EmptyHasCause'
    BY DEF TypeOK, EmptyHasCause, WriterIsAlone, own, disk, Reread, Adopt, At, Goto
  <1> QED
    BY <1>1, <1>2, <1>3, <1>4, <1>5, <1>6, <1>7

LEMMA WriteInv ==
  ASSUME IdentityInv, NEW r \in Registrars, Write(r)
  PROVE  IdentityInv'
  <1> USE IdentityAssumption DEF IdentityInv, Absent, Empty, Ids, NoState, State
  <1>1. TypeOK'
    BY DEF TypeOK, own, disk, Write, At, Goto
  <1>2. IssuedToFile'
    BY DEF TypeOK, IssuedToFile, HasFileId, WriterIsAlone, own, disk, Write, At, Goto
  <1>3. WriterIsAlone'
    BY DEF TypeOK, WriterIsAlone, own, disk, Write, At, Goto
  <1>4. HasFileId'
    BY DEF TypeOK, HasFileId, WriterIsAlone, own, disk, Write, At, Goto
  <1>5. HasToken'
    BY DEF TypeOK, HasToken, own, disk, Write, At, Goto
  <1>6. RegisteredState(state)' /\ RegisteredState(running)'
    BY DEF TypeOK, RegisteredState, HasToken, HasFileId, WriterIsAlone,
           IssuedToFile, own, disk, Write, At, Goto
  <1>7. EmptyHasCause'
    BY DEF TypeOK, EmptyHasCause, WriterIsAlone, own, disk, Write, At, Goto
  <1> QED
    BY <1>1, <1>2, <1>3, <1>4, <1>5, <1>6, <1>7

LEMMA WriteFailsInv ==
  ASSUME IdentityInv, NEW r \in Registrars, WriteFails(r)
  PROVE  IdentityInv'
  <1> USE IdentityAssumption DEF IdentityInv, Absent, Empty, Ids, NoState, State
  <1>1. TypeOK'
    BY DEF TypeOK, own, disk, WriteFails, Faulty, At, Goto
  <1>2. IssuedToFile'
    BY DEF TypeOK, IssuedToFile, HasFileId, WriterIsAlone, own, disk, WriteFails,
           Faulty, At, Goto
  <1>3. WriterIsAlone'
    BY DEF TypeOK, WriterIsAlone, own, disk, WriteFails, Faulty, At, Goto
  <1>4. HasFileId'
    BY DEF TypeOK, HasFileId, WriterIsAlone, own, disk, WriteFails, Faulty, At, Goto
  <1>5. HasToken'
    BY DEF TypeOK, HasToken, own, disk, WriteFails, Faulty, At, Goto
  <1>6. RegisteredState(state)' /\ RegisteredState(running)'
    BY DEF TypeOK, RegisteredState, HasToken, HasFileId, WriterIsAlone,
           IssuedToFile, own, disk, WriteFails, Faulty, At, Goto
  <1>7. EmptyHasCause'
    BY DEF TypeOK, EmptyHasCause, WriterIsAlone, own, disk, WriteFails, Faulty, At, Goto
  <1> QED
    BY <1>1, <1>2, <1>3, <1>4, <1>5, <1>6, <1>7

LEMMA SyncInv ==
  ASSUME IdentityInv, NEW r \in Registrars, Sync(r)
  PROVE  IdentityInv'
  <1> USE IdentityAssumption DEF IdentityInv, Absent, Empty, Ids, NoState, State
  <1>1. TypeOK'
    BY DEF TypeOK, own, disk, Sync, At, Goto
  <1>2. IssuedToFile'
    BY DEF TypeOK, IssuedToFile, HasFileId, WriterIsAlone, own, disk, Sync, At, Goto
  <1>3. WriterIsAlone'
    BY DEF TypeOK, WriterIsAlone, own, disk, Sync, At, Goto
  <1>4. HasFileId'
    BY DEF TypeOK, HasFileId, WriterIsAlone, own, disk, Sync, At, Goto
  <1>5. HasToken'
    BY DEF TypeOK, HasToken, own, disk, Sync, At, Goto
  <1>6. RegisteredState(state)' /\ RegisteredState(running)'
    BY DEF TypeOK, RegisteredState, HasToken, HasFileId, WriterIsAlone,
           IssuedToFile, own, disk, Sync, At, Goto
  <1>7. EmptyHasCause'
    BY DEF TypeOK, EmptyHasCause, WriterIsAlone, own, disk, Sync, At, Goto
  <1> QED
    BY <1>1, <1>2, <1>3, <1>4, <1>5, <1>6, <1>7

LEMMA PostInv ==
  ASSUME IdentityInv, NEW r \in Registrars, Post(r)
  PROVE  IdentityInv'
  <1> USE IdentityAssumption DEF IdentityInv, Absent, Empty, Ids, NoState, State
  <1>0. /\ At(r, "post") /\ Issue(r)
        /\ pc' = [pc EXCEPT ![r] = "save"]
        /\ token' = [token EXCEPT ![r] = Len(issued) + 1]
        /\ UNCHANGED <<id, disk, running, runs, faults>>
    BY DEF Post, Goto
  <1>1. TypeOK'
    <2>1. issued' \in Seq(Ids) /\ Len(issued') = Len(issued) + 1 /\ Len(issued) \in Nat
      BY <1>0, IssueOne
    <2>2. token' \in [Registrars -> 0..Len(issued')]
      BY <1>0, <2>1 DEF TypeOK
    <2>3. QED
      BY <1>0, <2>1, <2>2 DEF TypeOK, disk
  <1>2. IssuedToFile'
    BY DEF TypeOK, IssuedToFile, HasFileId, WriterIsAlone, own, disk, Post, Issue,
           At, Goto
  <1>3. WriterIsAlone'
    BY DEF TypeOK, WriterIsAlone, own, disk, Post, Issue, At, Goto
  <1>4. HasFileId'
    BY DEF TypeOK, HasFileId, WriterIsAlone, own, disk, Post, Issue, At, Goto
  <1>5. HasToken'
    BY DEF TypeOK, HasToken, own, disk, Post, Issue, At, Goto
  <1>6. RegisteredState(state)' /\ RegisteredState(running)'
    BY DEF TypeOK, RegisteredState, HasToken, HasFileId, WriterIsAlone,
           IssuedToFile, own, disk, Post, Issue, At, Goto
  <1>7. EmptyHasCause'
    BY DEF TypeOK, EmptyHasCause, WriterIsAlone, own, disk, Post, Issue, At, Goto
  <1> QED
    BY <1>1, <1>2, <1>3, <1>4, <1>5, <1>6, <1>7

LEMMA PostFailsInv ==
  ASSUME IdentityInv, NEW r \in Registrars, PostFails(r)
  PROVE  IdentityInv'
  <1> USE IdentityAssumption DEF IdentityInv, Absent, Empty, Ids, NoState, State
  <1>0. /\ At(r, "post")
        /\ Issue(r) \/ UNCHANGED issued
        /\ pc' = [pc EXCEPT ![r] = "failed"]
        /\ faults \in 0..MaxFaults => faults' \in 0..MaxFaults
        /\ UNCHANGED <<id, token, disk, running, runs>>
    BY DEF PostFails, Goto, Faulty
  <1>1. TypeOK'
    <2>1. issued' \in Seq(Ids) /\ Len(issued') >= Len(issued)
          /\ Len(issued) \in Nat /\ Len(issued') \in Nat
      BY <1>0, IssueOne DEF TypeOK
    <2>2. token' \in [Registrars -> 0..Len(issued')]
      BY <1>0, <2>1 DEF TypeOK
    <2>3. QED
      BY <1>0, <2>1, <2>2 DEF TypeOK, disk
  <1>2. IssuedToFile'
    <2>1. CASE UNCHANGED issued
      BY <1>0, <2>1 DEF IssuedToFile, disk
    <2>2. CASE Issue(r)
      <3>1. /\ Len(issued') = Len(issued) + 1 /\ Len(issued) \in Nat
            /\ \A i \in 1..Len(issued) : issued'[i] = issued[i]
            /\ issued'[Len(issued) + 1] = file
        BY <1>0, <2>2, IssueOne
      <3>2. file' = file
        BY <1>0 DEF disk
      <3>3. QED
        BY <3>1, <3>2 DEF IssuedToFile
    <2>3. QED
      BY <1>0, <2>1, <2>2
  <1>3. WriterIsAlone'
    BY DEF TypeOK, WriterIsAlone, own, disk, PostFails, Issue, Faulty, At, Goto
  <1>4. HasFileId'
    BY DEF TypeOK, HasFileId, WriterIsAlone, own, disk, PostFails, Issue, Faulty, At, Goto
  <1>5. HasToken'
    BY DEF TypeOK, HasToken, own, disk, PostFails, Issue, Faulty, At, Goto
  <1>6. RegisteredState(state)' /\ RegisteredState(running)'
    BY DEF TypeOK, RegisteredState, HasToken, HasFileId, WriterIsAlone,
           IssuedToFile, own, disk, PostFails, Issue, Faulty, At, Goto
  <1>7. EmptyHasCause'
    BY DEF TypeOK, EmptyHasCause, WriterIsAlone, own, disk, PostFails, Issue,
           Faulty, At, Goto
  <1> QED
    BY <1>1, <1>2, <1>3, <1>4, <1>5, <1>6, <1>7

LEMMA SaveInv ==
  ASSUME IdentityInv, NEW r \in Registrars, Save(r)
  PROVE  IdentityInv'
  <1> USE IdentityAssumption DEF IdentityInv, Absent, Empty, Ids, NoState, State
  <1>1. TypeOK'
    BY DEF TypeOK, own, disk, Save, Saved, At, Goto
  <1>2. IssuedToFile'
    BY DEF TypeOK, IssuedToFile, HasFileId, WriterIsAlone, own, disk, Save, Saved,
           At, Goto
  <1>3. WriterIsAlone'
    BY DEF TypeOK, WriterIsAlone, own, disk, Save, Saved, At, Goto
  <1>4. HasFileId'
    BY DEF TypeOK, HasFileId, WriterIsAlone, own, disk, Save, Saved, At, Goto
  <1>5. HasToken'
    BY DEF TypeOK, HasToken, own, disk, Save, Saved, At, Goto
  <1>6. RegisteredState(state)' /\ RegisteredState(running)'
    BY DEF TypeOK, RegisteredState, HasToken, HasFileId, WriterIsAlone,
           IssuedToFile, own, disk, Save, Saved, At, Goto
  <1>7. EmptyHasCause'
    BY DEF TypeOK, EmptyHasCause, WriterIsAlone, own, disk, Save, Saved, At, Goto
  <1> QED
    BY <1>1, <1>2, <1>3, <1>4, <1>5, <1>6, <1>7

LEMMA SaveFailsInv ==
  ASSUME IdentityInv, NEW r \in Registrars, SaveFails(r)
  PROVE  IdentityInv'
  <1> USE IdentityAssumption DEF IdentityInv, Absent, Empty, Ids, NoState, State
  <1>1. TypeOK'
    BY DEF TypeOK, own, disk, SaveFails, Saved, Faulty, At, Goto
  <1>2. IssuedToFile'
    BY DEF TypeOK, IssuedToFile, HasFileId, WriterIsAlone, own, disk, SaveFails,
           Saved, Faulty, At, Goto
  <1>3. WriterIsAlone'
    BY DEF TypeOK, WriterIsAlone, own, disk, SaveFails, Saved, Faulty, At, Goto
  <1>4. HasFileId'
    BY DEF TypeOK, HasFileId, WriterIsAlone, own, disk, SaveFails, Saved, Faulty, At, Goto
  <1>5. HasToken'
    BY DEF TypeOK, HasToken, own, disk, SaveFails, Saved, Faulty, At, Goto
  <1>6. RegisteredState(state)' /\ RegisteredState(running)'
    BY DEF TypeOK, RegisteredState, HasToken, HasFileId, WriterIsAlone,
           IssuedToFile, own, disk, SaveFails, Saved, Faulty, At, Goto
  <1>7. EmptyHasCause'
    BY DEF TypeOK, EmptyHasCause, WriterIsAlone, own, disk, SaveFails, Saved,
           Faulty, At, Goto
  <1> QED
    BY <1>1, <1>2, <1>3, <1>4, <1>5, <1>6, <1>7

LEMMA FileFailsInv ==
  ASSUME IdentityInv, NEW r \in Registrars, FileFails(r)
  PROVE  IdentityInv'
  <1> USE IdentityAssumption DEF IdentityInv, Absent, Empty, Ids, NoState, State
  <1>1. TypeOK'
    BY DEF TypeOK, own, disk, FileFails, Faulty, At, Goto
  <1>2. IssuedToFile'
    BY DEF TypeOK, IssuedToFile, HasFileId, WriterIsAlone, own, disk, FileFails,
           Faulty, At, Goto
  <1>3. WriterIsAlone'
    BY DEF TypeOK, WriterIsAlone, own, disk, FileFails, Faulty, At, Goto
  <1>4. HasFileId'
    BY DEF TypeOK, HasFileId, WriterIsAlone, own, disk, FileFails, Faulty, At, Goto
  <1>5. HasToken'
    BY DEF TypeOK, HasToken, own, disk, FileFails, Faulty, At, Goto
  <1>6. RegisteredState(state)' /\ RegisteredState(running)'
    BY DEF TypeOK, RegisteredState, HasToken, HasFileId, WriterIsAlone,
           IssuedToFile, own, disk, FileFails, Faulty, At, Goto
  <1>7. EmptyHasCause'
    BY DEF TypeOK, EmptyHasCause, WriterIsAlone, own, disk, FileFails, Faulty, At, Goto
  <1> QED
    BY <1>1, <1>2, <1>3, <1>4, <1>5, <1>6, <1>7

LEMMA KillInv ==
  ASSUME IdentityInv, NEW r \in Registrars, Kill(r)
  PROVE  IdentityInv'
  <1> USE IdentityAssumption DEF IdentityInv, Absent, Empty, Ids, NoState, State
  <1>1. TypeOK'
    BY DEF TypeOK, own, disk, Kill, Faulty, At, Goto
  <1>2. IssuedToFile'
    BY DEF TypeOK, IssuedToFile, HasFileId, WriterIsAlone, own, disk, Kill, Faulty,
           At, Goto
  <1>3. WriterIsAlone'
    BY DEF TypeOK, WriterIsAlone, own, disk, Kill, Faulty, At, Goto
  <1>4. HasFileId'
    BY DEF TypeOK, HasFileId, WriterIsAlone, own, disk, Kill, Faulty, At, Goto
  <1>5. HasToken'
    BY DEF TypeOK, HasToken, own, disk, Kill, Faulty, At, Goto
  <1>6. RegisteredState(state)' /\ RegisteredState(running)'
    BY DEF TypeOK, RegisteredState, HasToken, HasFileId, WriterIsAlone,
           IssuedToFile, own, disk, Kill, Faulty, At, Goto
  <1>7. EmptyHasCause'
    BY DEF TypeOK, EmptyHasCause, WriterIsAlone, own, disk, Kill, Faulty, At, Goto
  <1> QED
    BY <1>1, <1>2, <1>3, <1>4, <1>5, <1>6, <1>7

LEMMA StartAgentInv ==
  ASSUME IdentityInv, StartAgent
  PROVE  IdentityInv'
  <1> USE IdentityAssumption DEF IdentityInv, Absent, Empty, Ids, NoState, State
  <1>1. TypeOK'
    BY DEF TypeOK, own, disk, StartAgent
  <1>2. IssuedToFile'
    BY DEF TypeOK, IssuedToFile, HasFileId, WriterIsAlone, own, disk, StartAgent
  <1>3. WriterIsAlone'
    BY DEF TypeOK, WriterIsAlone, own, disk, StartAgent
  <1>4. HasFileId'
    BY DEF TypeOK, HasFileId, WriterIsAlone, own, disk, StartAgent
  <1>5. HasToken'
    BY DEF TypeOK, HasToken, own, disk, StartAgent
  <1>6. RegisteredState(state)' /\ RegisteredState(running)'
    BY DEF TypeOK, RegisteredState, HasToken, HasFileId, WriterIsAlone,
           IssuedToFile, own, disk, StartAgent
  <1>7. EmptyHasCause'
    BY DEF TypeOK, EmptyHasCause, WriterIsAlone, own, disk, StartAgent
  <1> QED
    BY <1>1, <1>2, <1>3, <1>4, <1>5, <1>6, <1>7

LEMMA NextInv == IdentityInv /\ [Next]_vars => IdentityInv'
  <1> SUFFICES ASSUME IdentityInv, [Next]_vars PROVE IdentityInv'
    OBVIOUS
  <1>1. CASE UNCHANGED vars
    BY <1>1 DEF IdentityInv, TypeOK, IssuedToFile, WriterIsAlone, HasFileId, HasToken,
                RegisteredState, EmptyHasCause, vars, own, disk
  <1>2. ASSUME NEW r \in Registrars, Begin(r) PROVE IdentityInv'
    BY <1>2, BeginInv
  <1>3. ASSUME NEW r \in Registrars, RegisterStep(r) PROVE IdentityInv'
    BY <1>3, ReadIdInv, CreateInv, RereadInv, WriteInv, SyncInv, PostInv, SaveInv
       DEF RegisterStep
  <1>4. ASSUME NEW r \in Registrars,
               WriteFails(r) \/ PostFails(r) \/ SaveFails(r) \/ FileFails(r) \/ Kill(r)
        PROVE  IdentityInv'
    BY <1>4, WriteFailsInv, PostFailsInv, SaveFailsInv, FileFailsInv, KillInv
  <1>5. CASE StartAgent
    BY <1>5, StartAgentInv
  <1>6. QED
    BY <1>1, <1>2, <1>3, <1>4, <1>5 DEF Next

\* The invariant that the results below rest on.
THEOREM IdentityInvariant == Spec => []IdentityInv
  <1>1. QED
    BY InitInv, NextInv, PTL DEF Spec

\* The variables of register and of the two files keep their types.
THEOREM IdentityTypes == Spec => []TypeOK
  <1>1. IdentityInv => TypeOK
    BY DEF IdentityInv
  <1>2. QED
    BY <1>1, IdentityInvariant, PTL

\* loadOrCreateAgentInstanceID gives every registration the same id.
THEOREM OneInstance == Spec => []IdentityIsStable
  <1>1. IdentityInv => IdentityIsStable
    BY DEF IdentityInv, IssuedToFile, IdentityIsStable
  <1>2. QED
    BY <1>1, IdentityInvariant, PTL

\* What saveState wrote, and what the agent was started with, was issued to the
\* instance in the id file.
THEOREM TokensMatch == Spec => []RunsAsRegistered
  <1>1. IdentityInv => RunsAsRegistered
    BY DEF IdentityInv, IssuedToFile, RegisteredState, RunsAsRegistered
  <1>2. QED
    BY <1>1, IdentityInvariant, PTL

\* A command that meets no error of its own fails at one place, the second look
\* at an id file that another command has created and not filled.
THEOREM OnlyTheTrap == Spec => OnlyAnEmptyFileStops
  <1> DEFINE Trap ==
        NoFault => \A r \in Registrars : Fails(r) =>
            /\ file = Empty
            /\ faults > 0 \/ \E other \in Registrars \ {r} : pc[other] = "write"
  <1>1. IdentityInv /\ [Next]_vars => [Trap]_vars
    <2> SUFFICES ASSUME IdentityInv, Next, NoFault, NEW r \in Registrars, Fails(r)
                 PROVE  /\ file = Empty
                        /\ faults > 0 \/ \E other \in Registrars \ {r} : pc[other] = "write"
      OBVIOUS
    <2>1. faults \in Nat /\ pc = [q \in Registrars |-> pc[q]]
      BY IdentityAssumption DEF IdentityInv, TypeOK
    <2>2. At(r, "reread") /\ file \notin Ids
      <3>1. PICK q \in Registrars : RegisterStep(q) \/ Begin(q)
        BY <2>1 DEF Next, NoFault, Fails, StartAgent, own,
                    WriteFails, PostFails, SaveFails, FileFails, Kill, Faulty
      <3>2. PICK step : step \in {"read", "create", "post", "reread", "write", "sync",
                                  "save", "ok", "failed"} /\ Goto(q, step)
        BY <3>1 DEF RegisterStep, Begin, ReadId, Create, Reread, Adopt, Write, Sync, Post, Save
      <3>3. q = r /\ step = "failed"
        BY <2>1, <3>2 DEF Goto, Fails
      <3>4. pc'[r] = "failed"
        BY DEF Fails
      <3>5. QED
        BY <2>1, <3>1, <3>3, <3>4 DEF RegisterStep, Begin, ReadId, Create, Reread, Adopt,
                                     Write, Sync, Post, Save, At, Goto
    <2>3. file = Empty
      BY <2>2 DEF IdentityInv, EmptyHasCause, TypeOK, At
    <2>4. QED
      BY <2>2, <2>3 DEF IdentityInv, EmptyHasCause, At
  <1>2. QED
    BY <1>1, IdentityInvariant, PTL DEF Spec, OnlyAnEmptyFileStops

=============================================================================
