-------------------------- MODULE RegistryProofs --------------------------
(***************************************************************************)
(* Proofs about Registry, for any processes, names and number of rows.     *)
(***************************************************************************)
EXTENDS Registry, TLAPS

\* Who is in a call is in it for some agent: Enter is only reached with an id.
CallsNamed == \A p \in Procs : proc[p].call # "none" => proc[p].for # NoId

\* The inductive invariant: OneActivePerName needs to know whose row a heartbeat
\* touches, which is OwnIdentity with CallsNamed.
RosterInv == TypeOK /\ CallsNamed /\ OwnIdentity /\ OneActivePerName

\* NoId names no row.
LEMMA NoIdIsNone == NoId \notin Ids
BY IdsExist DEF Ids, NoId

\* The queries and updates of the roster keep its type.
LEMMA SetStateTyped ==
  ASSUME TypeOK, NEW i \in Ids, NEW s \in AgentStates, SetState(i, s)
  PROVE  agent' \in [Ids -> AgentRows]
<1>1. agent \in [Ids -> AgentRows] /\ agent[i] \in AgentRows
  BY DEF TypeOK
<1>2. [agent[i] EXCEPT !.state = s, !.late = FALSE] \in AgentRows
  BY <1>1 DEF AgentRows
<1> QED  BY <1>1, <1>2 DEF SetState

\* SetState changes one row's state and nobody's owner.
LEMMA SetStateIs ==
  ASSUME TypeOK, NEW k \in Ids, NEW s, SetState(k, s)
  PROVE  \A i \in Ids : /\ agent'[i].state = IF i = k THEN s ELSE agent[i].state
                        /\ agent'[i].owner = agent[i].owner
<1> SUFFICES ASSUME NEW i \in Ids
             PROVE  /\ agent'[i].state = IF i = k THEN s ELSE agent[i].state
                    /\ agent'[i].owner = agent[i].owner
  OBVIOUS
<1>1. agent[i] \in AgentRows
  BY DEF TypeOK
<1>2. agent'[i] = IF i = k THEN [agent[i] EXCEPT !.state = s, !.late = FALSE] ELSE agent[i]
  BY DEF SetState, TypeOK
<1> QED  BY <1>1, <1>2 DEF AgentRows

\* Entering a call keeps the type of the processes.
LEMMA EnterTyped ==
  ASSUME TypeOK, NEW p \in Procs, NEW call \in Calls, NEW i \in Ids \cup {NoId},
         Enter(p, call, i)
  PROVE  proc' \in [Procs -> ProcRows]
<1>1. proc[p] \in ProcRows
  BY DEF TypeOK
<1>2. [proc[p] EXCEPT !.call = call, !.for = i] \in ProcRows
  BY <1>1 DEF ProcRows
<1> QED  BY <1>2 DEF Enter, TypeOK

\* Ending a call keeps it too.
LEMMA DoneTyped ==
  ASSUME TypeOK, NEW p \in Procs, Done(p)
  PROVE  proc' \in [Procs -> ProcRows]
<1>1. "none" \in Calls
  BY DEF Calls
<1> QED  BY <1>1, EnterTyped DEF Done

\* The identities a process holds are ids or none.
LEMMA IdentityTyped ==
  ASSUME TypeOK, NEW p \in Procs
  PROVE  /\ proc[p].session \in Ids \cup {NoId}
         /\ proc[p].token \in Ids \cup {NoId}
         /\ proc[p].for \in Ids \cup {NoId}
<1>1. proc[p] \in ProcRows
  BY DEF TypeOK
<1> QED  BY <1>1 DEF ProcRows

\* Giving up what an agent holds keeps the types of the leases and processes.
LEMMA ReleaseTyped ==
  ASSUME TypeOK, NEW i \in Ids, ReleaseEverythingHeldBy(i)
  PROVE  /\ lease' \in [Ids -> {"none", "fresh", "due"}]
         /\ proc' \in [Procs -> ProcRows]
<1>1. lease' \in [Ids -> {"none", "fresh", "due"}]
  BY DEF TypeOK, ReleaseEverythingHeldBy
<1>2. ASSUME NEW p \in Procs
      PROVE  proc[p] \in ProcRows /\ [proc[p] EXCEPT !.call = "none", !.for = NoId] \in ProcRows
  <2>1. proc[p] \in ProcRows
    BY DEF TypeOK
  <2> QED  BY <2>1 DEF ProcRows, Calls
<1>3. proc' \in [Procs -> ProcRows]
  BY <1>2 DEF ReleaseEverythingHeldBy
<1> QED  BY <1>1, <1>3

\* Nobody comes to act for anyone by it, and a call that is left is as it was.
LEMMA ReleaseKeeps ==
  ASSUME TypeOK, NEW k \in Ids, ReleaseEverythingHeldBy(k), NEW q \in Procs
  PROVE  /\ proc'[q].session = proc[q].session
         /\ proc'[q].token = proc[q].token
         /\ \/ proc'[q].call = proc[q].call /\ proc'[q].for = proc[q].for
            \/ proc'[q].call = "none" /\ proc'[q].for = NoId
<1>1. proc[q] \in ProcRows
  BY DEF TypeOK
<1>2. proc'[q] = proc[q] \/ proc'[q] = [proc[q] EXCEPT !.call = "none", !.for = NoId]
  BY DEF ReleaseEverythingHeldBy
<1> QED  BY <1>1, <1>2 DEF ProcRows

\* Every step keeps every variable in its type.
LEMMA TypeStep == ASSUME TypeOK, CallsNamed, [Next]_vars PROVE TypeOK'
<1>1. ASSUME NEW p \in Procs, RegisterNew(p) PROVE TypeOK'
  <2>1. PICK i \in Ids :
          /\ agent' = [agent EXCEPT ![i] = [state |-> "active", owner |-> p, late |-> FALSE]]
          /\ Enter(p, "issue", i)
    BY <1>1 DEF RegisterNew
  <2>2. agent' \in [Ids -> AgentRows]
    BY <2>1 DEF TypeOK, AgentRows, AgentStates
  <2>3. proc' \in [Procs -> ProcRows]
    BY <2>1, EnterTyped DEF Calls
  <2> QED  BY <1>1, <2>2, <2>3 DEF RegisterNew, TypeOK
<1>2. ASSUME NEW p \in Procs, RegisterReclaim(p) PROVE TypeOK'
  <2>1. PICK i \in Ids : /\ agent' = [agent EXCEPT ![i].late = FALSE]
                         /\ Enter(p, "issue", i)
    BY <1>2 DEF RegisterReclaim, ByName
  <2>2. agent' \in [Ids -> AgentRows]
    <3>1. agent \in [Ids -> AgentRows] /\ agent[i] \in AgentRows
      BY DEF TypeOK
    <3>2. [agent[i] EXCEPT !.late = FALSE] \in AgentRows
      BY <3>1 DEF AgentRows
    <3> QED  BY <2>1, <3>1, <3>2
  <2>3. proc' \in [Procs -> ProcRows]
    BY <2>1, EnterTyped DEF Calls
  <2> QED  BY <1>2, <2>2, <2>3 DEF RegisterReclaim, TypeOK
<1>3. ASSUME NEW p \in Procs, Issue(p) PROVE TypeOK'
  <2>1. proc' \in [Procs -> ProcRows]
    <3>1. "none" \in Calls
      BY DEF Calls
    <3>2. proc[p].for \in Ids \cup {NoId}
      BY IdentityTyped
    <3>3. proc[p] \in ProcRows
      BY DEF TypeOK
    <3>4. [proc[p] EXCEPT !.call = "none", !.for = NoId, !.session = proc[p].for,
                          !.token = proc[p].for] \in ProcRows
      BY <3>1, <3>2, <3>3 DEF ProcRows
    <3> QED  BY <1>3, <3>4 DEF Issue, TypeOK
  <2>2. credential' \in [Ids -> {"none", "live", "revoked"}]
    BY <1>3 DEF Issue, TypeOK
  <2> QED  BY <1>3, <2>1, <2>2 DEF Issue, TypeOK
<1>4. ASSUME NEW p \in Procs, IssueFails(p) PROVE TypeOK'
  BY <1>4, DoneTyped DEF IssueFails, TypeOK
<1>5. ASSUME NEW p \in Procs, AuthenticateToken(p) PROVE TypeOK'
  <2>1. proc' \in [Procs -> ProcRows]
    BY <1>5, EnterTyped, IdentityTyped DEF AuthenticateToken, Calls
  <2> QED  BY <1>5, <2>1 DEF AuthenticateToken, TypeOK
<1>6. ASSUME NEW p \in Procs, AuthenticateAgent(p) PROVE TypeOK'
  <2>1. proc' \in [Procs -> ProcRows]
    <3>1. "none" \in Calls
      BY DEF Calls
    <3>2. proc[p].for \in Ids \cup {NoId}
      BY IdentityTyped
    <3>3. proc[p] \in ProcRows
      BY DEF TypeOK
    <3>4. \A k \in Ids \cup {NoId} :
            [proc[p] EXCEPT !.call = "none", !.for = NoId, !.session = k] \in ProcRows
      BY <3>1, <3>3 DEF ProcRows
    <3>5. Bound(p) \in Ids \cup {NoId}
      BY <3>2, IdentityTyped DEF Bound
    <3> QED  BY <1>6, <3>4, <3>5 DEF AuthenticateAgent, TypeOK
  <2> QED  BY <1>6, <2>1 DEF AuthenticateAgent, TypeOK
<1>7. ASSUME NEW p \in Procs, Begin(p) PROVE TypeOK'
  <2>1. PICK call \in Asks : Enter(p, call, proc[p].session)
    BY <1>7 DEF Begin
  <2>2. call \in Calls
    BY AsksKnown DEF Calls
  <2>3. proc' \in [Procs -> ProcRows]
    BY <2>1, <2>2, EnterTyped, IdentityTyped
  <2> QED  BY <1>7, <2>3 DEF Begin, TypeOK
<1>8. ASSUME NEW p \in Procs, Heartbeat(p) PROVE TypeOK'
  <2>1. proc[p].for \in Ids
    BY <1>8, IdentityTyped DEF Heartbeat, CallsNamed
  <2>2. agent' \in [Ids -> AgentRows]
    BY <2>1, <1>8, SetStateTyped DEF Heartbeat, AgentStates, TypeOK
  <2>3. proc' \in [Procs -> ProcRows]
    BY <1>8, DoneTyped DEF Heartbeat
  <2> QED  BY <2>2, <2>3, <1>8 DEF Heartbeat, TypeOK
<1>9. ASSUME NEW p \in Procs, Enqueue(p) PROVE TypeOK'
  <2>1. proc' \in [Procs -> ProcRows]
    BY <1>9, EnterTyped, IdentityTyped DEF Enqueue, Calls
  <2> QED  BY <1>9, <2>1 DEF Enqueue, TypeOK
<1>10. ASSUME NEW p \in Procs, Grant(p) \/ Renew(p) PROVE TypeOK'
  <2>1. proc' \in [Procs -> ProcRows]
    BY <1>10, DoneTyped DEF Grant, Renew
  <2>2. lease' \in [Ids -> {"none", "fresh", "due"}]
    BY <1>10 DEF Grant, Renew, TypeOK
  <2> QED  BY <1>10, <2>1, <2>2 DEF Grant, Renew, TypeOK
<1>11. ASSUME NEW p \in Procs, Disconnect(p) \/ Killed(p) PROVE TypeOK'
  <2>1. proc' \in [Procs -> ProcRows]
    <3>1. "none" \in Calls
      BY DEF Calls
    <3>2. proc[p] \in ProcRows
      BY DEF TypeOK
    <3>3. [proc[p] EXCEPT !.alive = FALSE] \in ProcRows
      BY <3>2 DEF ProcRows
    <3>4. [proc[p] EXCEPT !.session = NoId, !.call = "none", !.for = NoId] \in ProcRows
      BY <3>1, <3>2 DEF ProcRows
    <3> QED  BY <1>11, <3>3, <3>4 DEF Disconnect, Killed, TypeOK
  <2> QED  BY <1>11, <2>1 DEF Disconnect, Killed, TypeOK
<1>12. ASSUME NEW p \in Procs, Deregister(p) PROVE TypeOK'
  BY <1>12 DEF Deregister, TypeOK, RetireSteps
<1>13. ASSUME NEW i \in Ids, Evict(i) \/ RetireFails(i) PROVE TypeOK'
  BY <1>13 DEF Evict, RetireFails, TypeOK, RetireSteps
<1>14. ASSUME NEW i \in Ids, RetireRevoke(i) PROVE TypeOK'
  BY <1>14 DEF RetireRevoke, TypeOK, RetireSteps
<1>15. ASSUME NEW i \in Ids, RetireRelease(i) PROVE TypeOK'
  BY <1>15, ReleaseTyped DEF RetireRelease, TypeOK, RetireSteps
<1>16. ASSUME NEW i \in Ids, ReleaseStale(i) PROVE TypeOK'
  BY <1>16, ReleaseTyped DEF ReleaseStale, TypeOK
<1>17. ASSUME NEW i \in Ids, RetireState(i) PROVE TypeOK'
  <2>1. agent' \in [Ids -> AgentRows]
    BY <1>17, SetStateTyped DEF RetireState, AgentStates
  <2> QED  BY <1>17, <2>1 DEF RetireState, TypeOK, RetireSteps
<1>18. ASSUME NEW i \in Ids, MarkStale(i) PROVE TypeOK'
  <2>1. agent' \in [Ids -> AgentRows]
    BY <1>18, SetStateTyped DEF MarkStale, AgentStates
  <2> QED  BY <1>18, <2>1 DEF MarkStale, TypeOK
<1>19. ASSUME NEW i \in Ids, BeatAges(i) PROVE TypeOK'
  BY <1>19 DEF BeatAges, TypeOK, AgentRows
<1>20. ASSUME NEW i \in Ids, LeaseAges(i) \/ LeaseExpires(i) PROVE TypeOK'
  BY <1>20 DEF LeaseAges, LeaseExpires, TypeOK
<1>21. ASSUME NEW i \in Ids, ReleaseStaleFails(i) PROVE TypeOK'
  BY <1>21 DEF ReleaseStaleFails, TypeOK
<1>22. CASE ReapSelect \/ ReapFails
  BY <1>22 DEF ReapSelect, StaleBefore, ReapFails, TypeOK
<1>23. CASE Crash
  <2>1. proc' \in [Procs -> ProcRows]
    <3>1. "none" \in Calls
      BY DEF Calls
    <3>2. \A p \in Procs : [proc[p] EXCEPT !.session = NoId, !.call = "none",
                                           !.for = NoId] \in ProcRows
      BY <3>1 DEF TypeOK, ProcRows
    <3> QED  BY <1>23, <3>2 DEF Crash
  <2> QED  BY <1>23, <2>1 DEF Crash, TypeOK, RetireSteps
<1>24. CASE UNCHANGED vars
  BY <1>24 DEF vars, TypeOK
<1> QED
  BY <1>1, <1>2, <1>3, <1>4, <1>5, <1>6, <1>7, <1>8, <1>9, <1>10, <1>11, <1>12,
     <1>13, <1>14, <1>15, <1>16, <1>17, <1>18, <1>19, <1>20, <1>21, <1>22, <1>23, <1>24
  DEF Next, SweepStep

\* A call that is entered or goes on has an agent.
LEMMA CallsNamedStep == ASSUME TypeOK, CallsNamed, [Next]_vars PROVE CallsNamed'
<1> USE NoIdIsNone
<1>1. ASSUME NEW p \in Procs, NEW call, NEW i \in Ids, Enter(p, call, i)
      PROVE  CallsNamed'
  BY <1>1 DEF Enter, TypeOK, CallsNamed, ProcRows
<1>2. ASSUME NEW p \in Procs, Done(p) PROVE CallsNamed'
  BY <1>2 DEF Done, Enter, TypeOK, CallsNamed, ProcRows
<1>3. ASSUME NEW p \in Procs, RegisterNew(p) \/ RegisterReclaim(p) PROVE CallsNamed'
  BY <1>3, <1>1 DEF RegisterNew, RegisterReclaim, ByName
<1>4. ASSUME NEW p \in Procs, AuthenticateToken(p) PROVE CallsNamed'
  <2>1. proc[p].token \in Ids
    BY <1>4, IdentityTyped DEF AuthenticateToken
  <2> QED  BY <1>4, <1>1, <2>1 DEF AuthenticateToken
<1>5. ASSUME NEW p \in Procs, Begin(p) PROVE CallsNamed'
  <2>1. proc[p].session \in Ids
    BY <1>5, IdentityTyped DEF Begin, Authenticated
  <2> QED  BY <1>5, <1>1, <2>1 DEF Begin
<1>6. ASSUME NEW p \in Procs, Enqueue(p) PROVE CallsNamed'
  <2>1. proc[p].for \in Ids
    BY <1>6, IdentityTyped DEF Enqueue, CallsNamed
  <2> QED  BY <1>6, <1>1, <2>1 DEF Enqueue
<1>7. ASSUME NEW p \in Procs, IssueFails(p) \/ Heartbeat(p) \/ Grant(p) \/ Renew(p)
       PROVE  CallsNamed'
  BY <1>7, <1>2 DEF IssueFails, Heartbeat, Grant, Renew
<1>8. ASSUME NEW p \in Procs, Issue(p) \/ AuthenticateAgent(p) PROVE CallsNamed'
  <2>1. proc[p] \in ProcRows
    BY DEF TypeOK
  <2>2. proc'[p].call = "none"
    <3>1. CASE Issue(p)
      BY <3>1, <2>1 DEF Issue, ProcRows, TypeOK
    <3>2. CASE AuthenticateAgent(p)
      BY <3>2, <2>1 DEF AuthenticateAgent, ProcRows, TypeOK
    <3> QED  BY <1>8, <3>1, <3>2
  <2>3. \A q \in Procs \ {p} : proc'[q] = proc[q]
    BY <1>8 DEF Issue, AuthenticateAgent, TypeOK
  <2> QED  BY <2>2, <2>3 DEF CallsNamed
<1>9. ASSUME NEW p \in Procs, Disconnect(p) \/ Killed(p) PROVE CallsNamed'
  <2>1. proc[p] \in ProcRows
    BY DEF TypeOK
  <2>2. \/ proc'[p].call = "none"
        \/ proc'[p].call = proc[p].call /\ proc'[p].for = proc[p].for
    <3>1. CASE Disconnect(p)
      <4>1. proc'[p] = [proc[p] EXCEPT !.session = NoId, !.call = "none", !.for = NoId]
        BY <3>1 DEF Disconnect, TypeOK
      <4> QED  BY <2>1, <4>1 DEF ProcRows
    <3>2. CASE Killed(p)
      <4>1. proc'[p] = [proc[p] EXCEPT !.alive = FALSE]
        BY <3>2 DEF Killed, TypeOK
      <4> QED  BY <2>1, <4>1 DEF ProcRows
    <3> QED  BY <1>9, <3>1, <3>2
  <2>3. \A q \in Procs \ {p} : proc'[q] = proc[q]
    BY <1>9 DEF Disconnect, Killed, TypeOK
  <2> QED  BY <2>2, <2>3 DEF CallsNamed
<1>10. ASSUME NEW i \in Ids, RetireRelease(i) \/ ReleaseStale(i) PROVE CallsNamed'
  BY <1>10, ReleaseKeeps DEF RetireRelease, ReleaseStale, CallsNamed
<1>11. CASE UNCHANGED proc
  BY <1>11 DEF CallsNamed
<1>12. CASE Crash
  <2>1. \A q \in Procs : proc'[q].call = "none"
    BY <1>12 DEF Crash, TypeOK, ProcRows
  <2> QED  BY <2>1 DEF CallsNamed
<1> QED
  BY <1>10, <1>11, <1>12, <1>3, <1>4, <1>5, <1>6, <1>7, <1>8, <1>9
  DEF Next, SweepStep, vars, Deregister, Evict, RetireState, RetireRevoke, RetireFails,
      BeatAges, LeaseAges, LeaseExpires, ReleaseStaleFails, ReapSelect, MarkStale, ReapFails

\* A process that comes to act for nobody new acts for its own agents.
LEMMA OwnRow ==
  ASSUME TypeOK, OwnIdentity, UNCHANGED agent, NEW p \in Procs, NEW row,
         proc' = [proc EXCEPT ![p] = row],
         {row.session, row.token, row.for} \subseteq
           {proc[p].session, proc[p].token, proc[p].for, NoId}
  PROVE  OwnIdentity'
<1> SUFFICES ASSUME NEW q \in Procs, NEW i \in Ids,
                    i \in {proc'[q].session, proc'[q].token, proc'[q].for}
             PROVE  i \in {proc[q].session, proc[q].token, proc[q].for}
  BY DEF OwnIdentity, Exists
<1>1. CASE q = p
  BY <1>1, NoIdIsNone DEF TypeOK
<1>2. CASE q # p
  BY <1>2 DEF TypeOK
<1> QED  BY <1>1, <1>2

\* What a process acts for stays its own: rows are never given away.
LEMMA OwnIdentityStep ==
  ASSUME TypeOK, CallsNamed, OwnIdentity, [Next]_vars PROVE OwnIdentity'
<1> USE NoIdIsNone DEF Exists
<1>1. \A p \in Procs : proc[p] \in ProcRows
  BY DEF TypeOK
<1>2. ASSUME NEW p \in Procs, NEW call, NEW k, Enter(p, call, k), UNCHANGED agent,
             k \in {proc[p].session, proc[p].token, proc[p].for, NoId}
      PROVE  OwnIdentity'
  <2> DEFINE row == [proc[p] EXCEPT !.call = call, !.for = k]
  <2>1. row.session = proc[p].session /\ row.token = proc[p].token /\ row.for = k
    BY <1>1 DEF ProcRows
  <2>2. proc' = [proc EXCEPT ![p] = row]
    BY <1>2 DEF Enter
  <2> HIDE DEF row
  <2> QED  BY <2>1, <2>2, <1>2, OwnRow
<1>3. ASSUME NEW p \in Procs, RegisterNew(p) PROVE OwnIdentity'
  <2>1. PICK k \in Ids :
          /\ Fresh(k)
          /\ agent' = [agent EXCEPT ![k] = [state |-> "active", owner |-> p, late |-> FALSE]]
          /\ Enter(p, "issue", k)
    BY <1>3 DEF RegisterNew
  <2> SUFFICES ASSUME NEW q \in Procs, NEW i \in Ids,
                      i \in {proc'[q].session, proc'[q].token, proc'[q].for}
               PROVE  agent'[i].state # "none" /\ agent'[i].owner = q
    BY DEF OwnIdentity
  <2>2. agent[k].state = "none"
    BY <2>1 DEF Fresh
  <2>3. CASE q = p /\ i = k
    BY <2>1, <2>3 DEF TypeOK
  <2>4. CASE i # k
    <3>1. i \in {proc[q].session, proc[q].token, proc[q].for}
      BY <2>1, <2>4, <1>1 DEF Enter, TypeOK, ProcRows
    <3> QED  BY <2>1, <2>4, <3>1 DEF TypeOK, OwnIdentity
  <2>5. CASE q # p /\ i = k
    BY <2>1, <2>2, <2>5 DEF Enter, TypeOK, OwnIdentity
  <2> QED  BY <2>3, <2>4, <2>5
<1>4. ASSUME NEW p \in Procs, RegisterReclaim(p) PROVE OwnIdentity'
  <2>1. PICK k \in Ids :
          /\ agent[k].state = "active" /\ agent[k].owner = p
          /\ agent' = [agent EXCEPT ![k].late = FALSE]
          /\ Enter(p, "issue", k)
    BY <1>4 DEF RegisterReclaim, ByName
  <2>2. \A i \in Ids : agent'[i].state = agent[i].state /\ agent'[i].owner = agent[i].owner
    BY <2>1 DEF TypeOK, AgentRows
  <2> SUFFICES ASSUME NEW q \in Procs, NEW i \in Ids,
                      i \in {proc'[q].session, proc'[q].token, proc'[q].for}
               PROVE  agent[i].state # "none" /\ agent[i].owner = q
    BY <2>2 DEF OwnIdentity
  <2>3. CASE q = p /\ i = k
    BY <2>1, <2>3
  <2>4. CASE q # p \/ i # k
    <3>1. i \in {proc[q].session, proc[q].token, proc[q].for}
      BY <2>1, <2>4, <1>1 DEF Enter, TypeOK, ProcRows
    <3> QED  BY <3>1 DEF OwnIdentity
  <2> QED  BY <2>3, <2>4
<1>5. ASSUME NEW p \in Procs, Issue(p) PROVE OwnIdentity'
  <2> DEFINE row == [proc[p] EXCEPT !.call = "none", !.for = NoId, !.session = proc[p].for,
                                    !.token = proc[p].for]
  <2>1. row.session = proc[p].for /\ row.token = proc[p].for /\ row.for = NoId
    BY <1>1 DEF ProcRows
  <2>2. proc' = [proc EXCEPT ![p] = row] /\ UNCHANGED agent
    BY <1>5 DEF Issue
  <2> HIDE DEF row
  <2> QED  BY <2>1, <2>2, OwnRow
<1>6. ASSUME NEW p \in Procs, AuthenticateAgent(p) PROVE OwnIdentity'
  <2> DEFINE row == [proc[p] EXCEPT !.call = "none", !.for = NoId, !.session = Bound(p)]
  <2>1. row.session = Bound(p) /\ row.token = proc[p].token /\ row.for = NoId
    BY <1>1 DEF ProcRows
  <2>2. proc' = [proc EXCEPT ![p] = row] /\ UNCHANGED agent
    BY <1>6 DEF AuthenticateAgent
  <2>3. Bound(p) \in {proc[p].for, proc[p].session}
    BY DEF Bound
  <2> HIDE DEF row
  <2> QED  BY <2>1, <2>2, <2>3, OwnRow
<1>7. ASSUME NEW p \in Procs, Disconnect(p) \/ Killed(p) PROVE OwnIdentity'
  <2>1. CASE Disconnect(p)
    <3> DEFINE row == [proc[p] EXCEPT !.session = NoId, !.call = "none", !.for = NoId]
    <3>1. row.session = NoId /\ row.token = proc[p].token /\ row.for = NoId
      BY <1>1 DEF ProcRows
    <3>2. proc' = [proc EXCEPT ![p] = row] /\ UNCHANGED agent
      BY <2>1 DEF Disconnect
    <3> HIDE DEF row
    <3> QED  BY <3>1, <3>2, OwnRow
  <2>2. CASE Killed(p)
    <3> DEFINE row == [proc[p] EXCEPT !.alive = FALSE]
    <3>1. /\ row.session = proc[p].session /\ row.token = proc[p].token
          /\ row.for = proc[p].for
      BY <1>1 DEF ProcRows
    <3>2. proc' = [proc EXCEPT ![p] = row] /\ UNCHANGED agent
      BY <2>2 DEF Killed
    <3> HIDE DEF row
    <3> QED  BY <3>1, <3>2, OwnRow
  <2> QED  BY <1>7, <2>1, <2>2
<1>8. ASSUME NEW p \in Procs, \/ IssueFails(p) \/ AuthenticateToken(p) \/ Begin(p)
                               \/ Enqueue(p) \/ Grant(p) \/ Renew(p)
       PROVE  OwnIdentity'
  BY <1>8, <1>2 DEF IssueFails, AuthenticateToken, Begin, Enqueue, Grant, Renew, Done
<1>9. ASSUME NEW k \in Ids, NEW state \in AgentStates \ {"none"}, SetState(k, state)
      PROVE  \A i \in Ids : agent[i].state # "none" =>
               agent'[i].state # "none" /\ agent'[i].owner = agent[i].owner
  BY <1>9, SetStateIs
<1>10. ASSUME NEW p \in Procs, Heartbeat(p) PROVE OwnIdentity'
  <2>1. proc[p].for \in Ids
    BY <1>10, IdentityTyped DEF Heartbeat, CallsNamed
  <2>2. \A i \in Ids : agent[i].state # "none" =>
          agent'[i].state # "none" /\ agent'[i].owner = agent[i].owner
    BY <1>10, <1>9, <2>1 DEF Heartbeat, AgentStates
  <2>3. \A q \in Procs : \A i \in Ids :
          i \in {proc'[q].session, proc'[q].token, proc'[q].for} =>
          i \in {proc[q].session, proc[q].token, proc[q].for}
    BY <1>10, <1>1 DEF Heartbeat, Done, Enter, TypeOK, ProcRows
  <2> QED  BY <2>2, <2>3 DEF OwnIdentity
<1>11. ASSUME NEW k \in Ids, RetireRelease(k) \/ ReleaseStale(k) PROVE OwnIdentity'
  <2>1. \A q \in Procs : \A i \in Ids :
          i \in {proc'[q].session, proc'[q].token, proc'[q].for} =>
          i \in {proc[q].session, proc[q].token, proc[q].for}
    BY <1>11, ReleaseKeeps DEF RetireRelease, ReleaseStale
  <2> QED  BY <1>11, <2>1 DEF RetireRelease, ReleaseStale, OwnIdentity
<1>12. ASSUME NEW k \in Ids, RetireState(k) \/ MarkStale(k) PROVE OwnIdentity'
  BY <1>12, <1>9 DEF RetireState, MarkStale, AgentStates, OwnIdentity
<1>13. ASSUME NEW k \in Ids, BeatAges(k) PROVE OwnIdentity'
  BY <1>13 DEF BeatAges, TypeOK, AgentRows, OwnIdentity
<1>14. CASE UNCHANGED <<proc, agent>>
  BY <1>14 DEF OwnIdentity
<1>15. CASE Crash
  <2>1. \A q \in Procs : \A i \in Ids :
          i \in {proc'[q].session, proc'[q].token, proc'[q].for} =>
          i \in {proc[q].session, proc[q].token, proc[q].for}
    BY <1>15, <1>1 DEF Crash, TypeOK, ProcRows
  <2> QED  BY <1>15, <2>1 DEF Crash, OwnIdentity
<1> QED
  BY <1>3, <1>4, <1>5, <1>10, <1>11, <1>12, <1>14, <1>15, <1>6, <1>7, <1>8, <1>13
  DEF Next, SweepStep, vars, Deregister, Evict, RetireRevoke, RetireFails, LeaseAges,
      LeaseExpires, ReleaseStaleFails, ReapSelect, ReapFails

\* The only steps that make a row active look first whether the name is free.
LEMMA OneActiveStep ==
  ASSUME RosterInv, [Next]_vars PROVE OneActivePerName'
<1> USE NoIdIsNone DEF RosterInv, TypeOK, OneActivePerName, AgentRows, ProcRows
<1>1. ASSUME NEW p \in Procs, RegisterNew(p) PROVE OneActivePerName'
  BY <1>1 DEF RegisterNew, ByName, Fresh
<1>2. ASSUME NEW p \in Procs, RegisterReclaim(p) PROVE OneActivePerName'
  BY <1>2 DEF RegisterReclaim, ByName
<1>3. ASSUME NEW p \in Procs, Heartbeat(p) PROVE OneActivePerName'
  <2>1. PICK k \in Ids : k = proc[p].for
    BY <1>3, IdentityTyped DEF Heartbeat, CallsNamed
  <2>2. CASE Beatable(k)
    <3>1. SetState(k, "active")
      BY <1>3, <2>1, <2>2 DEF Heartbeat
    <3>2. \A i \in Ids \ {k} : agent[i].state = "active" =>
            NameOf[agent[i].owner] # NameOf[agent[k].owner]
      BY <2>2 DEF Beatable, ByName
    <3> HIDE DEF TypeOK
    <3> QED  BY <3>1, <3>2, SetStateIs
  <2>3. CASE ~Beatable(k)
    BY <2>1, <2>3, <1>3 DEF Heartbeat
  <2> QED  BY <2>2, <2>3
<1>4. ASSUME NEW k \in Ids, RetireState(k) \/ MarkStale(k) PROVE OneActivePerName'
  <2> HIDE DEF TypeOK
  <2>1. PICK s \in {"deregistered", "stale"} : SetState(k, s)
    BY <1>4 DEF RetireState, MarkStale
  <2> QED  BY <2>1, SetStateIs
<1>5. ASSUME NEW k \in Ids, BeatAges(k) PROVE OneActivePerName'
  BY <1>5 DEF BeatAges
<1>6. CASE UNCHANGED agent
  BY <1>6
<1> QED
  BY <1>1, <1>2, <1>3, <1>4, <1>6, <1>5
  DEF Next, SweepStep, vars, Issue, IssueFails, AuthenticateToken, AuthenticateAgent, Begin,
      Enqueue, Grant, Renew, Disconnect, Killed, Deregister, Evict, RetireRelease,
      RetireRevoke, RetireFails, LeaseAges, LeaseExpires, ReleaseStale, ReleaseStaleFails,
      ReapSelect, ReapFails, Crash

\* The invariant holds at first and in every step.
LEMMA RosterInvariant == Spec => []RosterInv
<1>1. Init => RosterInv
  BY NoIdIsNone DEF Init, RosterInv, TypeOK, CallsNamed, OwnIdentity, OneActivePerName,
     AgentRows, AgentStates, ProcRows, Calls, RetireSteps, Exists
<1>2. RosterInv /\ [Next]_vars => RosterInv'
  BY TypeStep, CallsNamedStep, OwnIdentityStep, OneActiveStep DEF RosterInv
<1> QED
  BY <1>1, <1>2, PTL DEF Spec

\* Every variable of the registry keeps its type, for any processes and names.
THEOREM RegistryTypeCorrect == Spec => []TypeOK
<1>1. RosterInv => TypeOK
  BY DEF RosterInv
<1> QED  BY <1>1, RosterInvariant, PTL

\* However many processes want a name, and in whatever order they register, go
\* stale, beat again and are retired, one row with it is active (register's
\* transaction, Heartbeat under the index agents_active_name).
THEOREM NamesAreUnique == Spec => []OneActivePerName
<1>1. RosterInv => OneActivePerName
  BY DEF RosterInv
<1> QED  BY <1>1, RosterInvariant, PTL

\* No process ever acts for an agent that another process registered (register's
\* comparison of process ids, SetAgentID).
THEOREM IdentitiesAreOwn == Spec => []OwnIdentity
<1>1. RosterInv => OwnIdentity
  BY DEF RosterInv
<1> QED  BY <1>1, RosterInvariant, PTL

\* Once retired, and out of the sweep's hands, an agent is retired for good
\* (Heartbeat's WHERE, retire).
THEOREM RetirementIsFinal == Spec => RetiredStaysOut
<1> DEFINE Stays == \A i \in Ids : agent[i].state = "deregistered" /\ i \notin found =>
                                     agent'[i].state = "deregistered"
<1>1. ASSUME RosterInv, [Next]_vars PROVE Stays
  <2> USE NoIdIsNone DEF RosterInv, TypeOK, AgentRows, ProcRows
  <2>1. ASSUME NEW p \in Procs, RegisterNew(p) PROVE Stays
    BY <2>1 DEF RegisterNew, Fresh, Exists
  <2>2. ASSUME NEW p \in Procs, RegisterReclaim(p) PROVE Stays
    BY <2>2 DEF RegisterReclaim, ByName
  <2>3. ASSUME NEW p \in Procs, Heartbeat(p) PROVE Stays
    <3>1. proc[p].for \in Ids
      BY <1>1, <2>3, IdentityTyped DEF Heartbeat, CallsNamed
    <3> HIDE DEF TypeOK
    <3> QED  BY <1>1, <2>3, <3>1, SetStateIs DEF Heartbeat, Beatable
  <2>4. ASSUME NEW k \in Ids, RetireState(k) \/ MarkStale(k) PROVE Stays
    <3> HIDE DEF TypeOK
    <3> QED  BY <1>1, <2>4, SetStateIs DEF RetireState, MarkStale
  <2>5. ASSUME NEW k \in Ids, BeatAges(k) PROVE Stays
    BY <2>5 DEF BeatAges
  <2>6. CASE UNCHANGED agent
    BY <2>6
  <2> QED
    BY <1>1, <2>1, <2>2, <2>3, <2>4, <2>6, <2>5
    DEF Next, SweepStep, vars, Issue, IssueFails, AuthenticateToken, AuthenticateAgent,
        Begin, Enqueue, Grant, Renew, Disconnect, Killed, Deregister, Evict, RetireRelease,
        RetireRevoke, RetireFails, LeaseAges, LeaseExpires, ReleaseStale, ReleaseStaleFails,
        ReapSelect, ReapFails, Crash
<1> QED
  BY <1>1, RosterInvariant, PTL DEF Spec, RetiredStaysOut

=============================================================================
