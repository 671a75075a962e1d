----------------------------- MODULE SessionProofs -----------------------------
(***************************************************************************)
(* The timing of module Session, for every deadline, interval and latency. *)
(***************************************************************************)
EXTENDS Session, TLAPS

(* What a step keeps of the types: the proofs below rest on it. *)
LEMMA TypeInit == Init => SessionTypeOK
BY SessionAssumption DEF SessionAssumption, Init, SessionTypeOK

LEMMA TypeStep == SessionTypeOK /\ [Next]_vars => SessionTypeOK'
<1> SUFFICES ASSUME SessionTypeOK, [Next]_vars PROVE SessionTypeOK'
  OBVIOUS
<1> USE SessionAssumption DEF SessionAssumption, SessionTypeOK, timers
<1>1. CASE CommandStep
  <2>1. CASE SetupFails
    BY <2>1 DEF SetupFails, Running
  <2>3. CASE ConnectWithoutSession
    BY <2>3 DEF ConnectWithoutSession, Running
  <2>4. CASE Dial
    BY <2>4 DEF Dial, Running
  <2>5. CASE Ask
    BY <2>5 DEF Ask, Running
  <2>6. CASE Reply
    BY <2>6 DEF Reply, Running
  <2>7. CASE RequestFails
    BY <2>7 DEF RequestFails, Running
  <2>8. CASE CommandEnds
    BY <2>8 DEF CommandEnds, Running
  <2>9. CASE Close
    BY <2>9 DEF Close, Running
  <2>10. CASE Exit
    BY <2>10 DEF Exit, Running
  <2> QED
    BY <1>1, <2>1, <2>3, <2>4, <2>5,
       <2>6, <2>7, <2>8, <2>9, <2>10 DEF CommandStep
<1>2. CASE SessionStep
  <2>1. CASE SendKeepalive
    BY <2>1 DEF SendKeepalive, Running
  <2>2. CASE AnswerKeepalive
    BY <2>2 DEF AnswerKeepalive, Running
  <2>3. CASE KeepaliveFails
    BY <2>3 DEF KeepaliveFails, KeepaliveHasFailed, Running
  <2>4. CASE ReadTimesOut
    BY <2>4 DEF ReadTimesOut, Running
  <2> QED
    BY <1>2, <2>1, <2>2, <2>3, <2>4 DEF SessionStep
<1>3. CASE LinkIsCut
  BY <1>3 DEF LinkIsCut, Running
<1>4. CASE Second
  BY <1>4 DEF Second, Running, Urgent, Less
<1>5. CASE UNCHANGED vars
  BY <1>5 DEF vars
<1> QED
  BY <1>1, <1>2, <1>3, <1>4, <1>5 DEF Next

(***************************************************************************)
(* Every variable keeps its range: the reader's wait never passes its      *)
(* deadline.                                                               *)
(***************************************************************************)
THEOREM TypeCorrect == Spec => []SessionTypeOK
BY TypeInit, TypeStep, PTL DEF Spec
--------------------------------------------------------------------------------
(***************************************************************************)
(* While the server answers, the silence is at most the interval and the   *)
(* latency: with a request out, what is left of the latency fits, with     *)
(* none, what is left of the interval does.                                *)
(***************************************************************************)
SilenceIsBounded ==
    ssh = "open" /\ link = "up" =>
        /\ keepalive = "sent" => silence + answerIn <= Interval + Latency
        /\ keepalive = "waiting" /\ tick = "ready" => silence <= Interval
        /\ keepalive = "waiting" /\ tick = "none" => silence + ticker <= Interval

(* The session is closed by the command, or for silence after a cut. *)
ClosedHasCause ==
    /\ ssh = "closed" => link = "cut" \/ command = "returned"
    /\ exit = "fatal" => ssh = "closed"
    /\ command \in {"working", "asking", "closing"} /\ backupType = "sftp" => ssh # "none"

IsKept == Interval + Latency < Timeout => SilenceIsBounded /\ ClosedHasCause

LEMMA KeptStep == SessionTypeOK /\ IsKept /\ [Next]_vars => IsKept'
<1> SUFFICES ASSUME SessionTypeOK, Interval + Latency < Timeout,
                    SilenceIsBounded, ClosedHasCause, [Next]_vars
             PROVE  SilenceIsBounded' /\ ClosedHasCause'
  BY DEF IsKept
<1> USE SessionAssumption DEF SessionAssumption, SessionTypeOK, timers,
        SilenceIsBounded, ClosedHasCause
<1>1. CASE CommandStep
  <2>1. CASE SetupFails
    BY <2>1 DEF SetupFails, Running
  <2>3. CASE ConnectWithoutSession
    BY <2>3 DEF ConnectWithoutSession, Running
  <2>4. CASE Dial
    BY <2>4 DEF Dial, Running
  <2>5. CASE Ask
    BY <2>5 DEF Ask, Running
  <2>6. CASE Reply
    BY <2>6 DEF Reply, Running
  <2>7. CASE RequestFails
    BY <2>7 DEF RequestFails, Running
  <2>8. CASE CommandEnds
    BY <2>8 DEF CommandEnds, Running
  <2>9. CASE Close
    BY <2>9 DEF Close, Running
  <2>10. CASE Exit
    BY <2>10 DEF Exit, Running
  <2> QED
    BY <1>1, <2>1, <2>3, <2>4, <2>5,
       <2>6, <2>7, <2>8, <2>9, <2>10 DEF CommandStep
<1>2. CASE SessionStep
  <2>1. CASE SendKeepalive
    BY <2>1 DEF SendKeepalive, Running
  <2>2. CASE AnswerKeepalive
    BY <2>2 DEF AnswerKeepalive, Running
  <2>3. CASE KeepaliveFails
    BY <2>3 DEF KeepaliveFails, KeepaliveHasFailed, Running
  <2>4. CASE ReadTimesOut
    BY <2>4 DEF ReadTimesOut, Running
  <2> QED
    BY <1>2, <2>1, <2>2, <2>3, <2>4 DEF SessionStep
<1>3. CASE LinkIsCut
  BY <1>3 DEF LinkIsCut, Running
<1>4. CASE Second
  BY <1>4 DEF Second, Running, Urgent, Less
<1>5. CASE UNCHANGED vars
  BY <1>5 DEF vars
<1> QED
  BY <1>1, <1>2, <1>3, <1>4, <1>5 DEF Next

(***************************************************************************)
(* Whenever interval and latency are shorter than the deadline, a session  *)
(* whose server answers is neither closed nor ends the process under a     *)
(* command.                                                                *)
(***************************************************************************)
THEOREM LiveIsKept == Spec => []LiveSessionIsKept
<1>1. Init => IsKept
  BY SessionAssumption
  DEF SessionAssumption, Init, IsKept, SilenceIsBounded, ClosedHasCause
<1>2. SessionTypeOK /\ IsKept => LiveSessionIsKept
  BY DEF SessionTypeOK, IsKept, ClosedHasCause, LiveSessionIsKept
<1> QED
  BY <1>1, <1>2, TypeCorrect, KeptStep, PTL DEF Spec
--------------------------------------------------------------------------------
(***************************************************************************)
(* After a cut the silence is as long as the link has been cut, until the  *)
(* reader gives up; then it is no longer to the end than to a tick.        *)
(***************************************************************************)
EndIsNear ==
    /\ link = "up" => cutFor = 0
    /\ exit = "running" /\ ssh = "open" => cutFor <= silence
    /\ exit = "running" /\ ssh = "closed" /\ keepalive = "waiting" /\ tick = "none" =>
            cutFor + ticker <= Timeout + Interval
    /\ exit = "running" => cutFor <= Timeout + Interval

LEMMA NearStep == SessionTypeOK /\ EndIsNear /\ [Next]_vars => EndIsNear'
<1> SUFFICES ASSUME SessionTypeOK, EndIsNear, [Next]_vars
             PROVE  EndIsNear'
  OBVIOUS
<1> USE SessionAssumption DEF SessionAssumption, SessionTypeOK, timers, EndIsNear
<1>1. CASE CommandStep
  <2>1. CASE SetupFails
    BY <2>1 DEF SetupFails, Running
  <2>3. CASE ConnectWithoutSession
    BY <2>3 DEF ConnectWithoutSession, Running
  <2>4. CASE Dial
    BY <2>4 DEF Dial, Running
  <2>5. CASE Ask
    BY <2>5 DEF Ask, Running
  <2>6. CASE Reply
    BY <2>6 DEF Reply, Running
  <2>7. CASE RequestFails
    BY <2>7 DEF RequestFails, Running
  <2>8. CASE CommandEnds
    BY <2>8 DEF CommandEnds, Running
  <2>9. CASE Close
    BY <2>9 DEF Close, Running
  <2>10. CASE Exit
    BY <2>10 DEF Exit, Running
  <2> QED
    BY <1>1, <2>1, <2>3, <2>4, <2>5,
       <2>6, <2>7, <2>8, <2>9, <2>10 DEF CommandStep
<1>2. CASE SessionStep
  <2>1. CASE SendKeepalive
    BY <2>1 DEF SendKeepalive, Running
  <2>2. CASE AnswerKeepalive
    BY <2>2 DEF AnswerKeepalive, Running
  <2>3. CASE KeepaliveFails
    BY <2>3 DEF KeepaliveFails, KeepaliveHasFailed, Running
  <2>4. CASE ReadTimesOut
    BY <2>4 DEF ReadTimesOut, Running
  <2> QED
    BY <1>2, <2>1, <2>2, <2>3, <2>4 DEF SessionStep
<1>3. CASE LinkIsCut
  BY <1>3 DEF LinkIsCut, Running
<1>4. CASE Second
  BY <1>4 DEF Second, Running, Urgent, KeepaliveHasFailed, Less
<1>5. CASE UNCHANGED vars
  BY <1>5 DEF vars
<1> QED
  BY <1>1, <1>2, <1>3, <1>4, <1>5 DEF Next

(***************************************************************************)
(* Whatever the latency, and whatever the command does, a process is there *)
(* for at most the deadline and an interval after the link was cut.        *)
(***************************************************************************)
THEOREM LossEnds == Spec => []LossEndsProcess
<1>1. Init => EndIsNear
  BY SessionAssumption DEF SessionAssumption, Init, EndIsNear
<1>2. EndIsNear => LossEndsProcess
  BY DEF EndIsNear, LossEndsProcess
<1> QED
  BY <1>1, <1>2, TypeCorrect, NearStep, PTL DEF Spec
================================================================================
