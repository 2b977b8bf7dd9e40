--------------------------- MODULE SessionProofs ---------------------------
(***************************************************************************)
(* Proofs about Session, for scripts of any length and any number of       *)
(* result tabs: types, WritesUninterrupted, OnlyStopCancels,               *)
(* EngineOutlivesRun and ReportIsHonest. The first four follow from one    *)
(* inductive invariant, SessionInv, whose point is which flag implies      *)
(* which: scan_cancel and the pending store of it imply job->cancel, and   *)
(* with job->cancel set the worker passes the head of its loop no more.    *)
(* ReportIsHonest needs ReportInv besides: how a run can have ended, which *)
(* result sets are kept, and that a report stays true until the next run.  *)
(***************************************************************************)
EXTENDS Session, WellFoundedInduction, FiniteSetTheorems, TLAPS

Reading  == {"read_check", "read_start", "scan", "read_end"}
Between  == {"ended", "check"}         \* not inside a statement
Stopping == {"stop_request", "stop_load", "stop_scan", "join"}
Calling  == {"call", "in_call", "closing", "closed"}

(* The worker is inside a statement only while one is left; without a job  *)
(* it is not there. read_running says where it is.                         *)
WorkerInv ==
  /\ worker \notin Between => Executed < Len(script)
  /\ ~job => worker = "ended"
  /\ read_running <=> worker \in Reading

(* Every trace of a stop implies job->cancel of the present run; where the *)
(* flag is set, or about to be, no statement that changes data is running  *)
(* and none will.                                                          *)
StopInv ==
  /\ gui \in Stopping => job /\ cancel
  /\ cancel_requested => job /\ cancel
  /\ scan_cancel \/ gui = "stop_scan" =>
       job /\ cancel /\ worker \notin {"lock", "begin", "write"}

(* Cancellations that are reported had a cause. *)
CauseInv ==
  job /\ ~cancel =>
    /\ ~cancelled
    /\ \A i \in DOMAIN outcomes : outcomes[i] # "cancelled"
    /\ worker \in {"read_end", "read_result", "unlock"} => result # "cancelled"

QuitInv ==
  /\ quitting => gui \in Stopping \/ (gui \in Calling /\ ~job)
  /\ gui \in {"closing", "closed"} => quitting

SessionInv == TypeOK /\ WorkerInv /\ StopInv /\ CauseInv /\ QuitInv

-----------------------------------------------------------------------------
(* The ring of result sets *)
LEMMA KeptBounded ==
  ASSUME NEW s \in Seq(Nat), Len(s) <= MaxTabs, NEW n \in Nat
  PROVE  Kept(s, n) \in Seq(Nat) /\ Len(Kept(s, n)) <= MaxTabs
<1>1. CASE Len(s) = MaxTabs
  <2>1. Tail(s) \in Seq(Nat) /\ Len(Tail(s)) = MaxTabs - 1
    BY <1>1, SessionAssumption
  <2> QED
    BY <1>1, <2>1, SessionAssumption DEF Kept
<1>2. CASE Len(s) # MaxTabs
  BY <1>2, SessionAssumption DEF Kept
<1> QED
  BY <1>1, <1>2

(* The invariant holds before the first run.                               *)
LEMMA InitSession == Init => SessionInv
<1> SUFFICES ASSUME Init PROVE SessionInv
  OBVIOUS
<1> USE SessionAssumption DEF Init, SessionInv
<1>1. TypeOK
  <2>1. /\ gui \in GuiSteps /\ worker \in WorkerSteps /\ shown \in Reports
        /\ mutex \in {"free", "worker", "gui"} /\ result \in Outcomes
    BY DEF GuiSteps, WorkerSteps, Reports, Outcomes, Success
  <2>2. /\ quitting \in BOOLEAN /\ job \in BOOLEAN /\ keep_going \in BOOLEAN
        /\ cancel \in BOOLEAN /\ cancelled \in BOOLEAN /\ cancel_requested \in BOOLEAN
        /\ read_running \in BOOLEAN /\ scan_cancel \in BOOLEAN
    BY DEF GuiSteps, WorkerSteps, Reports, Outcomes, Success
  <2>3. /\ script \in Seq(Kinds)
        /\ outcomes \in Seq(Outcomes) /\ Len(outcomes) <= Len(script)
        /\ grids \in Seq(Nat) /\ Len(grids) <= MaxTabs
    BY DEF GuiSteps, WorkerSteps, Reports, Outcomes, Success
  <2> QED
    BY <2>1, <2>2, <2>3 DEF TypeOK
<1>2. WorkerInv
  BY DEF WorkerInv, Between, Reading
<1>3. StopInv
  BY DEF StopInv, Stopping
<1>4. CauseInv
  BY DEF CauseInv
<1>5. QuitInv
  BY DEF QuitInv
<1> QED
  BY <1>1, <1>2, <1>3, <1>4, <1>5

(* The steps of the worker. ReadResult reports a cancellation only with    *)
(* scan_cancel set, which implies job->cancel.                             *)
LEMMA WorkerKeeps ==
  ASSUME SessionInv, WorkerStep \/ Lock \/ ScanEnds
  PROVE  SessionInv'
<1> USE SessionAssumption
    DEF SessionInv, TypeOK, WorkerInv, StopInv, CauseInv, QuitInv, GuiSteps, WorkerSteps,
         Reports, Outcomes, Success, Between, Reading, Stopping, Calling, Executed,
         windowVars, flagVars, Goto
<1>1. CASE NextStatement
  <2>1. TypeOK'
    <3>1. /\ gui' \in GuiSteps /\ worker' \in WorkerSteps /\ shown' \in Reports
          /\ mutex' \in {"free", "worker", "gui"} /\ result' \in Outcomes
      BY <1>1 DEF NextStatement, Stops
    <3>2. /\ quitting' \in BOOLEAN /\ job' \in BOOLEAN /\ keep_going' \in BOOLEAN
          /\ cancel' \in BOOLEAN /\ cancelled' \in BOOLEAN /\ cancel_requested' \in BOOLEAN
          /\ read_running' \in BOOLEAN /\ scan_cancel' \in BOOLEAN
      BY <1>1 DEF NextStatement, Stops
    <3>3. /\ script' \in Seq(Kinds)
          /\ outcomes' \in Seq(Outcomes) /\ Len(outcomes') <= Len(script')
          /\ grids' \in Seq(Nat) /\ Len(grids') <= MaxTabs
      BY <1>1 DEF NextStatement, Stops
    <3> QED
      BY <3>1, <3>2, <3>3
  <2>2. WorkerInv'
    BY <1>1 DEF NextStatement, Stops
  <2>3. StopInv'
    BY <1>1 DEF NextStatement, Stops
  <2>4. CauseInv'
    BY <1>1 DEF NextStatement, Stops
  <2>5. QuitInv'
    BY <1>1 DEF NextStatement, Stops
  <2> QED
    BY <2>1, <2>2, <2>3, <2>4, <2>5
<1>2. CASE Lock
  BY <1>2 DEF Lock
<1>3. CASE ParseError
  BY <1>3 DEF ParseError
<1>4. CASE BeginRead
  BY <1>4 DEF BeginRead
<1>5. CASE BeginWrite
  BY <1>5 DEF BeginWrite
<1>6. CASE CheckRequested
  BY <1>6 DEF CheckRequested, StopSeen
<1>7. CASE StartRead
  BY <1>7 DEF StartRead
<1>8. CASE ScanEnds
  BY <1>8 DEF ScanEnds
<1>9. CASE ScanStops
  BY <1>9 DEF ScanStops
<1>10. CASE EndRead
  <2>1. TypeOK'
    <3>1. /\ gui' \in GuiSteps /\ worker' \in WorkerSteps /\ shown' \in Reports
          /\ mutex' \in {"free", "worker", "gui"} /\ result' \in Outcomes
      BY <1>10 DEF EndRead
    <3>2. /\ quitting' \in BOOLEAN /\ job' \in BOOLEAN /\ keep_going' \in BOOLEAN
          /\ cancel' \in BOOLEAN /\ cancelled' \in BOOLEAN /\ cancel_requested' \in BOOLEAN
          /\ read_running' \in BOOLEAN /\ scan_cancel' \in BOOLEAN
      BY <1>10 DEF EndRead
    <3>3. /\ script' \in Seq(Kinds)
          /\ outcomes' \in Seq(Outcomes) /\ Len(outcomes') <= Len(script')
          /\ grids' \in Seq(Nat) /\ Len(grids') <= MaxTabs
      BY <1>10 DEF EndRead
    <3> QED
      BY <3>1, <3>2, <3>3
  <2>2. WorkerInv'
    BY <1>10 DEF EndRead
  <2>3. StopInv'
    BY <1>10 DEF EndRead
  <2>4. CauseInv'
    BY <1>10 DEF EndRead
  <2>5. QuitInv'
    BY <1>10 DEF EndRead
  <2> QED
    BY <2>1, <2>2, <2>3, <2>4, <2>5
<1>11. CASE ReadResult
  <2>1. TypeOK'
    <3>1. /\ gui' \in GuiSteps /\ worker' \in WorkerSteps /\ shown' \in Reports
          /\ mutex' \in {"free", "worker", "gui"} /\ result' \in Outcomes
      BY <1>11 DEF ReadResult
    <3>2. /\ quitting' \in BOOLEAN /\ job' \in BOOLEAN /\ keep_going' \in BOOLEAN
          /\ cancel' \in BOOLEAN /\ cancelled' \in BOOLEAN /\ cancel_requested' \in BOOLEAN
          /\ read_running' \in BOOLEAN /\ scan_cancel' \in BOOLEAN
      BY <1>11 DEF ReadResult
    <3>3. /\ script' \in Seq(Kinds)
          /\ outcomes' \in Seq(Outcomes) /\ Len(outcomes') <= Len(script')
          /\ grids' \in Seq(Nat) /\ Len(grids') <= MaxTabs
      BY <1>11 DEF ReadResult
    <3> QED
      BY <3>1, <3>2, <3>3
  <2>2. WorkerInv'
    BY <1>11 DEF ReadResult
  <2>3. StopInv'
    BY <1>11 DEF ReadResult
  <2>4. CauseInv'
    BY <1>11 DEF ReadResult
  <2>5. QuitInv'
    BY <1>11 DEF ReadResult
  <2> QED
    BY <2>1, <2>2, <2>3, <2>4, <2>5
<1>12. CASE Write
  BY <1>12 DEF Write
<1>13. CASE Unlock
  <2>1. /\ outcomes' \in Seq(Outcomes)
        /\ Len(outcomes') = Len(outcomes) + 1
        /\ Len(outcomes') <= Len(script)
        /\ \A i \in DOMAIN outcomes' :
             outcomes'[i] = IF i = Len(outcomes) + 1 THEN result ELSE outcomes[i]
    BY <1>13 DEF Unlock
  <2>2. grids' \in Seq(Nat) /\ Len(grids') <= MaxTabs
    BY <1>13, KeptBounded DEF Unlock
  <2>3. TypeOK'
    BY <1>13, <2>1, <2>2 DEF Unlock
  <2>4. WorkerInv' /\ StopInv' /\ QuitInv'
    BY <1>13, <2>1 DEF Unlock
  <2>5. CauseInv'
    BY <1>13, <2>1 DEF Unlock
  <2> QED
    BY <2>3, <2>4, <2>5
<1> QED
  BY <1>1, <1>2, <1>3, <1>4, <1>5, <1>6, <1>7, <1>8, <1>9, <1>10, <1>11, <1>12, <1>13 DEF WorkerStep

(* The steps of the window. StoreScanCancel comes after LoadReading has    *)
(* seen a SELECT running, with job->cancel already set.                    *)
LEMMA WindowKeeps ==
  ASSUME SessionInv,
         WindowStep \/ Stop \/ Quit \/ Call \/ RefreshExplorer \/ EnterCall \/ Tick
  PROVE  SessionInv'
<1> USE SessionAssumption
    DEF SessionInv, TypeOK, WorkerInv, StopInv, CauseInv, QuitInv, GuiSteps, WorkerSteps,
         Reports, Outcomes, Success, Between, Reading, Stopping, Calling, Executed,
         jobVars, flagVars
<1>1. CASE InlineEnds
  BY <1>1 DEF InlineEnds
<1>2. CASE Stop
  BY <1>2 DEF Stop
<1>3. CASE Quit
  <2>1. TypeOK'
    <3>1. /\ gui' \in GuiSteps /\ worker' \in WorkerSteps /\ shown' \in Reports
          /\ mutex' \in {"free", "worker", "gui"} /\ result' \in Outcomes
      BY <1>3 DEF Quit, QuitRequest
    <3>2. /\ quitting' \in BOOLEAN /\ job' \in BOOLEAN /\ keep_going' \in BOOLEAN
          /\ cancel' \in BOOLEAN /\ cancelled' \in BOOLEAN /\ cancel_requested' \in BOOLEAN
          /\ read_running' \in BOOLEAN /\ scan_cancel' \in BOOLEAN
      BY <1>3 DEF Quit, QuitRequest
    <3>3. /\ script' \in Seq(Kinds)
          /\ outcomes' \in Seq(Outcomes) /\ Len(outcomes') <= Len(script')
          /\ grids' \in Seq(Nat) /\ Len(grids') <= MaxTabs
      BY <1>3 DEF Quit, QuitRequest
    <3> QED
      BY <3>1, <3>2, <3>3
  <2>2. WorkerInv'
    BY <1>3 DEF Quit, QuitRequest
  <2>3. StopInv'
    BY <1>3 DEF Quit, QuitRequest
  <2>4. CauseInv'
    BY <1>3 DEF Quit, QuitRequest
  <2>5. QuitInv'
    BY <1>3 DEF Quit, QuitRequest
  <2> QED
    BY <2>1, <2>2, <2>3, <2>4, <2>5
<1>4. CASE StoreRequest
  BY <1>4 DEF StoreRequest
<1>5. CASE LoadReading
  BY <1>5 DEF LoadReading, AfterRequest
<1>6. CASE StoreScanCancel
  BY <1>6 DEF StoreScanCancel, AfterRequest
<1>7. CASE Call
  BY <1>7 DEF Call
<1>8. CASE RefreshExplorer
  BY <1>8 DEF RefreshExplorer
<1>9. CASE EnterCall
  BY <1>9 DEF EnterCall
<1>10. CASE EndCall
  BY <1>10 DEF EndCall
<1>11. CASE Shutdown
  BY <1>11 DEF Shutdown
<1>12. CASE Tick \/ Destroy
  <2>1. job /\ worker = "ended" /\ FinishRun
    BY <1>12 DEF Tick, Destroy, Joined
  <2>2. Report \in Reports
    BY DEF Report
  <2>3. TypeOK'
    BY <2>1, <2>2 DEF FinishRun, db_clear_cancel
  <2>4. WorkerInv' /\ StopInv' /\ CauseInv'
    BY <2>1 DEF FinishRun, db_clear_cancel
  <2>5. QuitInv'
    BY <2>1 DEF FinishRun
  <2> QED
    BY <2>3, <2>4, <2>5
<1> QED
  BY <1>1, <1>2, <1>3, <1>4, <1>5, <1>6, <1>7, <1>8, <1>9, <1>10, <1>11, <1>12 DEF WindowStep

(* run_text starts a run with every flag cleared.                          *)
LEMMA RunKeeps ==
  ASSUME SessionInv, NEW s \in Scripts, NEW keep \in BOOLEAN, NEW threaded \in BOOLEAN,
         Run(s, keep, threaded)
  PROVE  SessionInv'
<1> USE DEF Run, db_clear_cancel, Goto, SessionInv
<1>1. s \in Seq(Kinds)
  BY SessionAssumption DEF Scripts
<1>2. TypeOK'
  <2> USE SessionAssumption
      DEF TypeOK, GuiSteps, WorkerSteps, Reports, Outcomes, Success
  <2>1. /\ gui' \in GuiSteps /\ worker' \in WorkerSteps /\ shown' \in Reports
        /\ mutex' \in {"free", "worker", "gui"} /\ result' \in Outcomes
    BY <1>1
  <2>2. /\ quitting' \in BOOLEAN /\ job' \in BOOLEAN /\ keep_going' \in BOOLEAN
        /\ cancel' \in BOOLEAN /\ cancelled' \in BOOLEAN /\ cancel_requested' \in BOOLEAN
        /\ read_running' \in BOOLEAN /\ scan_cancel' \in BOOLEAN
    BY <1>1
  <2>3. /\ script' \in Seq(Kinds)
        /\ outcomes' \in Seq(Outcomes) /\ Len(outcomes') <= Len(script')
        /\ grids' \in Seq(Nat) /\ Len(grids') <= MaxTabs
    BY <1>1
  <2> QED
    BY <2>1, <2>2, <2>3
<1>3. WorkerInv'
  BY DEF WorkerInv, Between, Reading
<1>4. StopInv'
  BY DEF StopInv, Stopping
<1>5. CauseInv'
  BY DEF CauseInv
<1>6. QuitInv'
  BY DEF QuitInv, Stopping, Calling
<1> QED
  BY <1>2, <1>3, <1>4, <1>5, <1>6

(* The inductive invariant, of which the others are parts.                 *)
THEOREM SessionInvariant == Spec => []SessionInv
<1>1. SessionInv /\ [Next]_vars => SessionInv'
  <2> SUFFICES ASSUME SessionInv, [Next]_vars PROVE SessionInv'
    OBVIOUS
  <2>1. CASE WorkerStep \/ Lock \/ ScanEnds
    BY <2>1, WorkerKeeps
  <2>2. CASE \E s \in Scripts, keep, threaded \in BOOLEAN : Run(s, keep, threaded)
    BY <2>2, RunKeeps
  <2>3. CASE WindowStep \/ Stop \/ Quit \/ Call \/ RefreshExplorer \/ EnterCall \/ Tick
    BY <2>3, WindowKeeps
  <2>4. CASE UNCHANGED vars
    BY <2>4 DEF vars, SessionInv, TypeOK, WorkerInv, StopInv, CauseInv, QuitInv, Executed
  <2> QED
    BY <2>1, <2>2, <2>3, <2>4 DEF Next
<1> QED
  BY InitSession, <1>1, PTL DEF Spec

(* The variables of the window, the worker and the engine keep their       *)
(* types, and at most MAX_RESULT_TABS result sets are kept.                *)
THEOREM SessionTypeCorrect == Spec => []TypeOK
<1>1. SessionInv => TypeOK
  BY DEF SessionInv
<1> QED
  BY <1>1, SessionInvariant, PTL

(* No statement that changes data runs with scan_cancel set.               *)
THEOREM WritesUninterruptedSafe == Spec => []WritesUninterrupted
<1>1. SessionInv => WritesUninterrupted
  BY DEF SessionInv, StopInv, WritesUninterrupted
<1> QED
  BY <1>1, SessionInvariant, PTL

(* Nothing is cancelled without a Stop in the same run.                    *)
THEOREM OnlyStopCancelsSafe == Spec => []OnlyStopCancels
<1>1. SessionInv => OnlyStopCancels
  BY DEF SessionInv, CauseInv, OnlyStopCancels
<1> QED
  BY <1>1, SessionInvariant, PTL

(* The engine is shut down only after the worker has ended.                *)
THEOREM EngineOutlivesRunSafe == Spec => []EngineOutlivesRun
<1>1. SessionInv => EngineOutlivesRun
  BY DEF SessionInv, QuitInv, WorkerInv, EngineOutlivesRun, Stopping
<1> QED
  BY <1>1, SessionInvariant, PTL

-----------------------------------------------------------------------------
(* What is reported. The outcomes before the last one never end a run, and *)
(* a worker that has ended had a reason; the kept result sets are the last *)
(* ones, oldest first; what is shown is the report of the outcomes, which  *)
(* nothing changes before the next run.                                    *)
Breaking(o) == o = "cancelled" \/ (o = "error" /\ ~keep_going)
WithRows    == {i \in DOMAIN outcomes : outcomes[i] = "rows"}

RunInv ==
  /\ \A i \in DOMAIN outcomes : Breaking(outcomes[i]) => i = Executed /\ worker = "ended"
  /\ worker = "ended" =>
       \/ Executed = Len(script)
       \/ cancelled
       \/ Executed \in DOMAIN outcomes /\ Breaking(outcomes[Executed])
  /\ cancelled => worker = "ended" /\ Executed < Len(script)

GridsInv ==
  /\ \A k, l \in DOMAIN grids : k < l => grids[k] < grids[l]
  /\ \A k \in DOMAIN grids : grids[k] \in WithRows
  /\ \A i \in WithRows :
       \/ \E k \in DOMAIN grids : grids[k] = i
       \/ Len(grids) = MaxTabs /\ \A k \in DOMAIN grids : i < grids[k]

ShownInv == ~job /\ shown # "none" => shown = Report

ReportInv == RunInv /\ GridsInv /\ ShownInv

(* Every nonempty set of natural numbers has a least element.              *)
LEMMA LeastNumber ==
  ASSUME NEW T \in SUBSET Nat, T # {}
  PROVE  \E m \in T : \A k \in T : m <= k
<1> DEFINE R == {ss \in Nat \X Nat : ss[1] < ss[2]}
<1>1. IsWellFoundedOn(R, Nat)
  <2>1. OpToRel(<, Nat) = R
    BY DEF OpToRel
  <2> QED
    BY <2>1, NatLessThanWellFounded
<1>2. \E x \in T : \A y \in T : ~ (<<y, x>> \in R)
  <2> HIDE DEF R
  <2> QED
    BY <1>1, WFMin
<1>3. PICK m \in T : \A k \in T : ~ (<<k, m>> \in R)
  BY <1>2
<1>4. ASSUME NEW k \in T PROVE m <= k
  <2>1. <<k, m>> \in Nat \X Nat /\ <<k, m>>[1] = k /\ <<k, m>>[2] = m
    OBVIOUS
  <2> QED
    BY <1>3, <2>1
<1> QED
  BY <1>4

(* The first failure, when there is one, is a failure.                     *)
LEMMA FailedIsFailure ==
  ASSUME TypeOK
  PROVE  /\ Failed = "none" <=> Failures = {}
         /\ Failed # "none" =>
              \E i \in Failures : Failed = outcomes[i] /\ \A j \in Failures : i <= j
<1>1. Failures \subseteq Nat /\ \A i \in Failures : outcomes[i] \in {"error", "cancelled"}
  BY DEF Failures, TypeOK, Outcomes, Success
<1>2. CASE Failures = {}
  BY <1>2 DEF Failed
<1>3. CASE Failures # {}
  <2>1. \E m \in Failures : \A k \in Failures : m <= k
    BY <1>1, <1>3, LeastNumber
  <2> DEFINE first == CHOOSE i \in Failures : \A j \in Failures : i <= j
  <2>2. first \in Failures /\ \A j \in Failures : first <= j
    BY <2>1
  <2>3. Failed = outcomes[first]
    BY <1>3 DEF Failed
  <2> QED
    BY <1>1, <1>3, <2>2, <2>3
<1> QED
  BY <1>2, <1>3

(* A strictly increasing sequence has as many elements after position k as *)
(* positions.                                                              *)
LEMMA LaterInSequence ==
  ASSUME NEW s \in Seq(Nat), \A i, j \in DOMAIN s : i < j => s[i] < s[j],
         NEW k \in 0 .. Len(s)
  PROVE  /\ IsFiniteSet({s[l] : l \in k + 1 .. Len(s)})
         /\ Cardinality({s[l] : l \in k + 1 .. Len(s)}) = Len(s) - k
<1> DEFINE S == k + 1 .. Len(s)
           T == {s[l] : l \in S}
           f == [l \in S |-> s[l]]
<1>0. k \in Nat /\ Len(s) \in Nat /\ DOMAIN s = 1 .. Len(s) /\ k <= Len(s)
  OBVIOUS
<1>1. IsFiniteSet(S) /\ Cardinality(S) = Len(s) - k
  <2>1. /\ IsFiniteSet(k + 1 .. Len(s))
        /\ Cardinality(k + 1 .. Len(s)) = IF k + 1 > Len(s) THEN 0 ELSE Len(s) - (k + 1) + 1
    BY <1>0, k + 1 \in Int, Len(s) \in Int, FS_Interval
  <2> QED
    BY <1>0, <2>1
<1>2. f \in Bijection(S, T)
  <2>1. f \in [S -> T]
    OBVIOUS
  <2>2. \A a, b \in S : a # b => s[a] # s[b]
    BY <1>0
  <2> HIDE DEF S
  <2>3. \A a, b \in S : f[a] = f[b] => a = b
    BY <2>2
  <2>4. \A t \in T : \E a \in S : f[a] = t
    OBVIOUS
  <2> QED
    BY <2>1, <2>3, <2>4 DEF Bijection, Injection, Surjection, IsInjective
<1>3. ExistsBijection(S, T)
  BY <1>2 DEF ExistsBijection
<1> HIDE DEF S, T, f
<1>4. IsFiniteSet(T) /\ Cardinality(T) = Cardinality(S)
  BY <1>1, <1>3, FS_Bijection
<1> QED
  BY <1>1, <1>4 DEF T, S

(* What Kept makes of an increasing sequence: the newest result set comes  *)
(* behind the others; one that is dropped is older than all that are kept, *)
(* and is dropped only when MaxTabs are.                                   *)
KeepsLast(s, n, u) ==
  /\ \A i, j \in DOMAIN u : i < j => u[i] < u[j]
  /\ \A i \in DOMAIN u : u[i] = n \/ \E j \in DOMAIN s : u[i] = s[j]
  /\ \E i \in DOMAIN u : u[i] = n
  /\ \A j \in DOMAIN s :
       \/ \E i \in DOMAIN u : u[i] = s[j]
       \/ Len(u) = MaxTabs /\ \A i \in DOMAIN u : s[j] < u[i]
  /\ Len(s) = MaxTabs => Len(u) = MaxTabs
  /\ \A b \in Nat : (\A i \in DOMAIN s : b < s[i]) /\ b < n => \A i \in DOMAIN u : b < u[i]

LEMMA KeptLast ==
  ASSUME NEW s \in Seq(Nat), NEW n \in Nat, Len(s) <= MaxTabs,
         \A i, j \in DOMAIN s : i < j => s[i] < s[j],
         \A i \in DOMAIN s : s[i] < n,
         NEW u, u = Kept(s, n)
  PROVE  KeepsLast(s, n, u)
<1>0. MaxTabs \in Nat /\ MaxTabs > 0 /\ \A i \in DOMAIN s : s[i] \in Nat
  BY SessionAssumption
<1>1. CASE Len(s) = MaxTabs
  <2>1. /\ Tail(s) \in Seq(Nat) /\ Len(Tail(s)) = MaxTabs - 1
        /\ \A i \in 1 .. MaxTabs - 1 : Tail(s)[i] = s[i + 1]
    BY <1>0, <1>1
  <2>2. u = Append(Tail(s), n)
    BY <1>1 DEF Kept
  <2>3. DOMAIN u = 1 .. MaxTabs /\ Len(u) = MaxTabs /\ u[MaxTabs] = n
    BY <1>0, <2>1, <2>2
  <2>4. \A i \in 1 .. MaxTabs - 1 : u[i] = s[i + 1]
    BY <1>0, <2>1, <2>2
  <2>5. DOMAIN s = 1 .. MaxTabs
    BY <1>1
  <2>6. \A i \in 1 .. MaxTabs : i = MaxTabs \/ (i \in 1 .. MaxTabs - 1 /\ i + 1 \in DOMAIN s)
    BY <1>0, <2>5
  <2>7. \A i, j \in DOMAIN u : i < j => u[i] < u[j]
    <3> SUFFICES ASSUME NEW i \in 1 .. MaxTabs, NEW j \in 1 .. MaxTabs, i < j
                 PROVE  u[i] < u[j]
      BY <2>3
    <3>1. i \in 1 .. MaxTabs - 1 /\ i + 1 \in DOMAIN s /\ u[i] = s[i + 1]
      BY <1>0, <2>4, <2>5
    <3>2. CASE j = MaxTabs
      BY <3>1, <3>2, <2>3
    <3>3. CASE j # MaxTabs
      BY <3>1, <3>3, <2>4, <2>6
    <3> QED
      BY <3>2, <3>3
  <2>8. \A i \in DOMAIN u : u[i] = n \/ \E j \in DOMAIN s : u[i] = s[j]
    BY <2>3, <2>4, <2>6
  <2>9. \A j \in DOMAIN s : (\E i \in DOMAIN u : u[i] = s[j]) \/ \A i \in DOMAIN u : s[j] < u[i]
    <3> SUFFICES ASSUME NEW j \in DOMAIN s
                 PROVE  (\E i \in DOMAIN u : u[i] = s[j]) \/ \A i \in DOMAIN u : s[j] < u[i]
      OBVIOUS
    <3>1. CASE j = 1
      <4> SUFFICES ASSUME NEW i \in 1 .. MaxTabs PROVE s[j] < u[i]
        BY <2>3
      <4>1. CASE i = MaxTabs
        BY <4>1, <2>3
      <4>2. CASE i # MaxTabs
        <5>1. i + 1 \in DOMAIN s /\ 1 < i + 1 /\ u[i] = s[i + 1]
          BY <4>2, <2>4, <2>6
        <5> QED
          BY <5>1, <3>1
      <4> QED
        BY <4>1, <4>2
    <3>2. CASE j # 1
      <4>1. j - 1 \in 1 .. MaxTabs - 1 /\ j = (j - 1) + 1
        BY <3>2, <2>5, <1>0
      <4>2. u[j - 1] = s[j] /\ j - 1 \in DOMAIN u
        BY <4>1, <2>3, <2>4
      <4> QED
        BY <4>2
    <3> QED
      BY <3>1, <3>2
  <2>10. \A b \in Nat : (\A i \in DOMAIN s : b < s[i]) /\ b < n => \A i \in DOMAIN u : b < u[i]
    BY <2>8
  <2> QED
    BY <1>0, <2>3, <2>7, <2>8, <2>9, <2>10 DEF KeepsLast
<1>2. CASE Len(s) # MaxTabs
  <2>1. u = Append(s, n)
    BY <1>2 DEF Kept
  <2>2. /\ DOMAIN u = 1 .. Len(s) + 1 /\ u[Len(s) + 1] = n
        /\ \A i \in 1 .. Len(s) : u[i] = s[i]
    BY <2>1
  <2>3. Len(s) \in Nat /\ DOMAIN s = 1 .. Len(s)
    OBVIOUS
  <2>4. \A i \in DOMAIN u : i = Len(s) + 1 \/ i \in DOMAIN s
    BY <2>2, <2>3
  <2>5. \A i \in DOMAIN s : i \in DOMAIN u /\ i < Len(s) + 1 /\ u[i] = s[i]
    BY <2>2, <2>3
  <2>6. Len(s) + 1 \in DOMAIN u
    BY <2>2, <2>3
  <2>7. \A i, j \in DOMAIN u : i < j => u[i] < u[j]
    BY <2>2, <2>3, <2>4, <2>5
  <2>8. \A i \in DOMAIN u : u[i] = n \/ \E j \in DOMAIN s : u[i] = s[j]
    BY <2>2, <2>4, <2>5
  <2> QED
    BY <1>2, <2>2, <2>5, <2>6, <2>7, <2>8 DEF KeepsLast
<1> QED
  BY <1>1, <1>2

LEMMA InitReport == Init => ReportInv
<1> SUFFICES ASSUME Init PROVE ReportInv
  OBVIOUS
<1>1. RunInv
  BY DEF Init, RunInv, Executed
<1>2. GridsInv
  BY DEF Init, GridsInv, WithRows
<1>3. ShownInv
  BY DEF Init, ShownInv
<1> QED
  BY <1>1, <1>2, <1>3 DEF ReportInv

(* A statement ends: its outcome is the last one, its result set the newest. *)
LEMMA UnlockReport ==
  ASSUME SessionInv, ReportInv, Unlock
  PROVE  ReportInv'
<1> DEFINE n == Len(outcomes) + 1
<1>1. /\ outcomes \in Seq(Outcomes) /\ grids \in Seq(Nat) /\ Len(grids) <= MaxTabs
      /\ job /\ worker = "unlock" /\ Len(outcomes) < Len(script) /\ Len(script) \in Nat
  BY DEF SessionInv, TypeOK, WorkerInv, Unlock, Between, Executed
<1>2. /\ n \in Nat /\ Len(outcomes') = n /\ DOMAIN outcomes' = 1 .. n
      /\ DOMAIN outcomes = 1 .. n - 1
      /\ outcomes'[n] = result /\ \A i \in 1 .. n - 1 : outcomes'[i] = outcomes[i]
  BY <1>1 DEF Unlock
<1>3. UNCHANGED <<script, keep_going, job, shown, cancelled, result>>
  BY DEF Unlock, windowVars
<1>4. RunInv'
  <2>1. ~cancelled /\ \A i \in DOMAIN outcomes : ~Breaking(outcomes[i])
    BY <1>1 DEF ReportInv, RunInv
  <2>2. Breaks <=> Breaking(result)'
    BY <1>3 DEF Breaks, Breaking
  <2>3. worker' = IF Breaks THEN "ended" ELSE "check"
    BY DEF Unlock, Goto
  <2>4. \A i \in DOMAIN outcomes' : Breaking(outcomes[i])' => i = n /\ worker' = "ended"
    BY <1>2, <1>3, <2>1, <2>2, <2>3 DEF Breaking, Unlock
  <2>5. worker' = "ended" => (Executed \in DOMAIN outcomes /\ Breaking(outcomes[Executed]))'
    <3>1. n \in DOMAIN outcomes'
      BY <1>1, <1>2
    <3>2. worker' = "ended" => Breaking(result)'
      BY <2>2, <2>3
    <3> QED
      BY <1>2, <1>3, <3>1, <3>2 DEF Breaking, Executed
  <2> QED
    BY <1>2, <1>3, <2>1, <2>4, <2>5 DEF RunInv, Executed
<1>5. GridsInv'
  <2>1. WithRows' = IF result = "rows" THEN WithRows \cup {n} ELSE WithRows
    BY <1>2 DEF WithRows
  <2>2. \A i \in WithRows : i \in Nat /\ i < n
    BY <1>2 DEF WithRows
  <2>3. CASE result # "rows"
    BY <2>1, <2>3 DEF Unlock, ReportInv, GridsInv
  <2>4. CASE result = "rows"
    <3>1. grids' = Kept(grids, n)
      BY <2>4 DEF Unlock, Executed
    <3>2. /\ \A i, j \in DOMAIN grids : i < j => grids[i] < grids[j]
          /\ \A i \in DOMAIN grids : grids[i] < n
      BY <2>2 DEF ReportInv, GridsInv
    <3>3. KeepsLast(grids, n, grids')
      <4> HIDE DEF n
      <4> QED
        BY <1>1, <1>2, <3>1, <3>2, KeptLast
    <3>4. \A k \in DOMAIN grids' : grids'[k] \in WithRows'
      BY <2>1, <2>4, <3>3 DEF ReportInv, GridsInv, KeepsLast
    <3>5. ASSUME NEW i \in WithRows'
          PROVE  \/ \E k \in DOMAIN grids' : grids'[k] = i
                 \/ Len(grids') = MaxTabs /\ \A k \in DOMAIN grids' : i < grids'[k]
      <4>1. CASE i = n
        BY <4>1, <3>3 DEF KeepsLast
      <4>2. CASE \E k \in DOMAIN grids : grids[k] = i
        BY <4>2, <3>3 DEF KeepsLast
      <4>3. CASE i # n /\ ~ \E k \in DOMAIN grids : grids[k] = i
        <5>1. i \in WithRows /\ i \in Nat /\ i < n
          BY <4>3, <2>1, <2>2
        <5>2. Len(grids) = MaxTabs /\ \A k \in DOMAIN grids : i < grids[k]
          BY <4>3, <5>1 DEF ReportInv, GridsInv
        <5> QED
          BY <5>1, <5>2, <3>3 DEF KeepsLast
      <4> QED
        BY <4>1, <4>2, <4>3
    <3> QED
      BY <3>3, <3>4, <3>5 DEF GridsInv, KeepsLast
  <2> QED
    BY <2>3, <2>4
<1>6. ShownInv'
  BY <1>1, <1>3 DEF ShownInv
<1> QED
  BY <1>4, <1>5, <1>6 DEF ReportInv

(* Steps that leave outcomes and result sets alone.                        *)
LEMMA QuietReport ==
  ASSUME ReportInv, UNCHANGED jobVars,
         worker' = worker \/ (worker # "ended" /\ worker' # "ended"),
         UNCHANGED <<job, shown>> \/ job' \/ shown' = Report
  PROVE  ReportInv'
<1> USE DEF ReportInv, jobVars
<1>1. RunInv'
  BY DEF RunInv, Executed, Breaking
<1>2. GridsInv'
  BY DEF GridsInv, WithRows
<1>3. Report' = Report
  BY DEF Report, Failed, Failures, Interrupted, Executed
<1>4. ShownInv'
  BY <1>3 DEF ShownInv
<1> QED
  BY <1>1, <1>2, <1>4

LEMMA NextStatementReport ==
  ASSUME SessionInv, ReportInv, NextStatement
  PROVE  ReportInv'
<1>1. /\ job /\ worker = "check" /\ ~cancelled
      /\ Len(outcomes) \in Nat /\ Len(script) \in Nat /\ Len(outcomes) <= Len(script)
      /\ UNCHANGED <<script, keep_going, outcomes, grids, job>>
  BY DEF SessionInv, TypeOK, WorkerInv, ReportInv, RunInv, NextStatement, windowVars
<1>2. GridsInv'
  BY <1>1 DEF ReportInv, GridsInv, WithRows
<1>3. ShownInv'
  BY <1>1 DEF ShownInv
<1>4. RunInv'
  <2>1. \A i \in DOMAIN outcomes : ~Breaking(outcomes[i])
    BY <1>1 DEF ReportInv, RunInv
  <2>2. \A i \in DOMAIN outcomes' : ~Breaking(outcomes[i])'
    BY <1>1, <2>1 DEF Breaking
  <2>3. \/ Len(outcomes) = Len(script) /\ worker' = "ended" /\ ~cancelled'
        \/ Len(outcomes) < Len(script) /\ worker' = "ended" /\ cancelled'
        \/ worker' = "lock" /\ ~cancelled'
    BY <1>1 DEF NextStatement, Goto, Executed
  <2> QED
    BY <1>1, <2>2, <2>3 DEF RunInv, Executed
<1> QED
  BY <1>2, <1>3, <1>4 DEF ReportInv

LEMMA RunReport ==
  ASSUME NEW s \in Scripts, NEW keep \in BOOLEAN, NEW threaded \in BOOLEAN,
         Run(s, keep, threaded)
  PROVE  ReportInv'
<1> USE DEF Run, Goto
<1>1. RunInv'
  BY DEF RunInv, Executed
<1>2. GridsInv'
  BY DEF GridsInv, WithRows
<1>3. ShownInv'
  BY DEF ShownInv
<1> QED
  BY <1>1, <1>2, <1>3 DEF ReportInv

(* The report of a run is what ReportIsHonest says it is.                  *)
LEMMA ReportHonest ==
  ASSUME SessionInv, ReportInv
  PROVE  ReportIsHonest
<1> SUFFICES ASSUME ~job, shown # "none"
    PROVE  /\ shown = "cancelled" =>
             Executed < Len(script) \/ outcomes[Executed] = "cancelled"
           /\ shown \in {"results", "ok"} /\ ~keep_going =>
             Executed = Len(script) /\ \A i \in DOMAIN outcomes : outcomes[i] \in Success
           /\ {grids[k] : k \in DOMAIN grids} =
                {i \in WithRows : Cardinality({j \in WithRows : j > i}) < MaxTabs}
  BY DEF ReportIsHonest, WithRows
<1>1. /\ worker = "ended" /\ TypeOK /\ shown = Report
      /\ outcomes \in Seq(Outcomes) /\ grids \in Seq(Nat) /\ Len(grids) <= MaxTabs
  BY DEF SessionInv, TypeOK, WorkerInv, ReportInv, ShownInv
<1>2. shown = "cancelled" => Executed < Len(script) \/ outcomes[Executed] = "cancelled"
  <2> SUFFICES ASSUME shown = "cancelled", ~cancelled PROVE outcomes[Executed] = "cancelled"
    BY DEF ReportInv, RunInv
  <2>1. Failed = "cancelled"
    BY <1>1 DEF Report, Interrupted
  <2>2. PICK i \in Failures : Failed = outcomes[i]
    BY <1>1, <2>1, FailedIsFailure
  <2> QED
    BY <2>1, <2>2 DEF ReportInv, RunInv, Breaking, Failures
<1>3. ASSUME shown \in {"results", "ok"}, ~keep_going
      PROVE  Executed = Len(script) /\ \A i \in DOMAIN outcomes : outcomes[i] \in Success
  <2>1. Failed # "error" /\ Failed # "cancelled" /\ ~cancelled
    BY <1>1, <1>3 DEF Report, Interrupted
  <2>2. Failures = {}
    <3> SUFFICES ASSUME Failures # {} PROVE FALSE
      OBVIOUS
    <3>1. PICK i \in Failures : Failed = outcomes[i]
      BY <1>1, FailedIsFailure
    <3> QED
      BY <1>1, <2>1, <3>1 DEF Failures, Outcomes, Success
  <2>3. \A i \in DOMAIN outcomes : outcomes[i] \in Success
    BY <2>2 DEF Failures
  <2> QED
    BY <1>1, <2>1, <2>3 DEF ReportInv, RunInv, Breaking, Success
<1>4. {grids[k] : k \in DOMAIN grids} =
                {i \in WithRows : Cardinality({j \in WithRows : j > i}) < MaxTabs}
  <2>0. /\ Len(grids) \in Nat /\ DOMAIN grids = 1 .. Len(grids)
        /\ IsFiniteSet(WithRows) /\ WithRows \subseteq Nat
        /\ \A k, l \in DOMAIN grids : k < l => grids[k] < grids[l]
        /\ \A k \in DOMAIN grids : grids[k] \in WithRows
    <3>1. Len(outcomes) \in Nat /\ WithRows \subseteq 1 .. Len(outcomes)
      BY <1>1 DEF WithRows
    <3>2. IsFiniteSet(1 .. Len(outcomes))
      BY <3>1, FS_Interval
    <3>3. IsFiniteSet(WithRows)
      BY <3>1, <3>2, FS_Subset
    <3> QED
      BY <1>1, <3>1, <3>3 DEF ReportInv, GridsInv
  <2>1. ASSUME NEW k \in DOMAIN grids
        PROVE  Cardinality({j \in WithRows : j > grids[k]}) < MaxTabs
    <3>1. {j \in WithRows : j > grids[k]} = {grids[l] : l \in k + 1 .. Len(grids)}
      <4>1. ASSUME NEW j \in WithRows, j > grids[k]
            PROVE  \E l \in k + 1 .. Len(grids) : j = grids[l]
        <5>1. PICK l \in DOMAIN grids : grids[l] = j
          BY <1>1, <2>0, <4>1 DEF ReportInv, GridsInv
        <5>2. grids[k] \in Nat /\ grids[l] \in Nat /\ k # l /\ ~(l < k)
          BY <1>1, <2>0, <4>1, <5>1
        <5> QED
          BY <2>0, <5>1, <5>2
      <4>2. ASSUME NEW l \in k + 1 .. Len(grids)
            PROVE  grids[l] \in WithRows /\ grids[l] > grids[k]
        <5>1. l \in DOMAIN grids /\ k < l
          BY <2>0
        <5> QED
          BY <1>1, <2>0, <5>1
      <4> QED
        BY <4>1, <4>2
    <3>2. Cardinality({grids[l] : l \in k + 1 .. Len(grids)}) = Len(grids) - k
      <4>1. k \in 0 .. Len(grids)
        BY <2>0
      <4> QED
        BY <1>1, <2>0, <4>1, LaterInSequence
    <3>3. k \in 1 .. Len(grids) /\ MaxTabs \in Nat
      BY <2>0, SessionAssumption
    <3>4. Len(grids) - k < MaxTabs
      BY <1>1, <2>0, <3>3
    <3> QED
      BY <3>1, <3>2, <3>4
  <2>2. ASSUME NEW i \in WithRows, ~ \E k \in DOMAIN grids : grids[k] = i
        PROVE  ~ (Cardinality({j \in WithRows : j > i}) < MaxTabs)
    <3>1. Len(grids) = MaxTabs /\ \A k \in DOMAIN grids : i < grids[k]
      BY <2>2 DEF ReportInv, GridsInv
    <3> DEFINE later == {j \in WithRows : j > i}
               kept  == {grids[l] : l \in 0 + 1 .. Len(grids)}
    <3>2. kept \subseteq later
      BY <1>1, <2>0, <3>1
    <3>3. IsFiniteSet(kept) /\ Cardinality(kept) = Len(grids) - 0
      BY <1>1, <2>0, 0 \in 0 .. Len(grids), LaterInSequence
    <3>4. later \subseteq WithRows
      OBVIOUS
    <3> HIDE DEF later, kept
    <3>5. IsFiniteSet(later)
      BY <2>0, <3>4, FS_Subset
    <3>6. Cardinality(kept) <= Cardinality(later) /\ Cardinality(later) \in Nat
      BY <3>2, <3>5, FS_Subset, FS_CardinalityType
    <3>7. Cardinality(later) >= MaxTabs
      BY <3>1, <3>3, <3>6, SessionAssumption
    <3> QED
      BY <3>6, <3>7, SessionAssumption DEF later
  <2> QED
    BY <2>0, <2>1, <2>2
<1> QED
  BY <1>2, <1>3, <1>4

(* "Cancelled" is reported only when something was; results or success of  *)
(* a script that stops at errors mean that all of it was executed; the     *)
(* result sets shown are the last ones.                                    *)
THEOREM ReportIsHonestSafe == Spec => []ReportIsHonest
<1>1. SessionInv /\ ReportInv /\ [Next]_vars => ReportInv'
  <2> SUFFICES ASSUME SessionInv, ReportInv, [Next]_vars PROVE ReportInv'
    OBVIOUS
  <2>0. worker # "ended" => job
    BY DEF SessionInv, WorkerInv
  <2>1. CASE NextStatement
    BY <2>1, NextStatementReport
  <2>2. CASE Unlock
    BY <2>2, UnlockReport
  <2>3. CASE \E s \in Scripts, keep, threaded \in BOOLEAN : Run(s, keep, threaded)
    BY <2>3, RunReport
  <2>4. CASE Tick \/ Destroy
    <3>1. UNCHANGED jobVars /\ worker' = worker /\ shown' = Report
      BY <2>4 DEF Tick, Destroy, FinishRun
    <3> QED
      BY <3>1, QuietReport
  <2>5. CASE \/ Lock \/ ScanEnds \/ ParseError \/ BeginRead \/ BeginWrite
             \/ CheckRequested \/ StartRead \/ ScanStops \/ EndRead \/ ReadResult \/ Write
    <3>1. /\ UNCHANGED jobVars /\ UNCHANGED <<job, shown>>
          /\ worker # "ended" /\ worker' # "ended"
      BY <2>5 DEF Lock, ScanEnds, ParseError, BeginRead, BeginWrite, CheckRequested, StartRead,
                  ScanStops, EndRead, ReadResult, Write, Goto, jobVars, windowVars
    <3> QED
      BY <3>1, QuietReport
  <2>6. CASE \/ InlineEnds \/ StoreRequest \/ LoadReading \/ StoreScanCancel \/ EndCall \/ Shutdown
             \/ Stop \/ Quit \/ Call \/ RefreshExplorer \/ EnterCall
    <3>1. UNCHANGED jobVars /\ UNCHANGED <<job, shown, worker>>
      BY <2>6 DEF InlineEnds, StoreRequest, LoadReading, StoreScanCancel, EndCall, Shutdown,
                  Stop, Quit, Call, RefreshExplorer, EnterCall, jobVars
    <3> QED
      BY <3>1, QuietReport
  <2>7. CASE UNCHANGED vars
    <3>1. UNCHANGED jobVars /\ UNCHANGED <<job, shown, worker>>
      BY <2>7 DEF vars, jobVars
    <3> QED
      BY <3>1, QuietReport
  <2> QED
    BY <2>1, <2>2, <2>3, <2>4, <2>5, <2>6, <2>7 DEF Next, WorkerStep, WindowStep
<1>2. SessionInv /\ ReportInv => ReportIsHonest
  BY ReportHonest
<1> QED
  BY InitReport, <1>1, <1>2, SessionInvariant, PTL DEF Spec

=============================================================================
