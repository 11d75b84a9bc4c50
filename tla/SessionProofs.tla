--------------------------- MODULE SessionProofs ---------------------------
(* Proofs about Session for any number of listeners and helpers.           *)
EXTENDS Session, TLAPS

LEMMA TypePreserved ==
    ASSUME TypeOK, [Next]_vars
    PROVE  TypeOK'
<1> USE SessionAssumption DEF TypeOK, Bound, Stages, Holding, Steps
<1>1. ASSUME NEW l \in Listeners, Start(l)
      PROVE  TypeOK'
  BY <1>1 DEF Start, Moves
<1>2. ASSUME NEW l \in Listeners, Welcome(l) \/ WriteState(l) \/ Drop(l) \/ DeleteState(l)
      PROVE  TypeOK'
  BY <1>2 DEF Welcome, WriteState, Drop, DeleteState, Moves
<1>3. ASSUME NEW l \in Listeners, Stop(l)
      PROVE  TypeOK'
  BY <1>3 DEF Stop, Moves
<1>4. ASSUME NEW l \in Listeners, Kill(l)
      PROVE  TypeOK'
  BY <1>4 DEF Kill, Alive, Moves
<1>5. ASSUME NEW h \in Helpers, Look(h)
      PROVE  TypeOK'
  BY <1>5 DEF Look, HelperMoves
<1>6. ASSUME NEW h \in Helpers, JudgeStale(h) \/ Leave(h) \/ Disconnect(h) \/ SawItEnd(h) \/ GiveUp(h)
      PROVE  TypeOK'
  BY <1>6 DEF JudgeStale, Leave, Disconnect, SawItEnd, GiveUp, HelperMoves
<1>7. ASSUME NEW h \in Helpers, TryLock(h)
      PROVE  TypeOK'
  BY <1>7 DEF TryLock, HelperMoves
<1>8. ASSUME NEW h \in Helpers, Compare(h) \/ Unlink(h) \/ Abort(h)
      PROVE  TypeOK'
  BY <1>8 DEF Compare, Unlink, Abort, HelperMoves
<1>9. CASE UNCHANGED vars
  BY <1>9 DEF vars
<1> QED
  BY <1>1, <1>2, <1>3, <1>4, <1>5, <1>6, <1>7, <1>8, <1>9 DEF Next, Listener, Helper

(* Every variable has its type, and the lock is held by exactly the        *)
(* listener that runs or the helper that cleans up.                        *)
THEOREM TypeInvariant == Spec => []TypeOK
<1>1. Init => TypeOK
  BY SessionAssumption DEF Init, TypeOK, Bound, Stages, Holding, Steps
<1> QED
  BY <1>1, TypePreserved, PTL DEF Spec

(* The file is written under the lock only, so that a connected listener,  *)
(* which holds the lock, finds its own state there or none.                *)
THEOREM OwnFile == Spec => []FileNamesHolder
<1>1. Init => FileNamesHolder
  BY DEF Init, FileNamesHolder
<1>2. ASSUME TypeOK, FileNamesHolder, [Next]_vars
      PROVE  FileNamesHolder'
  <2> USE <1>2, SessionAssumption DEF TypeOK, FileNamesHolder, Bound
  <2>1. ASSUME NEW l \in Listeners, Start(l) \/ Welcome(l) \/ Drop(l) \/ Stop(l) \/ DeleteState(l) \/ Kill(l)
        PROVE  FileNamesHolder'
    BY <2>1 DEF Start, Welcome, Drop, Stop, DeleteState, Kill, Moves
  <2>2. ASSUME NEW l \in Listeners, WriteState(l)
        PROVE  FileNamesHolder'
    BY <2>2 DEF WriteState, Moves
  <2>3. ASSUME NEW h \in Helpers, Helper(h)
        PROVE  FileNamesHolder'
    BY <2>3 DEF Helper, Look, JudgeStale, Leave, Disconnect, SawItEnd, GiveUp,
                TryLock, Compare, Unlink, Abort
  <2>4. CASE UNCHANGED vars
    BY <2>4 DEF vars
  <2> QED
    BY <2>1, <2>2, <2>3, <2>4 DEF Next, Listener
<1> QED
  BY <1>1, <1>2, TypeInvariant, PTL DEF Spec

LEMMA CleanupPreserved ==
    ASSUME TypeOK, CleanupSparesOthers, [Next]_vars
    PROVE  CleanupSparesOthers'
<1> USE SessionAssumption DEF TypeOK, CleanupSparesOthers, Bound, Holding
<1>1. ASSUME NEW l \in Listeners, Start(l) \/ Welcome(l) \/ Drop(l) \/ Stop(l) \/ DeleteState(l) \/ Kill(l)
      PROVE  CleanupSparesOthers'
  BY <1>1 DEF Start, Welcome, Drop, Stop, DeleteState, Kill, Moves
<1>2. ASSUME NEW l \in Listeners, WriteState(l)
      PROVE  CleanupSparesOthers'
  \* Its writer holds the lock, so no helper is about to unlink.
  BY <1>2 DEF WriteState, Moves
<1>3. ASSUME NEW h \in Helpers, Look(h)
      PROVE  CleanupSparesOthers'
  BY <1>3 DEF Look, HelperMoves
<1>4. ASSUME NEW h \in Helpers, Compare(h)
      PROVE  CleanupSparesOthers'
  \* It holds the lock, so the listener it judged has not got it.
  BY <1>4 DEF Compare, HelperMoves
<1>5. ASSUME NEW h \in Helpers, JudgeStale(h) \/ Leave(h) \/ Disconnect(h) \/ SawItEnd(h)
                                \/ GiveUp(h) \/ TryLock(h)
      PROVE  CleanupSparesOthers'
  BY <1>5 DEF JudgeStale, Leave, Disconnect, SawItEnd, GiveUp, TryLock, HelperMoves
<1>6. ASSUME NEW h \in Helpers, Unlink(h) \/ Abort(h)
      PROVE  CleanupSparesOthers'
  BY <1>6 DEF Unlink, Abort, HelperMoves
<1>7. CASE UNCHANGED vars
  BY <1>7 DEF vars
<1> QED
  BY <1>1, <1>2, <1>3, <1>4, <1>5, <1>6, <1>7 DEF Next, Listener, Helper

(* unlink_if_matches compares and removes under the lock, so it removes    *)
(* the state it was given and nothing a later listener wrote.              *)
THEOREM CleanupIsSafe == Spec => []CleanupSparesOthers
<1>1. Init => CleanupSparesOthers
  BY DEF Init, CleanupSparesOthers
<1> QED
  BY <1>1, CleanupPreserved, TypeInvariant, PTL DEF Spec

(* Only an earlier listener's exit handler takes the file of one that      *)
(* runs.                                                                   *)
THEOREM ExitTakesIt == Spec => TakenOnlyByExit
<1> DEFINE Step == \A l \in Listeners : lock = l /\ file = l /\ file' # l =>
        \E k \in Listeners \ {l} : stage[k] = "released" /\ stage'[k] = "gone"
<1>1. ASSUME TypeOK, [Next]_vars
      PROVE  Step
  <2> SUFFICES ASSUME NEW l \in Listeners, lock = l, file = l, file' # l
               PROVE  \E k \in Listeners \ {l} : stage[k] = "released" /\ stage'[k] = "gone"
    OBVIOUS
  <2> USE <1>1, SessionAssumption DEF TypeOK, Bound, Holding
  <2>1. ASSUME NEW k \in Listeners, DeleteState(k)
        PROVE  k \in Listeners \ {l} /\ stage[k] = "released" /\ stage'[k] = "gone"
    BY <2>1 DEF DeleteState, Moves
  <2>2. ASSUME NEW k \in Listeners, WriteState(k)
        PROVE  FALSE
    BY <2>2 DEF WriteState, Moves
  <2>3. ASSUME NEW k \in Listeners, Start(k) \/ Welcome(k) \/ Drop(k) \/ Stop(k) \/ Kill(k)
        PROVE  FALSE
    BY <2>3 DEF Start, Welcome, Drop, Stop, Kill
  <2>4. ASSUME NEW h \in Helpers, Helper(h)
        PROVE  FALSE
    BY <2>4 DEF Helper, HelperMoves, Look, JudgeStale, Leave, Disconnect, SawItEnd,
                GiveUp, TryLock, Compare, Unlink, Abort
  <2>5. CASE UNCHANGED vars
    BY <2>5 DEF vars
  <2> QED
    BY <2>1, <2>2, <2>3, <2>4, <2>5 DEF Next, Listener
<1> QED
  BY <1>1, TypeInvariant, PTL DEF Spec, TakenOnlyByExit
=============================================================================
