------------------------- MODULE FrameCreditProofs -------------------------
(***************************************************************************)
(* Proofs about FrameCredit for any set of windows, any credit limit and   *)
(* any number of sessions.                                                 *)
(***************************************************************************)
EXTENDS FrameCredit, TLAPS

USE DEF routerVars, tickVars, clientVars, linkVars

(* What InFlight is, and that it is a natural number, in both states. *)
LEMMA InFlightType ==
  TypeOK => \A w \in Windows : InFlight(w) \in Nat
BY DEF TypeOK, InFlight, InCoder

(* The credit counters, the queues and the flags keep their types: in      *)
(* particular the u32 counter of WindowRouter.pending never goes below     *)
(* zero, however often frame_shipped is called.                            *)
LEMMA TypeStep == TypeOK /\ [Next]_vars => TypeOK'
<1> SUFFICES ASSUME TypeOK, [Next]_vars PROVE TypeOK'
  OBVIOUS
<1>0. \A w \in Windows : InFlight(w) \in Nat
  BY InFlightType
<1>1. CASE TickBegin
  BY <1>0, <1>1 DEF TypeOK, TickBegin, ClearPending, Live
<1>2. CASE TickEnd
  BY <1>2 DEF TypeOK, TickEnd
<1>3. CASE SessionUp
  BY <1>3 DEF TypeOK, SessionUp
<1>4. CASE SessionDown
  BY <1>4 DEF TypeOK, SessionDown
<1>5. ASSUME NEW w \in Windows, Register(w) \/ Commit(w) \/ Destroy(w)
      PROVE TypeOK'
  BY <1>0, <1>5 DEF TypeOK, Register, Commit, Destroy, Live
<1>6. ASSUME NEW w \in Windows, TickStall(w) \/ TickEmit(w) \/ TickQuiet(w)
      PROVE TypeOK'
  BY <1>6 DEF TypeOK, TickStall, TickEmit, TickQuiet, Visit
<1>7. ASSUME NEW w \in Windows, Encode(w) \/ Encoded(w)
      PROVE TypeOK'
  BY <1>7 DEF TypeOK, Encode, Encoded
<1>8. ASSUME NEW w \in Windows, Ship(w)
      PROVE TypeOK'
  BY <1>8 DEF TypeOK, Ship, FrameShipped
<1>9. CASE UNCHANGED vars
  BY <1>9 DEF TypeOK, vars
<1> QED
  BY <1>1, <1>2, <1>3, <1>4, <1>5, <1>6, <1>7, <1>8, <1>9 DEF Next

(* The initial state has the right types. *)
LEMMA InitType == Init => TypeOK
<1> SUFFICES ASSUME Init PROVE TypeOK
  OBVIOUS
<1>1. consuming \in BOOLEAN /\ streaming \in BOOLEAN /\ ticking \in BOOLEAN
  BY DEF Init
<1> QED
  BY <1>1 DEF Init, TypeOK

(* The credit counters, the queues and the flags keep their types. *)
THEOREM TypeCorrect == Spec => []TypeOK
BY InitType, TypeStep, PTL DEF Spec

(* Every step of either thread, the death of a session included, keeps the  *)
(* credit bookkeeping of WindowRouter in step with the frames that exist.   *)
LEMMA CreditStep == CreditInv /\ [Next]_vars => CreditInv'
<1> SUFFICES ASSUME CreditInv, [Next]_vars PROVE CreditInv'
  OBVIOUS
<1> USE MaxInFlightAssumption, NoneAssumption
<1>0. TypeOK /\ TypeOK'
  BY TypeStep DEF CreditInv
<1>1. CASE TickBegin
  BY <1>0, <1>1 DEF CreditInv, TypeOK, TickBegin, ClearPending, CreditBacked, InFlight, InCoder
<1>2. CASE TickEnd
  BY <1>0, <1>2 DEF CreditInv, TickEnd, CreditBacked, InFlight, InCoder
<1>3. CASE SessionUp
  BY <1>0, <1>3 DEF CreditInv, TypeOK, SessionUp, DetachObserved, CreditBacked, InFlight, InCoder
<1>4. CASE SessionDown
  BY <1>0, <1>4 DEF CreditInv, TypeOK, SessionDown, CreditBacked, InFlight, InCoder
<1>5. ASSUME NEW w \in Windows, Register(w) \/ Commit(w)
      PROVE CreditInv'
  BY <1>0, <1>5 DEF CreditInv, TypeOK, Register, Commit, CreditBacked, InFlight, InCoder
<1>6. ASSUME NEW w \in Windows, Destroy(w)
      PROVE CreditInv'
  BY <1>0, <1>6 DEF CreditInv, TypeOK, Destroy, CreditBacked, InFlight, InCoder
<1>7. ASSUME NEW w \in Windows, TickStall(w) \/ TickQuiet(w)
      PROVE CreditInv'
  BY <1>0, <1>7 DEF CreditInv, TypeOK, TickStall, TickQuiet, Visit, CreditBacked, InFlight, InCoder
<1>8. ASSUME NEW w \in Windows, TickEmit(w)
      PROVE CreditInv'
  BY <1>0, <1>8 DEF CreditInv, TypeOK, TickEmit, Visit, MayEmit, CreditBacked, InFlight, InCoder
<1>9. ASSUME NEW w \in Windows, Encode(w)
      PROVE CreditInv'
  BY <1>0, <1>9 DEF CreditInv, TypeOK, Encode, CreditBacked, InFlight, InCoder
<1>10. ASSUME NEW w \in Windows, Encoded(w)
      PROVE CreditInv'
  BY <1>0, <1>10 DEF CreditInv, TypeOK, Encoded, CreditBacked, InFlight, InCoder
<1>11. ASSUME NEW w \in Windows, Ship(w)
      PROVE CreditInv'
  BY <1>0, <1>11 DEF CreditInv, TypeOK, Ship, FrameShipped, CreditBacked, InFlight, InCoder
<1>12. CASE UNCHANGED vars
  BY <1>0, <1>12 DEF CreditInv, vars, CreditBacked, InFlight, InCoder
<1> QED
  BY <1>1, <1>2, <1>3, <1>4, <1>5, <1>6, <1>7, <1>8, <1>9, <1>10, <1>11, <1>12
     DEF Next

(* The strengthened invariant holds in every reachable state. *)
THEOREM CreditInvariant == Spec => []CreditInv
<1>1. Init => CreditInv
  <2> SUFFICES ASSUME Init PROVE CreditInv
    OBVIOUS
  <2>1. TypeOK
    BY InitType
  <2>2. CreditBacked
    BY DEF Init, CreditBacked
  <2>3. \A w \in Windows : pending[w] = 0 /\ InFlight(w) = 0 /\ carried[w] = 0
    <3>1. /\ pending = [w \in Windows |-> 0] /\ carried = [w \in Windows |-> 0]
          /\ queued = [w \in Windows |-> 0] /\ outgoing = [w \in Windows |-> 0]
          /\ coding = None
      BY DEF Init
    <3> SUFFICES ASSUME NEW w \in Windows
                 PROVE  pending[w] = 0 /\ InFlight(w) = 0 /\ carried[w] = 0
      OBVIOUS
    <3>2. pending[w] = 0 /\ carried[w] = 0 /\ queued[w] = 0 /\ outgoing[w] = 0
      BY <3>1
    <3>3. InCoder(w) = 0
      BY <3>1, NoneAssumption DEF InCoder
    <3> QED
      BY <3>2, <3>3 DEF InFlight
  <2> QED
    BY <2>1, <2>2, <2>3, MaxInFlightAssumption DEF CreditInv
<1> QED
  BY <1>1, CreditStep, PTL DEF Spec

(* Un-shipped frames per window never exceed MAX_FRAMES_IN_FLIGHT plus      *)
(* what was in flight when the credits were last reset.                     *)
THEOREM FlowBounded == Spec => []InFlightBounded
<1>1. CreditInv => InFlightBounded
  <2> SUFFICES ASSUME CreditInv, NEW w \in Windows
               PROVE  InFlight(w) <= MaxInFlight + carried[w]
    BY DEF InFlightBounded
  <2>1. /\ InFlight(w) \in Nat /\ pending[w] \in Nat /\ carried[w] \in Nat
        /\ InFlight(w) <= pending[w] + carried[w] /\ pending[w] <= MaxInFlight
    BY InFlightType DEF CreditInv, TypeOK
  <2> QED
    BY <2>1, MaxInFlightAssumption
<1> QED
  BY <1>1, CreditInvariant, PTL

(* No credit is ever held by a frame that no longer exists, so a dropped    *)
(* session cannot leave a window throttled in the next one.                 *)
THEOREM NoOrphanCredit == Spec => []CreditBacked
<1>1. CreditInv => CreditBacked
  BY DEF CreditInv
<1> QED
  BY <1>1, CreditInvariant, PTL

=============================================================================
